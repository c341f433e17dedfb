--------------------------- MODULE BlockingProofs ---------------------------
(***************************************************************************)
(* Proofs about BlockingSends for any number of players, rooms and         *)
(* helpers, any capacities, and whatever players ask for.                  *)
(***************************************************************************)
EXTENDS BlockingProperties, SequenceTheorems, TLAPS

(***************************************************************************)
(* What comes in a script after its first n operations.                    *)
(***************************************************************************)

Is(s, i, op) == i \in 1 .. Len(s) /\ s[i].op = op

\* rm.mu is unlocked, with at most a room taken and an answer sent before.
UnlocksSoon(s, n) ==
    \/ Is(s, n + 1, "unlock")
    \/ Is(s, n + 1, "send") /\ Is(s, n + 2, "unlock")
    \/ Is(s, n + 1, "pass") /\ Is(s, n + 2, "send") /\ Is(s, n + 3, "unlock")

\* The same once the readers have gone.
LetsWritersIn(s, n) ==
    \/ Is(s, n + 1, "write")
    \/ UnlocksSoon(s, n)
    \/ Is(s, n + 1, "await") /\ UnlocksSoon(s, n + 1)

\* r.mu is unlocked, with at most an answer sent before.
LetsRoomGo(s, n, r) ==
    \/ Is(s, n + 1, "free") /\ s[n + 1].room = r
    \/ Is(s, n + 1, "send") /\ Is(s, n + 2, "free") /\ s[n + 2].room = r

\* rm.mu is unlocked by a reader, with at most a room taken before.
LetsReadersGo(s, n) ==
    \/ Is(s, n + 1, "runlock")
    \/ Is(s, n + 1, "pass") /\ Is(s, n + 2, "runlock")

\* Every lock that s takes it lets go.
Bracketed(s) ==
    \A i \in 1 .. Len(s) :
        /\ s[i].op = "announce" => LetsWritersIn(s, i)
        /\ s[i].op = "lock"     => LetsRoomGo(s, i, s[i].room)
        /\ s[i].op = "rlock"    => LetsReadersGo(s, i)

Good(s) == s \in Seq(Ops) /\ Bracketed(s)

NoPut(s) == \A i \in 1 .. Len(s) : s[i].op # "put"

(***************************************************************************)
(* The inductive invariant: who holds a lock is on the way to its release, *)
(* and the match worker never puts anyone into its own queue.              *)
(***************************************************************************)
LocksAreLetGo ==
    /\ \A g \in Goroutines : Bracketed(script[g])
    /\ NoPut(script[Worker])
    /\ writer # Nobody => LetsWritersIn(script[writer], 0)
    /\ \A g \in readers : LetsReadersGo(script[g], 0)
    /\ \A r \in Rooms : holder[r] # Nobody => LetsRoomGo(script[holder[r]], 0, r)

Inv == TypeOK /\ LocksAreLetGo

(***************************************************************************)
(* Operations and scripts.                                                 *)
(***************************************************************************)

LEMMA OpsHaveFields ==
    /\ \A n \in PlainOps : Op(n) \in Ops /\ Op(n).op = n
    /\ \A n \in RoomOps, r \in Rooms : On(n, r) \in Ops /\ On(n, r).op = n /\ On(n, r).room = r
    /\ \A p \in Players : Send(p) \in Ops /\ Send(p).op = "send" /\ Send(p).player = p
    /\ \A p \in Players : Attach(p) \in Ops /\ Attach(p).op = "attach" /\ Attach(p).player = p
<1>1. ASSUME NEW n \in PlainOps PROVE Op(n) \in Ops /\ Op(n).op = n
    BY DEF Ops, Op
<1>2. ASSUME NEW n \in RoomOps, NEW r \in Rooms
      PROVE  On(n, r) \in Ops /\ On(n, r).op = n /\ On(n, r).room = r
    BY DEF Ops, On
<1>3. ASSUME NEW p \in Players PROVE Send(p) \in Ops /\ Send(p).op = "send" /\ Send(p).player = p
    BY DEF Ops, Send
<1>4. ASSUME NEW p \in Players
      PROVE  Attach(p) \in Ops /\ Attach(p).op = "attach" /\ Attach(p).player = p
    BY DEF Ops, Attach
<1>. QED
    BY <1>1, <1>2, <1>3, <1>4

LEMMA FieldsOfOps ==
    ASSUME NEW x \in Ops
    PROVE  /\ x.op \in PlainOps \cup RoomOps \cup {"send", "attach"}
           /\ x.op \in RoomOps => x.room \in Rooms
           /\ x.op \in {"send", "attach"} => x.player \in Players
<1>1. ASSUME NEW n \in PlainOps, x = Op(n)
      PROVE  x.op = n /\ n \notin RoomOps /\ n \notin {"send", "attach"}
    BY <1>1 DEF Op, PlainOps, RoomOps
<1>2. ASSUME NEW n \in RoomOps, NEW r \in Rooms, x = On(n, r)
      PROVE  x.op = n /\ x.room \in Rooms /\ n \notin {"send", "attach"}
    BY <1>2 DEF On, RoomOps
<1>3. ASSUME NEW p \in Players, x = Send(p) \/ x = Attach(p)
      PROVE  x.op \in {"send", "attach"} /\ x.op \notin RoomOps /\ x.player \in Players
    BY <1>3 DEF Send, Attach, RoomOps
<1>. QED
    BY <1>1, <1>2, <1>3 DEF Ops

\* What follows the operations of s that are done.
LEMMA IsInTail ==
    ASSUME NEW s \in Seq(Ops), s # <<>>, NEW i \in Nat \ {0}, NEW op
    PROVE  /\ Is(Tail(s), i, op) <=> Is(s, i + 1, op)
           /\ Is(s, i + 1, op) => Tail(s)[i] = s[i + 1]
<1>1. /\ Len(Tail(s)) = Len(s) - 1 /\ Len(s) \in Nat /\ Len(s) # 0
      /\ \A j \in 1 .. Len(Tail(s)) : Tail(s)[j] = s[j + 1]
    BY HeadTailProperties, EmptySeq, LenProperties
<1>. QED
    BY <1>1 DEF Is

LEMMA TailLetsGo ==
    ASSUME NEW s \in Seq(Ops), s # <<>>, NEW n \in Nat
    PROVE  /\ LetsWritersIn(s, n + 1) <=> LetsWritersIn(Tail(s), n)
           /\ UnlocksSoon(s, n + 1) <=> UnlocksSoon(Tail(s), n)
           /\ \A r : LetsRoomGo(s, n + 1, r) <=> LetsRoomGo(Tail(s), n, r)
           /\ LetsReadersGo(s, n + 1) <=> LetsReadersGo(Tail(s), n)
<1>1. ASSUME NEW i \in Nat \ {0}, NEW op
      PROVE  /\ Is(Tail(s), i, op) <=> Is(s, i + 1, op)
             /\ Is(s, i + 1, op) => Tail(s)[i] = s[i + 1]
    BY IsInTail
<1>2. /\ n + 1 \in Nat \ {0} /\ n + 2 \in Nat \ {0} /\ n + 3 \in Nat \ {0} /\ n + 4 \in Nat \ {0}
      /\ (n + 1) + 1 = n + 2 /\ (n + 1) + 2 = n + 3 /\ (n + 1) + 3 = n + 4
      /\ (n + 2) + 1 = n + 3 /\ (n + 3) + 1 = n + 4 /\ (n + 4) + 1 = n + 5
      /\ (n + 2) + 2 = n + 4 /\ (n + 2) + 3 = n + 5
    OBVIOUS
<1>3. UnlocksSoon(s, n + 1) <=> UnlocksSoon(Tail(s), n)
    BY <1>1, <1>2 DEF UnlocksSoon
<1>4. UnlocksSoon(s, (n + 1) + 1) <=> UnlocksSoon(Tail(s), n + 1)
    BY <1>1, <1>2 DEF UnlocksSoon
<1>5. LetsWritersIn(s, n + 1) <=> LetsWritersIn(Tail(s), n)
    BY <1>1, <1>2, <1>3, <1>4 DEF LetsWritersIn
<1>6. ASSUME NEW r PROVE LetsRoomGo(s, n + 1, r) <=> LetsRoomGo(Tail(s), n, r)
    BY <1>1, <1>2 DEF LetsRoomGo
<1>7. LetsReadersGo(s, n + 1) <=> LetsReadersGo(Tail(s), n)
    BY <1>1, <1>2 DEF LetsReadersGo
<1>. QED
    BY <1>3, <1>5, <1>6, <1>7

LEMMA TailStaysBracketed ==
    ASSUME NEW s \in Seq(Ops), s # <<>>, Bracketed(s)
    PROVE  Tail(s) \in Seq(Ops) /\ Bracketed(Tail(s)) /\ (NoPut(s) => NoPut(Tail(s)))
<1>1. /\ Len(Tail(s)) = Len(s) - 1 /\ Len(s) \in Nat /\ Len(s) # 0 /\ Tail(s) \in Seq(Ops)
      /\ \A j \in 1 .. Len(Tail(s)) : Tail(s)[j] = s[j + 1]
    BY HeadTailProperties, EmptySeq, LenProperties
<1>2. ASSUME NEW i \in 1 .. Len(Tail(s))
      PROVE  /\ Tail(s)[i].op = "announce" => LetsWritersIn(Tail(s), i)
             /\ Tail(s)[i].op = "lock"     => LetsRoomGo(Tail(s), i, Tail(s)[i].room)
             /\ Tail(s)[i].op = "rlock"    => LetsReadersGo(Tail(s), i)
    <2>1. i \in Nat /\ i + 1 \in 1 .. Len(s) /\ Tail(s)[i] = s[i + 1]
        BY <1>1
    <2>. QED
        BY <2>1, TailLetsGo DEF Bracketed
<1>3. ASSUME NoPut(s) PROVE NoPut(Tail(s))
    BY <1>1, <1>3 DEF NoPut
<1>. QED
    BY <1>1, <1>2, <1>3 DEF Bracketed

\* Scripts that let go of what they take, one after the other, do so together.
LEMMA JoinedLetsGo ==
    ASSUME NEW s \in Seq(Ops), NEW t \in Seq(Ops)
    PROVE  /\ \A i \in Nat \ {0} : \A op : /\ Is(s, i, op) => Is(s \o t, i, op) /\ (s \o t)[i] = s[i]
                                           /\ Is(t, i, op) => /\ Is(s \o t, Len(s) + i, op)
                                                              /\ (s \o t)[Len(s) + i] = t[i]
           /\ s \o t \in Seq(Ops) /\ Len(s) \in Nat /\ Len(t) \in Nat /\ Len(s \o t) = Len(s) + Len(t)
<1>1. /\ s \o t \in Seq(Ops) /\ Len(s) \in Nat /\ Len(t) \in Nat /\ Len(s \o t) = Len(s) + Len(t)
      /\ \A i \in 1 .. Len(s) + Len(t) : (s \o t)[i] = IF i <= Len(s) THEN s[i] ELSE t[i - Len(s)]
    BY ConcatProperties, LenProperties
<1>2. ASSUME NEW i \in Nat \ {0}, NEW op, Is(s, i, op)
      PROVE  Is(s \o t, i, op) /\ (s \o t)[i] = s[i]
    BY <1>1, <1>2 DEF Is
<1>3. ASSUME NEW i \in Nat \ {0}, NEW op, Is(t, i, op)
      PROVE  Is(s \o t, Len(s) + i, op) /\ (s \o t)[Len(s) + i] = t[i]
    BY <1>1, <1>3 DEF Is
<1>. QED
    BY <1>1, <1>2, <1>3

LEMMA LetsGoInFront ==
    ASSUME NEW s \in Seq(Ops), NEW t \in Seq(Ops), NEW n \in Nat
    PROVE  /\ LetsWritersIn(s, n) => LetsWritersIn(s \o t, n)
           /\ \A r : LetsRoomGo(s, n, r) => LetsRoomGo(s \o t, n, r)
           /\ LetsReadersGo(s, n) => LetsReadersGo(s \o t, n)
<1>1. \A i \in Nat \ {0} : \A op : Is(s, i, op) => Is(s \o t, i, op) /\ (s \o t)[i] = s[i]
    BY JoinedLetsGo
<1>2. \A m \in Nat : m + 1 \in Nat \ {0} /\ m + 2 \in Nat \ {0} /\ m + 3 \in Nat \ {0}
    OBVIOUS
<1>3. ASSUME NEW m \in Nat, UnlocksSoon(s, m) PROVE UnlocksSoon(s \o t, m)
    BY <1>1, <1>2, <1>3 DEF UnlocksSoon
<1>4. ASSUME LetsWritersIn(s, n) PROVE LetsWritersIn(s \o t, n)
    BY <1>1, <1>2, <1>3, <1>4 DEF LetsWritersIn
<1>5. ASSUME NEW r, LetsRoomGo(s, n, r) PROVE LetsRoomGo(s \o t, n, r)
    BY <1>1, <1>2, <1>5 DEF LetsRoomGo
<1>6. ASSUME LetsReadersGo(s, n) PROVE LetsReadersGo(s \o t, n)
    BY <1>1, <1>2, <1>6 DEF LetsReadersGo
<1>. QED
    BY <1>4, <1>5, <1>6

LEMMA LetsGoBehind ==
    ASSUME NEW s \in Seq(Ops), NEW t \in Seq(Ops), NEW n \in Nat
    PROVE  /\ LetsWritersIn(t, n) => LetsWritersIn(s \o t, Len(s) + n)
           /\ \A r : LetsRoomGo(t, n, r) => LetsRoomGo(s \o t, Len(s) + n, r)
           /\ LetsReadersGo(t, n) => LetsReadersGo(s \o t, Len(s) + n)
<1>1. /\ \A i \in Nat \ {0} : \A op :
            Is(t, i, op) => Is(s \o t, Len(s) + i, op) /\ (s \o t)[Len(s) + i] = t[i]
      /\ Len(s) \in Nat
    BY JoinedLetsGo
<1>2. \A m \in Nat : /\ m + 1 \in Nat \ {0} /\ m + 2 \in Nat \ {0} /\ m + 3 \in Nat \ {0}
                      /\ (Len(s) + m) + 1 = Len(s) + (m + 1)
                      /\ (Len(s) + m) + 2 = Len(s) + (m + 2)
                      /\ (Len(s) + m) + 3 = Len(s) + (m + 3)
    BY <1>1
<1>3. ASSUME NEW m \in Nat, UnlocksSoon(t, m) PROVE UnlocksSoon(s \o t, Len(s) + m)
    BY <1>1, <1>2, <1>3 DEF UnlocksSoon
<1>4. ASSUME LetsWritersIn(t, n) PROVE LetsWritersIn(s \o t, Len(s) + n)
    BY <1>1, <1>2, <1>3, <1>4 DEF LetsWritersIn
<1>5. ASSUME NEW r, LetsRoomGo(t, n, r) PROVE LetsRoomGo(s \o t, Len(s) + n, r)
    BY <1>1, <1>2, <1>5 DEF LetsRoomGo
<1>6. ASSUME LetsReadersGo(t, n) PROVE LetsReadersGo(s \o t, Len(s) + n)
    BY <1>1, <1>2, <1>6 DEF LetsReadersGo
<1>. QED
    BY <1>4, <1>5, <1>6

LEMMA JoinedStaysBracketed ==
    ASSUME NEW s, Good(s), NEW t, Good(t)
    PROVE  Good(s \o t)
<1>. USE DEF Good
<1>1. /\ s \o t \in Seq(Ops) /\ Len(s) \in Nat /\ Len(t) \in Nat /\ Len(s \o t) = Len(s) + Len(t)
      /\ \A i \in 1 .. Len(s) + Len(t) : (s \o t)[i] = IF i <= Len(s) THEN s[i] ELSE t[i - Len(s)]
    BY ConcatProperties, LenProperties
<1>2. ASSUME NEW i \in 1 .. Len(s \o t)
      PROVE  /\ (s \o t)[i].op = "announce" => LetsWritersIn(s \o t, i)
             /\ (s \o t)[i].op = "lock"     => LetsRoomGo(s \o t, i, (s \o t)[i].room)
             /\ (s \o t)[i].op = "rlock"    => LetsReadersGo(s \o t, i)
    <2>1. CASE i <= Len(s)
        <3>1. i \in Nat /\ i \in 1 .. Len(s) /\ (s \o t)[i] = s[i]
            BY <1>1, <2>1
        <3>. QED
            BY <3>1, LetsGoInFront DEF Bracketed
    <2>2. CASE i > Len(s)
        <3>1. PICK j \in Nat : j \in 1 .. Len(t) /\ (s \o t)[i] = t[j] /\ i = Len(s) + j
            <4>1. i - Len(s) \in 1 .. Len(t) /\ (s \o t)[i] = t[i - Len(s)] /\ i = Len(s) + (i - Len(s))
                BY <1>1, <2>2
            <4>. QED
                BY <4>1
        <3>. QED
            BY <3>1, LetsGoBehind DEF Bracketed
    <2>. QED
        BY <1>1, <2>1, <2>2
<1>. QED
    BY <1>1, <1>2 DEF Bracketed

\* Operations that take no lock, or none for longer than they last.
QuietOps == {x \in Ops : x.op \notin {"announce", "lock", "rlock"}}

LEMMA QuietIsGood == \A s \in Seq(QuietOps) : Good(s)
<1>. SUFFICES ASSUME NEW s \in Seq(QuietOps) PROVE Good(s)
    OBVIOUS
<1>1. s \in Seq(Ops)
    BY SeqMonotonic DEF QuietOps
<1>2. \A i \in 1 .. Len(s) : s[i] \in QuietOps
    BY ElementOfSeq
<1>. QED
    BY <1>1, <1>2 DEF Good, Bracketed, QuietOps

LEMMA QuietScripts ==
    /\ Good(<<>>)
    /\ \A a \in QuietOps : Good(<<a>>)
    /\ \A a, b \in QuietOps : Good(<<a, b>>)
    /\ \A a, b, c \in QuietOps : Good(<<a, b, c>>)
    /\ \A a, b, c, d \in QuietOps : Good(<<a, b, c, d>>)
<1>1. <<>> \in Seq(QuietOps)
    BY EmptySeq
<1>2. ASSUME NEW a \in QuietOps PROVE <<a>> \in Seq(QuietOps)
    OBVIOUS
<1>3. ASSUME NEW a \in QuietOps, NEW b \in QuietOps PROVE <<a, b>> \in Seq(QuietOps)
    OBVIOUS
<1>4. ASSUME NEW a \in QuietOps, NEW b \in QuietOps, NEW c \in QuietOps
      PROVE  <<a, b, c>> \in Seq(QuietOps)
    OBVIOUS
<1>5. ASSUME NEW a \in QuietOps, NEW b \in QuietOps, NEW c \in QuietOps, NEW d \in QuietOps
      PROVE  <<a, b, c, d>> \in Seq(QuietOps)
    OBVIOUS
<1>. QED
    BY <1>1, <1>2, <1>3, <1>4, <1>5, QuietIsGood

LEMMA OpsThatAreQuiet ==
    ASSUME NEW p \in Players, NEW r \in Rooms
    PROVE  /\ Read \in QuietOps /\ Put \in QuietOps /\ Take \in QuietOps
           /\ Pass(r) \in QuietOps /\ Broadcast(r) \in QuietOps
           /\ Send(p) \in QuietOps /\ Attach(p) \in QuietOps
<1>1. Read \in QuietOps /\ Put \in QuietOps /\ Take \in QuietOps
    BY OpsHaveFields DEF Read, Put, Take, PlainOps, QuietOps
<1>2. Pass(r) \in QuietOps /\ Broadcast(r) \in QuietOps
    BY OpsHaveFields DEF Pass, Broadcast, RoomOps, QuietOps
<1>3. Send(p) \in QuietOps /\ Attach(p) \in QuietOps
    BY OpsHaveFields DEF QuietOps
<1>. QED
    BY <1>1, <1>2, <1>3

LEMMA OpsOfLocks ==
    ASSUME NEW p \in Players, NEW r \in Rooms
    PROVE  /\ Announce \in Ops /\ Announce.op = "announce" /\ Await \in Ops /\ Await.op = "await"
           /\ Unlock \in Ops /\ Unlock.op = "unlock" /\ Op("write") \in Ops /\ Op("write").op = "write"
           /\ RLock \in Ops /\ RLock.op = "rlock" /\ RUnlock \in Ops /\ RUnlock.op = "runlock"
           /\ Pass(r) \in Ops /\ Pass(r).op = "pass" /\ Send(p) \in Ops /\ Send(p).op = "send"
           /\ LockRoom(r) \in Ops /\ LockRoom(r).op = "lock" /\ LockRoom(r).room = r
           /\ UnlockRoom(r) \in Ops /\ UnlockRoom(r).op = "free" /\ UnlockRoom(r).room = r
           /\ Broadcast(r).op = "broadcast" /\ Take.op = "take"
<1>1. /\ Announce \in Ops /\ Announce.op = "announce" /\ Await \in Ops /\ Await.op = "await"
      /\ Unlock \in Ops /\ Unlock.op = "unlock" /\ Op("write") \in Ops /\ Op("write").op = "write"
      /\ RLock \in Ops /\ RLock.op = "rlock" /\ RUnlock \in Ops /\ RUnlock.op = "runlock"
      /\ Take.op = "take"
    BY OpsHaveFields DEF Announce, Await, Unlock, RLock, RUnlock, Take, PlainOps
<1>2. /\ Pass(r) \in Ops /\ Pass(r).op = "pass" /\ Send(p) \in Ops /\ Send(p).op = "send"
      /\ LockRoom(r) \in Ops /\ LockRoom(r).op = "lock" /\ LockRoom(r).room = r
      /\ UnlockRoom(r) \in Ops /\ UnlockRoom(r).op = "free" /\ UnlockRoom(r).room = r
      /\ Broadcast(r).op = "broadcast"
    BY OpsHaveFields DEF Pass, LockRoom, UnlockRoom, Broadcast, RoomOps
<1>. QED
    BY <1>1, <1>2

LEMMA BracketsAreGood ==
    ASSUME NEW p \in Players, NEW r \in Rooms
    PROVE  /\ Good(Write)
           /\ Good(<<Announce, Await, Pass(r), Send(p), Unlock>>)
           /\ Good(<<Announce, Await, Send(p), Unlock>>)
           /\ Good(<<LockRoom(r), Send(p), UnlockRoom(r)>>)
           /\ Good(<<RLock, Pass(r), RUnlock>>)
<1>3. Good(Write)
    BY OpsOfLocks DEF Write, Good, Bracketed, LetsWritersIn, Is
<1>4. Good(<<Announce, Await, Pass(r), Send(p), Unlock>>)
    BY OpsOfLocks DEF Good, Bracketed, LetsWritersIn, UnlocksSoon, Is
<1>5. Good(<<Announce, Await, Send(p), Unlock>>)
    BY OpsOfLocks DEF Good, Bracketed, LetsWritersIn, UnlocksSoon, Is
<1>6. Good(<<LockRoom(r), Send(p), UnlockRoom(r)>>)
    BY OpsOfLocks DEF Good, Bracketed, LetsRoomGo, Is
<1>7. Good(<<RLock, Pass(r), RUnlock>>)
    BY OpsOfLocks DEF Good, Bracketed, LetsReadersGo, Is
<1>. QED
    BY <1>3, <1>4, <1>5, <1>6, <1>7

(***************************************************************************)
(* The scripts of all commands.                                            *)
(***************************************************************************)

LEMMA CreateAndJoinAreGood ==
    ASSUME NEW p \in Players, NEW r \in Rooms
    PROVE  /\ \A s \in CreateRoom(p, r) : Good(s)
           /\ \A s \in JoinRoom(p, r) : Good(s)
<1>1. Good(<<Pass(r), Send(p), Broadcast(r)>>)
    BY OpsThatAreQuiet, QuietScripts
<1>2. Good(Write \o <<LockRoom(r), Send(p), UnlockRoom(r)>>) /\ Good(Write \o <<Pass(r), Send(p), Broadcast(r)>>)
    BY <1>1, BracketsAreGood, JoinedStaysBracketed
<1>. QED
    BY <1>2, BracketsAreGood DEF CreateRoom, JoinRoom

LEMMA LeaveIsGood ==
    ASSUME NEW p \in Players, NEW r \in Rooms
    PROVE  /\ \A s \in Leave(p, r) : Good(s)
           /\ \A s \in LeaveRoom(p, r) : Good(s)
<1>1. /\ Good(<<Read>>) /\ Good(<<Read, Send(p)>>) /\ Good(<<Read, Pass(r)>>) /\ Good(<<Broadcast(r)>>)
      /\ Good(<<Read, Pass(r), Broadcast(r), Pass(r)>>) /\ Good(<<Send(p)>>) /\ Good(<<>>)
    BY OpsThatAreQuiet, QuietScripts
<1>2. \A d \in DeleteRoom : Good(d)
    BY <1>1, BracketsAreGood, JoinedStaysBracketed DEF DeleteRoom
<1>3. \A s \in Leave(p, r) : Good(s)
    <2>1. \A d \in DeleteRoom : Good(<<Read, Pass(r)>> \o d)
        BY <1>1, <1>2, JoinedStaysBracketed
    <2>2. \A b \in {<<>>, <<Broadcast(r)>>} : Good(<<Read, Pass(r), Broadcast(r), Pass(r)>> \o b)
        BY <1>1, JoinedStaysBracketed
    <2>. QED
        BY <1>1, <2>1, <2>2 DEF Leave
<1>4. \A l \in Leave(p, r) : Good(l \o <<Send(p)>>)
    BY <1>1, <1>3, JoinedStaysBracketed
<1>. QED
    BY <1>3, <1>4 DEF LeaveRoom

LEMMA InRoomIsGood ==
    ASSUME NEW p \in Players, NEW r \in Rooms, NEW tails, \A t \in tails : Good(t)
    PROVE  \A s \in InRoom(p, tails) : Good(s)
<1>1. Good(<<Read>>) /\ Good(<<Send(p)>>) /\ Good(<<Read, Send(p)>>)
    BY OpsThatAreQuiet, QuietScripts
<1>2. \A t \in tails : Good(<<Read>> \o t)
    BY <1>1, JoinedStaysBracketed
<1>. QED
    BY <1>1, <1>2 DEF InRoom

LEMMA StartIsGood ==
    ASSUME NEW p \in Players, NEW r \in Rooms
    PROVE  /\ \A s \in StartGame(r) : Good(s)
           /\ \A s \in StartGameForSession(p, r) : Good(s)
<1>1. \A s \in StartGame(r) : Good(s)
    BY OpsThatAreQuiet, QuietScripts DEF StartGame
<1>. QED
    BY <1>1, InRoomIsGood DEF StartGameForSession

LEMMA ChooseIsGood ==
    ASSUME NEW p \in Players, NEW r \in Rooms
    PROVE  \A s \in HandleSelectPokemon(p, r) : Good(s)
<1>. DEFINE Front == <<Pass(r), Pass(r), Send(p), Broadcast(r)>>
            Tails == {<<>>} \cup StartGame(r) \cup {<<Broadcast(r)>> \o g : g \in StartGame(r)}
            Answers == {<<Pass(r), Send(p)>>} \cup {Front \o t : t \in Tails}
<1>1. /\ Good(<<>>) /\ Good(<<Broadcast(r)>>) /\ Good(<<Pass(r), Send(p)>>) /\ Good(Front)
      /\ \A g \in StartGame(r) : Good(g)
    BY OpsThatAreQuiet, QuietScripts, StartIsGood
<1>2. \A t \in Tails : Good(t)
    BY <1>1, JoinedStaysBracketed
<1>3. \A a \in Answers : Good(a)
    BY <1>1, <1>2, JoinedStaysBracketed
<1>4. HandleSelectPokemon(p, r) = InRoom(p, Answers)
    BY DEF HandleSelectPokemon
<1>. HIDE DEF Answers
<1>. QED
    BY <1>3, <1>4, InRoomIsGood

LEMMA BattleIsGood ==
    ASSUME NEW p \in Players, NEW r \in Rooms
    PROVE  \A s \in HandleBattleAction(p, r) : Good(s)
<1>. DEFINE Answers == {<<Pass(r), Send(p)>>, <<Pass(r), Pass(r), Send(p)>>,
                        <<Pass(r), Pass(r), Send(p), Broadcast(r)>>,
                        <<Pass(r), Pass(r), Pass(r), Send(p), Broadcast(r)>>}
<1>1. /\ Good(<<>>) /\ Good(<<Read>>) /\ Good(<<Pass(r), Send(p)>>)
      /\ Good(<<Pass(r), Pass(r), Send(p)>>) /\ Good(<<Pass(r), Pass(r), Send(p), Broadcast(r)>>)
    BY OpsThatAreQuiet, QuietScripts
<1>2. Good(<<Pass(r), Pass(r), Pass(r), Send(p), Broadcast(r)>>)
    <2>1. <<Pass(r), Pass(r), Pass(r), Send(p), Broadcast(r)>> \in Seq(QuietOps)
        BY OpsThatAreQuiet
    <2>. QED
        BY <2>1, QuietIsGood
<1>3. \A a \in InRoom(p, Answers) : Good(a)
    <2>1. \A a \in Answers : Good(a)
        BY <1>1, <1>2
    <2>. HIDE DEF Answers
    <2>. QED
        BY <2>1, InRoomIsGood
<1>4. HandleBattleAction(p, r) = {a \o t : a \in InRoom(p, Answers), t \in {<<>>, <<Read>>}}
    BY DEF HandleBattleAction
<1>. HIDE DEF Answers
<1>5. ASSUME NEW a \in InRoom(p, Answers), NEW t \in {<<>>, <<Read>>}
      PROVE  Good(a \o t)
    <2>1. Good(a) /\ Good(t)
        BY <1>1, <1>3
    <2>. QED
        BY <2>1, JoinedStaysBracketed
<1>. QED
    <2>1. SUFFICES ASSUME NEW s \in HandleBattleAction(p, r) PROVE Good(s)
        OBVIOUS
    <2>2. PICK a \in InRoom(p, Answers), t \in {<<>>, <<Read>>} : s = a \o t
        BY <1>4
    <2>. QED
        BY <1>5, <2>2

LEMMA OthersAreGood ==
    ASSUME NEW p \in Players, NEW r \in Rooms
    PROVE  /\ \A s \in ListRooms(p, r) : Good(s)
           /\ \A s \in Match(p) : Good(s)
           /\ \A s \in Reconnect(p) : Good(s)
           /\ \A s \in SyncRoomState(p, r) : Good(s)
           /\ \A s \in StartOutcome(r) : Good(s)
           /\ \A s \in CleanUpIfStillOffline(p, r) : Good(s)
           /\ \A s \in Reassign(r) : Good(s)
<1>1. /\ Good(<<>>) /\ Good(<<Read>>) /\ Good(<<Send(p)>>) /\ Good(<<Attach(p)>>) /\ Good(<<Broadcast(r)>>)
      /\ Good(<<Put, Send(p)>>) /\ Good(<<Read, Attach(p)>>) /\ Good(<<Read, Attach(p), Send(p)>>)
      /\ Good(<<Pass(r), Send(p), Broadcast(r)>>) /\ Good(<<Pass(r), Broadcast(r)>>)
      /\ Good(<<Pass(r), Pass(r)>>) /\ Good(<<Pass(r), Pass(r), Pass(r)>>)
    BY OpsThatAreQuiet, QuietScripts
<1>2. Good(Write) /\ Good(<<RLock, Pass(r), RUnlock>>)
    BY BracketsAreGood
<1>3. \A s \in ListRooms(p, r) : Good(s)
    <2>1. <<RLock, Pass(r), RUnlock, Send(p)>> = <<RLock, Pass(r), RUnlock>> \o <<Send(p)>>
        OBVIOUS
    <2>. QED
        BY <1>1, <1>2, <2>1, JoinedStaysBracketed DEF ListRooms
<1>4. \A s \in Match(p) : Good(s)
    BY <1>1 DEF Match
<1>5. \A s \in Reconnect(p) : Good(s)
    <2>1. Good(<<Read>> \o Write) /\ Good((<<Read>> \o Write) \o <<Attach(p)>>)
        BY <1>1, <1>2, JoinedStaysBracketed
    <2>. QED
        BY <1>1, <2>1 DEF Reconnect
<1>6. (\A s \in SyncRoomState(p, r) : Good(s)) /\ (\A s \in StartOutcome(r) : Good(s))
    BY <1>1 DEF SyncRoomState, StartOutcome
<1>7. \A s \in CleanUpIfStillOffline(p, r) : Good(s)
    <2>1. \A l \in {<<>>} \cup Leave(p, r) : Good(Write \o l)
        BY <1>1, <1>2, LeaveIsGood, JoinedStaysBracketed
    <2>. QED
        BY <2>1 DEF CleanUpIfStillOffline
<1>8. \A s \in Reassign(r) : Good(s)
    <2>1. \A t \in {<<>>, <<Pass(r), Pass(r)>>, <<Pass(r), Pass(r), Pass(r)>>} :
             Good(<<RLock, Pass(r), RUnlock>> \o t)
        BY <1>1, <1>2, JoinedStaysBracketed
    <2>. QED
        BY <2>1 DEF Reassign
<1>. QED
    BY <1>3, <1>4, <1>5, <1>6, <1>7, <1>8

LEMMA ScriptsAreGood ==
    ASSUME NEW kind \in Kinds, NEW p \in Players, NEW r \in Rooms
    PROVE  \A s \in ScriptsOf(kind, p, r) : Good(s)
BY CreateAndJoinAreGood, LeaveIsGood, StartIsGood, ChooseIsGood, BattleIsGood, OthersAreGood
   DEF ScriptsOf, Kinds

\* What the match worker runs, which puts nobody into the queue.
LEMMA PairingIsGood ==
    ASSUME NEW p \in Players, NEW q \in Players, NEW r \in Rooms
    PROVE  \A s \in Pairing(p, q, r) : Good(s) /\ NoPut(s)
<1>1. ASSUME NEW c \in CreateRoom(p, r) PROVE NoPut(c)
    <2>1. NoPut(<<Announce, Await, Pass(r), Send(p), Unlock>>)
        BY OpsOfLocks DEF NoPut
    <2>. QED
        BY <1>1, <2>1 DEF CreateRoom
<1>2. NoPut(Write) /\ NoPut(<<Take>>)
    BY OpsOfLocks DEF NoPut, Write
<1>3. /\ NoPut(<<Announce, Await, Send(q), Unlock>>)
      /\ NoPut(<<LockRoom(r), Send(q), UnlockRoom(r)>>)
      /\ NoPut(<<Pass(r), Send(q), Broadcast(r)>>)
    BY OpsOfLocks DEF NoPut
<1>4. ASSUME NEW s, NEW t, Good(s), Good(t), NoPut(s), NoPut(t)
      PROVE  Good(s \o t) /\ NoPut(s \o t)
    <2>1. /\ Len(s) \in Nat /\ Len(t) \in Nat /\ Len(s \o t) = Len(s) + Len(t)
          /\ \A i \in 1 .. Len(s) + Len(t) : (s \o t)[i] = IF i <= Len(s) THEN s[i] ELSE t[i - Len(s)]
        BY <1>4, ConcatProperties, LenProperties DEF Good
    <2>. QED
        BY <1>4, <2>1, JoinedStaysBracketed DEF NoPut
<1>5. /\ Good(Write) /\ Good(<<LockRoom(r), Send(q), UnlockRoom(r)>>)
      /\ Good(<<Pass(r), Send(q), Broadcast(r)>>) /\ Good(<<Take>>)
    BY BracketsAreGood, OpsThatAreQuiet, QuietScripts
<1>6. ASSUME NEW j \in JoinRoom(q, r) PROVE Good(j) /\ NoPut(j)
    BY <1>2, <1>3, <1>4, <1>5, CreateAndJoinAreGood DEF JoinRoom
<1>7. ASSUME NEW c \in CreateRoom(p, r) PROVE Good(<<Take>> \o c) /\ NoPut(<<Take>> \o c)
    BY <1>1, <1>2, <1>4, <1>5, CreateAndJoinAreGood
<1>8. ASSUME NEW c \in CreateRoom(p, r), NEW j \in JoinRoom(q, r)
      PROVE  Good((<<Take>> \o c) \o j) /\ NoPut((<<Take>> \o c) \o j)
    BY <1>4, <1>6, <1>7
<1>. QED
    <2>1. SUFFICES ASSUME NEW s \in Pairing(p, q, r) PROVE Good(s) /\ NoPut(s)
        OBVIOUS
    <2>2. PICK c \in CreateRoom(p, r), j \in JoinRoom(q, r) : s = (<<Take>> \o c) \o j
        BY DEF Pairing
    <2>. QED
        BY <1>8, <2>2

(***************************************************************************)
(* The invariant, in every step.                                           *)
(***************************************************************************)

LEMMA GoroutinesApart ==
    /\ Worker \in Goroutines /\ Helpers \subseteq Goroutines /\ Worker \notin Helpers
    /\ \A p \in Players : Loop(p) \in Goroutines /\ Loop(p) # Worker
<1>1. ASSUME NEW p \in Players PROVE Loop(p) # Worker
    <2>1. Loop(p)[1] = "loop" /\ Worker[1] = "worker"
        BY DEF Loop, Worker
    <2>. QED
        BY <2>1
<1>. QED
    BY <1>1, GoroutineAssumption DEF Goroutines

\* The first operation of a script that is not over.
LEMMA FirstOp ==
    ASSUME NEW s \in Seq(Ops), s # <<>>
    PROVE  /\ Head(s) = s[1] /\ Head(s) \in Ops /\ 1 \in 1 .. Len(s)
           /\ \A op : Is(s, 1, op) <=> Head(s).op = op
<1>1. Len(s) \in Nat \ {0}
    BY EmptySeq
<1>2. Head(s) = s[1] /\ Head(s) \in Ops
    BY HeadTailProperties
<1>. QED
    BY <1>1, <1>2 DEF Is

\* A script that is over lets nothing go any more.
LEMMA NothingLeft ==
    ~LetsWritersIn(<<>>, 0) /\ ~LetsReadersGo(<<>>, 0) /\ \A r : ~LetsRoomGo(<<>>, 0, r)
<1>1. \A i \in Nat : \A op : ~Is(<<>>, i, op)
    BY EmptySeq DEF Is
<1>. QED
    BY <1>1 DEF LetsWritersIn, UnlocksSoon, LetsReadersGo, LetsRoomGo

\* The first operation of a script that lets something go.
LEMMA FirstLetsGo ==
    ASSUME NEW s \in Seq(Ops), s # <<>>
    PROVE  /\ LetsWritersIn(s, 0) => Head(s).op \in {"write", "await", "unlock", "send", "pass"}
           /\ LetsReadersGo(s, 0) => Head(s).op \in {"runlock", "pass"}
           /\ \A r : LetsRoomGo(s, 0, r) => Head(s).op \in {"free", "send"}
BY FirstOp DEF LetsWritersIn, UnlocksSoon, LetsReadersGo, LetsRoomGo

\* What a script still lets go, or comes to let go, after its first operation.
LEMMA AfterFirst ==
    ASSUME NEW s, Good(s), s # <<>>
    PROVE  /\ LetsWritersIn(s, 0) /\ Head(s).op \notin {"write", "unlock"} => LetsWritersIn(Tail(s), 0)
           /\ LetsReadersGo(s, 0) /\ Head(s).op # "runlock" => LetsReadersGo(Tail(s), 0)
           /\ \A r : /\ LetsRoomGo(s, 0, r)
                    /\ ~(Head(s).op = "free" /\ Head(s).room = r)
                    => LetsRoomGo(Tail(s), 0, r)
           /\ Head(s).op = "announce" => LetsWritersIn(Tail(s), 0)
           /\ Head(s).op = "rlock" => LetsReadersGo(Tail(s), 0)
           /\ Head(s).op = "lock" => LetsRoomGo(Tail(s), 0, Head(s).room)
<1>. USE DEF Good
<1>1. /\ Head(s) = s[1] /\ 1 \in 1 .. Len(s)
      /\ \A op : Is(s, 1, op) <=> Head(s).op = op
    BY FirstOp
<1>2. /\ LetsWritersIn(s, 1) <=> LetsWritersIn(Tail(s), 0)
      /\ LetsReadersGo(s, 1) <=> LetsReadersGo(Tail(s), 0)
      /\ \A r : LetsRoomGo(s, 1, r) <=> LetsRoomGo(Tail(s), 0, r)
    BY TailLetsGo, 0 + 1 = 1
<1>3. ASSUME LetsWritersIn(s, 0), Head(s).op \notin {"write", "unlock"} PROVE LetsWritersIn(s, 1)
    BY <1>1, <1>3 DEF LetsWritersIn, UnlocksSoon
<1>4. ASSUME LetsReadersGo(s, 0), Head(s).op # "runlock" PROVE LetsReadersGo(s, 1)
    BY <1>1, <1>4 DEF LetsReadersGo
<1>5. ASSUME NEW r, LetsRoomGo(s, 0, r), ~(Head(s).op = "free" /\ Head(s).room = r)
      PROVE  LetsRoomGo(s, 1, r)
    BY <1>1, <1>5 DEF LetsRoomGo
<1>6. /\ Head(s).op = "announce" => LetsWritersIn(s, 1)
      /\ Head(s).op = "rlock" => LetsReadersGo(s, 1)
      /\ Head(s).op = "lock" => LetsRoomGo(s, 1, Head(s).room)
    BY <1>1 DEF Bracketed
<1>. QED
    BY <1>2, <1>3, <1>4, <1>5, <1>6

LEMMA InvInit == Init => Inv
<1>. SUFFICES ASSUME Init PROVE Inv
    OBVIOUS
<1>1. /\ <<>> \in Seq(Ops) /\ Len(<<>>) = 0
      /\ 0 \in 0 .. SendBuffer /\ 0 \in 0 .. MatchQueueSize
    BY EmptySeq, BlockingAssumption
<1>2. TypeOK
    BY <1>1 DEF Init, TypeOK
<1>3. LocksAreLetGo
    BY <1>1, GoroutinesApart DEF Init, LocksAreLetGo, Bracketed, NoPut
<1>. QED
    BY <1>2, <1>3 DEF Inv

\* A goroutine that takes up a script held no lock.
LEMMA InvBegin ==
    ASSUME Inv, NEW g \in Goroutines, NEW scripts, Begin(g, scripts),
           \A s \in scripts : Good(s) /\ (g = Worker => NoPut(s)),
           matching' \in 0 .. MatchQueueSize
    PROVE  Inv'
<1>. USE DEF Inv, TypeOK, lockVars
<1>1. PICK s \in scripts : script' = [script EXCEPT ![g] = s]
    BY DEF Begin
<1>2. /\ script[g] = <<>> /\ UNCHANGED <<writer, readers, holder, queue, reading>>
      /\ script'[g] = s /\ \A h \in Goroutines \ {g} : script'[h] = script[h]
    BY <1>1 DEF Begin, Idle
<1>3. TypeOK'
    BY <1>1, <1>2 DEF Good
<1>4. writer # g /\ g \notin readers /\ \A r \in Rooms : holder[r] # g
    BY <1>2, NothingLeft, GoroutineAssumption DEF LocksAreLetGo
<1>5. LocksAreLetGo'
    BY <1>2, <1>4, GoroutinesApart DEF LocksAreLetGo, Good
<1>. QED
    BY <1>3, <1>5

LEMMA InvDispatch ==
    ASSUME Inv, NEW p \in Players, Dispatch(p)
    PROVE  Inv'
<1>1. PICK c \in Commands, r \in Rooms : Begin(Loop(p), ScriptsOf(c, p, r))
    BY DEF Dispatch
<1>2. \A s \in ScriptsOf(c, p, r) : Good(s)
    BY ScriptsAreGood, BlockingAssumption
<1>3. matching' \in 0 .. MatchQueueSize
    BY DEF Dispatch, Inv, TypeOK
<1>. QED
    BY <1>1, <1>2, <1>3, InvBegin, GoroutinesApart

LEMMA InvLaunch ==
    ASSUME Inv, NEW g \in Helpers, Launch(g)
    PROVE  Inv'
<1>1. PICK t \in Tasks, p \in Players, r \in Rooms : Begin(g, ScriptsOf(t, p, r))
    BY DEF Launch
<1>2. \A s \in ScriptsOf(t, p, r) : Good(s)
    BY ScriptsAreGood, BlockingAssumption
<1>3. matching' \in 0 .. MatchQueueSize
    BY DEF Launch, Inv, TypeOK
<1>. QED
    BY <1>1, <1>2, <1>3, InvBegin, GoroutinesApart

LEMMA InvMatchWorker ==
    ASSUME Inv, MatchWorker
    PROVE  Inv'
<1>1. PICK p \in Players, q \in Players, r \in Rooms : Begin(Worker, Pairing(p, q, r))
    BY DEF MatchWorker
<1>2. matching' \in 0 .. MatchQueueSize
    BY BlockingAssumption DEF MatchWorker, Inv, TypeOK
<1>. QED
    BY <1>1, <1>2, InvBegin, PairingIsGood, GoroutinesApart

\* An operation: what a lock is held for gets shorter, and a lock that is taken is
\* one that the rest of the script lets go.
LEMMA TypeStep ==
    ASSUME Inv, NEW g \in Goroutines, Step(g)
    PROVE  TypeOK'
<1>. DEFINE s == script[g]
            next == Head(s)
<1>. USE DEF Inv, TypeOK
<1>1. s \in Seq(Ops) /\ s # <<>> /\ Tail(s) \in Seq(Ops) /\ next \in Ops
    BY HeadTailProperties DEF Step, Idle
<1>2. script' \in [Goroutines -> Seq(Ops)]
    BY <1>1 DEF Step
<1>3. /\ next.op \in PlainOps \cup RoomOps \cup {"send", "attach"}
      /\ next.op \in RoomOps => next.room \in Rooms
      /\ next.op \in {"send", "attach"} => next.player \in Players
    BY <1>1, FieldsOfOps
<1>. HIDE DEF s, next
<1>4. CASE next.op \in {"lock", "free", "pass"}
    <2>1. Room(g, next) /\ next.room \in Rooms
        BY <1>3, <1>4 DEF Step, s, next, RoomOps
    <2>. QED
        BY <1>2, <2>1 DEF Room
<1>5. CASE next.op = "broadcast"
    <2>1. BroadcastToRoom
        BY <1>5 DEF Step, s, next
    <2>2. queue' \in [Players -> 0 .. SendBuffer]
        <3>1. PICK members \in SUBSET Players :
                 queue' = [p \in Players |->
                       IF p \in members /\ queue[p] < SendBuffer THEN queue[p] + 1 ELSE queue[p]]
            BY <2>1 DEF BroadcastToRoom
        <3>2. \A p \in Players : queue[p] \in 0 .. SendBuffer
            OBVIOUS
        <3>. QED
            BY <3>1, <3>2, BlockingAssumption
    <2>. QED
        BY <1>2, <2>1, <2>2 DEF BroadcastToRoom, lockVars
<1>6. CASE next.op = "send"
    <2>1. SendResponse(next.player) /\ queue[next.player] < SendBuffer /\ next.player \in Players
        BY <1>3, <1>6 DEF Step, Ready, s, next
    <2>2. queue' \in [Players -> 0 .. SendBuffer]
        <3>1. queue[next.player] + 1 \in 0 .. SendBuffer
            BY <2>1, BlockingAssumption
        <3>. QED
            BY <2>1, <3>1 DEF SendResponse
    <2>. QED
        BY <1>2, <2>1, <2>2 DEF SendResponse, lockVars
<1>7. CASE next.op = "attach"
    <2>1. Connected(next.player) /\ next.player \in Players
        BY <1>3, <1>7 DEF Step, s, next
    <2>. QED
        BY <1>2, <2>1 DEF Connected, lockVars
<1>8. CASE next.op \in {"put", "take"}
    <2>1. matching' \in 0 .. MatchQueueSize /\ UNCHANGED <<lockVars, queue, reading>>
        BY <1>8, BlockingAssumption DEF Step, Ready, Queued, s, next
    <2>. QED
        BY <1>2, <2>1 DEF lockVars
<1>9. CASE next.op \in PlainOps \ {"put", "take"}
    <2>1. Manager(g, next.op)
        BY <1>9 DEF Step, s, next, PlainOps
    <2>. QED
        BY <1>2, <2>1 DEF Manager
<1>. QED
    BY <1>3, <1>4, <1>5, <1>6, <1>7, <1>8, <1>9 DEF RoomOps

\* Which locks the first operation takes and lets go.
LEMMA LocksOfStep ==
    ASSUME NEW g \in Goroutines, Step(g)
    PROVE  LET next == Head(script[g]) IN
           /\ writer' = CASE next.op = "announce"            -> g
                          [] next.op \in {"unlock", "write"} -> Nobody
                          [] OTHER                           -> writer
           /\ readers' = CASE next.op = "rlock"   -> readers \cup {g}
                           [] next.op = "runlock" -> readers \ {g}
                           [] OTHER               -> readers
           /\ holder' = CASE next.op = "lock" -> [holder EXCEPT ![next.room] = g]
                          [] next.op = "free" -> [holder EXCEPT ![next.room] = Nobody]
                          [] OTHER            -> holder
<1>. DEFINE next == Head(script[g])
<1>. HIDE DEF next
<1>1. CASE next.op \in {"lock", "free", "pass"}
    BY <1>1 DEF Step, Room, next
<1>2. CASE next.op \in {"broadcast", "send", "attach", "put", "take"}
    BY <1>2 DEF Step, BroadcastToRoom, SendResponse, Connected, Queued, lockVars, next
<1>3. CASE next.op \notin {"lock", "free", "pass", "broadcast", "send", "attach", "put", "take"}
    BY <1>3 DEF Step, Manager, next
<1>. QED
    BY <1>1, <1>2, <1>3 DEF next

LEMMA LocksStep ==
    ASSUME Inv, NEW g \in Goroutines, Step(g)
    PROVE  LocksAreLetGo'
<1>. DEFINE s == script[g]
            next == Head(s)
<1>1. Good(s) /\ s # <<>> /\ script' = [script EXCEPT ![g] = Tail(s)]
    BY DEF Inv, TypeOK, LocksAreLetGo, Good, Step, Idle
<1>2. script'[g] = Tail(s) /\ \A h \in Goroutines \ {g} : script'[h] = script[h]
    BY <1>1 DEF Inv, TypeOK
<1>3. Bracketed(Tail(s)) /\ (NoPut(s) => NoPut(Tail(s)))
    BY <1>1, TailStaysBracketed DEF Good
<1>4. \A h \in Goroutines : Bracketed(script'[h])
    BY <1>2, <1>3 DEF Inv, LocksAreLetGo
<1>5. NoPut(script'[Worker])
    BY <1>2, <1>3, GoroutinesApart DEF Inv, LocksAreLetGo
<1>6. ASSUME writer' # Nobody PROVE LetsWritersIn(script'[writer'], 0)
    <2>1. CASE next.op = "announce"
        BY <1>1, <1>2, <2>1, LocksOfStep, AfterFirst
    <2>2. CASE next.op # "announce"
        <3>1. writer' = writer /\ next.op \notin {"unlock", "write"}
            BY <1>6, <2>2, LocksOfStep
        <3>2. LetsWritersIn(script[writer], 0) /\ writer \in Goroutines
            BY <1>6, <3>1 DEF Inv, TypeOK, LocksAreLetGo
        <3>. QED
            BY <1>1, <1>2, <3>1, <3>2, AfterFirst
    <2>. QED
        BY <2>1, <2>2
<1>7. ASSUME NEW h \in readers' PROVE LetsReadersGo(script'[h], 0)
    <2>1. CASE h = g
        <3>1. CASE next.op = "rlock"
            BY <1>1, <1>2, <2>1, <3>1, AfterFirst
        <3>2. CASE next.op # "rlock"
            <4>1. g \in readers /\ next.op # "runlock"
                BY <1>7, <2>1, <3>2, LocksOfStep
            <4>. QED
                BY <1>1, <1>2, <2>1, <4>1, AfterFirst DEF Inv, LocksAreLetGo
        <3>. QED
            BY <3>1, <3>2
    <2>2. CASE h # g
        <3>1. h \in readers
            BY <1>7, <2>2, LocksOfStep
        <3>. QED
            BY <1>2, <2>2, <3>1 DEF Inv, TypeOK, LocksAreLetGo
    <2>. QED
        BY <2>1, <2>2
<1>8. ASSUME NEW r \in Rooms, holder'[r] # Nobody PROVE LetsRoomGo(script'[holder'[r]], 0, r)
    <2>1. next.op \in {"lock", "free"} => next.room \in Rooms
        BY <1>1, FirstOp, FieldsOfOps DEF Good, RoomOps
    <2>2. CASE next.op = "lock" /\ next.room = r
        <3>1. holder'[r] = g
            BY <2>2, LocksOfStep DEF Inv, TypeOK
        <3>. QED
            BY <1>1, <1>2, <2>2, <3>1, AfterFirst
    <2>3. CASE ~(next.op = "lock" /\ next.room = r)
        <3>1. holder'[r] = holder[r] /\ ~(next.op = "free" /\ next.room = r)
            BY <1>8, <2>1, <2>3, LocksOfStep DEF Inv, TypeOK
        <3>2. LetsRoomGo(script[holder[r]], 0, r) /\ holder[r] \in Goroutines
            BY <1>8, <3>1 DEF Inv, TypeOK, LocksAreLetGo
        <3>. QED
            BY <1>1, <1>2, <3>1, <3>2, AfterFirst
    <2>. QED
        BY <2>2, <2>3
<1>. QED
    BY <1>4, <1>5, <1>6, <1>7, <1>8 DEF LocksAreLetGo

\* The clients and their pumps touch no lock and no script.
LEMMA InvClient ==
    ASSUME Inv, NEW p \in Players, WritePump(p) \/ Stall(p) \/ Resume(p)
    PROVE  Inv'
<1>1. UNCHANGED <<script, writer, readers, holder, matching>>
    BY DEF WritePump, Stall, Resume, lockVars
<1>2. queue' \in [Players -> 0 .. SendBuffer] /\ reading' \subseteq Players
    BY BlockingAssumption DEF Inv, TypeOK, WritePump, Stall, Resume
<1>. QED
    BY <1>1, <1>2 DEF Inv, TypeOK, LocksAreLetGo

LEMMA InvNext == Inv /\ [Next]_vars => Inv'
<1>. SUFFICES ASSUME Inv, [Next]_vars PROVE Inv'
    OBVIOUS
<1>1. CASE UNCHANGED vars
    BY <1>1 DEF Inv, TypeOK, LocksAreLetGo, vars
<1>2. ASSUME NEW p \in Players, Dispatch(p) \/ WritePump(p) \/ Stall(p) \/ Resume(p) PROVE Inv'
    BY <1>2, InvDispatch, InvClient
<1>3. ASSUME NEW g \in Helpers, Launch(g) PROVE Inv'
    BY <1>3, InvLaunch
<1>4. CASE MatchWorker
    BY <1>4, InvMatchWorker
<1>5. ASSUME NEW g \in Goroutines, Step(g) PROVE Inv'
    BY <1>5, TypeStep, LocksStep DEF Inv
<1>. QED
    BY <1>1, <1>2, <1>3, <1>4, <1>5 DEF Next

LEMMA InvAlways == Spec => []Inv
<1>. QED
    BY InvInit, InvNext, PTL DEF Spec

\* Scripts are made of the operations there are, locks are held by goroutines, and
\* no channel holds more than its capacity (session.go:75).
THEOREM TypeCorrect == Spec => []TypeOK
<1>1. Inv => TypeOK
    BY DEF Inv
<1>. QED
    BY <1>1, InvAlways, PTL

(***************************************************************************)
(* Who waits for whom.                                                     *)
(***************************************************************************)

\* When everybody waits and nobody for a client, then no room is held, so nobody
\* reads under rm.mu, so nobody writes under it, so the queue is not full either:
\* nobody is left to wait for.
LEMMA StuckIsUnread == Inv => StuckMeansUnread
<1>. SUFFICES ASSUME Inv, Stuck, NEW g \in Goroutines, Waiting(g),
                     \A h \in Goroutines : ~Sending(h)
              PROVE  FALSE
    BY DEF StuckMeansUnread
<1>. DEFINE op(h) == Head(script[h]).op
<1>1. ASSUME NEW h \in Goroutines, script[h] # <<>>
      PROVE  /\ ~Ready(h) /\ op(h) # "send"
             /\ op(h) \in PlainOps \cup RoomOps \cup {"attach"}
             /\ op(h) \in RoomOps => Head(script[h]).room \in Rooms
    BY <1>1, FirstOp, FieldsOfOps DEF Inv, TypeOK, Stuck, Idle, Sending
<1>2. ASSUME NEW r \in Rooms PROVE holder[r] = Nobody
    <2>1. SUFFICES ASSUME holder[r] # Nobody PROVE FALSE
        OBVIOUS
    <2>2. /\ holder[r] \in Goroutines /\ LetsRoomGo(script[holder[r]], 0, r)
          /\ script[holder[r]] # <<>>
        BY <2>1, NothingLeft DEF Inv, TypeOK, LocksAreLetGo
    <2>3. op(holder[r]) \in {"free", "send"}
        BY <2>2, FirstLetsGo DEF Inv, TypeOK
    <2>. QED
        BY <1>1, <2>2, <2>3 DEF Ready
<1>3. readers = {}
    <2>1. SUFFICES ASSUME NEW h \in readers PROVE FALSE
        OBVIOUS
    <2>2. h \in Goroutines /\ LetsReadersGo(script[h], 0) /\ script[h] # <<>>
        BY NothingLeft DEF Inv, TypeOK, LocksAreLetGo
    <2>3. op(h) \in {"runlock", "pass"}
        BY <2>2, FirstLetsGo DEF Inv, TypeOK
    <2>. QED
        BY <1>1, <1>2, <2>2, <2>3 DEF Ready, RoomOps
<1>4. writer = Nobody
    <2>1. SUFFICES ASSUME writer # Nobody PROVE FALSE
        OBVIOUS
    <2>2. writer \in Goroutines /\ LetsWritersIn(script[writer], 0) /\ script[writer] # <<>>
        BY <2>1, NothingLeft DEF Inv, TypeOK, LocksAreLetGo
    <2>3. op(writer) \in {"write", "await", "unlock", "send", "pass"}
        BY <2>2, FirstLetsGo DEF Inv, TypeOK
    <2>. QED
        BY <1>1, <1>2, <1>3, <2>2, <2>3 DEF Ready, RoomOps
<1>5. ASSUME NEW h \in Goroutines, script[h] # <<>> PROVE op(h) \in {"put", "take"}
    BY <1>1, <1>2, <1>3, <1>4, <1>5 DEF Ready, PlainOps, RoomOps
<1>6. matching = 0
    <2>1. CASE Idle(Worker)
        BY <2>1 DEF Stuck
    <2>2. CASE ~Idle(Worker)
        <3>1. op(Worker) = "take"
            BY <1>5, <2>2, GoroutinesApart, FirstOp DEF Inv, TypeOK, LocksAreLetGo, NoPut, Idle
        <3>. QED
            BY <1>1, <2>2, <3>1, GoroutinesApart DEF Ready, Idle, Inv, TypeOK
    <2>. QED
        BY <2>1, <2>2
<1>7. op(g) = "put" /\ script[g] # <<>>
    BY <1>5 DEF Waiting, Idle
<1>. QED
    BY <1>1, <1>6, <1>7, BlockingAssumption DEF Ready

\* The mutexes of the manager and of the rooms, taken in the order they are, and
\* the match queue make no deadlock: only an answer to a client that does not
\* read can stop everybody (session.go:76).
THEOREM OnlyClientsBlock == Spec => []StuckMeansUnread
BY StuckIsUnread, InvAlways, PTL
=============================================================================
