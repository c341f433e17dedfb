--------------------------- MODULE BlockingSends ---------------------------
(***************************************************************************)
(* Who waits for whom: the locks of internal/room, the bounded channels    *)
(* s.Send and MatchQueue, and the clients that read or do not.             *)
(*                                                                         *)
(* A goroutine runs a script: what is left of a command, as the operations *)
(* that may block.  Whatever a command decides by the state of the rooms,  *)
(* it has a script for every outcome, so the scripts over-approximate what *)
(* the code can do.  RoomManager has the rooms, and assumes that nothing   *)
(* blocks.                                                                 *)
(*                                                                         *)
(* A critical section in which nothing can block is one operation that     *)
(* waits for the lock and holds it for no time.                            *)
(***************************************************************************)
EXTENDS Integers, Sequences

CONSTANTS
    Players,
    Rooms,
    SendBuffer,       \* the capacity of s.Send
    MatchQueueSize,
    Helpers,          \* goroutines of connections, timers, starts and health checks
    Commands,         \* what players ask for
    Tasks,            \* what the helpers run
    Nobody

Kinds == {"create", "join", "leave", "start", "choose", "battle", "list", "match",
          "return", "sync", "outcome", "expire", "reassign"}

ASSUME BlockingAssumption ==
    /\ SendBuffer \in Nat \ {0}
    /\ MatchQueueSize \in Nat \ {0}
    /\ Commands \subseteq Kinds
    /\ Tasks \subseteq Kinds

\* The read loop of a player, and the match worker.
Loop(p) == <<"loop", p>>
Worker  == <<"worker">>
Goroutines == {Loop(p) : p \in Players} \cup {Worker} \cup Helpers

ASSUME GoroutineAssumption == Nobody \notin Goroutines /\ Worker \notin Helpers

VARIABLES
    script,    \* what each goroutine has left to do
    writer,    \* who has called rm.mu.Lock and not Unlock
    readers,   \* who holds rm.mu for reading
    holder,    \* who holds the mu of each room
    queue,     \* the number of messages in each player's s.Send
    reading,   \* the players whose client reads what a WritePump sends
    matching   \* the number of sessions in MatchQueue

vars == <<script, writer, readers, holder, queue, reading, matching>>

-----------------------------------------------------------------------------
(* Operations                                                              *)

Op(name)        == [op |-> name]
On(name, r)     == [op |-> name, room |-> r]
Send(p)         == [op |-> "send", player |-> p]      \* s.Send <- bytes
Attach(p)       == [op |-> "attach", player |-> p]    \* a pump serves the player

\* rm.mu.Lock announces the writer, which keeps new readers out, and waits for
\* those that are there.
Announce  == Op("announce")
Await     == Op("await")
Unlock    == Op("unlock")
RLock     == Op("rlock")
RUnlock   == Op("runlock")

\* The same without anything in between that may block.
Write     == <<Announce, Op("write")>>
Read      == Op("read")

LockRoom(r)   == On("lock", r)
UnlockRoom(r) == On("free", r)
Pass(r)       == On("pass", r)          \* r.mu is taken and released
Broadcast(r)  == On("broadcast", r)

Put  == Op("put")                       \* MatchQueue <- s
Take == Op("take")                      \* <-MatchQueue

-----------------------------------------------------------------------------
(* The scripts of the commands                                             *)

CreateRoom(p, r) == {<<Announce, Await, Pass(r), Send(p), Unlock>>}

\* Mutant: the first refusal returns without rm.mu.Unlock.
JoinRoomLocked(p, r) ==
    { <<Announce, Await, Send(p)>>,
      Write \o <<LockRoom(r), Send(p), UnlockRoom(r)>>,
      Write \o <<Pass(r), Send(p), Broadcast(r)>> }

\* The refusals are sent under the lock that was held to find them out.
JoinRoom(p, r) ==
    { <<Announce, Await, Send(p), Unlock>>,
      Write \o <<LockRoom(r), Send(p), UnlockRoom(r)>>,
      Write \o <<Pass(r), Send(p), Broadcast(r)>> }

DeleteRoom == {<<Read>> \o Write, <<Read>>}

Leave(p, r) ==
    {<<Read, Send(p)>>}
        \cup {<<Read, Pass(r)>> \o d : d \in DeleteRoom}
        \cup {<<Read, Pass(r), Broadcast(r), Pass(r)>> \o b : b \in {<<>>, <<Broadcast(r)>>}}

\* The router answers whatever became of it.
LeaveRoom(p, r) == {l \o <<Send(p)>> : l \in Leave(p, r)}

\* The session is in no room, the room is gone, or the command goes on.
InRoom(p, tails) == {<<Send(p)>>, <<Read, Send(p)>>} \cup {<<Read>> \o t : t \in tails}

\* Up to the goroutine that calls the engine.
StartGame(r) == {<<Pass(r)>>, <<Pass(r), Pass(r), Broadcast(r)>>, <<Pass(r), Pass(r)>>}

StartGameForSession(p, r) == InRoom(p, StartGame(r))

\* The last to choose starts the game.
HandleSelectPokemon(p, r) ==
    InRoom(p, {<<Pass(r), Send(p)>>}
                \cup {<<Pass(r), Pass(r), Send(p), Broadcast(r)>> \o t :
                          t \in {<<>>} \cup StartGame(r)
                                     \cup {<<Broadcast(r)>> \o g : g \in StartGame(r)}})

\* The player's side is found under r.mu, before the call and, with the opponent
\* still to move, after it; the room is looked up once more at the end.
HandleBattleAction(p, r) ==
    LET answers == InRoom(p, {<<Pass(r), Send(p)>>, <<Pass(r), Pass(r), Send(p)>>,
                              <<Pass(r), Pass(r), Send(p), Broadcast(r)>>,
                              <<Pass(r), Pass(r), Pass(r), Send(p), Broadcast(r)>>})
    IN {a \o t : a \in answers, t \in {<<>>, <<Read>>}}

\* GetRooms takes the mu of every room under rm.mu.
ListRooms(p, r) == {<<RLock, Pass(r), RUnlock, Send(p)>>}

Match(p) == {<<Put, Send(p)>>}

(* What goroutines of their own run                                        *)

\* FindSession, a WritePump on the new connection, and the answer of the lobby,
\* which a player in a room gets from SyncRoomState.
Reconnect(p) == {<<Read, Attach(p)>>, <<Read, Attach(p), Send(p)>>, <<Read>> \o Write \o <<Attach(p)>>}

SyncRoomState(p, r) == {<<Send(p)>>, <<Pass(r), Send(p), Broadcast(r)>>}

\* The goroutine of StartGame, with or without success.
StartOutcome(r) == {<<Broadcast(r)>>, <<Pass(r), Broadcast(r)>>}

CleanUpIfStillOffline(p, r) == {Write \o l : l \in {<<>>} \cup Leave(p, r)}

\* By Health or a reconnect loop: the rooms to be moved, and one of them.
Reassign(r) == {<<RLock, Pass(r), RUnlock>> \o t : t \in {<<>>, <<Pass(r), Pass(r)>>, <<Pass(r), Pass(r), Pass(r)>>}}

ScriptsOf(kind, p, r) ==
    CASE kind = "create"   -> CreateRoom(p, r)
      [] kind = "join"     -> JoinRoom(p, r)
      [] kind = "leave"    -> LeaveRoom(p, r)
      [] kind = "start"    -> StartGameForSession(p, r)
      [] kind = "choose"   -> HandleSelectPokemon(p, r)
      [] kind = "battle"   -> HandleBattleAction(p, r)
      [] kind = "list"     -> ListRooms(p, r)
      [] kind = "match"    -> Match(p)
      [] kind = "return"   -> Reconnect(p)
      [] kind = "sync"     -> SyncRoomState(p, r)
      [] kind = "outcome"  -> StartOutcome(r)
      [] kind = "expire"   -> CleanUpIfStillOffline(p, r)
      [] kind = "reassign" -> Reassign(r)

\* With the first player taken: the second, a room, and the second joins it.
Pairing(p, q, r) == {<<Take>> \o c \o j : c \in CreateRoom(p, r), j \in JoinRoom(q, r)}

-----------------------------------------------------------------------------
PlainOps == {"announce", "await", "unlock", "write", "rlock", "runlock", "read", "put", "take"}
RoomOps  == {"lock", "free", "pass", "broadcast"}

Ops == {Op(n) : n \in PlainOps} \cup {On(n, r) : n \in RoomOps, r \in Rooms}
         \cup {Send(p) : p \in Players} \cup {Attach(p) : p \in Players}

TypeOK ==
    /\ script \in [Goroutines -> Seq(Ops)]
    /\ writer \in Goroutines \cup {Nobody}
    /\ readers \subseteq Goroutines
    /\ holder \in [Rooms -> Goroutines \cup {Nobody}]
    /\ queue \in [Players -> 0 .. SendBuffer]
    /\ reading \subseteq Players
    /\ matching \in 0 .. MatchQueueSize

Init ==
    /\ script = [g \in Goroutines |-> <<>>]
    /\ writer = Nobody
    /\ readers = {}
    /\ holder = [r \in Rooms |-> Nobody]
    /\ queue = [p \in Players |-> 0]
    /\ reading = Players
    /\ matching = 0

lockVars == <<writer, readers, holder>>

Idle(g) == script[g] = <<>>

-----------------------------------------------------------------------------
(* What goroutines take up                                                 *)

Begin(g, scripts) ==
    /\ Idle(g)
    /\ \E s \in scripts : script' = [script EXCEPT ![g] = s]
    /\ UNCHANGED <<lockVars, queue, reading>>

\* The read loop has a message of the client, who may send without reading.
Dispatch(p) ==
    /\ \E c \in Commands, r \in Rooms : Begin(Loop(p), ScriptsOf(c, p, r))
    /\ UNCHANGED matching

Launch(g) ==
    /\ \E t \in Tasks, p \in Players, r \in Rooms : Begin(g, ScriptsOf(t, p, r))
    /\ UNCHANGED matching

MatchWorker ==
    /\ matching > 0
    /\ matching' = matching - 1
    /\ \E p, q \in Players, r \in Rooms : Begin(Worker, Pairing(p, q, r))

-----------------------------------------------------------------------------
(* One operation                                                           *)

\* Can g do its next operation, or must it wait?
Ready(g) ==
    LET next == Head(script[g]) IN
    CASE next.op \in {"announce", "rlock", "read"} -> writer = Nobody
      [] next.op \in {"await", "write"}            -> readers = {}
      [] next.op \in {"lock", "pass", "broadcast"} -> holder[next.room] = Nobody
      [] next.op = "send"                          -> queue[next.player] < SendBuffer
      [] next.op = "put"                           -> matching < MatchQueueSize
      [] next.op = "take"                          -> matching > 0
      [] OTHER                                     -> TRUE

Manager(g, op) ==
    /\ writer' = CASE op = "announce"            -> g
                   [] op \in {"unlock", "write"} -> Nobody
                   [] OTHER                      -> writer
    /\ readers' = CASE op = "rlock"   -> readers \cup {g}
                    [] op = "runlock" -> readers \ {g}
                    [] OTHER          -> readers
    /\ UNCHANGED <<holder, queue, reading, matching>>

Room(g, next) ==
    /\ holder' = CASE next.op = "lock" -> [holder EXCEPT ![next.room] = g]
                   [] next.op = "free" -> [holder EXCEPT ![next.room] = Nobody]
                   [] OTHER            -> holder
    /\ UNCHANGED <<writer, readers, queue, reading, matching>>

\* The message of a player whose channel is full is dropped.
BroadcastToRoom ==
    /\ \E members \in SUBSET Players :
          queue' = [p \in Players |->
                       IF p \in members /\ queue[p] < SendBuffer THEN queue[p] + 1 ELSE queue[p]]
    /\ UNCHANGED <<lockVars, reading, matching>>

\* Mutant: a second message is put in without waiting.
SendTwice(p) ==
    /\ queue' = [queue EXCEPT ![p] = @ + 2]
    /\ UNCHANGED <<lockVars, reading, matching>>

SendResponse(p) ==
    /\ queue' = [queue EXCEPT ![p] = @ + 1]
    /\ UNCHANGED <<lockVars, reading, matching>>

Connected(p) ==
    /\ reading' = reading \cup {p}
    /\ UNCHANGED <<lockVars, queue, matching>>

Queued(change) ==
    /\ matching' = matching + change
    /\ UNCHANGED <<lockVars, queue, reading>>

Step(g) ==
    LET next == Head(script[g]) IN
    /\ ~Idle(g)
    /\ Ready(g)
    /\ script' = [script EXCEPT ![g] = Tail(@)]
    /\ CASE next.op \in {"lock", "free", "pass"} -> Room(g, next)
         [] next.op = "broadcast"                -> BroadcastToRoom
         [] next.op = "send"                     -> SendResponse(next.player)
         [] next.op = "attach"                   -> Connected(next.player)
         [] next.op = "put"                      -> Queued(1)
         [] next.op = "take"                     -> Queued(-1)
         [] OTHER                                -> Manager(g, next.op)

-----------------------------------------------------------------------------
(* The clients                                                             *)

WritePump(p) ==
    /\ p \in reading
    /\ queue[p] > 0
    /\ queue' = [queue EXCEPT ![p] = @ - 1]
    /\ UNCHANGED <<script, lockVars, reading, matching>>

\* A client stops reading, or its connection or pump is gone; it may go on.
Stall(p) ==
    /\ p \in reading
    /\ reading' = reading \ {p}
    /\ UNCHANGED <<script, lockVars, queue, matching>>

Resume(p) ==
    /\ p \notin reading
    /\ reading' = reading \cup {p}
    /\ UNCHANGED <<script, lockVars, queue, matching>>

Next ==
    \/ \E p \in Players : Dispatch(p) \/ WritePump(p) \/ Stall(p) \/ Resume(p)
    \/ \E g \in Helpers : Launch(g)
    \/ MatchWorker
    \/ \E g \in Goroutines : Step(g)

Spec == Init /\ [][Next]_vars

\* Locks and channels of Go serve those who wait in turn, and a pump delivers to a
\* client that reads.
Fairness ==
    /\ WF_vars(MatchWorker)
    /\ \A g \in Goroutines : SF_vars(Step(g))
    /\ \A p \in Players : SF_vars(WritePump(p))

FairSpec == Spec /\ Fairness
=============================================================================
