------------------------ MODULE RoomMembershipProofs ------------------------
(***************************************************************************)
(* Proofs about who is in which room, and about the deletion of rooms.     *)
(***************************************************************************)
EXTENDS RoomManagerProofs

(***************************************************************************)
(* Objects that something refers to exist: a session's RoomID names a room *)
(* that was opened, a goroutine past its lookup works on one, and so does  *)
(* a request that is late.                                                 *)
(***************************************************************************)
NamedRoomsExist ==
    \A p \in Players : roomOf[p] \in Rooms => status[roomOf[p]] # "none"

RoomsWorkedOnExist ==
    \A g \in Procs : pc[g] \notin {"idle", "seat"} => status[at[g]] # "none"

LEMMA RoomsStay ==
    ASSUME TypeOK, [Next]_vars, NEW r \in Rooms, status[r] # "none"
    PROVE  status'[r] # "none"
<1>. USE DEF TypeOK, roomVars
<1>1. ASSUME NEW l \in Loops, Command(l) PROVE status'[r] # "none"
    BY <1>1 DEF Command, Lookup, JoinLookup, CreateRoom, OpenRoom, Enqueue
<1>2. ASSUME NEW g \in Procs, Continue(g) PROVE status'[r] # "none"
    <2>1. CASE StartClaim(g) \/ Assign(g) \/ Depart(g)
        BY <2>1 DEF StartClaim, Assign, StartError, Depart
    <2>2. CASE UNCHANGED status
        BY <2>2
    <2>. QED
        BY <1>2, <2>1, <2>2
        DEF Continue, Join, LeaveRemove, ClearRoomID, DeleteLookup, DeleteStatus, DestroyAccepted,
            DestroyFault, DestroyPanics, Unlink, SelectCheck, ResetTeam, FillTeam, MarkReady,
            BattleCheck, InjectSide, SendAction
<1>3. ASSUME NEW q \in Rooms, Creating(q) PROVE status'[r] # "none"
    BY <1>3 DEF Creating, CreateAccepted, CreateFault, StartError
<1>4. CASE Matching
    BY <1>4 DEF Matching, TakePlayer, MatchCreate, OpenRoom, MatchJoinLookup
<1>5. ASSUME NEW d \in Requests, LateExecution(d[1], d[2]) PROVE status'[r] # "none"
    BY <1>5 DEF LateExecution
<1>6. CASE UNCHANGED vars
    BY <1>6 DEF vars
<1>. QED
    BY <1>1, <1>2, <1>3, <1>4, <1>5, <1>6 DEF Next

\* How a step can give a session a new RoomID.
LEMMA NewRoomID ==
    ASSUME TypeOK, [Next]_vars, NEW p \in Players, roomOf'[p] # roomOf[p]
    PROVE  \/ roomOf'[p] = NoRoom
           \/ /\ roomOf'[p] \in Rooms
              /\ status'[roomOf'[p]] # "none"
              /\ p \in members'[roomOf'[p]]
<1>. USE DEF TypeOK, sessionVars
<1>1. ASSUME NEW r \in Rooms, NEW q \in Players, OpenRoom(r, q)
      PROVE  roomOf'[p] = r /\ status'[r] # "none" /\ p \in members'[r]
    BY <1>1 DEF OpenRoom
<1>2. ASSUME NEW g \in Procs, Join(g)
      PROVE  roomOf'[p] = at[g] /\ status'[at[g]] # "none" /\ p \in members'[at[g]]
    <2>1. CanJoin(at[g], Player(g)) /\ p = Player(g)
        BY <1>2 DEF Join
    <2>2. /\ roomOf' = [roomOf EXCEPT ![p] = at[g]]
          /\ members' = [members EXCEPT ![at[g]] = @ \cup {p}]
          /\ status' = status /\ at[g] \in Rooms
        BY <1>2, <2>1 DEF Join
    <2>3. status[at[g]] = "Waiting"
        BY <2>1 DEF CanJoin
    <2>. QED
        BY <2>2, <2>3
<1>3. ASSUME NEW g \in Procs, ClearRoomID(g) PROVE roomOf'[p] = NoRoom
    BY <1>3 DEF ClearRoomID
<1>4. ASSUME NEW g \in Procs, Continue(g) PROVE Join(g) \/ ClearRoomID(g)
    BY <1>4
    DEF Continue, LeaveRemove, Depart, DeleteLookup, DeleteStatus, DestroyAccepted, DestroyFault,
        DestroyPanics, Unlink, StartClaim, Assign, SelectCheck, ResetTeam, FillTeam, MarkReady,
        BattleCheck, InjectSide, SendAction
<1>5. ASSUME NEW g \in Procs, Join(g) PROVE at[g] \in Rooms
    BY <1>5 DEF Join
<1>6. ASSUME NEW l \in Loops, Command(l)
      PROVE  \E r \in Rooms, q \in Players : OpenRoom(r, q)
    <2>1. PlayerOf[l] \in Players
        BY ConstantsAssumption
    <2>. QED
        BY <1>6, <2>1 DEF Command, Lookup, JoinLookup, CreateRoom, Enqueue
<1>7. CASE Matching
    <2>1. PICK r \in Rooms : MatchCreate(r)
        BY <1>7 DEF Matching, TakePlayer, MatchJoinLookup
    <2>2. pair[1] \in Players
        BY <2>1, PairElements DEF MatchCreate, PairComplete
    <2>. QED
        BY <1>1, <2>1, <2>2 DEF MatchCreate
<1>8. ~(\E r \in Rooms : Creating(r)) /\ ~(\E d \in Requests : LateExecution(d[1], d[2]))
    BY DEF Creating, CreateAccepted, CreateFault, LateExecution
<1>. QED
    BY <1>1, <1>2, <1>3, <1>4, <1>5, <1>6, <1>7, <1>8 DEF Next, vars

LEMMA NamedRoomsExistStep ==
    ASSUME TypeOK, NamedRoomsExist, [Next]_vars
    PROVE  NamedRoomsExist'
<1>. SUFFICES ASSUME NEW p \in Players, roomOf'[p] \in Rooms
              PROVE  status'[roomOf'[p]] # "none"
    BY DEF NamedRoomsExist
<1>1. CASE roomOf'[p] = roomOf[p]
    BY <1>1, RoomsStay DEF NamedRoomsExist
<1>2. CASE roomOf'[p] # roomOf[p]
    BY <1>2, NewRoomID, ConstantsAssumption
<1>. QED
    BY <1>1, <1>2

(***************************************************************************)
(* RoomIDImpliesMember.  A player is taken out of a room by LeaveRoom, and *)
(* the goroutine that does it is then at "clear" until the name is gone.   *)
(***************************************************************************)

\* How a player can stop being in a room.
LEMMA LosesSeat ==
    ASSUME TypeOK, NamedRoomsExist, [Next]_vars,
           NEW r \in Rooms, NEW p \in members[r], p \notin members'[r], status[r] # "none"
    PROVE  Clearing(p, r)'
<1>. USE DEF TypeOK, roomVars
<1>1. ASSUME NEW g \in Procs, LeaveRemove(g) PROVE Clearing(p, r)'
    <2>1. p = Player(g) /\ r = at[g] /\ g # Matcher
        BY <1>1 DEF LeaveRemove
    <2>2. pc'[g] \in {"clear", "clearLast"} /\ at'[g] = r
        BY <1>1, <2>1 DEF LeaveRemove, Goto
    <2>3. Player(g)' = p
        BY <2>1 DEF Player
    <2>. QED
        BY <2>2, <2>3 DEF Clearing
<1>2. ASSUME NEW q, NEW s \in Rooms, OpenRoom(s, q) PROVE FALSE
    BY <1>2 DEF OpenRoom
<1>3. ASSUME NEW g \in Procs, Continue(g) PROVE LeaveRemove(g)
    <2>1. ~Join(g)
        <3>1. SUFFICES ASSUME Join(g) PROVE FALSE
            OBVIOUS
        <3>2. members' = members \/ members' = [members EXCEPT ![at[g]] = @ \cup {Player(g)}]
            BY <3>1 DEF Join
        <3>. QED
            BY <3>2
    <2>. QED
        BY <1>3, <2>1
        DEF Continue, ClearRoomID, Depart, DeleteLookup, DeleteStatus, DestroyAccepted,
            DestroyFault, DestroyPanics, Unlink, StartClaim, Assign, SelectCheck, ResetTeam,
            FillTeam, MarkReady, BattleCheck, InjectSide, SendAction
<1>4. ASSUME NEW l \in Loops, Command(l) PROVE FALSE
    BY <1>2, <1>4 DEF Command, Lookup, JoinLookup, CreateRoom, Enqueue
<1>5. ~Matching
    BY <1>2 DEF Matching, TakePlayer, MatchCreate, MatchJoinLookup
<1>6. ~(\E s \in Rooms : Creating(s)) /\ ~(\E d \in Requests : LateExecution(d[1], d[2]))
    BY DEF Creating, CreateAccepted, CreateFault, LateExecution
<1>. QED
    BY <1>1, <1>3, <1>4, <1>5, <1>6 DEF Next, vars

\* A leave that was about to clear the name of a room still is, or has done it.
LEMMA ClearingEnds ==
    ASSUME TypeOK, [Next]_vars, NEW p \in Players, NEW r \in Rooms, Clearing(p, r)
    PROVE  Clearing(p, r)' \/ roomOf'[p] = NoRoom
<1>. USE DEF TypeOK, sessionVars, matchVars, procVars
<1>. PICK h \in Procs : pc[h] \in {"clear", "clearLast"} /\ at[h] = r /\ Player(h) = p
    BY DEF Clearing
<1>0. h # Matcher /\ Player(h)' = p
    BY DEF Player
<1>1. ASSUME pc'[h] = pc[h], at'[h] = at[h] PROVE Clearing(p, r)'
    BY <1>0, <1>1 DEF Clearing
<1>2. ASSUME NEW g \in Procs, g # h,
             \A i \in Procs \ {g} : pc'[i] = pc[i] /\ at'[i] = at[i]
      PROVE  Clearing(p, r)'
    BY <1>1, <1>2
<1>3. ASSUME NEW g \in Procs, Continue(g)
      PROVE  \A i \in Procs \ {g} : pc'[i] = pc[i] /\ at'[i] = at[i]
    BY <1>3
    DEF Continue, Goto, Return, Join, LeaveRemove, ClearRoomID, Depart, DeleteLookup,
        DeleteStatus, DestroyAccepted, DestroyFault, DestroyPanics, Unlink, StartClaim, Assign,
        SelectCheck, ResetTeam, FillTeam, MarkReady, BattleCheck, InjectSide, SendAction
<1>4. CASE Continue(h)
    <2>1. ClearRoomID(h)
        BY <1>4
        DEF Continue, Join, LeaveRemove, Depart, DeleteLookup, DeleteStatus, DestroyAccepted,
            DestroyFault, DestroyPanics, Unlink, StartClaim, Assign, SelectCheck, ResetTeam,
            FillTeam, MarkReady, BattleCheck, InjectSide, SendAction
    <2>. QED
        BY <2>1 DEF ClearRoomID
<1>5. ASSUME NEW l \in Loops, Command(l)
      PROVE  l # h /\ \A i \in Procs \ {l} : pc'[i] = pc[i] /\ at'[i] = at[i]
    BY <1>5 DEF Command, Lookup, JoinLookup, CreateRoom, Enqueue, Enter
<1>6. CASE Matching
    BY <1>0, <1>1, <1>6
    DEF Matching, TakePlayer, MatchCreate, MatchJoinLookup, Enter, Return, Goto
<1>7. ASSUME NEW s \in Rooms, Creating(s) PROVE Clearing(p, r)'
    BY <1>1, <1>7 DEF Creating, CreateAccepted, CreateFault
<1>8. ASSUME NEW d \in Requests, LateExecution(d[1], d[2]) PROVE Clearing(p, r)'
    BY <1>1, <1>8 DEF LateExecution
<1>. QED
    BY <1>1, <1>2, <1>3, <1>4, <1>5, <1>6, <1>7, <1>8 DEF Next, vars

LEMMA RoomIDStep ==
    ASSUME TypeOK, NamedRoomsExist, RoomIDImpliesMember, [Next]_vars
    PROVE  RoomIDImpliesMember'
<1>. SUFFICES ASSUME NEW p \in Players, NEW r \in Rooms, roomOf'[p] = r
              PROVE  p \in members'[r] \/ Clearing(p, r)'
    BY DEF RoomIDImpliesMember
<1>1. CASE roomOf[p] # r
    BY <1>1, NewRoomID, ConstantsAssumption
<1>2. CASE roomOf[p] = r /\ p \in members[r]
    BY <1>2, LosesSeat DEF NamedRoomsExist
<1>3. CASE roomOf[p] = r /\ Clearing(p, r)
    BY <1>3, ClearingEnds, ConstantsAssumption
<1>. QED
    BY <1>1, <1>2, <1>3 DEF RoomIDImpliesMember

\* A session never names a room its player is not in, but for the moment
\* between the two halves of a LeaveRoom, however many loops, timers and
\* workers act for the player.
THEOREM NamedRoomHasPlayer == Spec => []RoomIDImpliesMember
<1>1. Init => NamedRoomsExist /\ RoomIDImpliesMember
    BY ConstantsAssumption DEF Init, NamedRoomsExist, RoomIDImpliesMember
<1>2. TypeOK /\ NamedRoomsExist /\ RoomIDImpliesMember /\ [Next]_vars
        => NamedRoomsExist' /\ RoomIDImpliesMember'
    BY NamedRoomsExistStep, RoomIDStep
<1>. QED
    BY <1>1, <1>2, TypeCorrect, PTL DEF Spec

(***************************************************************************)
(* Rooms that were left empty.                                             *)
(***************************************************************************)

\* How a room comes to be listed, and to be without players.
LEMMA NewlyListed ==
    ASSUME TypeOK, [Next]_vars, NEW r \in rooms', r \notin rooms
    PROVE  r \in Rooms /\ status[r] = "none" /\ status'[r] = "Waiting" /\ members'[r] # {}
<1>. USE DEF TypeOK
<1>1. ASSUME NEW s \in Rooms, NEW q, OpenRoom(s, q)
      PROVE  r \in Rooms /\ status[r] = "none" /\ status'[r] = "Waiting" /\ members'[r] # {}
    BY <1>1 DEF OpenRoom
<1>2. ASSUME NEW l \in Loops, Command(l) PROVE \E s \in Rooms, q \in Players : OpenRoom(s, q)
    <2>1. PlayerOf[l] \in Players
        BY ConstantsAssumption
    <2>. QED
        BY <1>2, <2>1 DEF Command, Lookup, JoinLookup, CreateRoom, Enqueue
<1>3. ASSUME NEW g \in Procs, Continue(g) PROVE FALSE
    BY <1>3
    DEF Continue, Join, LeaveRemove, ClearRoomID, Depart, DeleteLookup, DeleteStatus,
        DestroyAccepted, DestroyFault, DestroyPanics, Unlink, StartClaim, Assign, SelectCheck,
        ResetTeam, FillTeam, MarkReady, BattleCheck, InjectSide, SendAction
<1>4. CASE Matching
    BY <1>1, <1>4 DEF Matching, TakePlayer, MatchCreate, MatchJoinLookup
<1>5. ~(\E s \in Rooms : Creating(s)) /\ ~(\E d \in Requests : LateExecution(d[1], d[2]))
    BY DEF Creating, CreateAccepted, CreateFault, LateExecution
<1>. QED
    BY <1>1, <1>2, <1>3, <1>4, <1>5 DEF Next, vars

LEMMA NewlyEmpty ==
    ASSUME TypeOK, [Next]_vars, NEW r \in Rooms, members[r] # {}, members'[r] = {}
    PROVE  \E g \in Procs : Dooms(g, r)'
<1>. USE DEF TypeOK, roomVars
<1>1. ASSUME NEW g \in Procs, LeaveRemove(g) PROVE Dooms(g, r)'
    <2>1. r = at[g] /\ NobodyElse(r, Player(g))
        BY <1>1 DEF LeaveRemove, NobodyElse
    <2>. QED
        BY <1>1, <2>1 DEF LeaveRemove, Goto, Dooms
<1>2. ASSUME NEW q, NEW s \in Rooms, OpenRoom(s, q) PROVE FALSE
    BY <1>2 DEF OpenRoom
<1>3. ASSUME NEW g \in Procs, Continue(g) PROVE LeaveRemove(g)
    <2>1. ~Join(g)
        <3>1. SUFFICES ASSUME Join(g) PROVE FALSE
            OBVIOUS
        <3>2. members' = members \/ members' = [members EXCEPT ![at[g]] = @ \cup {Player(g)}]
            BY <3>1 DEF Join
        <3>3. members[r] \subseteq members'[r]
            <4>1. CASE members' = members
                BY <4>1
            <4>2. CASE members' = [members EXCEPT ![at[g]] = @ \cup {Player(g)}]
                BY <4>2
            <4>. QED
                BY <3>2, <4>1, <4>2
        <3>. QED
            BY <3>3
    <2>. QED
        BY <1>3, <2>1
        DEF Continue, ClearRoomID, Depart, DeleteLookup, DeleteStatus, DestroyAccepted,
            DestroyFault, DestroyPanics, Unlink, StartClaim, Assign, SelectCheck, ResetTeam,
            FillTeam, MarkReady, BattleCheck, InjectSide, SendAction
<1>4. ASSUME NEW l \in Loops, Command(l) PROVE FALSE
    BY <1>2, <1>4 DEF Command, Lookup, JoinLookup, CreateRoom, Enqueue
<1>5. ~Matching
    BY <1>2 DEF Matching, TakePlayer, MatchCreate, MatchJoinLookup
<1>6. ~(\E s \in Rooms : Creating(s)) /\ ~(\E d \in Requests : LateExecution(d[1], d[2]))
    BY DEF Creating, CreateAccepted, CreateFault, LateExecution
<1>. QED
    BY <1>1, <1>3, <1>4, <1>5, <1>6 DEF Next, vars

\* Steps of others leave the label and the room of a goroutine alone.
LEMMA OthersStay ==
    ASSUME TypeOK, [Next]_vars, NEW h \in Procs, pc[h] \notin {"idle", "seat"}, h # Matcher
    PROVE  Continue(h) \/ (pc'[h] = pc[h] /\ at'[h] = at[h])
<1>. USE DEF TypeOK, procVars
<1>1. ASSUME NEW g \in Procs, Continue(g)
      PROVE  \A i \in Procs \ {g} : pc'[i] = pc[i] /\ at'[i] = at[i]
    BY <1>1
    DEF Continue, Goto, Return, Join, LeaveRemove, ClearRoomID, Depart, DeleteLookup,
        DeleteStatus, DestroyAccepted, DestroyFault, DestroyPanics, Unlink, StartClaim, Assign,
        SelectCheck, ResetTeam, FillTeam, MarkReady, BattleCheck, InjectSide, SendAction
<1>2. ASSUME NEW l \in Loops, Command(l) PROVE pc'[h] = pc[h] /\ at'[h] = at[h]
    BY <1>2 DEF Command, Lookup, JoinLookup, CreateRoom, Enqueue, Enter
<1>3. CASE Matching
    BY <1>3 DEF Matching, TakePlayer, MatchCreate, MatchJoinLookup, Enter, Return, Goto
<1>4. ASSUME NEW s \in Rooms, Creating(s) PROVE pc'[h] = pc[h] /\ at'[h] = at[h]
    BY <1>4 DEF Creating, CreateAccepted, CreateFault
<1>5. ASSUME NEW d \in Requests, LateExecution(d[1], d[2]) PROVE pc'[h] = pc[h] /\ at'[h] = at[h]
    BY <1>5 DEF LateExecution
<1>. QED
    BY <1>1, <1>2, <1>3, <1>4, <1>5 DEF Next, vars

\* What is left behind by a panic stays marked as that.
LEMMA StrandedStay ==
    ASSUME [Next]_vars
    PROVE  stranded \subseteq stranded'
<1>. USE DEF engineVars
<1>1. ASSUME NEW l \in Loops, Command(l) PROVE stranded' = stranded
    BY <1>1 DEF Command, Lookup, JoinLookup, CreateRoom, OpenRoom, Enqueue
<1>2. ASSUME NEW g \in Procs, Continue(g) PROVE stranded \subseteq stranded'
    <2>1. CASE DestroyPanics(g)
        BY <2>1 DEF DestroyPanics
    <2>2. CASE UNCHANGED stranded
        BY <2>2
    <2>. QED
        BY <1>2, <2>1, <2>2
        DEF Continue, Join, LeaveRemove, ClearRoomID, Depart, DeleteLookup, DeleteStatus,
            DestroyAccepted, DestroyFault, Unlink, StartClaim, Assign, SelectCheck, ResetTeam,
            FillTeam, MarkReady, BattleCheck, InjectSide, SendAction
<1>3. ASSUME NEW s \in Rooms, Creating(s) PROVE stranded' = stranded
    BY <1>3 DEF Creating, CreateAccepted, CreateFault
<1>4. CASE Matching
    BY <1>4 DEF Matching, TakePlayer, MatchCreate, OpenRoom, MatchJoinLookup
<1>5. ASSUME NEW d \in Requests, LateExecution(d[1], d[2]) PROVE stranded' = stranded
    BY <1>5 DEF LateExecution
<1>. QED
    BY <1>1, <1>2, <1>3, <1>4, <1>5 DEF Next, vars

\* Whoever is on the way to deleting a room stays on it until it is unlisted,
\* or the panic of a call ends it.
LEMMA DoomIsKept ==
    ASSUME TypeOK, [Next]_vars, NEW r \in Rooms, NEW h \in Procs, Dooms(h, r), r \in rooms
    PROVE  Dooms(h, r)' \/ r \notin rooms' \/ r \in stranded'
<1>. USE DEF TypeOK, Dooms
<1>1. CASE pc'[h] = pc[h] /\ at'[h] = at[h]
    BY <1>1
<1>2. CASE Continue(h)
    BY <1>2
    DEF Continue, Goto, Return, Join, LeaveRemove, ClearRoomID, Depart, DeleteLookup,
        DeleteStatus, DestroyAccepted, DestroyFault, DestroyPanics, Unlink, StartClaim, Assign,
        SelectCheck, ResetTeam, FillTeam, MarkReady, BattleCheck, InjectSide, SendAction
<1>. QED
    BY <1>1, <1>2, OthersStay

LEMMA EmptyRoomsStep ==
    ASSUME TypeOK, EmptyRoomsAreBeingDeleted, [Next]_vars
    PROVE  EmptyRoomsAreBeingDeleted'
<1>. SUFFICES ASSUME NEW r \in rooms', r \notin stranded', members'[r] = {}
              PROVE  \E g \in Procs : Dooms(g, r)'
    BY DEF EmptyRoomsAreBeingDeleted, Dooms
<1>1. r \in rooms /\ r \in Rooms /\ r \notin stranded
    BY NewlyListed, StrandedStay DEF TypeOK
<1>2. CASE members[r] # {}
    BY <1>1, <1>2, NewlyEmpty
<1>3. CASE members[r] = {}
    <2>1. PICK h \in Procs : Dooms(h, r)
        BY <1>1, <1>3 DEF EmptyRoomsAreBeingDeleted, Dooms
    <2>. QED
        BY <1>1, <2>1, DoomIsKept
<1>. QED
    BY <1>2, <1>3

\* No room without players is forgotten: the goroutine that left it last is
\* still on its way to deleting it, though it lets go of both locks five times,
\* unless its call of a node that was deleted has panicked.
THEOREM EmptyRoomsAreNotForgotten == Spec => []EmptyRoomsAreBeingDeleted
<1>1. Init => EmptyRoomsAreBeingDeleted
    BY DEF Init, EmptyRoomsAreBeingDeleted
<1>2. TypeOK /\ EmptyRoomsAreBeingDeleted /\ [Next]_vars => EmptyRoomsAreBeingDeleted'
    BY EmptyRoomsStep
<1>. QED
    BY <1>1, <1>2, TypeCorrect, PTL DEF Spec

(***************************************************************************)
(* Battles without an engine.                                              *)
(***************************************************************************)

\* A late request to destroy a room is about one that somebody is deleting, or
\* began to delete when the panic of another attempt ended that.
LateDestroysAreOfDeletions ==
    \A r \in Rooms : <<"destroy", r>> \in late =>
        status[r] # "none" /\ (r \in rooms \ stranded => Deleting(r))

LEMMA RoomsWorkedOnExistStep ==
    ASSUME TypeOK, RoomsWorkedOnExist, [Next]_vars
    PROVE  RoomsWorkedOnExist'
<1>. SUFFICES ASSUME NEW h \in Procs, pc'[h] \notin {"idle", "seat"}
              PROVE  at'[h] \in Rooms /\ status'[at'[h]] # "none"
    BY DEF RoomsWorkedOnExist
<1>. USE DEF TypeOK, procVars
<1>. DEFINE Stays == pc'[h] = pc[h] /\ at'[h] = at[h]
            GoesOn == pc[h] \notin {"idle", "seat"} /\ at'[h] = at[h]
<1>1. CASE Stays \/ GoesOn
    BY <1>1, RoomsStay DEF RoomsWorkedOnExist
<1>2. CASE at'[h] \in rooms
    BY <1>2, RoomsStay
<1>3. ASSUME NEW g \in Procs, Continue(g) PROVE Stays \/ GoesOn
    BY <1>3
    DEF Continue, Goto, Return, Join, LeaveRemove, ClearRoomID, Depart, DeleteLookup,
        DeleteStatus, DestroyAccepted, DestroyFault, DestroyPanics, Unlink, StartClaim, Assign,
        SelectCheck, ResetTeam, FillTeam, MarkReady, BattleCheck, InjectSide, SendAction
<1>4. ASSUME NEW l \in Loops, Command(l) PROVE Stays \/ at'[h] \in rooms
    BY <1>4 DEF Command, Lookup, JoinLookup, CreateRoom, Enqueue, Enter
<1>5. ASSUME Matching PROVE Stays \/ at'[h] \in rooms
    <2>1. CASE TakePlayer
        BY <2>1 DEF TakePlayer
    <2>2. ASSUME NEW s \in Rooms, MatchCreate(s) PROVE Stays
        BY <2>2 DEF MatchCreate, Goto
    <2>3. CASE MatchJoinLookup
        BY <2>3 DEF MatchJoinLookup, Enter, Return
    <2>. QED
        BY <1>5, <2>1, <2>2, <2>3 DEF Matching
<1>6. ASSUME NEW s \in Rooms, Creating(s) PROVE Stays
    BY <1>6 DEF Creating, CreateAccepted, CreateFault
<1>7. ASSUME NEW d \in Requests, LateExecution(d[1], d[2]) PROVE Stays
    BY <1>7 DEF LateExecution
<1>. QED
    BY <1>1, <1>2, <1>3, <1>4, <1>5, <1>6, <1>7 DEF Next, vars

\* A destroyer stays one until the room is unlisted, or a call panics.
LEMMA DeletingIsKept ==
    ASSUME TypeOK, [Next]_vars, NEW r \in Rooms, Deleting(r), r \in rooms
    PROVE  Deleting(r)' \/ r \notin rooms' \/ r \in stranded'
<1>. USE DEF TypeOK, Deleting
<1>. PICK h \in Procs : pc[h] \in {"destroy", "unlink"} /\ at[h] = r
    OBVIOUS
<1>1. CASE pc'[h] = pc[h] /\ at'[h] = at[h]
    BY <1>1
<1>2. CASE Continue(h)
    BY <1>2
    DEF Continue, Goto, Return, Join, LeaveRemove, ClearRoomID, Depart, DeleteLookup,
        DeleteStatus, DestroyAccepted, DestroyFault, DestroyPanics, Unlink, StartClaim, Assign,
        SelectCheck, ResetTeam, FillTeam, MarkReady, BattleCheck, InjectSide, SendAction
<1>. QED
    BY <1>1, <1>2, OthersStay

\* How a request to destroy a room comes to be late.
LEMMA NewlyLate ==
    ASSUME TypeOK, [Next]_vars, NEW r \in Rooms, <<"destroy", r>> \in late', <<"destroy", r>> \notin late
    PROVE  Deleting(r) /\ Deleting(r)' /\ \E g \in Procs : pc[g] = "destroy" /\ at[g] = r
<1>. USE DEF TypeOK, engineVars
<1>1. ASSUME NEW g \in Procs, NEW f \in Faults, DestroyFault(g, f)
      PROVE  Deleting(r) /\ Deleting(r)' /\ pc[g] = "destroy" /\ at[g] = r
    <2>1. at[g] = r /\ pc[g] = "destroy"
        BY <1>1 DEF DestroyFault, EngineAfter
    <2>2. pc'[g] \in {"destroy", "unlink"} /\ at' = at
        BY <1>1 DEF DestroyFault, Goto
    <2>. QED
        BY <2>1, <2>2 DEF Deleting
<1>2. ASSUME NEW g \in Procs, Continue(g) PROVE \E f \in Faults : DestroyFault(g, f)
    BY <1>2
    DEF Continue, Join, LeaveRemove, ClearRoomID, Depart, DeleteLookup, DeleteStatus,
        DestroyAccepted, DestroyPanics, Unlink, StartClaim, Assign, SelectCheck, ResetTeam,
        FillTeam, MarkReady, BattleCheck, InjectSide, SendAction
<1>3. ASSUME NEW l \in Loops, Command(l) PROVE FALSE
    BY <1>3 DEF Command, Lookup, JoinLookup, CreateRoom, OpenRoom, Enqueue
<1>4. ~Matching
    BY DEF Matching, TakePlayer, MatchCreate, OpenRoom, MatchJoinLookup
<1>5. ASSUME NEW s \in Rooms, Creating(s) PROVE FALSE
    BY <1>5 DEF Creating, CreateAccepted, CreateFault, EngineAfter
<1>6. ~\E d \in Requests : LateExecution(d[1], d[2])
    BY DEF LateExecution
<1>. QED
    BY <1>1, <1>2, <1>3, <1>4, <1>5, <1>6 DEF Next, vars

LEMMA LateDestroysStep ==
    ASSUME TypeOK, RoomsWorkedOnExist, LateDestroysAreOfDeletions, [Next]_vars
    PROVE  LateDestroysAreOfDeletions'
<1>. SUFFICES ASSUME NEW r \in Rooms, <<"destroy", r>> \in late'
              PROVE  status'[r] # "none" /\ (r \in rooms' \ stranded' => Deleting(r)')
    BY DEF LateDestroysAreOfDeletions
<1>1. CASE <<"destroy", r>> \notin late
    BY <1>1, NewlyLate, RoomsStay DEF RoomsWorkedOnExist
<1>2. CASE <<"destroy", r>> \in late
    <2>1. status[r] # "none" /\ (r \in rooms \ stranded => Deleting(r))
        BY <1>2 DEF LateDestroysAreOfDeletions
    <2>. QED
        BY <2>1, RoomsStay, NewlyListed, DeletingIsKept, StrandedStay
<1>. QED
    BY <1>1, <1>2

\* How the engine ceases to host a room.
LEMMA LosesHosting ==
    ASSUME TypeOK, [Next]_vars, NEW r \in hosted, r \notin hosted'
    PROVE  Deleting(r) \/ <<"destroy", r>> \in late
<1>. USE DEF TypeOK, engineVars
<1>1. ASSUME NEW g \in Procs, Continue(g) PROVE Deleting(r)
    <2>1. pc[g] = "destroy" /\ at[g] = r
        BY <1>1
        DEF Continue, Join, LeaveRemove, ClearRoomID, Depart, DeleteLookup, DeleteStatus,
            DestroyAccepted, DestroyFault, DestroyPanics, EngineAfter, Unlink, StartClaim, Assign,
            SelectCheck, ResetTeam, FillTeam, MarkReady, BattleCheck, InjectSide, SendAction
    <2>. QED
        BY <2>1 DEF Deleting
<1>2. ASSUME NEW l \in Loops, Command(l) PROVE FALSE
    BY <1>2 DEF Command, Lookup, JoinLookup, CreateRoom, OpenRoom, Enqueue
<1>3. ~Matching
    BY DEF Matching, TakePlayer, MatchCreate, OpenRoom, MatchJoinLookup
<1>4. ASSUME NEW s \in Rooms, Creating(s) PROVE FALSE
    BY <1>4 DEF Creating, CreateAccepted, CreateFault, EngineAfter
<1>5. ASSUME NEW d \in Requests, LateExecution(d[1], d[2]) PROVE <<"destroy", r>> \in late
    BY <1>5 DEF LateExecution, Requests
<1>. QED
    BY <1>1, <1>2, <1>3, <1>4, <1>5 DEF Next, vars

\* How a battle comes to be on with no start under way: the engine accepts it.
LEMMA NewlyConfirmed ==
    ASSUME TypeOK, [Next]_vars, NEW r \in Rooms,
           status'[r] = "Playing", ~StartInFlight(r)',
           status[r] # "Playing" \/ StartInFlight(r)
    PROVE  r \in hosted'
<1>. USE DEF TypeOK, roomVars, engineVars, procVars
<1>. DEFINE StartsStay == \A g \in Procs : Starting(g, r) => Starting(g, r)'
\* A step that ends no start, and after which r is Playing only if it was.
<1>1. ~(/\ creating' = creating
        /\ status'[r] = "Playing" => status[r] = "Playing"
        /\ StartsStay)
    BY DEF StartInFlight
<1>2. ASSUME NEW l \in Loops, Command(l) PROVE FALSE
    <2>1. creating' = creating /\ (status'[r] = status[r] \/ status'[r] = "Waiting")
        BY <1>2 DEF Command, Lookup, JoinLookup, CreateRoom, OpenRoom, Enqueue
    <2>2. StartsStay
        BY <1>2 DEF Command, Lookup, JoinLookup, CreateRoom, OpenRoom, Enqueue, Enter, Starting
    <2>. QED
        BY <1>1, <2>1, <2>2
<1>3. ASSUME NEW g \in Procs, Continue(g) PROVE FALSE
    <2>1. ASSUME pc[g] # "assign" PROVE StartsStay /\ creating' = creating
        BY <1>3, <2>1
        DEF Starting, Continue, Goto, Return, Join, LeaveRemove, ClearRoomID, Depart,
            DeleteLookup, DeleteStatus, DestroyAccepted, DestroyFault, DestroyPanics, Unlink,
            StartClaim, Assign, SelectCheck, ResetTeam, FillTeam, MarkReady, BattleCheck,
            InjectSide, SendAction
    <2>2. CASE pc[g] = "assign"
        <3>1. Assign(g)
            BY <1>3, <2>2
            DEF Continue, Join, LeaveRemove, ClearRoomID, Depart, DeleteLookup, DeleteStatus,
                DestroyAccepted, DestroyFault, DestroyPanics, Unlink, StartClaim, SelectCheck,
                ResetTeam, FillTeam, MarkReady, BattleCheck, InjectSide, SendAction
        <3>2. CASE at[g] = r
            BY <3>1, <3>2, ConstantsAssumption DEF Assign, StartError, StartInFlight
        <3>3. CASE at[g] # r
            <4>1. StartsStay
                BY <3>1, <3>3 DEF Starting, Assign, Return
            <4>2. creating'[r] = creating[r] /\ status'[r] = status[r]
                BY <3>1, <3>3 DEF Assign, StartError
            <4>. QED
                BY <4>1, <4>2 DEF StartInFlight
        <3>. QED
            BY <3>2, <3>3
    <2>3. CASE StartClaim(g)
        <3>1. CASE CanStart(at[g]) /\ at[g] = r
            <4>1. Starting(g, r)'
                BY <2>3, <3>1 DEF StartClaim, Goto, Starting
            <4>. QED
                BY <4>1 DEF StartInFlight
        <3>2. CASE ~(CanStart(at[g]) /\ at[g] = r)
            <4>1. status'[r] = status[r]
                BY <2>3, <3>2 DEF StartClaim
            <4>. QED
                BY <1>1, <2>1, <2>3, <4>1 DEF StartClaim
        <3>. QED
            BY <3>1, <3>2
    <2>4. CASE pc[g] # "assign" /\ ~StartClaim(g)
        <3>1. status'[r] = "Playing" => status[r] = "Playing"
            BY <1>3, <2>4
            DEF Continue, Join, LeaveRemove, ClearRoomID, Depart, DeleteLookup, DeleteStatus,
                DestroyAccepted, DestroyFault, DestroyPanics, Unlink, Assign, SelectCheck,
                ResetTeam, FillTeam, MarkReady, BattleCheck, InjectSide, SendAction
        <3>. QED
            BY <1>1, <2>1, <2>4, <3>1
    <2>. QED
        BY <2>2, <2>3, <2>4
<1>4. ASSUME NEW q \in Rooms, Creating(q) PROVE r \in hosted'
    <2>1. pc' = pc /\ at' = at /\ (q # r => creating'[r] = creating[r])
        BY <1>4 DEF Creating, CreateAccepted, CreateFault
    <2>2. status'[r] = "Playing" => status[r] = "Playing"
        BY <1>4 DEF Creating, CreateAccepted, CreateFault, StartError
    <2>3. q = r
        BY <2>1, <2>2 DEF StartInFlight, Starting
    <2>4. ~\E f \in Faults : CreateFault(r, f)
        BY DEF CreateFault, StartError, StartInFlight
    <2>. QED
        BY <1>4, <2>3, <2>4 DEF Creating, CreateAccepted
<1>5. ~Matching
    <2>1. SUFFICES ASSUME Matching PROVE FALSE
        OBVIOUS
    <2>2. creating' = creating /\ (status'[r] = status[r] \/ status'[r] = "Waiting")
        BY <2>1 DEF Matching, TakePlayer, MatchCreate, OpenRoom, MatchJoinLookup
    <2>3. StartsStay
        BY <2>1
        DEF Matching, TakePlayer, MatchCreate, MatchJoinLookup, Enter, Return, Goto, Starting
    <2>. QED
        BY <1>1, <2>2, <2>3
<1>6. ASSUME NEW d \in Requests, LateExecution(d[1], d[2]) PROVE FALSE
    BY <1>1, <1>6 DEF LateExecution, Starting
<1>7. ~UNCHANGED vars
    BY <1>1 DEF vars, Starting
<1>. QED
    BY <1>2, <1>3, <1>4, <1>5, <1>6, <1>7 DEF Next

LEMMA PlayingIsBackedStep ==
    ASSUME TypeOK, RoomsWorkedOnExist, LateDestroysAreOfDeletions, PlayingIsBacked, [Next]_vars
    PROVE  PlayingIsBacked'
<1>. SUFFICES ASSUME NEW r \in rooms', r \notin stranded', status'[r] = "Playing",
                     ~StartInFlight(r)'
              PROVE  r \in hosted' \/ Deleting(r)'
    BY DEF PlayingIsBacked
<1>1. r \in rooms /\ r \in Rooms /\ r \notin stranded
    BY NewlyListed, StrandedStay DEF TypeOK
<1>2. CASE Deleting(r)
    BY <1>1, <1>2, DeletingIsKept
<1>3. CASE ~Deleting(r) /\ status[r] = "Playing" /\ ~StartInFlight(r)
    <2>1. r \in hosted /\ <<"destroy", r>> \notin late
        BY <1>1, <1>3 DEF PlayingIsBacked, LateDestroysAreOfDeletions
    <2>. QED
        BY <1>3, <2>1, LosesHosting
<1>4. CASE status[r] # "Playing" \/ StartInFlight(r)
    BY <1>1, <1>4, NewlyConfirmed
<1>. QED
    BY <1>2, <1>3, <1>4

\* While the engine does not fail, no listed room is in a battle that no
\* engine runs, unless its last player has left: a start gives up only by
\* reopening the room, and the engine is told to destroy a room, in time or
\* late, only by a goroutine that unlists it before it does anything else, but
\* for the one that a call of a deleted node makes panic.
THEOREM BattlesAreBacked == Spec => []PlayingIsBacked
<1>. DEFINE IInv == RoomsWorkedOnExist /\ LateDestroysAreOfDeletions /\ PlayingIsBacked
<1>1. Init => IInv
    BY DEF Init, RoomsWorkedOnExist, LateDestroysAreOfDeletions, PlayingIsBacked
<1>2. TypeOK /\ IInv /\ [Next]_vars => IInv'
    BY RoomsWorkedOnExistStep, LateDestroysStep, PlayingIsBackedStep
<1>. QED
    BY <1>1, <1>2, TypeCorrect, PTL DEF Spec
=============================================================================
