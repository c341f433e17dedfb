-------------------------- MODULE RoomSeatsProofs --------------------------
(***************************************************************************)
(* Proofs about the seats of rooms: how many are taken, and whether a      *)
(* player keeps the seat it was checked for until it uses it.              *)
(***************************************************************************)
EXTENDS RoomRefinementProofs, FiniteSetTheorems

USE DEF Procs

(***************************************************************************)
(* How a step can change who sits in a room, and the copy of them.         *)
(***************************************************************************)
LEMMA MembersChange ==
    ASSUME TypeOK, [Next]_vars, NEW r \in Rooms
    PROVE  \/ members'[r] \subseteq members[r]
           \/ status[r] = "none" /\ \E p : members'[r] = {p}
           \/ \E p : CanJoin(r, p) /\ members'[r] = members[r] \cup {p}
<1>. USE DEF TypeOK, roomVars
<1>1. CASE UNCHANGED members
    BY <1>1
<1>2. ASSUME NEW q \in Rooms, NEW p, OpenRoom(q, p)
      PROVE  members'[r] = members[r] \/ (status[r] = "none" /\ members'[r] = {p})
    BY <1>2 DEF OpenRoom
<1>3. ASSUME NEW g \in Procs, Join(g)
      PROVE  members'[r] = members[r]
             \/ (CanJoin(r, Player(g)) /\ members'[r] = members[r] \cup {Player(g)})
    BY <1>3 DEF Join
<1>4. ASSUME NEW g \in Procs, LeaveRemove(g) PROVE members'[r] \subseteq members[r]
    BY <1>4 DEF LeaveRemove
<1>5. ASSUME NEW g \in Procs, Continue(g), ~Join(g), ~LeaveRemove(g) PROVE UNCHANGED members
    BY <1>5
    DEF Continue, ClearRoomID, Depart, DeleteLookup, DeleteStatus, DestroyAccepted, DestroyFault,
        DestroyPanics, Unlink, StartClaim, Assign, SelectCheck, ResetTeam, FillTeam, MarkReady,
        BattleCheck, InjectSide, SendAction
<1>6. ASSUME NEW l \in Loops, Command(l)
      PROVE  UNCHANGED members \/ \E q \in Rooms : OpenRoom(q, PlayerOf[l])
    BY <1>6 DEF Command, Lookup, JoinLookup, CreateRoom, Enqueue
<1>7. CASE Matching
    BY <1>1, <1>2, <1>7 DEF Matching, TakePlayer, MatchCreate, MatchJoinLookup
<1>8. ASSUME NEW q \in Rooms, Creating(q) PROVE UNCHANGED members
    BY <1>8 DEF Creating, CreateAccepted, CreateFault
<1>9. ASSUME NEW d \in Requests, LateExecution(d[1], d[2]) PROVE UNCHANGED members
    BY <1>9 DEF LateExecution
<1>10. CASE UNCHANGED vars
    BY <1>1, <1>10 DEF vars
<1>. QED
    BY <1>1, <1>2, <1>3, <1>4, <1>5, <1>6, <1>7, <1>8, <1>9, <1>10 DEF Next

LEMMA LineupChange ==
    ASSUME TypeOK, [Next]_vars, NEW r \in Rooms
    PROVE  lineup'[r] = lineup[r] \/ (lineup'[r] = members[r] /\ members' = members)
<1>. USE DEF TypeOK, roomVars
<1>1. ASSUME NEW g \in Procs, StartClaim(g)
      PROVE  lineup'[r] = lineup[r] \/ (lineup'[r] = members[r] /\ members' = members)
    BY <1>1 DEF StartClaim
<1>2. ASSUME NEW g \in Procs, Continue(g), ~StartClaim(g) PROVE UNCHANGED lineup
    BY <1>2
    DEF Continue, Join, LeaveRemove, ClearRoomID, Depart, DeleteLookup, DeleteStatus,
        DestroyAccepted, DestroyFault, DestroyPanics, Unlink, Assign, SelectCheck, ResetTeam,
        FillTeam, MarkReady, BattleCheck, InjectSide, SendAction
<1>3. ASSUME NEW l \in Loops, Command(l) PROVE UNCHANGED lineup
    BY <1>3 DEF Command, Lookup, JoinLookup, CreateRoom, OpenRoom, Enqueue
<1>4. CASE Matching
    BY <1>4 DEF Matching, TakePlayer, MatchCreate, OpenRoom, MatchJoinLookup
<1>5. ASSUME NEW q \in Rooms, Creating(q) PROVE UNCHANGED lineup
    BY <1>5 DEF Creating, CreateAccepted, CreateFault
<1>6. ASSUME NEW d \in Requests, LateExecution(d[1], d[2]) PROVE UNCHANGED lineup
    BY <1>6 DEF LateExecution
<1>. QED
    BY <1>1, <1>2, <1>3, <1>4, <1>5, <1>6 DEF Next, vars

(***************************************************************************)
(* How many seats are taken.  The players of a room, and the copy          *)
(* StartGame made of them, are finite sets no larger than the room: who    *)
(* enters counts the seats in the same step.                               *)
(***************************************************************************)
Fits(ps) == IsFiniteSet(ps) /\ Cardinality(ps) <= MaxPlayersPerRoom

RoomsFit == \A r \in Rooms : Fits(members[r]) /\ Fits(lineup[r])

LEMMA SmallSetsFit == Fits({}) /\ \A p : Fits({p})
<1>1. 0 <= MaxPlayersPerRoom /\ 1 <= MaxPlayersPerRoom
    BY ConstantsAssumption
<1>2. Fits({})
    BY <1>1, FS_EmptySet DEF Fits
<1>3. ASSUME NEW p PROVE Fits({p})
    BY <1>1, FS_Singleton, Zenon DEF Fits
<1>. QED
    BY <1>2, <1>3

LEMMA FewerFit ==
    ASSUME NEW ps, Fits(ps), NEW qs \in SUBSET ps
    PROVE  Fits(qs)
<1>1. IsFiniteSet(qs) /\ Cardinality(qs) <= Cardinality(ps)
    BY FS_Subset DEF Fits
<1>2. Cardinality(qs) \in Nat /\ Cardinality(ps) \in Nat
    BY <1>1, FS_CardinalityType DEF Fits
<1>. QED
    BY <1>1, <1>2, ConstantsAssumption DEF Fits

LEMMA OneMoreFits ==
    ASSUME NEW ps, Fits(ps), Cardinality(ps) < MaxPlayersPerRoom, NEW p
    PROVE  Fits(ps \cup {p})
<1>1. IsFiniteSet(ps \cup {p})
    BY FS_AddElement DEF Fits
<1>2. Cardinality(ps \cup {p}) \in {Cardinality(ps), Cardinality(ps) + 1}
    BY FS_AddElement DEF Fits
<1>3. Cardinality(ps) \in Nat
    BY FS_CardinalityType DEF Fits
<1>. QED
    BY <1>1, <1>2, <1>3, ConstantsAssumption DEF Fits

LEMMA RoomsFitStep ==
    ASSUME TypeOK, RoomsFit, [Next]_vars
    PROVE  RoomsFit'
<1>. SUFFICES ASSUME NEW r \in Rooms PROVE Fits(members'[r]) /\ Fits(lineup'[r])
    BY DEF RoomsFit, Fits
<1>1. Fits(members[r]) /\ Fits(lineup[r])
    BY DEF RoomsFit
<1>2. Fits(members'[r])
    <2>1. CASE members'[r] \subseteq members[r]
        BY <1>1, <2>1, FewerFit
    <2>2. CASE \E p : members'[r] = {p}
        BY <2>2, SmallSetsFit
    <2>3. ASSUME NEW p, CanJoin(r, p), members'[r] = members[r] \cup {p}
          PROVE  Fits(members'[r])
        BY <1>1, <2>3, OneMoreFits DEF CanJoin
    <2>. QED
        BY <2>1, <2>2, <2>3, MembersChange
<1>. QED
    BY <1>1, <1>2, LineupChange

LEMMA RoomsAlwaysFit == Spec => []RoomsFit
<1>1. Init => RoomsFit
    BY SmallSetsFit DEF Init, RoomsFit
<1>2. TypeOK /\ RoomsFit /\ [Next]_vars => RoomsFit'
    BY RoomsFitStep
<1>. QED
    BY <1>1, <1>2, TypeCorrect, PTL DEF Spec

\* No room ever has more players than MaxPlayersPerRoom, however many joins,
\* matches and creates run side by side.
THEOREM RoomsAreNotOverfull == Spec => []CapacityRespected
<1>1. RoomsFit => CapacityRespected
    BY DEF RoomsFit, Fits, CapacityRespected
<1>. QED
    BY <1>1, RoomsAlwaysFit, PTL

\* With rooms of two, as they are configured, a battle the engine is asked for
\* has exactly the two players it has sides for.
THEOREM BattlesAreOfTwo ==
    ASSUME MaxPlayersPerRoom = 2
    PROVE  Spec => []BattleHasTwoSides
<1>1. Init => StartsAreOfTwo
    BY DEF Init, StartsAreOfTwo
<1>2. TypeOK /\ SingleStart /\ StartsAreOfTwo /\ [Next]_vars => StartsAreOfTwo'
    BY StartsAreOfTwoStep
<1>3. RoomsFit /\ StartsAreOfTwo => BattleHasTwoSides
    <2>. SUFFICES ASSUME RoomsFit, StartsAreOfTwo, NEW r \in Rooms, creating[r] > 0
                  PROVE  Cardinality(lineup[r]) = 2
        BY DEF BattleHasTwoSides
    <2>1. Cardinality(lineup[r]) \in Nat /\ Cardinality(lineup[r]) <= 2
        BY FS_CardinalityType DEF RoomsFit, Fits
    <2>2. ~(Cardinality(lineup[r]) < 2)
        BY DEF StartsAreOfTwo, TooFew
    <2>. QED
        BY <2>1, <2>2
<1>. QED
    BY <1>1, <1>2, <1>3, TypeCorrect, OneStartAtATime, RoomsAlwaysFit, PTL DEF Spec

(***************************************************************************)
(* A seat is kept while it is used.  A player who was found in a room by   *)
(* HandleSelectPokemon or by HandleBattleAction, and whom one loop serves, *)
(* is there until that command is over: nobody else takes a player out,    *)
(* and r.mu need not be held over the command.  Nothing is assumed of the  *)
(* other players, whom several loops may serve.                            *)
(***************************************************************************)
UsesSeat(l) == pc[l] \in {"reset", "fill", "mark", "inject", "send"}

ActsInBattle(l) == pc[l] \in {"inject", "send"}

SeatsKept ==
    \A l \in Loops : OneLoop(PlayerOf[l]) =>
        /\ UsesSeat(l) => PlayerOf[l] \in members[at[l]]
        /\ ActsInBattle(l) => PlayerOf[l] \in lineup[at[l]]

\* How a loop comes to use a seat, and to act in a battle: it was checked to be
\* there, in a room being played if it acts, or it used the seat already.
LEMMA NewlyUses ==
    ASSUME TypeOK, [Next]_vars, NEW l \in Loops, UsesSeat(l)', pc'[l] # pc[l] \/ at'[l] # at[l]
    PROVE  /\ at'[l] = at[l] /\ at[l] \in Rooms
           /\ UNCHANGED <<members, lineup>>
           /\ UsesSeat(l) \/ PlayerOf[l] \in members[at[l]]
           /\ ActsInBattle(l)' => \/ ActsInBattle(l)
                                  \/ /\ PlayerOf[l] \in members[at[l]]
                                     /\ status[at[l]] = "Playing"
<1>. USE DEF TypeOK, roomVars
<1>1. l # Matcher /\ l \in Procs /\ Player(l) = PlayerOf[l]
    BY ConstantsAssumption DEF Player
<1>2. pc'[l] \in {"reset", "fill", "mark", "inject", "send"}
    BY DEF UsesSeat
<1>3. pc[l] \notin {"idle", "seat"}
    <2>1. ASSUME NEW g \in Procs, Continue(g), pc[l] \in {"idle", "seat"}
          PROVE  pc'[l] = pc[l]
        BY <1>1, <2>1
        DEF Continue, Goto, Return, Join, LeaveRemove, ClearRoomID, Depart, DeleteLookup,
            DeleteStatus, DestroyAccepted, DestroyFault, DestroyPanics, Unlink, StartClaim, Assign,
            SelectCheck, ResetTeam, FillTeam, MarkReady, BattleCheck, InjectSide, SendAction,
            procVars
    <2>2. ASSUME NEW k \in Loops, Command(k)
          PROVE  pc'[l] = pc[l] \/ pc'[l] \in {"join", "leave", "claim", "choose", "battle"}
        <3>1. \A c \in DOMAIN EntryOf : EntryOf[c] \in {"leave", "claim", "choose", "battle"}
            BY DEF EntryOf
        <3>. QED
            BY <1>1, <2>2, <3>1
            DEF Command, Lookup, JoinLookup, CreateRoom, Enqueue, Enter, procVars
    <2>3. CASE Matching
        BY <1>1, <2>3
        DEF Matching, TakePlayer, MatchCreate, MatchJoinLookup, Enter, Return, Goto, procVars
    <2>4. ASSUME NEW q \in Rooms, Creating(q) PROVE pc' = pc
        BY <2>4 DEF Creating, CreateAccepted, CreateFault, procVars
    <2>5. ASSUME NEW d \in Requests, LateExecution(d[1], d[2]) PROVE pc' = pc
        BY <2>5 DEF LateExecution, procVars
    <2>6. CASE UNCHANGED vars
        BY <2>6 DEF vars, procVars
    <2>. QED
        BY <1>2, <2>1, <2>2, <2>3, <2>4, <2>5, <2>6 DEF Next
<1>4. Continue(l)
    BY <1>1, <1>3, OthersStay
<1>5. SelectCheck(l) \/ ResetTeam(l) \/ FillTeam(l) \/ BattleCheck(l) \/ InjectSide(l)
    BY <1>1, <1>2, <1>4
    DEF Continue, Goto, Return, Join, LeaveRemove, ClearRoomID, Depart, DeleteLookup,
        DeleteStatus, DestroyAccepted, DestroyFault, DestroyPanics, Unlink, StartClaim, Assign,
        MarkReady, SendAction
<1>6. at[l] \in Rooms
    BY <1>1, <1>3
<1>7. at'[l] = at[l] /\ UNCHANGED <<members, lineup>>
    BY <1>1, <1>2, <1>5
    DEF SelectCheck, ResetTeam, FillTeam, BattleCheck, InjectSide, Goto, Return
<1>8. CASE SelectCheck(l)
    BY <1>1, <1>2, <1>6, <1>7, <1>8 DEF SelectCheck, Goto, Return, ActsInBattle
<1>9. CASE ResetTeam(l) \/ FillTeam(l)
    BY <1>1, <1>2, <1>6, <1>7, <1>9 DEF ResetTeam, FillTeam, Goto, Return, ActsInBattle, UsesSeat
<1>10. CASE BattleCheck(l)
    BY <1>1, <1>2, <1>6, <1>7, <1>10 DEF BattleCheck, CanAct, Goto, Return
<1>11. CASE InjectSide(l)
    BY <1>6, <1>7, <1>11 DEF InjectSide, ActsInBattle, UsesSeat
<1>. QED
    BY <1>5, <1>8, <1>9, <1>10, <1>11

\* Only LeaveRoom takes a player out, and the loop of that player runs it.
LEMMA SeatLost ==
    ASSUME TypeOK, [Next]_vars, NEW l \in Loops, OneLoop(PlayerOf[l]), NEW r \in Rooms,
           status[r] # "none", PlayerOf[l] \in members[r], PlayerOf[l] \notin members'[r]
    PROVE  pc[l] = "leave"
<1>. USE DEF TypeOK, roomVars
<1>1. ASSUME NEW g \in Procs, Continue(g) PROVE pc[l] = "leave"
    <2>. members' # members
        OBVIOUS
    <2>. ~Join(g)
        <3>1. ASSUME Join(g)
              PROVE  members'[r] = members[r] \/ members'[r] = members[r] \cup {Player(g)}
            BY <3>1 DEF Join
        <3>. QED
            BY <3>1
    <2>1. LeaveRemove(g)
        BY <1>1
        DEF Continue, ClearRoomID, Depart, DeleteLookup, DeleteStatus, DestroyAccepted,
            DestroyFault, DestroyPanics, Unlink, StartClaim, Assign, SelectCheck, ResetTeam,
            FillTeam, MarkReady, BattleCheck, InjectSide, SendAction
    <2>2. pc[g] = "leave" /\ Player(g) = PlayerOf[l]
        BY <2>1 DEF LeaveRemove
    <2>3. g # Matcher
        BY <2>2
    <2>4. g \in Loops /\ PlayerOf[g] = PlayerOf[l]
        BY <2>2, <2>3 DEF Player
    <2>. QED
        BY <2>2, <2>4 DEF OneLoop
<1>2. ASSUME NEW k \in Loops, Command(k) PROVE FALSE
    BY <1>2 DEF Command, Lookup, JoinLookup, CreateRoom, OpenRoom, Enqueue
<1>3. CASE Matching
    BY <1>3 DEF Matching, TakePlayer, MatchCreate, OpenRoom, MatchJoinLookup
<1>4. ASSUME NEW q \in Rooms, Creating(q) PROVE FALSE
    BY <1>4 DEF Creating, CreateAccepted, CreateFault
<1>5. ASSUME NEW d \in Requests, LateExecution(d[1], d[2]) PROVE FALSE
    BY <1>5 DEF LateExecution
<1>. QED
    BY <1>1, <1>2, <1>3, <1>4, <1>5 DEF Next, vars

LEMMA SeatsKeptStep ==
    ASSUME TypeOK, RoomsWorkedOnExist, LineupCoversMembers, SeatsKept, [Next]_vars
    PROVE  SeatsKept'
<1>. SUFFICES ASSUME NEW l \in Loops, OneLoop(PlayerOf[l]), UsesSeat(l)'
              PROVE  /\ PlayerOf[l] \in members'[at'[l]]
                     /\ ActsInBattle(l)' => PlayerOf[l] \in lineup'[at'[l]]
    BY DEF SeatsKept, UsesSeat, ActsInBattle, OneLoop
<1>1. CASE pc'[l] = pc[l] /\ at'[l] = at[l]
    <2>1. /\ UsesSeat(l) /\ pc[l] \notin {"idle", "seat", "leave"}
          /\ ActsInBattle(l)' => ActsInBattle(l)
        BY <1>1 DEF UsesSeat, ActsInBattle
    <2>2. at[l] \in Rooms /\ status[at[l]] # "none" /\ PlayerOf[l] \in members[at[l]]
        BY <2>1, ConstantsAssumption DEF TypeOK, RoomsWorkedOnExist, SeatsKept
    <2>3. PlayerOf[l] \in members'[at[l]]
        BY <2>1, <2>2, SeatLost
    <2>4. ActsInBattle(l) => PlayerOf[l] \in lineup'[at[l]]
        BY <2>2, LineupChange DEF SeatsKept
    <2>. QED
        BY <1>1, <2>1, <2>3, <2>4
<1>2. CASE pc'[l] # pc[l] \/ at'[l] # at[l]
    <2>1. /\ at'[l] = at[l]
          /\ UNCHANGED <<members, lineup>>
          /\ PlayerOf[l] \in members[at[l]]
          /\ ActsInBattle(l)' => ActsInBattle(l) \/ status[at[l]] = "Playing"
          /\ at[l] \in Rooms
        BY <1>2, NewlyUses DEF SeatsKept
    <2>. QED
        BY <2>1 DEF SeatsKept, LineupCoversMembers
<1>. QED
    BY <1>1, <1>2

\* An action on its way to the engine is that of a player the engine was told
\* of, whatever is done between the check of the room, the choice of the side
\* and the request, unless the player has a second loop to leave on meanwhile.
THEOREM SendersAreKnown == Spec => []SendersAreInLineup
<1>. DEFINE IInv == RoomsWorkedOnExist /\ SeatsKept
<1>1. Init => IInv
    BY ConstantsAssumption DEF Init, RoomsWorkedOnExist, SeatsKept, UsesSeat, ActsInBattle
<1>2. TypeOK /\ LineupCoversMembers /\ IInv /\ [Next]_vars => IInv'
    BY RoomsWorkedOnExistStep, SeatsKeptStep
<1>3. TypeOK /\ IInv => SendersAreInLineup
    BY ConstantsAssumption DEF TypeOK, SeatsKept, ActsInBattle, SendersAreInLineup, Player
<1>. QED
    BY <1>1, <1>2, <1>3, TypeCorrect, LatecomersStayOut, PTL DEF Spec

(***************************************************************************)
(* Readiness.                                                              *)
(***************************************************************************)
NobodyReadyYet == \A r \in Rooms : status[r] = "none" => ready[r] = {}

\* The players without a takeover.
Loyal == {p \in Players : OneLoop(p)}

\* Who becomes ready holds a seat, and who leaves loses both.
LEMMA ReadyStep ==
    ASSUME TypeOK, TypeOK', RoomsWorkedOnExist, SeatsKept, NobodyReadyYet, ReadyAreMembers,
           [Next]_vars
    PROVE  NobodyReadyYet' /\ ReadyAreMembers'
<1>. USE DEF TypeOK, roomVars
<1>. SUFFICES ASSUME NEW r \in Rooms
              PROVE  /\ status'[r] = "none" => ready'[r] = {}
                     /\ ready'[r] \cap Loyal \subseteq members'[r]
    BY DEF NobodyReadyYet, ReadyAreMembers, Loyal, OneLoop
<1>1. ready[r] \cap Loyal \subseteq members[r] /\ (status[r] = "none" => ready[r] = {})
    BY DEF NobodyReadyYet, ReadyAreMembers, Loyal
<1>2. status'[r] = "none" => status[r] = "none"
    BY RoomsStay
<1>3. CASE ready'[r] = ready[r] /\ members'[r] = members[r]
    BY <1>1, <1>2, <1>3
<1>4. ASSUME NEW q \in Rooms, NEW p, OpenRoom(q, p)
      PROVE  ready'[r] = ready[r] /\ (members'[r] = members[r] \/ ready[r] = {})
    BY <1>1, <1>4 DEF OpenRoom
<1>5. ASSUME NEW g \in Procs, Join(g)
      PROVE  ready'[r] \subseteq ready[r] /\ members[r] \subseteq members'[r]
    <2>. at[g] \in Rooms
        BY <1>5 DEF Join
    <2>1. CASE CanJoin(at[g], Player(g))
        <3>1. ready' = [ready EXCEPT ![at[g]] = @ \ {Player(g)}]
            BY <1>5, <2>1 DEF Join
        <3>2. members' = [members EXCEPT ![at[g]] = @ \cup {Player(g)}]
            BY <1>5, <2>1 DEF Join
        <3>. QED
            BY <3>1, <3>2
    <2>2. CASE ~CanJoin(at[g], Player(g))
        BY <1>5, <2>2 DEF Join
    <2>. QED
        BY <2>1, <2>2
<1>6. ASSUME NEW g \in Procs, LeaveRemove(g)
      PROVE  /\ ready'[r] \subseteq ready[r]
             /\ ready'[r] \cap Loyal \subseteq members'[r]
    BY <1>1, <1>6 DEF LeaveRemove
<1>7. ASSUME NEW g \in Procs, MarkReady(g)
      PROVE  /\ members' = members
             /\ ready'[r] = ready[r] \/ (/\ ready'[r] = ready[r] \cup {Player(g)}
                                         /\ Player(g) \in members[r] \/ Player(g) \notin Loyal
                                         /\ status[r] # "none" /\ status' = status)
    <2>1. g \in Loops /\ pc[g] = "mark" /\ at[g] \in Rooms /\ Player(g) = PlayerOf[g]
        BY <1>7, ConstantsAssumption DEF MarkReady, Player
    <2>2. /\ Player(g) \in members[at[g]] \/ Player(g) \notin Loyal
          /\ status[at[g]] # "none"
        BY <2>1 DEF SeatsKept, UsesSeat, RoomsWorkedOnExist, Loyal
    <2>3. ready' = [ready EXCEPT ![at[g]] = ready[at[g]] \cup {Player(g)}]
        BY <1>7 DEF MarkReady
    <2>4. members' = members /\ status' = status
        BY <1>7 DEF MarkReady
    <2>. QED
        BY <2>1, <2>2, <2>3, <2>4
<1>8. ASSUME NEW g \in Procs, Continue(g), ~Join(g), ~LeaveRemove(g), ~MarkReady(g)
      PROVE  UNCHANGED <<ready, members>>
    BY <1>8
    DEF Continue, ClearRoomID, Depart, DeleteLookup, DeleteStatus, DestroyAccepted, DestroyFault,
        DestroyPanics, Unlink, StartClaim, Assign, SelectCheck, ResetTeam, FillTeam, BattleCheck,
        InjectSide, SendAction
<1>9. ASSUME NEW l \in Loops, Command(l)
      PROVE  UNCHANGED <<ready, members>> \/ \E q \in Rooms : OpenRoom(q, PlayerOf[l])
    BY <1>9 DEF Command, Lookup, JoinLookup, CreateRoom, Enqueue
<1>10. CASE Matching
    <2>1. UNCHANGED <<ready, members>> \/ \E q \in Rooms : OpenRoom(q, pair[1])
        BY <1>10 DEF Matching, TakePlayer, MatchCreate, MatchJoinLookup
    <2>. QED
        BY <1>1, <1>2, <1>3, <1>4, <2>1
<1>11. ASSUME NEW q \in Rooms, Creating(q) PROVE UNCHANGED <<ready, members>>
    BY <1>11 DEF Creating, CreateAccepted, CreateFault
<1>12. ASSUME NEW d \in Requests, LateExecution(d[1], d[2]) PROVE UNCHANGED <<ready, members>>
    BY <1>12 DEF LateExecution
<1>13. CASE UNCHANGED vars
    BY <1>3, <1>13 DEF vars
<1>14. ASSUME NEW g \in Procs, Continue(g)
       PROVE  (status'[r] = "none" => ready'[r] = {}) /\ ready'[r] \cap Loyal \subseteq members'[r]
    <2>1. CASE Join(g)
        BY <1>1, <1>2, <1>5, <2>1
    <2>2. CASE LeaveRemove(g)
        BY <1>1, <1>2, <1>6, <2>2
    <2>3. CASE MarkReady(g)
        <3>1. members'[r] = members[r]
            BY <1>7, <2>3
        <3>2. CASE ready'[r] = ready[r]
            BY <1>3, <3>1, <3>2
        <3>3. CASE ready'[r] # ready[r]
            <4>1. /\ ready'[r] = ready[r] \cup {Player(g)}
                  /\ Player(g) \in members[r] \/ Player(g) \notin Loyal
                  /\ status'[r] # "none"
                BY <1>7, <2>3, <3>3
            <4>. QED
                BY <1>1, <3>1, <4>1
        <3>. QED
            BY <3>2, <3>3
    <2>. QED
        BY <1>3, <1>8, <1>14, <2>1, <2>2, <2>3
<1>15. ASSUME NEW l \in Loops, Command(l)
       PROVE  (status'[r] = "none" => ready'[r] = {}) /\ ready'[r] \cap Loyal \subseteq members'[r]
    BY <1>1, <1>2, <1>3, <1>4, <1>9, <1>15
<1>. QED
    BY <1>3, <1>10, <1>11, <1>12, <1>13, <1>14, <1>15 DEF Next

\* Only players of a room count as ready in it, unless they have a second loop
\* to leave on while the first marks them.
THEOREM ReadyPlayersSitThere == Spec => []ReadyAreMembers
<1>. DEFINE IInv == RoomsWorkedOnExist /\ SeatsKept /\ NobodyReadyYet /\ ReadyAreMembers
<1>1. Init => IInv
    BY ConstantsAssumption
    DEF Init, RoomsWorkedOnExist, SeatsKept, UsesSeat, ActsInBattle, NobodyReadyYet, ReadyAreMembers
<1>2. TypeOK /\ TypeOK' /\ LineupCoversMembers /\ IInv /\ [Next]_vars => IInv'
    BY RoomsWorkedOnExistStep, SeatsKeptStep, ReadyStep
<1>. QED
    BY <1>1, <1>2, TypeCorrect, LatecomersStayOut, PTL DEF Spec
=============================================================================
