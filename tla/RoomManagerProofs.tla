------------------------- MODULE RoomManagerProofs -------------------------
(***************************************************************************)
(* Proofs about RoomManager for every set of players, rooms and loops.     *)
(***************************************************************************)
EXTENDS RoomRefinement, SequenceTheorems, TLAPS

USE DEF Procs

\* A step that changes no variable preserves everything below.
LEMMA TypeStutters == TypeOK /\ UNCHANGED vars => TypeOK'
BY DEF TypeOK, vars, roomVars, sessionVars, engineVars, matchVars, procVars

\* The commands that clients send to idle loops keep the types.
LEMMA TypeCommand ==
    ASSUME TypeOK, NEW l \in Loops, Command(l)
    PROVE  TypeOK'
<1>. USE ConstantsAssumption DEF TypeOK, roomVars, sessionVars, engineVars, matchVars,
         procVars, Labels, Enter
<1>1. ASSUME NEW c \in Commands \cap DOMAIN EntryOf, Lookup(l, c) PROVE TypeOK'
    <2>1. EntryOf[c] \in {"leave", "claim", "choose", "battle"}
        BY DEF EntryOf
    <2>2. l # Matcher /\ roomOf[PlayerOf[l]] \in Rooms
        BY <1>1 DEF Lookup
    <2>. QED
        BY <1>1, <2>1, <2>2 DEF Lookup
<1>2. ASSUME NEW r \in Rooms, JoinLookup(l, r) PROVE TypeOK'
    BY <1>2 DEF JoinLookup
<1>3. ASSUME NEW r \in Rooms, CreateRoom(l, r) PROVE TypeOK'
    BY <1>3 DEF CreateRoom, OpenRoom
<1>4. CASE Enqueue(l)
    BY <1>4 DEF Enqueue
<1>. QED
    BY <1>1, <1>2, <1>3, <1>4 DEF Command

\* What TypeOK says of the goroutines.
ProcTypes ==
    /\ pair \in Seq(Players) /\ Len(pair) <= 2
    /\ pc \in [Procs -> Labels]
    /\ at \in [Procs -> Rooms \cup {NoRoom}]
    /\ \A g \in Procs : pc[g] \notin {"idle", "seat"} => at[g] \in Rooms
    /\ \A g \in Procs : pc[g] = "destroy" => tries[g] > 0
    /\ pc[Matcher] \in {"idle", "seat", "join"}
    /\ pc[Matcher] # "idle" => Len(pair) = 2

\* A goroutine past its first step goes on in its command, or returns.
LEMMA MovesKeepTypes ==
    ASSUME TypeOK, NEW g \in Procs, pc[g] \notin {"idle", "seat", "join"}, tries' = tries,
           Return(g) \/ \E l \in Labels \ {"destroy"} : Goto(g, l)
    PROVE  ProcTypes'
<1>. g # Matcher
    BY DEF TypeOK
<1>1. CASE Return(g)
    <2>1. pc' = [pc EXCEPT ![g] = "idle"] /\ at' = [at EXCEPT ![g] = NoRoom] /\ pair' = pair
        BY <1>1 DEF Return
    <2>2. pc' \in [Procs -> Labels] /\ at' \in [Procs -> Rooms \cup {NoRoom}]
        BY <2>1 DEF TypeOK, Labels
    <2>. QED
        BY <2>1, <2>2 DEF TypeOK, ProcTypes
<1>2. ASSUME NEW l \in Labels \ {"destroy"}, Goto(g, l)
      PROVE  ProcTypes'
    <2>1. pc' = [pc EXCEPT ![g] = l] /\ at' = at /\ pair' = pair
        BY <1>2 DEF Goto
    <2>2. pc' \in [Procs -> Labels]
        BY <2>1 DEF TypeOK
    <2>. QED
        BY <2>1, <2>2 DEF TypeOK, ProcTypes
<1>. QED
    BY <1>1, <1>2

\* So do the steps of a goroutine in the middle of a command: where the worker
\* is concerned these are the ones of JoinRoom only.
LEMMA TypeContinue ==
    ASSUME TypeOK, NEW g \in Procs, Continue(g)
    PROVE  TypeOK'
<1>. USE ConstantsAssumption DEF TypeOK, roomVars, sessionVars, engineVars, matchVars,
         procVars, Labels, Goto, Return
<1>. Player(g) \in Players \/ (g = Matcher /\ pc[g] = "idle")
    BY DEF Player
<1>1. CASE Join(g)
    <2>1. CASE CanJoin(at[g], Player(g))
        <3>1. /\ roomOf' = [roomOf EXCEPT ![Player(g)] = at[g]]
              /\ members' = [members EXCEPT ![at[g]] = @ \cup {Player(g)}]
              /\ ready' = [ready EXCEPT ![at[g]] = @ \ {Player(g)}]
            BY <1>1, <2>1 DEF Join
        <3>2. at[g] \in Rooms /\ Player(g) \in Players
            BY <1>1 DEF Join
        <3>3. roomOf' \in [Players -> Rooms \cup {NoRoom}]
            BY <3>1, <3>2
        <3>4. members' \in [Rooms -> SUBSET Players]
            BY <3>1, <3>2
        <3>5. ready' \in [Rooms -> SUBSET Players]
            BY <3>1, <3>2
        <3>. QED
            BY <1>1, <3>3, <3>4, <3>5 DEF Join
    <2>2. CASE ~CanJoin(at[g], Player(g))
        BY <1>1, <2>2 DEF Join
    <2>. QED
        BY <2>1, <2>2
<1>2. CASE LeaveRemove(g)
    BY <1>2 DEF LeaveRemove
<1>3. CASE ClearRoomID(g)
    BY <1>3 DEF ClearRoomID
<1>4. CASE Depart(g)
    BY <1>4 DEF Depart
<1>5. CASE DeleteLookup(g)
    <2>1. ProcTypes'
        BY <1>5, MovesKeepTypes DEF DeleteLookup
    <2>. QED
        BY <1>5, <2>1 DEF DeleteLookup, ProcTypes
<1>6. CASE DeleteStatus(g)
    <2>1. CASE NeedsDestroy(status[at[g]])
        <3>1. tries' = [tries EXCEPT ![g] = MaxRetries] /\ pc' = [pc EXCEPT ![g] = "destroy"]
            BY <1>6, <2>1 DEF DeleteStatus
        <3>2. tries' \in [Procs -> 0..MaxRetries]
            BY <3>1
        <3>3. \A h \in Procs : pc'[h] = "destroy" => tries'[h] > 0
            BY <3>1
        <3>. QED
            BY <1>6, <3>1, <3>2, <3>3 DEF DeleteStatus
    <2>2. CASE ~NeedsDestroy(status[at[g]])
        BY <1>6, <2>2 DEF DeleteStatus
    <2>. QED
        BY <2>1, <2>2
<1>7. CASE DestroyAccepted(g)
    BY <1>7 DEF DestroyAccepted
<1>8. ASSUME NEW f \in Faults, DestroyFault(g, f) PROVE TypeOK'
    BY <1>8 DEF DestroyFault, CanFail, AttemptsAfter, EngineAfter, Requests
<1>9. CASE Unlink(g)
    BY <1>9 DEF Unlink
<1>10. CASE StartClaim(g)
    <2>1. CASE CanStart(at[g])
        <3>1. /\ status' = [status EXCEPT ![at[g]] = "Playing"]
              /\ lineup' = [lineup EXCEPT ![at[g]] = members[at[g]]]
              /\ pc' = [pc EXCEPT ![g] = "assign"] /\ at' = at /\ pair' = pair
            BY <1>10, <2>1 DEF StartClaim
        <3>2. status' \in [Rooms -> {"none", "Waiting", "Playing", "Finished"}]
            BY <3>1
        <3>3. lineup' \in [Rooms -> SUBSET Players]
            BY <3>1
        <3>4. \A r \in rooms : status'[r] # "none"
            BY <3>1
        <3>. QED
            BY <1>10, <3>1, <3>2, <3>3, <3>4 DEF StartClaim
    <2>2. CASE ~CanStart(at[g])
        <3>1. ProcTypes'
            BY <1>10, <2>2, MovesKeepTypes DEF StartClaim
        <3>. QED
            BY <1>10, <2>2, <3>1 DEF StartClaim, ProcTypes
    <2>. QED
        BY <2>1, <2>2
<1>11. CASE Assign(g)
    <2>1. CASE StartError(at[g]) /\ UNCHANGED creating
        BY <1>11, <2>1 DEF Assign, StartError
    <2>2. CASE creating' = [creating EXCEPT ![at[g]] = MaxRetries] /\ UNCHANGED status
        BY <1>11, <2>2 DEF Assign
    <2>. QED
        BY <1>11, <2>1, <2>2 DEF Assign
<1>12. CASE SelectCheck(g)
    <2>1. ProcTypes'
        BY <1>12, MovesKeepTypes DEF SelectCheck
    <2>. QED
        BY <1>12, <2>1 DEF SelectCheck, ProcTypes
<1>13. CASE ResetTeam(g)
    <2>1. ProcTypes'
        BY <1>13, MovesKeepTypes DEF ResetTeam
    <2>. QED
        BY <1>13, <2>1 DEF ResetTeam, ProcTypes
<1>14. CASE FillTeam(g)
    <2>1. ProcTypes'
        BY <1>14, MovesKeepTypes DEF FillTeam
    <2>. QED
        BY <1>14, <2>1 DEF FillTeam, ProcTypes
<1>15. CASE MarkReady(g)
    <2>1. ProcTypes'
        BY <1>15, MovesKeepTypes DEF MarkReady
    <2>. QED
        BY <1>15, <2>1 DEF MarkReady, ProcTypes
<1>16. CASE BattleCheck(g)
    <2>1. ProcTypes'
        BY <1>16, MovesKeepTypes DEF BattleCheck
    <2>. QED
        BY <1>16, <2>1 DEF BattleCheck, ProcTypes
<1>17. CASE InjectSide(g)
    <2>1. SideIn(members[at[g]], Player(g)) \in {"none", "a", "b"}
        BY DEF SideIn
    <2>2. side' \in [Procs -> {"none", "a", "b"}]
        BY <1>17, <2>1 DEF InjectSide
    <2>3. ProcTypes'
        BY <1>17, MovesKeepTypes DEF InjectSide
    <2>. QED
        BY <1>17, <2>2, <2>3 DEF InjectSide, ProcTypes
<1>18. CASE SendAction(g)
    <2>1. ProcTypes'
        BY <1>18, MovesKeepTypes DEF SendAction
    <2>. QED
        BY <1>18, <2>1 DEF SendAction, ProcTypes
<1>19. CASE DestroyPanics(g)
    BY <1>19 DEF DestroyPanics
<1>. QED
    BY <1>1, <1>2, <1>3, <1>4, <1>5, <1>6, <1>7, <1>8, <1>9, <1>10, <1>11, <1>12, <1>13,
       <1>14, <1>15, <1>16, <1>17, <1>18, <1>19 DEF Continue

\* And the rest: the start goroutines, the match worker and late requests.
LEMMA TypeCreating ==
    ASSUME TypeOK, NEW r \in Rooms, Creating(r)
    PROVE  TypeOK'
<1>. USE ConstantsAssumption DEF TypeOK, roomVars, sessionVars, engineVars, matchVars, procVars
<1>1. CASE CreateAccepted(r)
    BY <1>1 DEF CreateAccepted
<1>2. ASSUME NEW f \in Faults, CreateFault(r, f) PROVE TypeOK'
    <2>1. CASE StartError(r)
        BY <1>2, <2>1 DEF CreateFault, StartError, AttemptsAfter, EngineAfter, Requests
    <2>2. CASE UNCHANGED status
        BY <1>2, <2>2 DEF CreateFault, AttemptsAfter, EngineAfter, Requests
    <2>. QED
        BY <1>2, <2>1, <2>2 DEF CreateFault
<1>. QED
    BY <1>1, <1>2 DEF Creating

LEMMA PairElements ==
    ASSUME NEW s \in Seq(Players), Len(s) = 2
    PROVE  s[1] \in Players /\ s[2] \in Players
BY ElementOfSeq

LEMMA PairGrows ==
    ASSUME NEW s \in Seq(Players), Len(s) <= 2, Len(s) # 2, NEW p \in Players
    PROVE  Append(s, p) \in Seq(Players) /\ Len(Append(s, p)) <= 2
<1>1. Len(s) \in Nat
    BY LenProperties
<1>2. Append(s, p) \in Seq(Players) /\ Len(Append(s, p)) = Len(s) + 1
    BY AppendProperties
<1>3. \A n \in Nat : n <= 2 /\ n # 2 => n + 1 <= 2
    OBVIOUS
<1>. QED
    BY <1>1, <1>2, <1>3, Zenon

LEMMA TypeMatching ==
    ASSUME TypeOK, Matching
    PROVE  TypeOK'
<1>. USE ConstantsAssumption DEF TypeOK, roomVars, sessionVars, engineVars, matchVars,
         procVars, Labels, PairComplete
<1>1. CASE TakePlayer
    <2>1. queue # <<>> /\ Len(queue) > 0
        BY <1>1 DEF TakePlayer
    <2>2. Head(queue) \in Players /\ Tail(queue) \in Seq(Players)
        BY <2>1
    <2>3. Len(Tail(queue)) <= MatchQueueSize
        BY <2>1
    <2>4. pair' \in Seq(Players) /\ Len(pair') <= 2
        <3>1. pair' = Append(pair, Head(queue)) /\ Len(pair) # 2
            BY <1>1 DEF TakePlayer
        <3>. QED
            BY <2>2, <3>1, PairGrows
    <2>. QED
        BY <1>1, <2>2, <2>3, <2>4 DEF TakePlayer
<1>2. ASSUME NEW r \in Rooms, MatchCreate(r) PROVE TypeOK'
    <2>1. pair[1] \in Players /\ Len(pair) = 2
        <3>1. pair \in Seq(Players) /\ Len(pair) = 2
            BY <1>2 DEF MatchCreate
        <3>. QED
            BY <3>1, PairElements
    <2>2. /\ rooms' = rooms \cup {r}
          /\ status' = [status EXCEPT ![r] = "Waiting"]
          /\ members' = [members EXCEPT ![r] = {pair[1]}]
          /\ roomOf' = [roomOf EXCEPT ![pair[1]] = r]
        BY <1>2 DEF MatchCreate, OpenRoom
    <2>3. status' \in [Rooms -> {"none", "Waiting", "Playing", "Finished"}]
        BY <2>2
    <2>4. members' \in [Rooms -> SUBSET Players] /\ roomOf' \in [Players -> Rooms \cup {NoRoom}]
        BY <2>1, <2>2
    <2>5. UNCHANGED <<ready, lineup, team, engineVars, queue, tries, side>> /\ rooms' \subseteq Rooms
        BY <1>2 DEF MatchCreate, OpenRoom
    <2>6. pc' = [pc EXCEPT ![Matcher] = "seat"] /\ at' = at /\ pair' = pair
        BY <1>2 DEF MatchCreate, Goto
    <2>7. \A q \in rooms' : status'[q] # "none"
        BY <2>2
    <2>. QED
        BY <2>1, <2>3, <2>4, <2>5, <2>6, <2>7
<1>3. CASE MatchJoinLookup
    <2>1. CASE roomOf[pair[1]] \in rooms
        BY <1>3, <2>1 DEF MatchJoinLookup, Enter
    <2>2. CASE roomOf[pair[1]] \notin rooms
        <3>1. pair' = <<>> /\ pc' = [pc EXCEPT ![Matcher] = "idle"] /\ at' = [at EXCEPT ![Matcher] = NoRoom]
            BY <1>3, <2>2 DEF MatchJoinLookup, Return
        <3>2. pair' \in Seq(Players) /\ Len(pair') <= 2
            BY <3>1
        <3>. QED
            BY <1>3, <3>1, <3>2 DEF MatchJoinLookup
    <2>. QED
        BY <2>1, <2>2
<1>. QED
    BY <1>1, <1>2, <1>3 DEF Matching

LEMMA TypeLate ==
    ASSUME TypeOK, NEW d \in Requests, LateExecution(d[1], d[2])
    PROVE  TypeOK'
BY DEF TypeOK, LateExecution, Requests, roomVars, sessionVars, matchVars, procVars

\* The type invariant: every goroutine is where the code can be, works on a
\* room once it is past its lookup, and has attempts left while it destroys.
THEOREM TypeCorrect == Spec => []TypeOK
<1>1. Init => TypeOK
    BY ConstantsAssumption DEF Init, TypeOK, Labels
<1>2. TypeOK /\ [Next]_vars => TypeOK'
    BY TypeStutters, TypeCommand, TypeContinue, TypeCreating, TypeMatching, TypeLate DEF Next
<1>. QED
    BY <1>1, <1>2, PTL DEF Spec

(***************************************************************************)
(* One start at a time.  SingleStart is inductive given the types: a claim *)
(* needs a Waiting room, which by the invariant has no start under way,    *)
(* and a room goes back to Waiting only where its one start ends.          *)
(***************************************************************************)
StartTypes ==
    /\ status \in [Rooms -> {"none", "Waiting", "Playing", "Finished"}]
    /\ creating \in [Rooms -> 0..MaxRetries]
    /\ pc \in [Procs -> Labels]
    /\ at \in [Procs -> Rooms \cup {NoRoom}]

LEMMA StartTypesHold == TypeOK => StartTypes
BY DEF TypeOK, StartTypes

\* A goroutine that moves between labels other than "assign" changes nothing
\* SingleStart speaks of, as long as the status of rooms stays as it is or
\* goes from Playing to Finished.
LEMMA SingleStartFrame ==
    ASSUME StartTypes, SingleStart, NEW g \in Procs, NEW label \in Labels \ {"assign"},
           pc[g] # "assign",
           pc' = [pc EXCEPT ![g] = label],
           \A h \in Procs \ {g} : at'[h] = at[h],
           creating' = creating,
           \A r \in Rooms : status'[r] = status[r]
                            \/ (status[r] = "Playing" /\ status'[r] = "Finished")
                            \/ (status[r] = "none" /\ status'[r] = "Waiting")
    PROVE  SingleStart'
<1>. USE DEF StartTypes
<1>1. ASSUME NEW h \in Procs, NEW r \in Rooms, Starting(h, r)'
      PROVE  h # g /\ Starting(h, r)
    BY <1>1 DEF Starting
<1>2. ASSUME NEW r \in Rooms, StartInFlight(r)' PROVE StartInFlight(r)
    BY <1>1, <1>2 DEF StartInFlight
<1>. QED
    BY <1>1, <1>2 DEF SingleStart

LEMMA SingleStartStutters ==
    ASSUME StartTypes, SingleStart, UNCHANGED <<status, creating, pc, at>>
    PROVE  SingleStart'
BY DEF SingleStart, StartInFlight, Starting

LEMMA SingleStartCommand ==
    ASSUME StartTypes, SingleStart, NEW l \in Loops, Command(l)
    PROVE  SingleStart'
<1>. USE SingleStartFrame DEF StartTypes, Labels, Enter
<1>1. ASSUME NEW c \in Commands \cap DOMAIN EntryOf, Lookup(l, c) PROVE SingleStart'
    <2>1. EntryOf[c] \in Labels \ {"assign"}
        BY DEF EntryOf
    <2>. QED
        BY <1>1, <2>1 DEF Lookup, roomVars, engineVars
<1>2. ASSUME NEW r \in Rooms, JoinLookup(l, r) PROVE SingleStart'
    BY <1>2 DEF JoinLookup, roomVars, engineVars
<1>3. ASSUME NEW r \in Rooms, CreateRoom(l, r) PROVE SingleStart'
    <2>1. pc' = [pc EXCEPT ![l] = "idle"] /\ at' = at
        BY <1>3 DEF CreateRoom, procVars
    <2>. QED
        BY <1>3, <2>1 DEF CreateRoom, OpenRoom, engineVars
<1>4. CASE Enqueue(l)
    BY <1>4, SingleStartStutters DEF Enqueue, roomVars, engineVars, procVars
<1>. QED
    BY <1>1, <1>2, <1>3, <1>4 DEF Command

\* StartClaim takes a room no start of which is under way.
LEMMA SingleStartClaim ==
    ASSUME StartTypes, SingleStart, NEW g \in Procs, StartClaim(g), at[g] \in Rooms
    PROVE  SingleStart'
<1>1. CASE CanStart(at[g])
    <2>1. /\ pc' = [pc EXCEPT ![g] = "assign"] /\ at' = at /\ creating' = creating
          /\ status' = [status EXCEPT ![at[g]] = "Playing"]
        BY <1>1 DEF StartClaim, Goto, engineVars
    <2>2. ~StartInFlight(at[g]) /\ creating[at[g]] = 0
        BY <1>1 DEF SingleStart, CanStart, StartInFlight, StartTypes
    <2>. QED
        BY <2>1, <2>2 DEF SingleStart, StartInFlight, Starting, StartTypes
<1>2. CASE ~CanStart(at[g])
    <2>1. pc' = [pc EXCEPT ![g] = "idle"] /\ at' = [at EXCEPT ![g] = NoRoom]
        BY <1>2 DEF StartClaim, Return
    <2>. QED
        BY <1>2, <2>1, SingleStartFrame DEF StartClaim, StartTypes, Labels, engineVars
<1>. QED
    BY <1>1, <1>2

\* Its claimant either hands the start over to the start goroutine or ends it.
LEMMA SingleStartAssign ==
    ASSUME StartTypes, SingleStart, NEW g \in Procs, Assign(g), at[g] \in Rooms
    PROVE  SingleStart'
<1>. PICK q \in Rooms : q = at[g]
    OBVIOUS
<1>1. pc' = [pc EXCEPT ![g] = "idle"] /\ at' = [at EXCEPT ![g] = NoRoom] /\ Starting(g, q)
    BY DEF Assign, Return, Starting
<1>2. creating[q] = 0 /\ \A h \in Procs : Starting(h, q) => h = g
    BY <1>1 DEF SingleStart
<1>3. \A h \in Procs, r \in Rooms : Starting(h, r)' => h # g /\ r # q /\ Starting(h, r)
    BY <1>1, <1>2 DEF Starting, StartTypes
<1>4. CASE StartError(q) /\ UNCHANGED creating
    <2>1. status' = [status EXCEPT ![q] = "Waiting"]
        BY <1>4 DEF StartError
    <2>2. ~StartInFlight(q)'
        BY <1>2, <1>3, <1>4 DEF StartInFlight
    <2>3. \A r \in Rooms \ {q} : status'[r] = status[r] /\ (StartInFlight(r)' => StartInFlight(r))
        BY <1>3, <1>4, <2>1 DEF StartInFlight, StartTypes
    <2>. QED
        BY <1>3, <1>4, <2>2, <2>3 DEF SingleStart
<1>5. CASE creating' = [creating EXCEPT ![q] = MaxRetries] /\ UNCHANGED status
    BY <1>1, <1>2, <1>3, <1>5 DEF SingleStart, StartInFlight, StartTypes
<1>. QED
    BY <1>4, <1>5 DEF Assign

LEMMA SingleStartContinue ==
    ASSUME TypeOK, SingleStart, NEW g \in Procs, Continue(g)
    PROVE  SingleStart'
<1>. StartTypes
    BY StartTypesHold
<1>. USE SingleStartFrame DEF StartTypes, Labels, Goto, Return, roomVars, engineVars
<1>1. CASE Join(g) \/ Unlink(g) \/ DestroyPanics(g) \/ SendAction(g)
    BY <1>1 DEF Join, Unlink, DestroyPanics, SendAction
<1>2. CASE LeaveRemove(g) \/ ClearRoomID(g)
    BY <1>2 DEF LeaveRemove, ClearRoomID
<1>3. CASE Depart(g)
    BY <1>3 DEF Depart
<1>4. CASE DeleteLookup(g) \/ DeleteStatus(g) \/ DestroyAccepted(g)
    BY <1>4 DEF DeleteLookup, DeleteStatus, DestroyAccepted
<1>5. ASSUME NEW f \in Faults, DestroyFault(g, f) PROVE SingleStart'
    BY <1>5 DEF DestroyFault
<1>6. CASE StartClaim(g) \/ Assign(g)
    <2>1. at[g] \in Rooms
        BY <1>6 DEF TypeOK, StartClaim, Assign
    <2>. QED
        BY <1>6, <2>1, SingleStartClaim, SingleStartAssign
<1>7. CASE SelectCheck(g) \/ ResetTeam(g) \/ FillTeam(g) \/ MarkReady(g)
    BY <1>7 DEF SelectCheck, ResetTeam, FillTeam, MarkReady
<1>8. CASE BattleCheck(g) \/ InjectSide(g)
    BY <1>8 DEF BattleCheck, InjectSide
<1>. QED
    BY <1>1, <1>2, <1>3, <1>4, <1>5, <1>6, <1>7, <1>8 DEF Continue

LEMMA SingleStartCreating ==
    ASSUME StartTypes, SingleStart, NEW r \in Rooms, Creating(r)
    PROVE  SingleStart'
<1>. USE DEF StartTypes, roomVars, procVars
<1>1. \A g \in Procs : ~Starting(g, r)
    BY DEF SingleStart, Creating, CreateAccepted, CreateFault
<1>2. pc' = pc /\ at' = at
    BY DEF Creating, CreateAccepted, CreateFault
<1>3. CASE CreateAccepted(r)
    BY <1>1, <1>2, <1>3 DEF CreateAccepted, SingleStart, StartInFlight, Starting
<1>4. ASSUME NEW f \in Faults, CreateFault(r, f) PROVE SingleStart'
    <2>1. CASE creating'[r] = 0 /\ StartError(r)
        BY <1>1, <1>2, <1>4, <2>1
        DEF CreateFault, StartError, SingleStart, StartInFlight, Starting
    <2>2. CASE creating'[r] > 0 /\ UNCHANGED status
        BY <1>1, <1>2, <1>4, <2>2 DEF CreateFault, SingleStart, StartInFlight, Starting
    <2>. QED
        BY <1>4, <2>1, <2>2 DEF CreateFault
<1>. QED
    BY <1>3, <1>4 DEF Creating

LEMMA SingleStartMatching ==
    ASSUME StartTypes, SingleStart, Matching
    PROVE  SingleStart'
<1>. USE SingleStartFrame DEF StartTypes, Labels, roomVars, engineVars, procVars
<1>1. CASE TakePlayer
    BY <1>1, SingleStartStutters DEF TakePlayer
<1>2. ASSUME NEW r \in Rooms, MatchCreate(r) PROVE SingleStart'
    BY <1>2 DEF MatchCreate, OpenRoom, Goto
<1>3. CASE MatchJoinLookup
    BY <1>3 DEF MatchJoinLookup, Enter, Return
<1>. QED
    BY <1>1, <1>2, <1>3 DEF Matching

LEMMA SingleStartStep ==
    ASSUME TypeOK, SingleStart, [Next]_vars
    PROVE  SingleStart'
<1>1. StartTypes
    BY StartTypesHold
<1>2. ASSUME NEW d \in Requests, LateExecution(d[1], d[2]) PROVE SingleStart'
    BY <1>1, <1>2, SingleStartStutters DEF LateExecution, roomVars, procVars
<1>3. CASE UNCHANGED vars
    BY <1>1, <1>3, SingleStartStutters DEF vars, roomVars, engineVars, procVars
<1>. QED
    BY <1>1, <1>2, <1>3, SingleStartCommand, SingleStartContinue, SingleStartCreating,
       SingleStartMatching DEF Next

\* A room never has two starts under way, whatever goroutines claim it, and
\* while it has one it does not look startable.
THEOREM OneStartAtATime == Spec => []SingleStart
<1>1. Init => SingleStart
    BY ConstantsAssumption DEF Init, SingleStart, StartInFlight, Starting
<1>2. TypeOK /\ SingleStart /\ [Next]_vars => SingleStart'
    BY SingleStartStep
<1>. QED
    BY <1>1, <1>2, TypeCorrect, PTL DEF Spec

(***************************************************************************)
(* A room becomes Waiting when it is opened or when a start of it fails,   *)
(* and a start that fails is under way.                                    *)
(***************************************************************************)
LEMMA BecomesWaiting ==
    ASSUME TypeOK, [Next]_vars, NEW r \in Rooms, status[r] # "Waiting", status'[r] = "Waiting"
    PROVE  status[r] = "none" \/ StartInFlight(r)
<1>. USE DEF TypeOK, roomVars
<1>1. CASE UNCHANGED vars
    BY <1>1 DEF vars
<1>2. ASSUME NEW l \in Loops, Command(l) PROVE status[r] = "none"
    BY <1>2 DEF Command, Lookup, JoinLookup, CreateRoom, OpenRoom, Enqueue
<1>3. ASSUME NEW g \in Procs, Continue(g) PROVE StartInFlight(r)
    <2>1. CASE UNCHANGED status
        BY <2>1
    <2>2. CASE Depart(g)
        BY <2>2 DEF Depart
    <2>3. CASE StartClaim(g)
        BY <2>3 DEF StartClaim
    <2>4. CASE Assign(g)
        <3>1. at[g] = r
            BY <2>4 DEF Assign, StartError
        <3>. QED
            BY <2>4, <3>1 DEF Assign, StartInFlight, Starting
    <2>. QED
        BY <1>3, <2>1, <2>2, <2>3, <2>4
        DEF Continue, Join, LeaveRemove, ClearRoomID, DeleteLookup, DeleteStatus, DestroyAccepted,
            DestroyFault, DestroyPanics, Unlink, SelectCheck, ResetTeam, FillTeam, MarkReady,
            BattleCheck, InjectSide, SendAction
<1>4. ASSUME NEW q \in Rooms, Creating(q) PROVE StartInFlight(r)
    <2>1. creating[q] > 0 /\ r = q
        BY <1>4 DEF Creating, CreateAccepted, CreateFault, StartError
    <2>. QED
        BY <2>1 DEF StartInFlight
<1>5. CASE Matching
    BY <1>5 DEF Matching, TakePlayer, MatchCreate, OpenRoom, MatchJoinLookup
<1>6. ASSUME NEW d \in Requests, LateExecution(d[1], d[2]) PROVE FALSE
    BY <1>6 DEF LateExecution
<1>. QED
    BY <1>1, <1>2, <1>3, <1>4, <1>5, <1>6 DEF Next

\* A battle the engine has confirmed is never opened again for other players.
THEOREM BattlesDoNotReopen == Spec => ConfirmedBattleNeverReopens
<1>1. TypeOK /\ [Next]_vars =>
          [\A r \in Rooms :
              status[r] = "Playing" /\ ~StartInFlight(r) => status'[r] # "Waiting"]_vars
    BY BecomesWaiting
<1>. QED
    BY <1>1, TypeCorrect, PTL DEF Spec, ConfirmedBattleNeverReopens

(***************************************************************************)
(* Latecomers stay out.                                                    *)
(***************************************************************************)

\* Whoever sits in a room that is being played, or over, was there when its
\* start began: entering takes a Waiting room, and the claim that ends the
\* waiting copies the sessions in the same step.
LEMMA LineupStep ==
    ASSUME TypeOK, LineupCoversMembers, [Next]_vars
    PROVE  LineupCoversMembers'
<1>. USE DEF TypeOK, LineupCoversMembers, roomVars
<1>1. CASE UNCHANGED roomVars
    BY <1>1
<1>2. ASSUME NEW r \in Rooms, NEW p, OpenRoom(r, p) PROVE LineupCoversMembers'
    BY <1>2 DEF OpenRoom
<1>3. ASSUME NEW g \in Procs, Join(g) PROVE LineupCoversMembers'
    <2>1. status' = status /\ lineup' = lineup
        BY <1>3 DEF Join
    <2>2. \A r \in Rooms : members'[r] = members[r] \/ status[r] = "Waiting"
        BY <1>3 DEF Join, CanJoin
    <2>. QED
        BY <2>1, <2>2
<1>4. ASSUME NEW g \in Procs, LeaveRemove(g) PROVE LineupCoversMembers'
    BY <1>4 DEF LeaveRemove
<1>5. ASSUME NEW g \in Procs, Depart(g) PROVE LineupCoversMembers'
    BY <1>5 DEF Depart
<1>6. ASSUME NEW g \in Procs, StartClaim(g) PROVE LineupCoversMembers'
    BY <1>6 DEF StartClaim
<1>7. ASSUME NEW g \in Procs, Assign(g) PROVE LineupCoversMembers'
    BY <1>7 DEF Assign, StartError
<1>8. ASSUME NEW g \in Procs, MarkReady(g) PROVE LineupCoversMembers'
    BY <1>8 DEF MarkReady
<1>9. ASSUME NEW r \in Rooms, Creating(r) PROVE LineupCoversMembers'
    BY <1>9 DEF Creating, CreateAccepted, CreateFault, StartError
<1>10. ASSUME NEW l \in Loops, Command(l) PROVE LineupCoversMembers'
    BY <1>1, <1>2, <1>10 DEF Command, Lookup, JoinLookup, CreateRoom, Enqueue
<1>11. ASSUME NEW g \in Procs, Continue(g) PROVE LineupCoversMembers'
    BY <1>1, <1>3, <1>4, <1>5, <1>6, <1>7, <1>8, <1>11
    DEF Continue, ClearRoomID, DeleteLookup, DeleteStatus, DestroyAccepted, DestroyFault,
        DestroyPanics, Unlink, SelectCheck, ResetTeam, FillTeam, BattleCheck, InjectSide, SendAction
<1>12. CASE Matching
    BY <1>1, <1>2, <1>12 DEF Matching, TakePlayer, MatchCreate, MatchJoinLookup
<1>13. ASSUME NEW d \in Requests, LateExecution(d[1], d[2]) PROVE LineupCoversMembers'
    BY <1>1, <1>13 DEF LateExecution
<1>. QED
    BY <1>1, <1>9, <1>10, <1>11, <1>12, <1>13 DEF Next, vars

THEOREM LatecomersStayOut == Spec => []LineupCoversMembers
<1>1. Init => LineupCoversMembers
    BY DEF Init, LineupCoversMembers
<1>2. TypeOK /\ LineupCoversMembers /\ [Next]_vars => LineupCoversMembers'
    BY LineupStep
<1>. QED
    BY <1>1, <1>2, TypeCorrect, PTL DEF Spec
=============================================================================
