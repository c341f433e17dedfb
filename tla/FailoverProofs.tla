-------------------------- MODULE FailoverProofs --------------------------
(***************************************************************************)
(* Proofs about Failover for any number of rooms, pods, processes, loops   *)
(* and attempts, and any commands and faults.                              *)
(***************************************************************************)
EXTENDS FailoverRefinement, TLAPS

Moving == {"reread", "load", "create", "assign", "save", "destroy", "resave"}

\* A gateway that is down knows no nodes; a reassignment that is past its choice
\* has a room, and a start that calls an engine has an attempt left.
WorkIsPlaced ==
    /\ phase = "down" => known = {}
    /\ \A m \in Movers : pc[m] \in Moving => room[m] \in Rooms
    /\ \A r \in Rooms : start[r] = "calling" => tries[r] # 0

Inv == TypeOK /\ WorkIsPlaced

(***************************************************************************)
(* Types.                                                                  *)
(***************************************************************************)

LEMMA SomePod == 0 \in Pods /\ Pods \subseteq Int /\ NoPod \notin Pods
BY FailoverAssumption DEF Pods, NoPod

LEMMA SomeMover == Health \in Movers /\ Health \notin Loops /\ Movers = {Health} \cup Loops
BY FailoverAssumption DEF Health, Movers

LEMMA SnapshotType ==
    /\ \A p \in Pods, id \in ServerIDs : [node |-> p, server |-> id] \in Snapshots
    /\ \A s \in Snapshots : s.node \in Pods /\ s.server \in ServerIDs
BY DEF Snapshots

LEMMA CallType ==
    /\ \A r \in Rooms, p \in Pods :
          Call("CreateRoom", r, p) \in Calls /\ Call("DestroyRoom", r, p) \in Calls
    /\ \A c \in Calls : c.room \in Rooms /\ c.pod \in Pods
BY DEF Call, Calls

LEMMA ProcessType == ASSUME EngineTypes, NEW p \in Pods PROVE process[p] \in ServerIDs
BY FailoverAssumption DEF EngineTypes, ServerIDs

LEMMA HostTypes ==
    ASSUME EngineTypes, NEW r \in Rooms, NEW p \in Pods, Host(r, p),
           process' = process, calls' \subseteq Calls
    PROVE  EngineTypes'
<1>1. [node |-> p, server |-> process[p]] \in Snapshots
    BY ProcessType, SnapshotType
<1>2. snapshot' \in [Rooms -> Snapshots \cup {NoSnapshot}]
    BY <1>1 DEF EngineTypes, Host
<1>. QED
    BY <1>2 DEF EngineTypes, Host

LEMMA UnhostTypes ==
    ASSUME EngineTypes, NEW r \in Rooms, NEW p \in Pods, Unhost(r, p),
           process' = process, calls' \subseteq Calls
    PROVE  EngineTypes'
<1>1. snapshot' \in [Rooms -> Snapshots \cup {NoSnapshot}]
    BY DEF EngineTypes, Unhost
<1>. QED
    BY <1>1 DEF EngineTypes, Unhost

LEMMA CreateFailsTypes ==
    ASSUME EngineTypes, NEW r \in Rooms, NEW p \in Pods, CreateFails(r, p), process' = process
    PROVE  EngineTypes'
BY CallType DEF EngineTypes, CreateFails

LEMMA WriteTypes ==
    ASSUME EngineTypes, NEW r \in Rooms, NEW new \in Snapshots \cup {NoSnapshot},
           Write(r, new), UNCHANGED <<process, hosted, accepted, calls>>
    PROVE  EngineTypes'
<1>1. snapshot' \in [Rooms -> Snapshots \cup {NoSnapshot}]
    BY DEF EngineTypes, Write
<1>. QED
    BY <1>1 DEF EngineTypes

LEMMA DeleteNodeTypes ==
    ASSUME NodeTypes, NEW p, DeleteNode(p)
    PROVE  NodeTypes'
BY FailoverAssumption DEF NodeTypes, DeleteNode, ServerIDs, Unknown

LEMMA StartErrorTypes ==
    ASSUME RoomTypes, StartTypes, NEW r \in Rooms, StartError(r)
    PROVE  /\ RoomTypes'
           /\ start' \in [Rooms -> {"no", "claimed", "assigned", "calling"}]
           /\ start'[r] = "no" /\ \A q \in Rooms \ {r} : start'[q] = start[q]
           /\ target' \in [Rooms -> Pods]
           /\ fellBack' \subseteq Rooms
BY SomePod DEF RoomTypes, StartTypes, StartError, Statuses

LEMMA NextRoomTypes ==
    ASSUME MoveTypes, NEW m \in Movers, NextRoom(m)
    PROVE  /\ MoveTypes'
           /\ pc'[m] = "pick"
           /\ \A n \in Movers \ {m} : pc'[n] = pc[n] /\ room'[n] = room[n]
BY SomePod DEF MoveTypes, NextRoom, Goto, Labels

LEMMA TypeInit ==
    ASSUME Init
    PROVE  Inv
BY SomePod, FailoverAssumption
   DEF Init, Inv, TypeOK, EngineTypes, NodeTypes, RoomTypes, StartTypes, MoveTypes,
       WorkIsPlaced, Moving, Phases, Statuses, Labels, ServerIDs, Unknown

\* Engines and their calls.
LEMMA TypesInEngine ==
    ASSUME Inv, NEW c, NEW p \in Pods,
           \/ Execute(c)
           \/ Lose(c)
           \/ Replace(p)
    PROVE  Inv'
<1>. USE SomePod, FailoverAssumption, SnapshotType, CallType DEF Inv, EngineTypes, NodeTypes, RoomTypes, StartTypes, MoveTypes,
        TypeOK, WorkIsPlaced, Moving, Phases, Statuses, Labels, ServerIDs, Unknown,
        engineVars, nodeVars, roomVars, startVars, moveVars, Goto, Serving
<1>1. CASE Execute(c)
  <2>1. EngineTypes'
    <3>1. c.room \in Rooms /\ c.pod \in Pods /\ calls' \subseteq Calls /\ process' = process
        BY <1>1, CallType DEF Execute
    <3>. QED
        BY <1>1, <3>1, HostTypes, UnhostTypes DEF Execute
  <2>2. phase' \in Phases
    BY <1>1 DEF Execute, Host, Unhost
  <2>3. NodeTypes'
    BY <1>1 DEF Execute, Host, Unhost
  <2>4. RoomTypes'
    BY <1>1 DEF Execute, Host, Unhost
  <2>5. StartTypes'
    BY <1>1 DEF Execute, Host, Unhost
  <2>6. MoveTypes'
    BY <1>1 DEF Execute, Host, Unhost
  <2>7. WorkIsPlaced'
    BY <1>1 DEF Execute, Host, Unhost
  <2>. QED
    BY <2>1, <2>2, <2>3, <2>4, <2>5, <2>6, <2>7
<1>2. CASE Lose(c)
    BY <1>2 DEF Lose
<1>3. CASE Replace(p)
    BY <1>3 DEF Replace
<1>. QED
    BY <1>1, <1>2, <1>3

\* What is learned of the pods.
LEMMA TypesInWatch ==
    ASSUME Inv, NEW p \in Pods, NEW m \in Movers,
           \/ Connect(p)
           \/ Beat(p)
           \/ Miss(p)
           \/ GiveUp(m, p)
           \/ Patrol
    PROVE  Inv'
<1>. USE SomePod, FailoverAssumption, SnapshotType, CallType DEF Inv, EngineTypes, NodeTypes, RoomTypes, StartTypes, MoveTypes,
        TypeOK, WorkIsPlaced, Moving, Phases, Statuses, Labels, ServerIDs, Unknown,
        engineVars, nodeVars, roomVars, startVars, moveVars, Goto, Serving
<1>1. CASE Connect(p)
    BY <1>1 DEF Connect
<1>2. CASE Beat(p)
  <2>1. EngineTypes'
    BY <1>2 DEF Beat, HealthFree, Replaced
  <2>2. phase' \in Phases
    BY <1>2 DEF Beat, HealthFree, Replaced
  <2>3. NodeTypes'
    <3>1. serverID' \in [Pods -> ServerIDs]
        BY <1>2, ProcessType DEF Beat
    <3>2. known' = known /\ healthy' \subseteq known /\ active' \subseteq known
        BY <1>2 DEF Beat
    <3>. QED
        BY <3>1, <3>2
  <2>4. RoomTypes'
    BY <1>2 DEF Beat, HealthFree, Replaced
  <2>5. StartTypes'
    BY <1>2 DEF Beat, HealthFree, Replaced
  <2>6. MoveTypes'
    BY <1>2 DEF Beat, HealthFree, Replaced
  <2>7. WorkIsPlaced'
    BY <1>2 DEF Beat, HealthFree, Replaced
  <2>. QED
    BY <2>1, <2>2, <2>3, <2>4, <2>5, <2>6, <2>7
<1>3. CASE Miss(p)
    BY <1>3 DEF Miss, HealthFree
<1>4. CASE GiveUp(m, p)
  <2>1. EngineTypes'
    BY <1>4 DEF GiveUp, HealthFree, DeleteNode
  <2>2. phase' \in Phases
    BY <1>4 DEF GiveUp, HealthFree, DeleteNode
  <2>3. NodeTypes'
    <3>1. UNCHANGED nodeVars \/ DeleteNode(p)
        BY <1>4 DEF GiveUp
    <3>. QED
        BY <3>1, DeleteNodeTypes
  <2>4. RoomTypes'
    BY <1>4 DEF GiveUp, HealthFree, DeleteNode
  <2>5. StartTypes'
    BY <1>4 DEF GiveUp, HealthFree, DeleteNode
  <2>6. MoveTypes'
    <3>1. pc' \in [Movers -> Labels] /\ drop' \in [Movers -> Pods \cup {NoPod}]
      <4>1. CASE Serving
        <5>1. pc' = [pc EXCEPT ![m] = "collect"] /\ drop' = [drop EXCEPT ![m] = p]
            BY <1>4, <4>1 DEF GiveUp
        <5>. QED
            BY <5>1
      <4>2. CASE ~Serving
          BY <1>4, <4>2 DEF GiveUp
      <4>. QED
          BY <4>1, <4>2
    <3>. QED
        BY <1>4, <3>1 DEF GiveUp
  <2>7. WorkIsPlaced'
    BY <1>4 DEF GiveUp, DeleteNode
  <2>. QED
    BY <2>1, <2>2, <2>3, <2>4, <2>5, <2>6, <2>7
<1>5. CASE Patrol
    BY <1>5 DEF Patrol
<1>. QED
    BY <1>1, <1>2, <1>3, <1>4, <1>5

\* Start, crash and shutdown.
LEMMA TypesInProcess ==
    ASSUME Inv, NEW S \in SUBSET Pods,
           \/ Boot(S)
           \/ Restore
           \/ RestoreFails
           \/ Crash
           \/ Panic
           \/ DestroyAllRooms
    PROVE  Inv'
<1>. USE SomePod, FailoverAssumption, SnapshotType, CallType DEF Inv, EngineTypes, NodeTypes, RoomTypes, StartTypes, MoveTypes,
        TypeOK, WorkIsPlaced, Moving, Phases, Statuses, Labels, ServerIDs, Unknown,
        engineVars, nodeVars, roomVars, startVars, moveVars, Goto, Serving
<1>1. CASE Boot(S)
  <2>1. EngineTypes'
    BY <1>1 DEF Boot
  <2>2. phase' \in Phases
    BY <1>1 DEF Boot
  <2>3. NodeTypes'
    BY <1>1 DEF Boot
  <2>4. RoomTypes'
    BY <1>1 DEF Boot
  <2>5. StartTypes'
    BY <1>1 DEF Boot
  <2>6. MoveTypes'
    <3>1. UNCHANGED <<pc, moveVars>>
        BY <1>1 DEF Boot
    <3>. QED
        BY <3>1
  <2>7. WorkIsPlaced'
    BY <1>1 DEF Boot
  <2>. QED
    BY <2>1, <2>2, <2>3, <2>4, <2>5, <2>6, <2>7
<1>2. CASE Restore
  <2>1. EngineTypes' /\ NodeTypes' /\ StartTypes' /\ phase' \in Phases
    BY <1>2 DEF Restore
  <2>2. RoomTypes'
    BY <1>2 DEF Restore, Saved
  <2>3. pc' = [pc EXCEPT ![Health] = "collect"] /\ UNCHANGED moveVars
    BY <1>2 DEF Restore
  <2>4. MoveTypes'
    BY <2>3
  <2>5. WorkIsPlaced'
    BY <1>2, <2>3 DEF Restore
  <2>. QED
    BY <2>1, <2>2, <2>4, <2>5
<1>3. CASE RestoreFails
    BY <1>3 DEF RestoreFails
<1>4. CASE Crash
    BY <1>4 DEF Crash, Forgotten
<1>5. CASE Panic
    BY <1>5 DEF Panic, Forgotten
<1>6. CASE DestroyAllRooms
    BY <1>6 DEF DestroyAllRooms
<1>. QED
    BY <1>1, <1>2, <1>3, <1>4, <1>5, <1>6

\* Rooms and starts.
LEMMA TypesInPlay ==
    ASSUME Inv, NEW r \in Rooms, NEW p \in Pods,
           \/ CreateRoom(r)
           \/ StartGame(r)
           \/ Assign(r, p)
           \/ Begin(r, p)
           \/ StartAccepted(r)
           \/ StartFails(r)
           \/ LeaveRoom(r)
           \/ DestroyRoom(r)
           \/ Unlink(r)
    PROVE  Inv'
<1>. USE SomePod, FailoverAssumption, SnapshotType, CallType DEF Inv, EngineTypes, NodeTypes, RoomTypes, StartTypes, MoveTypes,
        TypeOK, WorkIsPlaced, Moving, Phases, Statuses, Labels, ServerIDs, Unknown,
        engineVars, nodeVars, roomVars, startVars, moveVars, Goto, Serving
<1>1. CASE CreateRoom(r)
    BY <1>1 DEF CreateRoom, Fresh, Saved, roomRest
<1>2. CASE StartGame(r)
    BY <1>2 DEF StartGame, roomRest
<1>3. CASE Assign(r, p)
  <2>1. EngineTypes'
    BY <1>3 DEF Assign, StartError, roomRest
  <2>2. phase' \in Phases
    BY <1>3 DEF Assign, StartError, roomRest
  <2>3. NodeTypes'
    BY <1>3 DEF Assign, StartError, roomRest
  <2>4. RoomTypes'
    BY <1>3, StartErrorTypes DEF Assign
  <2>5. StartTypes'
    <3>1. CASE p \in known
      <4>1. start' \in [Rooms -> {"no", "claimed", "assigned", "calling"}]
          BY <1>3, <3>1 DEF Assign
      <4>2. target' \in [Rooms -> Pods]
        <5>1. target' = [target EXCEPT ![r] = p]
            BY <1>3, <3>1 DEF Assign
        <5>. QED
            BY <5>1
      <4>3. tries' \in [Rooms -> 0 .. MaxRetries] /\ fellBack' \subseteq Rooms
          BY <1>3, <3>1 DEF Assign
      <4>. QED
          BY <4>1, <4>2, <4>3
    <3>2. CASE p \notin known
        BY <1>3, <3>2, StartErrorTypes DEF Assign
    <3>. QED
        BY <3>1, <3>2
  <2>6. MoveTypes'
    BY <1>3 DEF Assign, StartError, roomRest
  <2>7. WorkIsPlaced'
    BY <1>3, StartErrorTypes DEF Assign, roomRest
  <2>. QED
    BY <2>1, <2>2, <2>3, <2>4, <2>5, <2>6, <2>7
<1>4. CASE Begin(r, p)
  <2>1. EngineTypes'
    BY <1>4 DEF Begin, StartError, roomRest
  <2>2. phase' \in Phases
    BY <1>4 DEF Begin, StartError, roomRest
  <2>3. NodeTypes'
    BY <1>4 DEF Begin, StartError, roomRest
  <2>4. RoomTypes'
    BY <1>4, StartErrorTypes DEF Begin
  <2>5. StartTypes'
    <3>1. CASE p \in known
      <4>1. start' \in [Rooms -> {"no", "claimed", "assigned", "calling"}]
          BY <1>4, <3>1 DEF Begin
      <4>2. target' \in [Rooms -> Pods]
        <5>1. target' = [target EXCEPT ![r] = p]
            BY <1>4, <3>1 DEF Begin
        <5>. QED
            BY <5>1
      <4>3. tries' \in [Rooms -> 0 .. MaxRetries] /\ fellBack' \subseteq Rooms
        <5>1. /\ tries' = [tries EXCEPT ![r] = MaxRetries]
              /\ fellBack' = fellBack \/ fellBack' = fellBack \cup {r}
            BY <1>4, <3>1 DEF Begin
        <5>2. MaxRetries \in 0 .. MaxRetries
            OBVIOUS
        <5>. QED
            BY <5>1, <5>2
      <4>. QED
          BY <4>1, <4>2, <4>3
    <3>2. CASE p \notin known
        BY <1>4, <3>2, StartErrorTypes DEF Begin
    <3>. QED
        BY <3>1, <3>2
  <2>6. MoveTypes'
    BY <1>4 DEF Begin, StartError, roomRest
  <2>7. WorkIsPlaced'
    BY <1>4, StartErrorTypes DEF Begin, roomRest
  <2>. QED
    BY <2>1, <2>2, <2>3, <2>4, <2>5, <2>6, <2>7
<1>5. CASE StartAccepted(r)
  <2>1. EngineTypes'
    BY <1>5, HostTypes DEF StartAccepted, roomRest
  <2>2. phase' \in Phases
    BY <1>5 DEF StartAccepted, Host, roomRest
  <2>3. NodeTypes'
    BY <1>5 DEF StartAccepted, Host, roomRest
  <2>4. RoomTypes'
    BY <1>5 DEF StartAccepted, Host, roomRest
  <2>5. StartTypes'
    BY <1>5 DEF StartAccepted, Host, roomRest
  <2>6. MoveTypes'
    BY <1>5 DEF StartAccepted, Host, roomRest
  <2>7. WorkIsPlaced'
    BY <1>5 DEF StartAccepted, Host, roomRest
  <2>. QED
    BY <2>1, <2>2, <2>3, <2>4, <2>5, <2>6, <2>7
<1>6. CASE StartFails(r)
  <2>1. EngineTypes'
    BY <1>6, CreateFailsTypes DEF StartFails, roomRest
  <2>2. phase' \in Phases
    BY <1>6 DEF StartFails, CreateFails, StartError, roomRest
  <2>3. NodeTypes'
    BY <1>6 DEF StartFails, CreateFails, StartError, roomRest
  <2>4. RoomTypes'
    BY <1>6 DEF StartFails, CreateFails, StartError, roomRest
  <2>5. StartTypes'
    <3>1. tries' \in [Rooms -> 0 .. MaxRetries]
        BY <1>6 DEF StartFails
    <3>. QED
        BY <1>6, <3>1, StartErrorTypes DEF StartFails
  <2>6. MoveTypes'
    BY <1>6 DEF StartFails, CreateFails, StartError, roomRest
  <2>7. WorkIsPlaced'
    BY <1>6 DEF StartFails, CreateFails, StartError, roomRest
  <2>. QED
    BY <2>1, <2>2, <2>3, <2>4, <2>5, <2>6, <2>7
<1>7. CASE LeaveRoom(r)
    BY <1>7 DEF LeaveRoom, roomRest
<1>8. CASE DestroyRoom(r)
  <2>1. EngineTypes'
    <3>1. process' = process /\ nodeID[r] \in Pods
        BY <1>8 DEF DestroyRoom, roomRest
    <3>2. CASE Unhost(r, nodeID[r]) /\ UNCHANGED calls
        BY <3>1, <3>2, UnhostTypes
    <3>3. CASE UNCHANGED <<hosted, accepted, snapshot, calls>>
        BY <3>1, <3>3
    <3>4. CASE /\ calls' = calls \cup {Call("DestroyRoom", r, nodeID[r])}
               /\ UNCHANGED <<hosted, accepted, snapshot>>
      <4>1. Call("DestroyRoom", r, nodeID[r]) \in Calls
          BY <3>1, CallType
      <4>. QED
          BY <3>1, <3>4, <4>1
    <3>. QED
        BY <1>8, <3>2, <3>3, <3>4 DEF DestroyRoom
  <2>2. phase' \in Phases
    BY <1>8 DEF DestroyRoom, Unhost, roomRest
  <2>3. NodeTypes'
    BY <1>8 DEF DestroyRoom, Unhost, roomRest
  <2>4. RoomTypes'
    BY <1>8 DEF DestroyRoom, Unhost, roomRest
  <2>5. StartTypes'
    BY <1>8 DEF DestroyRoom, Unhost, roomRest
  <2>6. MoveTypes'
    BY <1>8 DEF DestroyRoom, Unhost, roomRest
  <2>7. WorkIsPlaced'
    BY <1>8 DEF DestroyRoom, Unhost, roomRest
  <2>. QED
    BY <2>1, <2>2, <2>3, <2>4, <2>5, <2>6, <2>7
<1>9. CASE Unlink(r)
    BY <1>9 DEF Unlink, roomRest
<1>. QED
    BY <1>1, <1>2, <1>3, <1>4, <1>5, <1>6, <1>7, <1>8, <1>9

\* Reassignments.
LEMMA TypesInMove ==
    ASSUME Inv, NEW m \in Movers,
           \/ Collect(m)
           \/ Finish(m)
           \/ \E r \in Rooms : Pick(m, r)
           \/ Reread(m)
           \/ Load(m)
           \/ CreateAccepted(m)
           \/ CreateFault(m)
           \/ SetNode(m)
           \/ Save(m)
           \/ SendDestroy(m)
           \/ SaveAgain(m)
    PROVE  Inv'
<1>. USE SomePod, FailoverAssumption, SnapshotType, CallType DEF Inv, EngineTypes, NodeTypes, RoomTypes, StartTypes, MoveTypes,
        TypeOK, WorkIsPlaced, Moving, Phases, Statuses, Labels, ServerIDs, Unknown,
        engineVars, nodeVars, roomVars, startVars, moveVars, Goto, Serving
<1>1. CASE Collect(m)
    BY <1>1 DEF Collect, moveRest
<1>2. CASE Finish(m)
  <2>1. EngineTypes'
    BY <1>2 DEF Finish, End, DeleteNode
  <2>2. phase' \in Phases
    BY <1>2 DEF Finish, End, DeleteNode
  <2>3. NodeTypes'
    BY <1>2, DeleteNodeTypes DEF Finish, End
  <2>4. RoomTypes'
    BY <1>2 DEF Finish, End, DeleteNode
  <2>5. StartTypes'
    BY <1>2 DEF Finish, End, DeleteNode
  <2>6. MoveTypes'
    BY <1>2 DEF Finish, End, DeleteNode
  <2>7. WorkIsPlaced'
    BY <1>2 DEF Finish, End, DeleteNode
  <2>. QED
    BY <2>1, <2>2, <2>3, <2>4, <2>5, <2>6, <2>7
<1>3. CASE \E r \in Rooms : Pick(m, r)
  <2>1. EngineTypes'
    BY <1>3 DEF Pick, Candidates, moveRest
  <2>2. phase' \in Phases
    BY <1>3 DEF Pick, Candidates, moveRest
  <2>3. NodeTypes'
    BY <1>3 DEF Pick, Candidates, moveRest
  <2>4. RoomTypes'
    BY <1>3 DEF Pick, Candidates, moveRest
  <2>5. StartTypes'
    BY <1>3 DEF Pick, Candidates, moveRest
  <2>6. MoveTypes'
    <3>1. PICK r \in Rooms : Pick(m, r)
        BY <1>3
    <3>2. targets' \in [Movers -> SUBSET Rooms]
        BY <3>1 DEF Pick
    <3>3. CASE Candidates(r) = {}
        BY <3>1, <3>2, <3>3 DEF Pick
    <3>4. CASE Candidates(r) # {}
      <4>1. pc' = [pc EXCEPT ![m] = "reread"] /\ room' = [room EXCEPT ![m] = r]
          BY <3>1, <3>4 DEF Pick
      <4>3. pc' \in [Movers -> Labels] /\ room' \in [Movers -> Rooms \cup {NoRoom}]
          BY <4>1
      <4>2. newNode' \in [Movers -> Pods]
          BY <3>1, <3>4 DEF Pick, Candidates
      <4>. QED
          BY <3>1, <3>2, <4>2, <4>3 DEF Pick
    <3>. QED
        BY <3>3, <3>4
  <2>7. WorkIsPlaced'
    BY <1>3 DEF Pick, Candidates, moveRest
  <2>. QED
    BY <2>1, <2>2, <2>3, <2>4, <2>5, <2>6, <2>7
<1>4. CASE Reread(m)
  <2>1. EngineTypes'
    BY <1>4 DEF Reread, NextRoom, moveRest
  <2>2. phase' \in Phases
    BY <1>4 DEF Reread, NextRoom, moveRest
  <2>3. NodeTypes'
    BY <1>4 DEF Reread, NextRoom, moveRest
  <2>4. RoomTypes'
    BY <1>4 DEF Reread, NextRoom, moveRest
  <2>5. StartTypes'
    BY <1>4 DEF Reread, NextRoom, moveRest
  <2>6. MoveTypes'
    <3>1. oldNodeID' \in [Movers -> Pods] /\ pc' \in [Movers -> Labels]
      <4>1. CASE status[room[m]] = "Playing"
        <5>1. oldNodeID' = [oldNodeID EXCEPT ![m] = nodeID[room[m]]] /\ pc' = [pc EXCEPT ![m] = "load"]
            BY <1>4, <4>1 DEF Reread
        <5>2. room[m] \in Rooms
            BY <1>4 DEF Reread
        <5>. QED
            BY <5>1, <5>2
      <4>2. CASE status[room[m]] # "Playing"
          BY <1>4, <4>2, NextRoomTypes DEF Reread
      <4>. QED
          BY <4>1, <4>2
    <3>. QED
        BY <1>4, <3>1, NextRoomTypes DEF Reread
  <2>7. WorkIsPlaced'
    BY <1>4 DEF Reread, NextRoom, moveRest
  <2>. QED
    BY <2>1, <2>2, <2>3, <2>4, <2>5, <2>6, <2>7
<1>5. CASE Load(m)
  <2>1. EngineTypes'
    BY <1>5 DEF Load, NextRoom, moveRest
  <2>2. phase' \in Phases
    BY <1>5 DEF Load, NextRoom, moveRest
  <2>3. NodeTypes'
    BY <1>5 DEF Load, NextRoom, moveRest
  <2>4. RoomTypes'
    BY <1>5 DEF Load, NextRoom, moveRest
  <2>5. StartTypes'
    BY <1>5 DEF Load, NextRoom, moveRest
  <2>6. MoveTypes'
    BY <1>5, NextRoomTypes DEF Load
  <2>7. WorkIsPlaced'
    BY <1>5 DEF Load, NextRoom, moveRest
  <2>. QED
    BY <2>1, <2>2, <2>3, <2>4, <2>5, <2>6, <2>7
<1>6. CASE CreateAccepted(m)
  <2>1. EngineTypes'
    <3>1. room[m] \in Rooms /\ newNode[m] \in Pods
        BY <1>6 DEF CreateAccepted
    <3>. QED
        BY <1>6, <3>1, HostTypes DEF CreateAccepted, moveRest
  <2>2. phase' \in Phases
    BY <1>6 DEF CreateAccepted, Host, moveRest
  <2>3. NodeTypes'
    BY <1>6 DEF CreateAccepted, Host, moveRest
  <2>4. RoomTypes'
    BY <1>6 DEF CreateAccepted, Host, moveRest
  <2>5. StartTypes'
    BY <1>6 DEF CreateAccepted, Host, moveRest
  <2>6. MoveTypes'
    BY <1>6 DEF CreateAccepted, Host, moveRest
  <2>7. WorkIsPlaced'
    BY <1>6 DEF CreateAccepted, Host, moveRest
  <2>. QED
    BY <2>1, <2>2, <2>3, <2>4, <2>5, <2>6, <2>7
<1>7. CASE CreateFault(m)
  <2>1. EngineTypes'
    <3>1. room[m] \in Rooms /\ newNode[m] \in Pods
        BY <1>7 DEF CreateFault
    <3>. QED
        BY <1>7, <3>1, CreateFailsTypes DEF CreateFault, moveRest
  <2>2. phase' \in Phases
    BY <1>7 DEF CreateFault, CreateFails, NextRoom, moveRest
  <2>3. NodeTypes'
    BY <1>7 DEF CreateFault, CreateFails, NextRoom, moveRest
  <2>4. RoomTypes'
    BY <1>7 DEF CreateFault, CreateFails, NextRoom, moveRest
  <2>5. StartTypes'
    BY <1>7 DEF CreateFault, CreateFails, NextRoom, moveRest
  <2>6. MoveTypes'
    BY <1>7, NextRoomTypes DEF CreateFault
  <2>7. WorkIsPlaced'
    BY <1>7 DEF CreateFault, CreateFails, NextRoom, moveRest
  <2>. QED
    BY <2>1, <2>2, <2>3, <2>4, <2>5, <2>6, <2>7
<1>8. CASE SetNode(m)
    BY <1>8 DEF SetNode, moveRest
<1>9. CASE Save(m)
  <2>1. PICK id \in KnownIDs(newNode[m]) :
          /\ updated' = [updated EXCEPT ![m] = [node |-> newNode[m], server |-> id]]
          /\ Write(room[m], [node |-> newNode[m], server |-> id])
      BY <1>9 DEF Save
  <2>2. [node |-> newNode[m], server |-> id] \in Snapshots
      BY <2>1, SnapshotType DEF KnownIDs
  <2>3. room[m] \in Rooms
      BY <1>9 DEF Save
  <2>4. EngineTypes'
      BY <1>9, <2>1, <2>2, <2>3, WriteTypes DEF Save, moveRest
  <2>5. updated' \in [Movers -> Snapshots \cup {NoSnapshot}]
      BY <2>1, <2>2
  <2>6. pc' \in [Movers -> Labels]
      BY <1>9 DEF Save
  <2>7. MoveTypes'
      BY <1>9, <2>5, <2>6 DEF Save
  <2>8. NodeTypes' /\ RoomTypes' /\ StartTypes' /\ phase' \in Phases
      BY <1>9 DEF Save, moveRest
  <2>9. WorkIsPlaced'
      BY <1>9 DEF Save, moveRest
  <2>. QED
      BY <2>4, <2>7, <2>8, <2>9
<1>10. CASE SendDestroy(m)
  <2>1. EngineTypes'
    <3>1. room[m] \in Rooms /\ oldNodeID[m] \in Pods
        BY <1>10 DEF SendDestroy
    <3>2. Call("DestroyRoom", room[m], oldNodeID[m]) \in Calls
        BY <3>1, CallType
    <3>. QED
        BY <1>10, <3>2 DEF SendDestroy, moveRest
  <2>2. phase' \in Phases
    BY <1>10 DEF SendDestroy, moveRest
  <2>3. NodeTypes'
    BY <1>10 DEF SendDestroy, moveRest
  <2>4. RoomTypes'
    BY <1>10 DEF SendDestroy, moveRest
  <2>5. StartTypes'
    BY <1>10 DEF SendDestroy, moveRest
  <2>6. MoveTypes'
    BY <1>10 DEF SendDestroy, moveRest
  <2>7. WorkIsPlaced'
    BY <1>10 DEF SendDestroy, moveRest
  <2>. QED
    BY <2>1, <2>2, <2>3, <2>4, <2>5, <2>6, <2>7
<1>11. CASE SaveAgain(m)
    BY <1>11 DEF SaveAgain, Write, NextRoom, moveRest
<1>. QED
    BY <1>1, <1>2, <1>3, <1>4, <1>5, <1>6, <1>7, <1>8, <1>9, <1>10, <1>11

\* Every step keeps the types.
LEMMA TypesStep ==
    ASSUME Inv, [Next]_vars
    PROVE  Inv'
<1>1. CASE Engine
    BY <1>1, TypesInEngine, SomePod DEF Engine
<1>2. CASE Watch
    BY <1>2, TypesInWatch, SomePod, SomeMover DEF Watch
<1>3. CASE Process
    BY <1>3, TypesInProcess DEF Process
<1>4. ASSUME NEW r \in Rooms, Play(r)
      PROVE  Inv'
    BY <1>4, TypesInPlay, SomePod DEF Play, StartStep
<1>5. ASSUME NEW m \in Movers, Move(m)
      PROVE  Inv'
    BY <1>5, TypesInMove DEF Move
<1>6. CASE UNCHANGED vars
    BY <1>6 DEF Inv, TypeOK, WorkIsPlaced, EngineTypes, NodeTypes, RoomTypes, StartTypes, MoveTypes, vars, engineVars, nodeVars, roomVars, startVars, moveVars
<1>. QED
    BY <1>1, <1>2, <1>3, <1>4, <1>5, <1>6 DEF Next

LEMMA InvAlways == Spec => []Inv
<1>1. Init => Inv
    BY TypeInit
<1>2. Inv /\ [Next]_vars => Inv'
    BY TypesStep
<1>. QED
    BY <1>1, <1>2, PTL DEF Spec

\* The variables of Failover stay in their types.
THEOREM TypeCorrect == Spec => []TypeOK
BY InvAlways, PTL DEF Inv

(***************************************************************************)
(* Nothing runs but what main has begun.                                   *)
(***************************************************************************)

\* Before the gateway serves, rooms are not started and only main reassigns; a room
\* that is not there is not started.
Quiet ==
    /\ ~Serving => /\ \A r \in Rooms : start[r] = "no"
                   /\ \A l \in Loops : pc[l] = "idle"
    /\ phase \in {"down", "booting"} => pc[Health] = "idle"
    /\ \A r \in Rooms : status[r] = "none" => start[r] = "no"

\* Engines and their calls.
LEMMA QuietInEngine ==
    ASSUME Inv, Quiet, NEW c, NEW p \in Pods,
           \/ Execute(c)
           \/ Lose(c)
           \/ Replace(p)
    PROVE  Quiet'
<1>. USE SomeMover DEF Quiet, Inv, TypeOK, WorkIsPlaced, Moving, Phases, Statuses, NodeTypes, RoomTypes, StartTypes, MoveTypes,
        engineVars, nodeVars, roomVars, startVars, moveVars, Goto, Serving
<1>1. CASE Execute(c)
    BY <1>1 DEF Execute, Host, Unhost
<1>2. CASE Lose(c)
    BY <1>2 DEF Lose
<1>3. CASE Replace(p)
    BY <1>3 DEF Replace
<1>. QED
    BY <1>1, <1>2, <1>3

\* What is learned of the pods.
LEMMA QuietInWatch ==
    ASSUME Inv, Quiet, NEW p \in Pods, NEW m \in Movers,
           \/ Connect(p)
           \/ Beat(p)
           \/ Miss(p)
           \/ GiveUp(m, p)
           \/ Patrol
    PROVE  Quiet'
<1>. USE SomeMover DEF Quiet, Inv, TypeOK, WorkIsPlaced, Moving, Phases, Statuses, NodeTypes, RoomTypes, StartTypes, MoveTypes,
        engineVars, nodeVars, roomVars, startVars, moveVars, Goto, Serving
<1>1. CASE Connect(p)
    BY <1>1 DEF Connect
<1>2. CASE Beat(p)
    BY <1>2 DEF Beat, HealthFree, Replaced
<1>3. CASE Miss(p)
    BY <1>3 DEF Miss, HealthFree
<1>4. CASE GiveUp(m, p)
    BY <1>4 DEF GiveUp, HealthFree, DeleteNode
<1>5. CASE Patrol
    BY <1>5 DEF Patrol
<1>. QED
    BY <1>1, <1>2, <1>3, <1>4, <1>5

\* Start, crash and shutdown.
LEMMA QuietInProcess ==
    ASSUME Inv, Quiet, NEW S \in SUBSET Pods,
           \/ Boot(S)
           \/ Restore
           \/ RestoreFails
           \/ Crash
           \/ Panic
           \/ DestroyAllRooms
    PROVE  Quiet'
<1>. USE SomeMover DEF Quiet, Inv, TypeOK, WorkIsPlaced, Moving, Phases, Statuses, NodeTypes, RoomTypes, StartTypes, MoveTypes,
        engineVars, nodeVars, roomVars, startVars, moveVars, Goto, Serving
<1>1. CASE Boot(S)
    BY <1>1 DEF Boot
<1>2. CASE Restore
    BY <1>2 DEF Restore, Saved
<1>3. CASE RestoreFails
    BY <1>3 DEF RestoreFails
<1>4. CASE Crash
    BY <1>4 DEF Crash, Forgotten
<1>5. CASE Panic
    BY <1>5 DEF Panic, Forgotten
<1>6. CASE DestroyAllRooms
    BY <1>6 DEF DestroyAllRooms
<1>. QED
    BY <1>1, <1>2, <1>3, <1>4, <1>5, <1>6

\* Rooms and starts.
LEMMA QuietInPlay ==
    ASSUME Inv, Quiet, NEW r \in Rooms, NEW p \in Pods,
           \/ CreateRoom(r)
           \/ StartGame(r)
           \/ Assign(r, p)
           \/ Begin(r, p)
           \/ StartAccepted(r)
           \/ StartFails(r)
           \/ LeaveRoom(r)
           \/ DestroyRoom(r)
           \/ Unlink(r)
    PROVE  Quiet'
<1>. USE SomeMover DEF Quiet, Inv, TypeOK, WorkIsPlaced, Moving, Phases, Statuses, NodeTypes, RoomTypes, StartTypes, MoveTypes,
        engineVars, nodeVars, roomVars, startVars, moveVars, Goto, Serving
<1>1. CASE CreateRoom(r)
    BY <1>1 DEF CreateRoom, Fresh, Saved, roomRest
<1>2. CASE StartGame(r)
    BY <1>2 DEF StartGame, roomRest
<1>3. CASE Assign(r, p)
    BY <1>3 DEF Assign, StartError, roomRest
<1>4. CASE Begin(r, p)
    BY <1>4 DEF Begin, StartError, roomRest
<1>5. CASE StartAccepted(r)
    BY <1>5 DEF StartAccepted, Host, roomRest
<1>6. CASE StartFails(r)
    BY <1>6 DEF StartFails, CreateFails, StartError, roomRest
<1>7. CASE LeaveRoom(r)
    BY <1>7 DEF LeaveRoom, roomRest
<1>8. CASE DestroyRoom(r)
    BY <1>8 DEF DestroyRoom, Unhost, roomRest
<1>9. CASE Unlink(r)
    BY <1>9 DEF Unlink, roomRest
<1>. QED
    BY <1>1, <1>2, <1>3, <1>4, <1>5, <1>6, <1>7, <1>8, <1>9

\* Reassignments.
LEMMA QuietInMove ==
    ASSUME Inv, Quiet, NEW m \in Movers,
           \/ Collect(m)
           \/ Finish(m)
           \/ \E r \in Rooms : Pick(m, r)
           \/ Reread(m)
           \/ Load(m)
           \/ CreateAccepted(m)
           \/ CreateFault(m)
           \/ SetNode(m)
           \/ Save(m)
           \/ SendDestroy(m)
           \/ SaveAgain(m)
    PROVE  Quiet'
<1>. USE SomeMover DEF Quiet, Inv, TypeOK, WorkIsPlaced, Moving, Phases, Statuses, NodeTypes, RoomTypes, StartTypes, MoveTypes,
        engineVars, nodeVars, roomVars, startVars, moveVars, Goto, Serving
<1>1. CASE Collect(m)
    BY <1>1 DEF Collect, moveRest
<1>2. CASE Finish(m)
    BY <1>2 DEF Finish, End, DeleteNode
<1>3. CASE \E r \in Rooms : Pick(m, r)
    BY <1>3 DEF Pick, Candidates, moveRest
<1>4. CASE Reread(m)
    BY <1>4 DEF Reread, NextRoom, moveRest
<1>5. CASE Load(m)
    BY <1>5 DEF Load, NextRoom, moveRest
<1>6. CASE CreateAccepted(m)
    BY <1>6 DEF CreateAccepted, Host, moveRest
<1>7. CASE CreateFault(m)
    BY <1>7 DEF CreateFault, CreateFails, NextRoom, moveRest
<1>8. CASE SetNode(m)
    BY <1>8 DEF SetNode, moveRest
<1>9. CASE Save(m)
    BY <1>9 DEF Save, KnownIDs, Write, moveRest
<1>10. CASE SendDestroy(m)
    BY <1>10 DEF SendDestroy, moveRest
<1>11. CASE SaveAgain(m)
    BY <1>11 DEF SaveAgain, Write, NextRoom, moveRest
<1>. QED
    BY <1>1, <1>2, <1>3, <1>4, <1>5, <1>6, <1>7, <1>8, <1>9, <1>10, <1>11

\* Every step leaves to main what is main's.
LEMMA QuietStep ==
    ASSUME Inv, Quiet, [Next]_vars
    PROVE  Quiet'
<1>1. CASE Engine
    BY <1>1, QuietInEngine, SomePod DEF Engine
<1>2. CASE Watch
    BY <1>2, QuietInWatch, SomePod, SomeMover DEF Watch
<1>3. CASE Process
    BY <1>3, QuietInProcess DEF Process
<1>4. ASSUME NEW r \in Rooms, Play(r)
      PROVE  Quiet'
    BY <1>4, QuietInPlay, SomePod DEF Play, StartStep
<1>5. ASSUME NEW m \in Movers, Move(m)
      PROVE  Quiet'
    BY <1>5, QuietInMove DEF Move
<1>6. CASE UNCHANGED vars
    BY <1>6 DEF Quiet, Serving, vars, engineVars, nodeVars, roomVars, startVars, moveVars
<1>. QED
    BY <1>1, <1>2, <1>3, <1>4, <1>5, <1>6 DEF Next

LEMMA QuietAlways == Spec => []Quiet
<1>1. Init => Quiet
    BY SomeMover DEF Init, Quiet, Serving
<1>2. Inv /\ Quiet /\ [Next]_vars => Quiet'
    BY QuietStep
<1>. QED
    BY <1>1, <1>2, InvAlways, PTL DEF Spec

(***************************************************************************)
(* Rooms are where snapshots and NodeID say.                               *)
(***************************************************************************)

\* A move has the room accepted by its new node before it writes that down.
MovesAreAccepted ==
    \A m \in Movers :
        /\ pc[m] \in {"assign", "save", "destroy", "resave"} => <<room[m], newNode[m]>> \in accepted
        /\ pc[m] \in {"destroy", "resave"} =>
              updated[m] # NoSnapshot /\ <<room[m], updated[m].node>> \in accepted

\* A start calls the node the room is assigned to, or a move has come between.
StartsAreAssigned ==
    \A r \in Rooms \ fellBack :
        start[r] \in {"assigned", "calling"} => target[r] = nodeID[r] \/ <<r, nodeID[r]>> \in accepted

Placement == SnapshotsNameHosts /\ MovesAreAccepted /\ StartsAreAssigned /\ AcceptedWhereAssigned

LEMMA SnapshotNode ==
    ASSUME NEW p \in Pods, NEW id \in ServerIDs
    PROVE  [node |-> p, server |-> id] # NoSnapshot /\ [node |-> p, server |-> id].node = p
BY SnapshotAssumption, SnapshotType

\* The engine accepts a room and writes its snapshot.
LEMMA HostPlaces ==
    ASSUME Inv, SnapshotsNameHosts, NEW r \in Rooms, NEW p \in Pods, Host(r, p)
    PROVE  SnapshotsNameHosts' /\ accepted \subseteq accepted' /\ <<r, p>> \in accepted'
<1>1. process[p] \in ServerIDs
    BY ProcessType DEF Inv, TypeOK
<1>2. \A q \in Rooms \ {r} : snapshot'[q] = snapshot[q]
    BY DEF Inv, TypeOK, EngineTypes, Host
<1>3. snapshot'[r].node = p
    BY <1>1, SnapshotNode DEF Inv, TypeOK, EngineTypes, Host
<1>. QED
    BY <1>2, <1>3 DEF SnapshotsNameHosts, Host

LEMMA UnhostPlaces ==
    ASSUME Inv, SnapshotsNameHosts, NEW r \in Rooms, NEW p \in Pods, Unhost(r, p)
    PROVE  SnapshotsNameHosts' /\ accepted' = accepted
BY DEF SnapshotsNameHosts, Unhost, Inv, TypeOK, EngineTypes

LEMMA CreateFailsPlaces ==
    ASSUME SnapshotsNameHosts, NEW r, NEW p, CreateFails(r, p)
    PROVE  SnapshotsNameHosts' /\ accepted' = accepted
BY DEF SnapshotsNameHosts, CreateFails

LEMMA WritePlaces ==
    ASSUME Inv, SnapshotsNameHosts, NEW r \in Rooms, NEW new, Write(r, new), accepted' = accepted,
           <<r, new.node>> \in accepted
    PROVE  SnapshotsNameHosts'
BY DEF SnapshotsNameHosts, Write, Inv, TypeOK, EngineTypes

\* The start of a room ends without success.
LEMMA StartErrorPlaces ==
    ASSUME Inv, Placement, NEW r \in Rooms, StartError(r), accepted' = accepted
    PROVE  StartsAreAssigned' /\ AcceptedWhereAssigned'
BY DEF Inv, TypeOK, RoomTypes, StartTypes, Placement, StartsAreAssigned, AcceptedWhereAssigned, StartError

LEMMA NextRoomPlaces ==
    ASSUME Inv, MovesAreAccepted, NEW m \in Movers, NextRoom(m), accepted' = accepted
    PROVE  MovesAreAccepted'
BY DEF Inv, TypeOK, MoveTypes, MovesAreAccepted, NextRoom, Goto

\* Engines and their calls.
LEMMA PlacesInEngine ==
    ASSUME Inv, Quiet, Placement, NEW c, NEW p \in Pods,
           \/ Execute(c)
           \/ Lose(c)
           \/ Replace(p)
    PROVE  Placement'
<1>. USE SnapshotAssumption DEF Quiet, Serving, Placement, SnapshotsNameHosts, MovesAreAccepted, StartsAreAssigned, AcceptedWhereAssigned,
        Inv, TypeOK, WorkIsPlaced, Moving, EngineTypes, NodeTypes, RoomTypes, StartTypes, MoveTypes,
        engineVars, nodeVars, roomVars, startVars, moveVars, Goto
<1>1. CASE Execute(c)
  <2>1. c.room \in Rooms /\ c.pod \in Pods
      BY <1>1, CallType DEF Execute
  <2>2. SnapshotsNameHosts' /\ accepted \subseteq accepted'
      BY <1>1, <2>1, HostPlaces, UnhostPlaces DEF Execute
  <2>. QED
      BY <1>1, <2>2 DEF Execute
<1>2. CASE Lose(c)
    BY <1>2 DEF Lose
<1>3. CASE Replace(p)
    BY <1>3 DEF Replace
<1>. QED
    BY <1>1, <1>2, <1>3

\* What is learned of the pods.
LEMMA PlacesInWatch ==
    ASSUME Inv, Quiet, Placement, NEW p \in Pods, NEW m \in Movers,
           \/ Connect(p)
           \/ Beat(p)
           \/ Miss(p)
           \/ GiveUp(m, p)
           \/ Patrol
    PROVE  Placement'
<1>. USE SnapshotAssumption DEF Quiet, Serving, Placement, SnapshotsNameHosts, MovesAreAccepted, StartsAreAssigned, AcceptedWhereAssigned,
        Inv, TypeOK, WorkIsPlaced, Moving, EngineTypes, NodeTypes, RoomTypes, StartTypes, MoveTypes,
        engineVars, nodeVars, roomVars, startVars, moveVars, Goto
<1>1. CASE Connect(p)
    BY <1>1 DEF Connect
<1>2. CASE Beat(p)
  <2>1. SnapshotsNameHosts'
    BY <1>2 DEF Beat, HealthFree, Replaced
  <2>2. MovesAreAccepted'
    BY <1>2 DEF Beat, HealthFree, Replaced
  <2>3. StartsAreAssigned'
    BY <1>2 DEF Beat, HealthFree, Replaced
  <2>4. AcceptedWhereAssigned'
    BY <1>2 DEF Beat, HealthFree, Replaced
  <2>. QED
    BY <2>1, <2>2, <2>3, <2>4
<1>3. CASE Miss(p)
  <2>1. SnapshotsNameHosts'
    BY <1>3 DEF Miss, HealthFree
  <2>2. MovesAreAccepted'
    BY <1>3 DEF Miss, HealthFree
  <2>3. StartsAreAssigned'
    BY <1>3 DEF Miss, HealthFree
  <2>4. AcceptedWhereAssigned'
    BY <1>3 DEF Miss, HealthFree
  <2>. QED
    BY <2>1, <2>2, <2>3, <2>4
<1>4. CASE GiveUp(m, p)
  <2>1. SnapshotsNameHosts'
    <3>1. UNCHANGED <<snapshot, accepted>>
        BY <1>4 DEF GiveUp
    <3>. QED
        BY <3>1
  <2>2. MovesAreAccepted'
    <3>1. UNCHANGED <<accepted, room, newNode, updated>>
        BY <1>4 DEF GiveUp
    <3>2. pc' = pc \/ pc' = [pc EXCEPT ![m] = "collect"]
        BY <1>4 DEF GiveUp
    <3>. QED
        BY <3>1, <3>2
  <2>3. StartsAreAssigned'
    BY <1>4 DEF GiveUp, HealthFree, DeleteNode
  <2>4. AcceptedWhereAssigned'
    BY <1>4 DEF GiveUp, HealthFree, DeleteNode
  <2>. QED
    BY <2>1, <2>2, <2>3, <2>4
<1>5. CASE Patrol
    BY <1>5 DEF Patrol
<1>. QED
    BY <1>1, <1>2, <1>3, <1>4, <1>5

\* Start, crash and shutdown.
LEMMA PlacesInProcess ==
    ASSUME Inv, Quiet, Placement, NEW S \in SUBSET Pods,
           \/ Boot(S)
           \/ Restore
           \/ RestoreFails
           \/ Crash
           \/ Panic
           \/ DestroyAllRooms
    PROVE  Placement'
<1>. USE SnapshotAssumption DEF Quiet, Serving, Placement, SnapshotsNameHosts, MovesAreAccepted, StartsAreAssigned, AcceptedWhereAssigned,
        Inv, TypeOK, WorkIsPlaced, Moving, EngineTypes, NodeTypes, RoomTypes, StartTypes, MoveTypes,
        engineVars, nodeVars, roomVars, startVars, moveVars, Goto
<1>1. CASE Boot(S)
    BY <1>1 DEF Boot
<1>2. CASE Restore
  <2>1. SnapshotsNameHosts'
    BY <1>2 DEF Restore, Saved
  <2>2. MovesAreAccepted'
    BY <1>2 DEF Restore, Saved
  <2>3. StartsAreAssigned'
    BY <1>2 DEF Restore, Saved
  <2>4. AcceptedWhereAssigned'
    BY <1>2 DEF Restore, Saved
  <2>. QED
    BY <2>1, <2>2, <2>3, <2>4
<1>3. CASE RestoreFails
    BY <1>3 DEF RestoreFails
<1>4. CASE Crash
  <2>1. SnapshotsNameHosts'
    BY <1>4 DEF Crash, Forgotten
  <2>2. MovesAreAccepted'
    BY <1>4 DEF Crash, Forgotten
  <2>3. StartsAreAssigned'
    BY <1>4 DEF Crash, Forgotten
  <2>4. AcceptedWhereAssigned'
    BY <1>4 DEF Crash, Forgotten
  <2>. QED
    BY <2>1, <2>2, <2>3, <2>4
<1>5. CASE Panic
  <2>1. SnapshotsNameHosts'
    BY <1>5 DEF Panic, Forgotten
  <2>2. MovesAreAccepted'
    BY <1>5 DEF Panic, Forgotten
  <2>3. StartsAreAssigned'
    BY <1>5 DEF Panic, Forgotten
  <2>4. AcceptedWhereAssigned'
    BY <1>5 DEF Panic, Forgotten
  <2>. QED
    BY <2>1, <2>2, <2>3, <2>4
<1>6. CASE DestroyAllRooms
    BY <1>6 DEF DestroyAllRooms
<1>. QED
    BY <1>1, <1>2, <1>3, <1>4, <1>5, <1>6

\* Rooms and starts.
LEMMA PlacesInPlay ==
    ASSUME Inv, Quiet, Placement, NEW r \in Rooms, NEW p \in Pods,
           \/ CreateRoom(r)
           \/ StartGame(r)
           \/ Assign(r, p)
           \/ Begin(r, p)
           \/ StartAccepted(r)
           \/ StartFails(r)
           \/ LeaveRoom(r)
           \/ DestroyRoom(r)
           \/ Unlink(r)
    PROVE  Placement'
<1>. USE SnapshotAssumption DEF Quiet, Serving, Placement, SnapshotsNameHosts, MovesAreAccepted, StartsAreAssigned, AcceptedWhereAssigned,
        Inv, TypeOK, WorkIsPlaced, Moving, EngineTypes, NodeTypes, RoomTypes, StartTypes, MoveTypes,
        engineVars, nodeVars, roomVars, startVars, moveVars, Goto
<1>1. CASE CreateRoom(r)
  <2>1. SnapshotsNameHosts'
    BY <1>1 DEF CreateRoom, Fresh, Saved, roomRest
  <2>2. MovesAreAccepted'
    BY <1>1 DEF CreateRoom, Fresh, Saved, roomRest
  <2>3. StartsAreAssigned'
    BY <1>1 DEF CreateRoom, Fresh, Saved, roomRest
  <2>4. AcceptedWhereAssigned'
    BY <1>1 DEF CreateRoom, Fresh, Saved, roomRest
  <2>. QED
    BY <2>1, <2>2, <2>3, <2>4
<1>2. CASE StartGame(r)
  <2>1. SnapshotsNameHosts'
    BY <1>2 DEF StartGame, roomRest
  <2>2. MovesAreAccepted'
    BY <1>2 DEF StartGame, roomRest
  <2>3. StartsAreAssigned'
    BY <1>2 DEF StartGame, roomRest
  <2>4. AcceptedWhereAssigned'
    BY <1>2 DEF StartGame, roomRest
  <2>. QED
    BY <2>1, <2>2, <2>3, <2>4
<1>3. CASE Assign(r, p)
  <2>1. SnapshotsNameHosts'
    BY <1>3 DEF Assign, StartError, roomRest
  <2>2. MovesAreAccepted'
    BY <1>3 DEF Assign, StartError, roomRest
  <2>3. StartsAreAssigned'
    <3>1. CASE p \in known
      <4>1. target'[r] = p /\ nodeID'[r] = p
          BY <1>3, <3>1 DEF Assign
      <4>2. \A q \in Rooms \ {r} : UNCHANGED <<start[q], target[q], nodeID[q]>>
          BY <1>3, <3>1 DEF Assign
      <4>3. fellBack' = fellBack /\ accepted' = accepted
          BY <1>3, <3>1 DEF Assign
      <4>. QED
          BY <4>1, <4>2, <4>3
    <3>2. CASE p \notin known
        BY <1>3, <3>2, StartErrorPlaces DEF Assign
    <3>. QED
        BY <3>1, <3>2
  <2>4. AcceptedWhereAssigned'
    <3>1. CASE p \in known
      <4>1. /\ start'[r] = "assigned"
            /\ \A q \in Rooms \ {r} : start'[q] = start[q] /\ nodeID'[q] = nodeID[q]
            /\ UNCHANGED <<status, fellBack, accepted>>
          BY <1>3, <3>1 DEF Assign, roomRest
      <4>. QED
          BY <4>1
    <3>2. CASE p \notin known
        BY <1>3, <3>2, StartErrorPlaces DEF Assign
    <3>. QED
        BY <3>1, <3>2
  <2>. QED
    BY <2>1, <2>2, <2>3, <2>4
<1>4. CASE Begin(r, p)
  <2>1. SnapshotsNameHosts'
    BY <1>4 DEF Begin, StartError, roomRest
  <2>2. MovesAreAccepted'
    BY <1>4 DEF Begin, StartError, roomRest
  <2>3. StartsAreAssigned'
    <3>1. CASE p \in known
        BY <1>4, <3>1 DEF Begin, roomRest
    <3>2. CASE p \notin known
        BY <1>4, <3>2, StartErrorPlaces DEF Begin
    <3>. QED
        BY <3>1, <3>2
  <2>4. AcceptedWhereAssigned'
    <3>1. CASE p \in known
      <4>1. /\ start'[r] = "calling"
            /\ \A q \in Rooms \ {r} : start'[q] = start[q] /\ nodeID'[q] = nodeID[q]
            /\ fellBack \subseteq fellBack' /\ UNCHANGED <<status, accepted>>
          BY <1>4, <3>1 DEF Begin, roomRest
      <4>. QED
          BY <4>1
    <3>2. CASE p \notin known
        BY <1>4, <3>2, StartErrorPlaces DEF Begin
    <3>. QED
        BY <3>1, <3>2
  <2>. QED
    BY <2>1, <2>2, <2>3, <2>4
<1>5. CASE StartAccepted(r)
  <2>1. SnapshotsNameHosts'
    BY <1>5, HostPlaces DEF StartAccepted
  <2>2. MovesAreAccepted'
    BY <1>5, HostPlaces DEF StartAccepted, roomRest
  <2>3. StartsAreAssigned'
    BY <1>5 DEF StartAccepted, Host, roomRest
  <2>4. AcceptedWhereAssigned'
    BY <1>5 DEF StartAccepted, Host, roomRest
  <2>. QED
    BY <2>1, <2>2, <2>3, <2>4
<1>6. CASE StartFails(r)
  <2>1. SnapshotsNameHosts'
    BY <1>6, CreateFailsPlaces DEF StartFails
  <2>2. MovesAreAccepted'
    BY <1>6 DEF StartFails, CreateFails, StartError, roomRest
  <2>3. StartsAreAssigned'
    <3>1. CASE tries[r] > 1
        BY <1>6, <3>1, CreateFailsPlaces DEF StartFails
    <3>2. CASE ~(tries[r] > 1)
        BY <1>6, <3>2, CreateFailsPlaces, StartErrorPlaces DEF StartFails
    <3>. QED
        BY <3>1, <3>2
  <2>4. AcceptedWhereAssigned'
    <3>1. CASE tries[r] > 1
        BY <1>6, <3>1, CreateFailsPlaces DEF StartFails
    <3>2. CASE ~(tries[r] > 1)
        BY <1>6, <3>2, CreateFailsPlaces, StartErrorPlaces DEF StartFails
    <3>. QED
        BY <3>1, <3>2
  <2>. QED
    BY <2>1, <2>2, <2>3, <2>4
<1>7. CASE LeaveRoom(r)
  <2>1. SnapshotsNameHosts'
    BY <1>7 DEF LeaveRoom, roomRest
  <2>2. MovesAreAccepted'
    BY <1>7 DEF LeaveRoom, roomRest
  <2>3. StartsAreAssigned'
    BY <1>7 DEF LeaveRoom, roomRest
  <2>4. AcceptedWhereAssigned'
    BY <1>7 DEF LeaveRoom, roomRest
  <2>. QED
    BY <2>1, <2>2, <2>3, <2>4
<1>8. CASE DestroyRoom(r)
  <2>1. SnapshotsNameHosts' /\ accepted' = accepted
      BY <1>8, UnhostPlaces DEF DestroyRoom
  <2>. QED
      BY <1>8, <2>1 DEF DestroyRoom, roomRest
<1>9. CASE Unlink(r)
  <2>1. SnapshotsNameHosts'
    BY <1>9 DEF Unlink, roomRest
  <2>2. MovesAreAccepted'
    BY <1>9 DEF Unlink, roomRest
  <2>3. StartsAreAssigned'
    BY <1>9 DEF Unlink, roomRest
  <2>4. AcceptedWhereAssigned'
    BY <1>9 DEF Unlink, roomRest
  <2>. QED
    BY <2>1, <2>2, <2>3, <2>4
<1>. QED
    BY <1>1, <1>2, <1>3, <1>4, <1>5, <1>6, <1>7, <1>8, <1>9

\* Reassignments.
LEMMA PlacesInMove ==
    ASSUME Inv, Quiet, Placement, NEW m \in Movers,
           \/ Collect(m)
           \/ Finish(m)
           \/ \E r \in Rooms : Pick(m, r)
           \/ Reread(m)
           \/ Load(m)
           \/ CreateAccepted(m)
           \/ CreateFault(m)
           \/ SetNode(m)
           \/ Save(m)
           \/ SendDestroy(m)
           \/ SaveAgain(m)
    PROVE  Placement'
<1>. USE SnapshotAssumption DEF Quiet, Serving, Placement, SnapshotsNameHosts, MovesAreAccepted, StartsAreAssigned, AcceptedWhereAssigned,
        Inv, TypeOK, WorkIsPlaced, Moving, EngineTypes, NodeTypes, RoomTypes, StartTypes, MoveTypes,
        engineVars, nodeVars, roomVars, startVars, moveVars, Goto
<1>1. CASE Collect(m)
  <2>1. SnapshotsNameHosts'
    BY <1>1 DEF Collect, moveRest
  <2>2. MovesAreAccepted'
    BY <1>1 DEF Collect, moveRest
  <2>3. StartsAreAssigned'
    BY <1>1 DEF Collect, moveRest
  <2>4. AcceptedWhereAssigned'
    BY <1>1 DEF Collect, moveRest
  <2>. QED
    BY <2>1, <2>2, <2>3, <2>4
<1>2. CASE Finish(m)
  <2>1. SnapshotsNameHosts'
    BY <1>2 DEF Finish, End, DeleteNode
  <2>2. MovesAreAccepted'
    BY <1>2 DEF Finish, End, DeleteNode
  <2>3. StartsAreAssigned'
    BY <1>2 DEF Finish, End, DeleteNode
  <2>4. AcceptedWhereAssigned'
    BY <1>2 DEF Finish, End, DeleteNode
  <2>. QED
    BY <2>1, <2>2, <2>3, <2>4
<1>3. CASE \E r \in Rooms : Pick(m, r)
  <2>1. SnapshotsNameHosts'
    <3>1. UNCHANGED <<snapshot, accepted>>
        BY <1>3 DEF Pick
    <3>. QED
        BY <3>1
  <2>2. MovesAreAccepted'
    BY <1>3 DEF Pick, Candidates, moveRest
  <2>3. StartsAreAssigned'
    BY <1>3 DEF Pick, Candidates, moveRest
  <2>4. AcceptedWhereAssigned'
    BY <1>3 DEF Pick, Candidates, moveRest
  <2>. QED
    BY <2>1, <2>2, <2>3, <2>4
<1>4. CASE Reread(m)
  <2>1. SnapshotsNameHosts'
    <3>1. UNCHANGED <<snapshot, accepted>>
        BY <1>4 DEF Reread
    <3>. QED
        BY <3>1
  <2>2. MovesAreAccepted'
    <3>1. accepted' = accepted
        BY <1>4 DEF Reread
    <3>2. CASE NextRoom(m)
        BY <3>1, <3>2, NextRoomPlaces
    <3>3. CASE ~NextRoom(m)
        BY <1>4, <3>1, <3>3 DEF Reread
    <3>. QED
        BY <3>2, <3>3
  <2>3. StartsAreAssigned'
    BY <1>4 DEF Reread, NextRoom, moveRest
  <2>4. AcceptedWhereAssigned'
    BY <1>4 DEF Reread, NextRoom, moveRest
  <2>. QED
    BY <2>1, <2>2, <2>3, <2>4
<1>5. CASE Load(m)
  <2>1. SnapshotsNameHosts'
    BY <1>5 DEF Load, NextRoom, moveRest
  <2>2. MovesAreAccepted'
    <3>1. accepted' = accepted
        BY <1>5 DEF Load
    <3>2. CASE NextRoom(m)
        BY <3>1, <3>2, NextRoomPlaces
    <3>3. CASE ~NextRoom(m)
        BY <1>5, <3>1, <3>3 DEF Load
    <3>. QED
        BY <3>2, <3>3
  <2>3. StartsAreAssigned'
    BY <1>5 DEF Load, NextRoom, moveRest
  <2>4. AcceptedWhereAssigned'
    BY <1>5 DEF Load, NextRoom, moveRest
  <2>. QED
    BY <2>1, <2>2, <2>3, <2>4
<1>6. CASE CreateAccepted(m)
  <2>1. SnapshotsNameHosts'
    BY <1>6, HostPlaces DEF CreateAccepted
  <2>2. MovesAreAccepted'
    BY <1>6, HostPlaces DEF CreateAccepted
  <2>3. StartsAreAssigned'
    BY <1>6 DEF CreateAccepted, Host, moveRest
  <2>4. AcceptedWhereAssigned'
    BY <1>6 DEF CreateAccepted, Host, moveRest
  <2>. QED
    BY <2>1, <2>2, <2>3, <2>4
<1>7. CASE CreateFault(m)
  <2>1. SnapshotsNameHosts'
    BY <1>7, CreateFailsPlaces DEF CreateFault
  <2>2. MovesAreAccepted'
    BY <1>7, CreateFailsPlaces, NextRoomPlaces DEF CreateFault
  <2>3. StartsAreAssigned'
    BY <1>7 DEF CreateFault, CreateFails, NextRoom, moveRest
  <2>4. AcceptedWhereAssigned'
    BY <1>7 DEF CreateFault, CreateFails, NextRoom, moveRest
  <2>. QED
    BY <2>1, <2>2, <2>3, <2>4
<1>8. CASE SetNode(m)
  <2>1. SnapshotsNameHosts'
    BY <1>8 DEF SetNode, moveRest
  <2>2. MovesAreAccepted'
    BY <1>8 DEF SetNode, moveRest
  <2>3. StartsAreAssigned'
    BY <1>8 DEF SetNode, moveRest
  <2>4. AcceptedWhereAssigned'
    BY <1>8 DEF SetNode, moveRest
  <2>. QED
    BY <2>1, <2>2, <2>3, <2>4
<1>9. CASE Save(m)
  <2>1. PICK id \in KnownIDs(newNode[m]) :
          /\ updated' = [updated EXCEPT ![m] = [node |-> newNode[m], server |-> id]]
          /\ Write(room[m], [node |-> newNode[m], server |-> id])
      BY <1>9 DEF Save
  <2>2. id \in ServerIDs /\ newNode[m] \in Pods /\ room[m] \in Rooms
      BY <1>9, <2>1 DEF Save, KnownIDs
  <2>3. SnapshotsNameHosts'
      BY <1>9, <2>1, <2>2, WritePlaces DEF Save
  <2>4. updated'[m] # NoSnapshot /\ updated'[m].node = newNode[m]
      BY <2>1, <2>2, SnapshotNode
  <2>5. MovesAreAccepted'
      BY <1>9, <2>1, <2>4 DEF Save
  <2>. QED
      BY <1>9, <2>3, <2>5 DEF Save, moveRest
<1>10. CASE SendDestroy(m)
  <2>1. SnapshotsNameHosts'
    BY <1>10 DEF SendDestroy, moveRest
  <2>2. MovesAreAccepted'
    BY <1>10 DEF SendDestroy, moveRest
  <2>3. StartsAreAssigned'
    BY <1>10 DEF SendDestroy, moveRest
  <2>4. AcceptedWhereAssigned'
    BY <1>10 DEF SendDestroy, moveRest
  <2>. QED
    BY <2>1, <2>2, <2>3, <2>4
<1>11. CASE SaveAgain(m)
  <2>1. SnapshotsNameHosts'
    BY <1>11, WritePlaces DEF SaveAgain
  <2>2. MovesAreAccepted'
    BY <1>11, NextRoomPlaces DEF SaveAgain
  <2>3. StartsAreAssigned'
    BY <1>11 DEF SaveAgain, Write, NextRoom, moveRest
  <2>4. AcceptedWhereAssigned'
    BY <1>11 DEF SaveAgain, Write, NextRoom, moveRest
  <2>. QED
    BY <2>1, <2>2, <2>3, <2>4
<1>. QED
    BY <1>1, <1>2, <1>3, <1>4, <1>5, <1>6, <1>7, <1>8, <1>9, <1>10, <1>11

\* Every step keeps rooms where it is said they are.
LEMMA PlacesStep ==
    ASSUME Inv, Quiet, Placement, [Next]_vars
    PROVE  Placement'
<1>1. CASE Engine
    BY <1>1, PlacesInEngine, SomePod DEF Engine
<1>2. CASE Watch
    BY <1>2, PlacesInWatch, SomePod, SomeMover DEF Watch
<1>3. CASE Process
    BY <1>3, PlacesInProcess DEF Process
<1>4. ASSUME NEW r \in Rooms, Play(r)
      PROVE  Placement'
    BY <1>4, PlacesInPlay, SomePod DEF Play, StartStep
<1>5. ASSUME NEW m \in Movers, Move(m)
      PROVE  Placement'
    BY <1>5, PlacesInMove DEF Move
<1>6. CASE UNCHANGED vars
    BY <1>6 DEF Placement, SnapshotsNameHosts, MovesAreAccepted, StartsAreAssigned, AcceptedWhereAssigned, vars, engineVars, nodeVars, roomVars, startVars, moveVars
<1>. QED
    BY <1>1, <1>2, <1>3, <1>4, <1>5, <1>6 DEF Next

LEMMA PlacementAlways == Spec => []Placement
<1>1. Init => Placement
    BY DEF Init, Placement, SnapshotsNameHosts, MovesAreAccepted, StartsAreAssigned, AcceptedWhereAssigned
<1>2. Inv /\ Quiet /\ Placement /\ [Next]_vars => Placement'
    BY PlacesStep
<1>. QED
    BY <1>1, <1>2, InvAlways, QuietAlways, PTL DEF Spec

\* A played room is assigned to a pod that has accepted it, unless its start fell
\* back: a start writes NodeID before the pod accepts and takes Playing back
\* otherwise, a move writes it afterwards, and a restoring gateway reads it from a
\* snapshot.
THEOREM PlayedRoomsAreAccepted == Spec => []AcceptedWhereAssigned
BY PlacementAlways, PTL DEF Placement

\* Snapshots name pods that have accepted the room: the engine writes only what it
\* hosts, and a move only what a pod has accepted before.
THEOREM SnapshotsAreTrue == Spec => []SnapshotsNameHosts
BY PlacementAlways, PTL DEF Placement

(***************************************************************************)
(* What main moves before the gateway serves.                              *)
(***************************************************************************)

\* A move of main takes a room from the node it is assigned to, to another one.
MainMoves ==
    phase = "restoring" =>
        /\ pc[Health] = "reread" => newNode[Health] # nodeID[room[Health]]
        /\ pc[Health] \in {"load", "create", "assign"} =>
              /\ oldNodeID[Health] = nodeID[room[Health]]
              /\ newNode[Health] # nodeID[room[Health]]
        /\ pc[Health] \in {"save", "destroy"} =>
              /\ nodeID[room[Health]] = newNode[Health]
              /\ oldNodeID[Health] # newNode[Health]

TargetsSpared ==
    phase = "restoring" =>
        \A c \in calls' \ calls : c.op = "DestroyRoom" => c.pod # nodeID[c.room]

\* Engines and their calls.
LEMMA MainInEngine ==
    ASSUME Inv, Quiet, MainMoves, NEW c, NEW p \in Pods,
           \/ Execute(c)
           \/ Lose(c)
           \/ Replace(p)
    PROVE  MainMoves' /\ TargetsSpared
<1>. USE SomeMover DEF MainMoves, TargetsSpared, Quiet, Inv, TypeOK, WorkIsPlaced, Moving, Phases, NodeTypes, RoomTypes, StartTypes, MoveTypes,
        engineVars, nodeVars, roomVars, startVars, moveVars, Goto, Serving, Call
<1>1. CASE Execute(c)
    BY <1>1 DEF Execute, Host, Unhost
<1>2. CASE Lose(c)
    BY <1>2 DEF Lose
<1>3. CASE Replace(p)
    BY <1>3 DEF Replace
<1>. QED
    BY <1>1, <1>2, <1>3

\* What is learned of the pods.
LEMMA MainInWatch ==
    ASSUME Inv, Quiet, MainMoves, NEW p \in Pods, NEW m \in Movers,
           \/ Connect(p)
           \/ Beat(p)
           \/ Miss(p)
           \/ GiveUp(m, p)
           \/ Patrol
    PROVE  MainMoves' /\ TargetsSpared
<1>. USE SomeMover DEF MainMoves, TargetsSpared, Quiet, Inv, TypeOK, WorkIsPlaced, Moving, Phases, NodeTypes, RoomTypes, StartTypes, MoveTypes,
        engineVars, nodeVars, roomVars, startVars, moveVars, Goto, Serving, Call
<1>1. CASE Connect(p)
    BY <1>1 DEF Connect
<1>2. CASE Beat(p)
    BY <1>2 DEF Beat, HealthFree, Replaced
<1>3. CASE Miss(p)
    BY <1>3 DEF Miss, HealthFree
<1>4. CASE GiveUp(m, p)
    BY <1>4 DEF GiveUp, HealthFree, DeleteNode
<1>5. CASE Patrol
    BY <1>5 DEF Patrol
<1>. QED
    BY <1>1, <1>2, <1>3, <1>4, <1>5

\* Start, crash and shutdown.
LEMMA MainInProcess ==
    ASSUME Inv, Quiet, MainMoves, NEW S \in SUBSET Pods,
           \/ Boot(S)
           \/ Restore
           \/ RestoreFails
           \/ Crash
           \/ Panic
           \/ DestroyAllRooms
    PROVE  MainMoves' /\ TargetsSpared
<1>. USE SomeMover DEF MainMoves, TargetsSpared, Quiet, Inv, TypeOK, WorkIsPlaced, Moving, Phases, NodeTypes, RoomTypes, StartTypes, MoveTypes,
        engineVars, nodeVars, roomVars, startVars, moveVars, Goto, Serving, Call
<1>1. CASE Boot(S)
    BY <1>1 DEF Boot
<1>2. CASE Restore
    BY <1>2 DEF Restore, Saved
<1>3. CASE RestoreFails
    BY <1>3 DEF RestoreFails
<1>4. CASE Crash
    BY <1>4 DEF Crash, Forgotten
<1>5. CASE Panic
    BY <1>5 DEF Panic, Forgotten
<1>6. CASE DestroyAllRooms
    BY <1>6 DEF DestroyAllRooms
<1>. QED
    BY <1>1, <1>2, <1>3, <1>4, <1>5, <1>6

\* Rooms and starts.
LEMMA MainInPlay ==
    ASSUME Inv, Quiet, MainMoves, NEW r \in Rooms, NEW p \in Pods,
           \/ CreateRoom(r)
           \/ StartGame(r)
           \/ Assign(r, p)
           \/ Begin(r, p)
           \/ StartAccepted(r)
           \/ StartFails(r)
           \/ LeaveRoom(r)
           \/ DestroyRoom(r)
           \/ Unlink(r)
    PROVE  MainMoves' /\ TargetsSpared
<1>. USE SomeMover DEF MainMoves, TargetsSpared, Quiet, Inv, TypeOK, WorkIsPlaced, Moving, Phases, NodeTypes, RoomTypes, StartTypes, MoveTypes,
        engineVars, nodeVars, roomVars, startVars, moveVars, Goto, Serving, Call
<1>1. CASE CreateRoom(r)
    BY <1>1 DEF CreateRoom, Fresh, Saved, roomRest
<1>2. CASE StartGame(r)
    BY <1>2 DEF StartGame, roomRest
<1>3. CASE Assign(r, p)
    BY <1>3 DEF Assign, StartError, roomRest
<1>4. CASE Begin(r, p)
    BY <1>4 DEF Begin, StartError, roomRest
<1>5. CASE StartAccepted(r)
    BY <1>5 DEF StartAccepted, Host, roomRest
<1>6. CASE StartFails(r)
    BY <1>6 DEF StartFails, CreateFails, StartError, roomRest
<1>7. CASE LeaveRoom(r)
    BY <1>7 DEF LeaveRoom, roomRest
<1>8. CASE DestroyRoom(r)
    BY <1>8 DEF DestroyRoom, Unhost, roomRest
<1>9. CASE Unlink(r)
    BY <1>9 DEF Unlink, roomRest
<1>. QED
    BY <1>1, <1>2, <1>3, <1>4, <1>5, <1>6, <1>7, <1>8, <1>9

\* Reassignments.
LEMMA MainInMove ==
    ASSUME Inv, Quiet, MainMoves, NEW m \in Movers,
           \/ Collect(m)
           \/ Finish(m)
           \/ \E r \in Rooms : Pick(m, r)
           \/ Reread(m)
           \/ Load(m)
           \/ CreateAccepted(m)
           \/ CreateFault(m)
           \/ SetNode(m)
           \/ Save(m)
           \/ SendDestroy(m)
           \/ SaveAgain(m)
    PROVE  MainMoves' /\ TargetsSpared
<1>. USE SomeMover DEF MainMoves, TargetsSpared, Quiet, Inv, TypeOK, WorkIsPlaced, Moving, Phases, NodeTypes, RoomTypes, StartTypes, MoveTypes,
        engineVars, nodeVars, roomVars, startVars, moveVars, Goto, Serving, Call
<1>1. CASE Collect(m)
    BY <1>1 DEF Collect, moveRest
<1>2. CASE Finish(m)
    BY <1>2 DEF Finish, End, DeleteNode
<1>3. CASE \E r \in Rooms : Pick(m, r)
    BY <1>3 DEF Pick, Candidates, moveRest
<1>4. CASE Reread(m)
    BY <1>4 DEF Reread, NextRoom, moveRest
<1>5. CASE Load(m)
    BY <1>5 DEF Load, NextRoom, moveRest
<1>6. CASE CreateAccepted(m)
    BY <1>6 DEF CreateAccepted, Host, moveRest
<1>7. CASE CreateFault(m)
    BY <1>7 DEF CreateFault, CreateFails, NextRoom, moveRest
<1>8. CASE SetNode(m)
    BY <1>8 DEF SetNode, moveRest
<1>9. CASE Save(m)
    BY <1>9 DEF Save, KnownIDs, Write, moveRest
<1>10. CASE SendDestroy(m)
    BY <1>10 DEF SendDestroy, moveRest
<1>11. CASE SaveAgain(m)
    BY <1>11 DEF SaveAgain, Write, NextRoom, moveRest
<1>. QED
    BY <1>1, <1>2, <1>3, <1>4, <1>5, <1>6, <1>7, <1>8, <1>9, <1>10, <1>11

\* Every step of main moves rooms to other nodes.
LEMMA MainStep ==
    ASSUME Inv, Quiet, MainMoves, [Next]_vars
    PROVE  MainMoves' /\ TargetsSpared
<1>1. CASE Engine
    BY <1>1, MainInEngine, SomePod DEF Engine
<1>2. CASE Watch
    BY <1>2, MainInWatch, SomePod, SomeMover DEF Watch
<1>3. CASE Process
    BY <1>3, MainInProcess DEF Process
<1>4. ASSUME NEW r \in Rooms, Play(r)
      PROVE  MainMoves' /\ TargetsSpared
    BY <1>4, MainInPlay, SomePod DEF Play, StartStep
<1>5. ASSUME NEW m \in Movers, Move(m)
      PROVE  MainMoves' /\ TargetsSpared
    BY <1>5, MainInMove DEF Move
<1>6. CASE UNCHANGED vars
    BY <1>6 DEF MainMoves, TargetsSpared, vars, engineVars, nodeVars, roomVars, startVars, moveVars
<1>. QED
    BY <1>1, <1>2, <1>3, <1>4, <1>5, <1>6 DEF Next

\* While main alone moves rooms, the node told to destroy a room is the one it has
\* been taken from: nothing but the move itself writes NodeID, and the new node is
\* chosen among the others.
THEOREM StartupMovesAway == Spec => StartupSparesTheTarget
<1>1. Init => MainMoves
    BY DEF Init, MainMoves
<1>2. Inv /\ Quiet /\ MainMoves /\ [Next]_vars => MainMoves'
    BY MainStep
<1>3. Inv /\ Quiet /\ MainMoves /\ [Next]_vars =>
          [phase = "restoring" =>
              \A c \in calls' \ calls : c.op = "DestroyRoom" => c.pod # nodeID[c.room]]_vars
    BY MainStep DEF TargetsSpared
<1>. QED
    BY <1>1, <1>2, <1>3, InvAlways, QuietAlways, PTL DEF Spec, StartupSparesTheTarget

(***************************************************************************)
(* Failover implements RoomPlaces.                                         *)
(***************************************************************************)

PlaceMap == [r \in Rooms |-> PlaceOf(r)]
SeenMap  == [r \in Rooms |-> {p \in Pods : <<r, p>> \in accepted}]
SavedMap == [r \in Rooms |-> SavedAt(r)]

\* A gateway that has not begun to restore has no rooms.
Empty == phase \in {"down", "booting"} => rooms = {} /\ fellBack = {}

\* Where a room is played depends on these fields only.
LEMMA PlaceStays ==
    ASSUME NEW r \in Rooms,
           r \in rooms' <=> r \in rooms, r \in fellBack' <=> r \in fellBack,
           status'[r] = status[r], start'[r] = start[r], nodeID'[r] = nodeID[r]
    PROVE  PlaceOf(r)' = PlaceOf(r)
BY DEF PlaceOf, Played

LEMMA PlacesStay ==
    ASSUME UNCHANGED <<rooms, fellBack, status, start, nodeID>>
    PROVE  PlaceMap' = PlaceMap /\ \A r \in Rooms : PlaceOf(r)' = PlaceOf(r)
<1>1. \A r \in Rooms : PlaceOf(r)' = PlaceOf(r)
    BY PlaceStays
<1>. QED
    BY <1>1 DEF PlaceMap

LEMMA PlaceChanges ==
    ASSUME NEW r \in Rooms, NEW p, PlaceOf(r)' = p,
           \A q \in Rooms \ {r} : PlaceOf(q)' = PlaceOf(q)
    PROVE  PlaceMap' = [PlaceMap EXCEPT ![r] = p]
BY DEF PlaceMap

\* A step that leaves the engines and Redis alone and begins or moves no battle.
LEMMA EndShows ==
    ASSUME UNCHANGED <<snapshot, accepted>>,
           \A r \in Rooms : PlaceOf(r)' \in {PlaceOf(r), NoPod}
    PROVE  Places!PlacesNext
<1>. DEFINE S == {r \in Rooms : PlaceOf(r)' # PlaceOf(r)}
<1>1. \A r \in Rooms : PlaceOf(r)' = IF r \in S THEN NoPod ELSE PlaceOf(r)
    OBVIOUS
<1>2. PlaceMap' = [r \in Rooms |-> IF r \in S THEN NoPod ELSE PlaceMap[r]]
    BY <1>1 DEF PlaceMap
<1>3. SeenMap' = SeenMap /\ SavedMap' = SavedMap
    BY DEF SeenMap, SavedMap, SavedAt
<1>4. Places!End(S)
    BY <1>2, <1>3 DEF Places!End, PlaceMap, SeenMap, SavedMap
<1>. QED
    BY <1>4 DEF Places!PlacesNext

\* The same, for a room that is not played afterwards.
LEMMA EndOfRoomShows ==
    ASSUME NEW r \in Rooms, UNCHANGED <<snapshot, accepted>>, PlaceOf(r)' \in {PlaceOf(r), NoPod},
           \A q \in Rooms \ {r} : PlaceOf(q)' = PlaceOf(q)
    PROVE  Places!PlacesNext
BY EndShows

LEMMA AdmitShows ==
    ASSUME Inv, NEW r \in Rooms, NEW p \in Pods, Host(r, p)
    PROVE  Places!Admit(r, p)
<1>1. SeenMap' = [SeenMap EXCEPT ![r] = @ \cup {p}]
  <2>1. \A q \in Rooms, x \in Pods :
            <<q, x>> \in accepted' <=> <<q, x>> \in accepted \/ (q = r /\ x = p)
      BY DEF Host
  <2>. QED
      BY <2>1 DEF SeenMap
<1>2. SavedMap' = [SavedMap EXCEPT ![r] = p]
  <2>1. process[p] \in ServerIDs
      BY ProcessType DEF Inv, TypeOK
  <2>2. SavedAt(r)' = p
      BY <2>1, SnapshotNode DEF SavedAt, Inv, TypeOK, EngineTypes, Host
  <2>3. \A q \in Rooms \ {r} : SavedAt(q)' = SavedAt(q)
      BY DEF SavedAt, Inv, TypeOK, EngineTypes, Host
  <2>. QED
      BY <2>2, <2>3 DEF SavedMap
<1>. QED
    BY <1>1, <1>2 DEF Places!Admit, SeenMap, SavedMap

\* An engine accepts a room, and no battle begins.
LEMMA AcceptShows ==
    ASSUME Inv, NEW r \in Rooms, NEW p \in Pods, Host(r, p), PlaceMap' = PlaceMap
    PROVE  Places!PlacesNext
<1>1. Places!Accept(r, p)
    BY AdmitShows DEF Places!Accept, PlaceMap
<1>. QED
    BY <1>1 DEF Places!PlacesNext

LEMMA UnhostShows ==
    ASSUME Inv, NEW r \in Rooms, NEW p \in Pods, Unhost(r, p), PlaceMap' = PlaceMap
    PROVE  [Places!PlacesNext]_Places!placeVars
<1>1. SeenMap' = SeenMap
    BY DEF SeenMap, Unhost
<1>2. CASE <<r, p>> \in hosted
  <2>1. SavedAt(r)' = NoPod /\ \A q \in Rooms \ {r} : SavedAt(q)' = SavedAt(q)
      BY <1>2 DEF SavedAt, Unhost, Inv, TypeOK, EngineTypes
  <2>2. SavedMap' = [SavedMap EXCEPT ![r] = NoPod]
      BY <2>1 DEF SavedMap
  <2>3. Places!Unsave(r)
      BY <1>1, <2>2 DEF Places!Unsave, PlaceMap, SeenMap, SavedMap
  <2>. QED
      BY <2>3 DEF Places!PlacesNext
<1>3. CASE <<r, p>> \notin hosted
  <2>1. snapshot' = snapshot
      BY <1>3 DEF Unhost, Inv, TypeOK, EngineTypes
  <2>2. SavedMap' = SavedMap
      BY <2>1 DEF SavedMap, SavedAt
  <2>. QED
      BY <1>1, <2>2 DEF Places!placeVars, PlaceMap, SeenMap, SavedMap
<1>. QED
    BY <1>2, <1>3

LEMMA WriteShows ==
    ASSUME Inv, NEW r \in Rooms, NEW new \in Snapshots, Write(r, new), accepted' = accepted,
           <<r, new.node>> \in accepted, UNCHANGED <<rooms, fellBack, status, start, nodeID>>
    PROVE  Places!PlacesNext
<1>1. CASE snapshot' = [snapshot EXCEPT ![r] = new]
  <2>1. new # NoSnapshot /\ new.node \in Pods
      BY SnapshotAssumption, SnapshotType
  <2>2. SavedAt(r)' = new.node /\ \A q \in Rooms \ {r} : SavedAt(q)' = SavedAt(q)
      BY <1>1, <2>1 DEF SavedAt, Inv, TypeOK, EngineTypes
  <2>3. SavedMap' = [SavedMap EXCEPT ![r] = new.node]
      BY <2>2 DEF SavedMap
  <2>4. SeenMap' = SeenMap /\ PlaceMap' = PlaceMap /\ new.node \in SeenMap[r]
      BY <2>1, PlacesStay DEF SeenMap
  <2>5. Places!Save(r, new.node)
      BY <2>3, <2>4 DEF Places!Save, PlaceMap, SeenMap, SavedMap
  <2>. QED
      BY <2>1, <2>5 DEF Places!PlacesNext
<1>2. CASE snapshot' = snapshot
    BY <1>2, PlacesStay, EndShows
<1>. QED
    BY <1>1, <1>2 DEF Write

\* Engines and their calls.
LEMMA EngineShows ==
    ASSUME Inv, NEW c, NEW p \in Pods,
           \/ Execute(c)
           \/ Lose(c)
           \/ Replace(p)
    PROVE  [Places!PlacesNext]_Places!placeVars
<1>. USE DEF roomVars, startVars
<1>1. CASE Execute(c)
  <2>1. c.room \in Rooms /\ c.pod \in Pods
      BY <1>1, CallType DEF Execute, Inv, TypeOK, EngineTypes
  <2>2. PlaceMap' = PlaceMap
      BY <1>1, PlacesStay DEF Execute
  <2>. QED
      BY <1>1, <2>1, <2>2, AcceptShows, UnhostShows DEF Execute
<1>2. CASE Lose(c)
    BY <1>2, PlacesStay, EndShows DEF Lose
<1>3. CASE Replace(p)
    BY <1>3, PlacesStay, EndShows DEF Replace
<1>. QED
    BY <1>1, <1>2, <1>3

\* What is learned of the pods concerns no battle.
LEMMA WatchShows ==
    ASSUME NEW p \in Pods, NEW m \in Movers,
           \/ Connect(p)
           \/ Beat(p)
           \/ Miss(p)
           \/ GiveUp(m, p)
           \/ Patrol
    PROVE  Places!PlacesNext
<1>1. UNCHANGED <<engineVars, roomVars, startVars>>
    BY DEF Connect, Beat, Miss, GiveUp, Patrol
<1>. QED
    BY <1>1, PlacesStay, EndShows DEF engineVars, roomVars, startVars

\* Start, crash and shutdown.
LEMMA RestoreShows ==
    ASSUME Inv, Quiet, Empty, Restore
    PROVE  Places!PlacesNext
<1>1. rooms = {} /\ fellBack' = {} /\ UNCHANGED <<snapshot, accepted, start>>
    BY DEF Restore, Empty, engineVars, startVars
<1>2. \A r \in Rooms : start'[r] = "no"
    BY <1>1 DEF Restore, Quiet, Serving
<1>3. \A r \in Rooms : PlaceOf(r) = NoPod
    BY <1>1 DEF PlaceOf, Played
<1>4. \A r \in Rooms : PlaceOf(r)' = SavedAt(r)
  <2>. SUFFICES ASSUME NEW r \in Rooms
                PROVE  PlaceOf(r)' = SavedAt(r)
      OBVIOUS
  <2>1. CASE r \in Saved
    <3>1. r \in rooms' /\ status'[r] = "Playing" /\ nodeID'[r] = snapshot[r].node
        BY <2>1 DEF Restore
    <3>. QED
        BY <1>1, <1>2, <2>1, <3>1 DEF PlaceOf, Played, SavedAt, Saved
  <2>2. CASE r \notin Saved
      BY <2>2 DEF Restore, PlaceOf, Played, SavedAt, Saved
  <2>. QED
      BY <2>1, <2>2
<1>5. PlaceMap' = SavedMap /\ \A r \in Rooms : PlaceMap[r] = NoPod
    BY <1>3, <1>4 DEF PlaceMap, SavedMap
<1>6. SeenMap' = SeenMap /\ SavedMap' = SavedMap
    BY <1>1 DEF SeenMap, SavedMap, SavedAt
<1>7. Places!Restore
    BY <1>5, <1>6 DEF Places!Restore, PlaceMap, SeenMap, SavedMap
<1>. QED
    BY <1>7 DEF Places!PlacesNext

LEMMA ProcessShows ==
    ASSUME Inv, Quiet, Empty, NEW S \in SUBSET Pods,
           \/ Boot(S)
           \/ Restore
           \/ RestoreFails
           \/ Crash
           \/ Panic
           \/ DestroyAllRooms
    PROVE  Places!PlacesNext
<1>. USE DEF engineVars, roomVars, startVars
<1>1. CASE Boot(S)
    BY <1>1, PlacesStay, EndShows DEF Boot
<1>2. CASE Restore
    BY <1>2, RestoreShows
<1>3. CASE RestoreFails
    BY <1>3, PlacesStay, EndShows DEF RestoreFails
<1>4. CASE Crash \/ Panic
  <2>1. rooms' = {} /\ UNCHANGED <<snapshot, accepted>>
      BY <1>4 DEF Crash, Panic, Forgotten
  <2>2. \A r \in Rooms : PlaceOf(r)' = NoPod
      BY <2>1 DEF PlaceOf, Played
  <2>. QED
      BY <2>1, <2>2, EndShows
<1>5. CASE DestroyAllRooms
  <2>1. rooms' = {} /\ UNCHANGED <<snapshot, accepted>>
      BY <1>5 DEF DestroyAllRooms
  <2>2. \A r \in Rooms : PlaceOf(r)' = NoPod
      BY <2>1 DEF PlaceOf, Played
  <2>. QED
      BY <2>1, <2>2, EndShows
<1>. QED
    BY <1>1, <1>2, <1>3, <1>4, <1>5

\* The step that ends a start with success.
LEMMA StartAcceptedShows ==
    ASSUME Inv, Placement, Placement', NEW r \in Rooms, StartAccepted(r)
    PROVE  Places!PlacesNext
<1>. PICK p \in Pods : p = target[r]
    BY DEF Inv, TypeOK, StartTypes
<1>1. Host(r, p) /\ UNCHANGED <<rooms, status, nodeID, fellBack>>
    BY DEF StartAccepted, roomVars
<1>2. Places!Admit(r, p)
    BY <1>1, AdmitShows
<1>3. start' = [start EXCEPT ![r] = "no"] /\ start[r] = "calling"
    BY DEF StartAccepted
<1>4. PlaceOf(r) = NoPod /\ \A q \in Rooms \ {r} : PlaceOf(q)' = PlaceOf(q)
    BY <1>1, <1>3, PlaceStays DEF PlaceOf, Played, Inv, TypeOK, StartTypes
<1>5. PlaceMap' = [PlaceMap EXCEPT ![r] = PlaceOf(r)'] /\ PlaceMap[r] = NoPod
    BY <1>4, PlaceChanges DEF PlaceMap
<1>6. CASE Played(r)'
  <2>1. PlaceOf(r)' = nodeID'[r] /\ nodeID'[r] \in Pods
      BY <1>1, <1>6 DEF PlaceOf, Inv, TypeOK, RoomTypes
  <2>2. <<r, nodeID'[r]>> \in accepted'
      BY <1>6 DEF Played, Placement, AcceptedWhereAssigned
  <2>3. nodeID'[r] \in SeenMap'[r]
      BY <2>1, <2>2 DEF SeenMap
  <2>4. Places!Begin(r)
      BY <1>5, <2>1, <2>3 DEF Places!Begin, PlaceMap, SeenMap
  <2>5. Places!Accept(r, p)
      BY <1>2, <2>4 DEF Places!Accept
  <2>. QED
      BY <2>5 DEF Places!PlacesNext
<1>7. CASE ~Played(r)'
  <2>1. PlaceMap' = PlaceMap
      BY <1>5, <1>7 DEF PlaceMap, PlaceOf
  <2>. QED
      BY <1>1, <2>1, AcceptShows
<1>. QED
    BY <1>6, <1>7

\* A start that fails leaves a room that waits.
LEMMA StartErrorShows ==
    ASSUME Inv, NEW r \in Rooms, StartError(r), UNCHANGED <<snapshot, accepted>>
    PROVE  Places!PlacesNext
<1>1. PlaceOf(r)' = NoPod
    BY DEF StartError, PlaceOf, Played, Inv, TypeOK, RoomTypes
<1>2. \A q \in Rooms \ {r} : PlaceOf(q)' = PlaceOf(q)
    BY PlaceStays DEF StartError, Inv, TypeOK, RoomTypes, StartTypes
<1>. QED
    BY <1>1, <1>2, EndOfRoomShows

\* Rooms and starts.
LEMMA PlayShows ==
    ASSUME Inv, Placement, Placement', NEW r \in Rooms, NEW p \in Pods,
           \/ CreateRoom(r)
           \/ StartGame(r)
           \/ Assign(r, p)
           \/ Begin(r, p)
           \/ StartAccepted(r)
           \/ StartFails(r)
           \/ LeaveRoom(r)
           \/ DestroyRoom(r)
           \/ Unlink(r)
    PROVE  [Places!PlacesNext]_Places!placeVars
<1>. USE DEF Inv, TypeOK, RoomTypes, StartTypes, roomVars, startVars
<1>1. CASE CreateRoom(r)
  <2>1. PlaceOf(r)' = NoPod /\ \A q \in Rooms \ {r} : PlaceOf(q)' = PlaceOf(q)
      BY <1>1, PlaceStays DEF CreateRoom, PlaceOf, Played
  <2>. QED
      BY <1>1, <2>1, EndOfRoomShows DEF CreateRoom
<1>2. CASE StartGame(r)
  <2>1. PlaceOf(r)' = NoPod /\ \A q \in Rooms \ {r} : PlaceOf(q)' = PlaceOf(q)
      BY <1>2, PlaceStays DEF StartGame, PlaceOf, Played
  <2>. QED
      BY <1>2, <2>1, EndOfRoomShows DEF StartGame
<1>3. CASE Assign(r, p)
  <2>1. CASE p \in known
    <3>1. PlaceOf(r)' = NoPod /\ \A q \in Rooms \ {r} : PlaceOf(q)' = PlaceOf(q)
        BY <1>3, <2>1, PlaceStays DEF Assign, PlaceOf, Played
    <3>. QED
        BY <1>3, <3>1, EndOfRoomShows DEF Assign
  <2>2. CASE p \notin known
      BY <1>3, <2>2, StartErrorShows DEF Assign
  <2>. QED
      BY <2>1, <2>2
<1>4. CASE Begin(r, p)
  <2>1. CASE p \in known
    <3>1. PlaceOf(r)' = NoPod /\ \A q \in Rooms \ {r} : PlaceOf(q)' = PlaceOf(q)
        BY <1>4, <2>1, PlaceStays DEF Begin, PlaceOf, Played
    <3>. QED
        BY <1>4, <3>1, EndOfRoomShows DEF Begin
  <2>2. CASE p \notin known
      BY <1>4, <2>2, StartErrorShows DEF Begin
  <2>. QED
      BY <2>1, <2>2
<1>5. CASE StartAccepted(r)
    BY <1>5, StartAcceptedShows
<1>6. CASE StartFails(r)
  <2>1. UNCHANGED <<snapshot, accepted>>
      BY <1>6 DEF StartFails, CreateFails
  <2>2. CASE tries[r] > 1
      BY <1>6, <2>1, <2>2, PlacesStay, EndShows DEF StartFails
  <2>3. CASE ~(tries[r] > 1)
      BY <1>6, <2>1, <2>3, StartErrorShows DEF StartFails
  <2>. QED
      BY <2>2, <2>3
<1>7. CASE LeaveRoom(r)
  <2>1. PlaceOf(r)' = NoPod /\ \A q \in Rooms \ {r} : PlaceOf(q)' = PlaceOf(q)
      BY <1>7, PlaceStays DEF LeaveRoom, PlaceOf, Played
  <2>. QED
      BY <1>7, <2>1, EndOfRoomShows DEF LeaveRoom
<1>8. CASE DestroyRoom(r)
  <2>1. UNCHANGED <<rooms, fellBack, status, start, nodeID>> /\ nodeID[r] \in Pods
      BY <1>8 DEF DestroyRoom
  <2>2. CASE Unhost(r, nodeID[r])
      BY <2>1, <2>2, PlacesStay, UnhostShows
  <2>3. CASE UNCHANGED <<snapshot, accepted>>
      BY <2>1, <2>3, PlacesStay, EndShows
  <2>. QED
      BY <1>8, <2>2, <2>3 DEF DestroyRoom
<1>9. CASE Unlink(r)
  <2>1. PlaceOf(r)' = NoPod /\ \A q \in Rooms \ {r} : PlaceOf(q)' = PlaceOf(q)
      BY <1>9, PlaceStays DEF Unlink, PlaceOf, Played
  <2>. QED
      BY <1>9, <2>1, EndOfRoomShows DEF Unlink
<1>. QED
    BY <1>1, <1>2, <1>3, <1>4, <1>5, <1>6, <1>7, <1>8, <1>9

\* The step of a reassignment that moves a room.
LEMMA SetNodeShows ==
    ASSUME Inv, Placement, NEW m \in Movers, SetNode(m)
    PROVE  Places!PlacesNext
<1>. PICK r \in Rooms, p \in Pods : r = room[m] /\ p = newNode[m]
    BY DEF SetNode, Inv, TypeOK, MoveTypes, WorkIsPlaced, Moving
<1>1. <<r, p>> \in accepted
    BY DEF SetNode, Placement, MovesAreAccepted
<1>2. /\ nodeID' = [nodeID EXCEPT ![r] = p]
      /\ UNCHANGED <<rooms, status, start, fellBack, snapshot, accepted>>
    BY DEF SetNode, moveRest, startVars
<1>3. \A q \in Rooms \ {r} : PlaceOf(q)' = PlaceOf(q)
    BY <1>2, PlaceStays DEF Inv, TypeOK, RoomTypes
<1>4. SeenMap' = SeenMap /\ SavedMap' = SavedMap
    BY <1>2 DEF SeenMap, SavedMap, SavedAt
<1>5. CASE Played(r)
  <2>1. PlaceOf(r) # NoPod /\ PlaceOf(r)' = p
      BY <1>1, <1>2, <1>5, SomePod DEF PlaceOf, Played, Inv, TypeOK, RoomTypes
  <2>2. PlaceMap' = [PlaceMap EXCEPT ![r] = p] /\ PlaceMap[r] # NoPod
      BY <1>1, <1>3, <2>1, PlaceChanges DEF PlaceMap
  <2>3. p \in SeenMap[r]
      BY <1>1 DEF SeenMap
  <2>4. Places!Move(r, p)
      BY <1>4, <2>2, <2>3 DEF Places!Move, PlaceMap, SeenMap, SavedMap
  <2>. QED
      BY <1>1, <2>4 DEF Places!PlacesNext
<1>6. CASE ~Played(r)
  <2>1. PlaceOf(r)' = PlaceOf(r)
      BY <1>2, <1>6 DEF PlaceOf, Played
  <2>. QED
      BY <1>1, <1>2, <1>3, <2>1, EndOfRoomShows
<1>. QED
    BY <1>5, <1>6

\* Reassignments.
LEMMA MoveShows ==
    ASSUME Inv, Placement, NEW m \in Movers,
           \/ Collect(m)
           \/ Finish(m)
           \/ \E r \in Rooms : Pick(m, r)
           \/ Reread(m)
           \/ Load(m)
           \/ CreateAccepted(m)
           \/ CreateFault(m)
           \/ SetNode(m)
           \/ Save(m)
           \/ SendDestroy(m)
           \/ SaveAgain(m)
    PROVE  Places!PlacesNext
<1>. USE DEF engineVars, roomVars, startVars, moveRest
<1>1. CASE UNCHANGED <<snapshot, accepted, rooms, fellBack, status, start, nodeID>>
    BY <1>1, PlacesStay, EndShows
<1>2. CASE Collect(m) \/ Finish(m) \/ \E r \in Rooms : Pick(m, r)
    BY <1>1, <1>2 DEF Collect, Finish, End, Pick
<1>3. CASE Reread(m) \/ Load(m) \/ SendDestroy(m)
    BY <1>1, <1>3 DEF Reread, Load, SendDestroy
<1>4. CASE CreateFault(m)
    BY <1>1, <1>4 DEF CreateFault, CreateFails
<1>5. CASE CreateAccepted(m)
  <2>1. room[m] \in Rooms /\ newNode[m] \in Pods
      BY <1>5 DEF CreateAccepted, Inv, TypeOK, MoveTypes, WorkIsPlaced, Moving
  <2>2. Host(room[m], newNode[m]) /\ PlaceMap' = PlaceMap
      BY <1>5, PlacesStay DEF CreateAccepted
  <2>. QED
      BY <2>1, <2>2, AcceptShows
<1>6. CASE SetNode(m)
    BY <1>6, SetNodeShows
<1>7. CASE Save(m)
  <2>1. /\ room[m] \in Rooms /\ newNode[m] \in Pods
        /\ <<room[m], newNode[m]>> \in accepted
      BY <1>7 DEF Save, Inv, TypeOK, MoveTypes, WorkIsPlaced, Moving, Placement, MovesAreAccepted
  <2>2. PICK id \in KnownIDs(newNode[m]) :
            Write(room[m], [node |-> newNode[m], server |-> id])
      BY <1>7 DEF Save
  <2>3. id \in ServerIDs
      BY <2>1, <2>2 DEF KnownIDs, Inv, TypeOK, NodeTypes
  <2>4. /\ [node |-> newNode[m], server |-> id] \in Snapshots
        /\ [node |-> newNode[m], server |-> id].node = newNode[m]
      BY <2>1, <2>3, SnapshotType
  <2>5. UNCHANGED <<accepted, rooms, fellBack, status, start, nodeID>>
      BY <1>7 DEF Save
  <2>. QED
      BY <2>1, <2>2, <2>4, <2>5, WriteShows
<1>8. CASE SaveAgain(m)
  <2>1. /\ room[m] \in Rooms /\ updated[m] \in Snapshots
        /\ <<room[m], updated[m].node>> \in accepted
      BY <1>8
      DEF SaveAgain, Inv, TypeOK, MoveTypes, WorkIsPlaced, Moving, Placement, MovesAreAccepted
  <2>2. Write(room[m], updated[m]) /\ UNCHANGED <<accepted, rooms, fellBack, status, start, nodeID>>
      BY <1>8 DEF SaveAgain
  <2>. QED
      BY <2>1, <2>2, WriteShows
<1>. QED
    BY <1>2, <1>3, <1>4, <1>5, <1>6, <1>7, <1>8

\* Every step is one of RoomPlaces or shows nothing.
LEMMA StepShows ==
    ASSUME Inv, Quiet, Empty, Placement, [Next]_vars
    PROVE  [Places!PlacesNext]_Places!placeVars
<1>. Placement'
    BY PlacesStep
<1>1. CASE Engine
    BY <1>1, EngineShows, SomePod DEF Engine
<1>2. CASE Watch
    BY <1>2, WatchShows, SomePod, SomeMover DEF Watch
<1>3. CASE Process
    BY <1>3, ProcessShows DEF Process
<1>4. ASSUME NEW r \in Rooms, Play(r)
      PROVE  [Places!PlacesNext]_Places!placeVars
    BY <1>4, PlayShows, SomePod DEF Play, StartStep
<1>5. ASSUME NEW m \in Movers, Move(m)
      PROVE  Places!PlacesNext
    BY <1>5, MoveShows DEF Move
<1>6. CASE UNCHANGED vars
    BY <1>6, PlacesStay, EndShows DEF vars, engineVars, roomVars, startVars
<1>. QED
    BY <1>1, <1>2, <1>3, <1>4, <1>5, <1>6 DEF Next

\* Only Restore and what is served fills the map of rooms.
LEMMA EmptyStep ==
    ASSUME Inv, Quiet, Empty, [Next]_vars
    PROVE  Empty'
<1>. USE DEF Empty, Quiet, Serving, Phases, engineVars, nodeVars, roomVars, startVars, moveVars
<1>1. CASE Engine
    BY <1>1 DEF Engine, Execute, Lose, Replace
<1>2. CASE Watch
    BY <1>2 DEF Watch, Connect, Beat, Miss, GiveUp, Patrol
<1>3. CASE Process
    BY <1>3 DEF Process, Boot, Restore, RestoreFails, Crash, Panic, DestroyAllRooms, Forgotten
<1>4. ASSUME NEW r \in Rooms, Play(r)
      PROVE  Empty'
  <2>1. CASE StartStep(r)
    <3>1. Serving /\ phase' = phase
        BY <2>1 DEF StartStep, Assign, Begin, StartAccepted, StartFails, roomRest
    <3>. QED
        BY <3>1
  <2>2. CASE ~StartStep(r)
    <3>1. Serving /\ phase' = phase
        BY <1>4, <2>2 DEF Play, CreateRoom, StartGame, LeaveRoom, DestroyRoom, Unlink, roomRest
    <3>. QED
        BY <3>1
  <2>. QED
      BY <2>1, <2>2
<1>5. ASSUME NEW m \in Movers, Move(m)
      PROVE  Empty'
  <2>1. UNCHANGED <<rooms, fellBack>>
      BY <1>5
      DEF Move, Collect, Finish, End, Pick, Reread, Load, CreateAccepted, CreateFault, SetNode,
          Save, SendDestroy, SaveAgain, moveRest
  <2>2. phase' = phase \/ phase' = "serving"
      BY <1>5
      DEF Move, Collect, Finish, End, Pick, Reread, Load, CreateAccepted, CreateFault, SetNode,
          Save, SendDestroy, SaveAgain, NextRoom
  <2>. QED
      BY <2>1, <2>2
<1>6. CASE UNCHANGED vars
    BY <1>6 DEF vars
<1>. QED
    BY <1>1, <1>2, <1>3, <1>4, <1>5, <1>6 DEF Next

LEMMA InitShows ==
    ASSUME Init
    PROVE  Places!PlacesInit
<1>1. ASSUME NEW r \in Rooms
      PROVE  PlaceOf(r) = NoPod /\ SavedAt(r) = NoPod
    BY DEF Init, PlaceOf, Played, SavedAt
<1>2. ASSUME NEW r \in Rooms
      PROVE  {p \in Pods : <<r, p>> \in accepted} = {}
    BY DEF Init
<1>. QED
    BY <1>1, <1>2 DEF Places!PlacesInit

\* Whatever goroutines, engines, Redis and restarts do, where rooms are played is
\* a behaviour of RoomPlaces: battles begin in the step in which a pod accepts them
\* (game.go:77), move to pods that have accepted them (manager.go:664), and are
\* restored where their snapshots say (manager.go:471).
THEOREM RoomsKeepTheirPlaces == Spec => ImplementsPlaces
<1>1. Init => Empty
    BY DEF Init, Empty
<1>2. Inv /\ Quiet /\ Empty /\ [Next]_vars => Empty'
    BY EmptyStep
<1>3. Inv /\ Quiet /\ Empty /\ Placement /\ [Next]_vars => [Places!PlacesNext]_Places!placeVars
    BY StepShows
<1>. QED
    BY <1>1, <1>2, <1>3, InitShows, InvAlways, QuietAlways, PlacementAlways, PTL
    DEF Spec, ImplementsPlaces, Places!PlacesSpec
=============================================================================
