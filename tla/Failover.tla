----------------------------- MODULE Failover -----------------------------
(***************************************************************************)
(* Where rooms are played, and how they are moved: the second half of      *)
(* internal/room/manager.go with the snapshots in Redis, and what          *)
(* internal/engine/manager.go knows of the pods.                           *)
(*                                                                         *)
(* A battle is started on a pod, which writes a snapshot of the room to    *)
(* Redis.  When pods are lost, the health check and the reconnect loops    *)
(* run ReassignRunningRoomsFromUnavailableNodes, each by itself; so does a *)
(* gateway that starts, after it has restored the rooms of the snapshots.  *)
(* The gateway may crash at any step, and pods may be replaced by new      *)
(* processes that host nothing.                                            *)
(*                                                                         *)
(* EngineNodes has how pods are found lost and found again; here a node    *)
(* turns unhealthy and healthy at any time.  RoomManager has how players   *)
(* enter and leave; here a room is made, started, left and deleted.        *)
(***************************************************************************)
EXTENDS Integers

CONSTANTS
    Rooms,         \* the IDs rooms may get
    PodCount,      \* the pods are 0 .. PodCount - 1
    Loops,         \* the reconnect loops (a bound)
    MaxRetries,    \* attempts to create a room on its pod
    MaxProcesses,  \* processes a pod runs one after the other (a bound)
    Commands,      \* what may end rooms: "leave", "shutdown"
    Faults,        \* what goes wrong: "late" (a call is executed that was given up),
                   \* "redis" (it does not answer), "crash" (of the gateway)
    NoSnapshot, NoRoom

ASSUME FailoverAssumption ==
    /\ PodCount \in Nat \ {0}
    /\ Loops \subseteq Nat \ {0}
    /\ MaxRetries \in Nat \ {0}
    /\ MaxProcesses \in Nat \ {0}
    /\ Commands \subseteq {"leave", "shutdown"}
    /\ Faults \subseteq {"late", "redis", "crash"}
    /\ NoRoom \notin Rooms

Pods  == 0 .. PodCount - 1
NoPod == -1

\* Health also stands for main, which reassigns before Health may.
Health == 0
Movers == {Health} \cup Loops

Unknown   == 0                       \* a ServerID not heard of yet
ServerIDs == 0 .. MaxProcesses
Snapshots == [node : Pods, server : ServerIDs]

ASSUME SnapshotAssumption == NoSnapshot \notin Snapshots

Call(op, r, p) == [op |-> op, room |-> r, pod |-> p]
Calls == [op : {"CreateRoom", "DestroyRoom"}, room : Rooms, pod : Pods]

VARIABLES
    process,   \* the process each pod runs
    hosted,    \* the rooms the pods have, as pairs
    accepted,  \* the same, of all times
    calls,     \* calls nobody waits for, which an engine may yet execute
    snapshot,  \* Redis
    phase,     \* of the gateway
    known,     \* the pods with a node in e.nodes; of these nodes:
    healthy,   \*   Healthy
    serverID,  \*   ServerID
    active,    \*   ActiveRooms # 0
    rooms,     \* rm.Rooms; of all rooms, those a goroutine still has included:
    status,    \*   Status
    nodeID,    \*   NodeID
    start,     \* what the start of a room does next
    target,    \*   the node it calls
    tries,     \*   the attempts it has left
    fellBack,  \* the rooms whose start went to another node than NodeID
    leaving,   \* the rooms whose deletion is past the engine
    pc,        \* what a reassignment does next
    targets,   \* the rooms it has left
    room,      \*   the room it is at
    newNode,   \*   the node it has chosen
    oldNodeID, \*   the one it takes the room from
    updated,   \*   updatedSnapshot
    drop       \* the pod whose node is deleted after it

engineVars == <<process, hosted, accepted, calls, snapshot>>
nodeVars   == <<known, healthy, serverID, active>>
roomVars   == <<rooms, status, nodeID, leaving>>
startVars  == <<start, target, tries, fellBack>>
moveVars   == <<targets, room, newNode, oldNodeID, updated, drop>>
vars == <<engineVars, phase, nodeVars, roomVars, startVars, pc, moveVars>>

Phases   == {"down", "booting", "restoring", "serving", "closing"}
Statuses == {"none", "Waiting", "Playing", "Finished"}
Labels   == {"idle", "collect", "pick", "reread", "load", "create", "assign", "save",
             "destroy", "resave"}

EngineTypes ==
    /\ process \in [Pods -> 1 .. MaxProcesses]
    /\ hosted \subseteq accepted
    /\ accepted \subseteq Rooms \X Pods
    /\ calls \subseteq Calls
    /\ snapshot \in [Rooms -> Snapshots \cup {NoSnapshot}]

NodeTypes ==
    /\ known \subseteq Pods
    /\ healthy \subseteq known
    /\ active \subseteq known
    /\ serverID \in [Pods -> ServerIDs]

RoomTypes ==
    /\ rooms \subseteq Rooms
    /\ status \in [Rooms -> Statuses]
    /\ nodeID \in [Rooms -> Pods]
    /\ leaving \subseteq Rooms

StartTypes ==
    /\ start \in [Rooms -> {"no", "claimed", "assigned", "calling"}]
    /\ target \in [Rooms -> Pods]
    /\ tries \in [Rooms -> 0 .. MaxRetries]
    /\ fellBack \subseteq Rooms

MoveTypes ==
    /\ pc \in [Movers -> Labels]
    /\ targets \in [Movers -> SUBSET Rooms]
    /\ room \in [Movers -> Rooms \cup {NoRoom}]
    /\ newNode \in [Movers -> Pods]
    /\ oldNodeID \in [Movers -> Pods]
    /\ updated \in [Movers -> Snapshots \cup {NoSnapshot}]
    /\ drop \in [Movers -> Pods \cup {NoPod}]

TypeOK ==
    EngineTypes /\ phase \in Phases /\ NodeTypes /\ RoomTypes /\ StartTypes /\ MoveTypes

\* What a process has before it does anything, in its variables.
Forgotten ==
    /\ known' = {}
    /\ healthy' = {}
    /\ active' = {}
    /\ serverID' = [p \in Pods |-> Unknown]
    /\ rooms' = {}
    /\ status' = [r \in Rooms |-> "none"]
    /\ nodeID' = [r \in Rooms |-> 0]
    /\ leaving' = {}
    /\ start' = [r \in Rooms |-> "no"]
    /\ target' = [r \in Rooms |-> 0]
    /\ tries' = [r \in Rooms |-> 0]
    /\ fellBack' = {}
    /\ pc' = [m \in Movers |-> "idle"]
    /\ targets' = [m \in Movers |-> {}]
    /\ room' = [m \in Movers |-> NoRoom]
    /\ newNode' = [m \in Movers |-> 0]
    /\ oldNodeID' = [m \in Movers |-> 0]
    /\ updated' = [m \in Movers |-> NoSnapshot]
    /\ drop' = [m \in Movers |-> NoPod]

Init ==
    /\ process = [p \in Pods |-> 1]
    /\ hosted = {}
    /\ accepted = {}
    /\ calls = {}
    /\ snapshot = [r \in Rooms |-> NoSnapshot]
    /\ phase = "down"
    /\ known = {} /\ healthy = {} /\ active = {}
    /\ serverID = [p \in Pods |-> Unknown]
    /\ rooms = {} /\ leaving = {} /\ fellBack = {}
    /\ status = [r \in Rooms |-> "none"]
    /\ nodeID = [r \in Rooms |-> 0]
    /\ start = [r \in Rooms |-> "no"]
    /\ target = [r \in Rooms |-> 0]
    /\ tries = [r \in Rooms |-> 0]
    /\ pc = [m \in Movers |-> "idle"]
    /\ targets = [m \in Movers |-> {}]
    /\ room = [m \in Movers |-> NoRoom]
    /\ newNode = [m \in Movers |-> 0]
    /\ oldNodeID = [m \in Movers |-> 0]
    /\ updated = [m \in Movers |-> NoSnapshot]
    /\ drop = [m \in Movers |-> NoPod]

Serving == phase \in {"serving", "closing"}

Goto(m, label) == pc' = [pc EXCEPT ![m] = label]

-----------------------------------------------------------------------------
(* The engine and Redis                                                    *)

\* The process of p makes r, as asked, and writes its snapshot.
Host(r, p) ==
    /\ hosted' = hosted \cup {<<r, p>>}
    /\ accepted' = accepted \cup {<<r, p>>}
    /\ snapshot' = [snapshot EXCEPT ![r] = [node |-> p, server |-> process[p]]]

\* It destroys r, and with it the snapshot.
Unhost(r, p) ==
    /\ hosted' = hosted \ {<<r, p>>}
    /\ snapshot' = [snapshot EXCEPT ![r] = IF <<r, p>> \in hosted THEN NoSnapshot ELSE @]
    /\ UNCHANGED accepted

\* A call that fails is not executed, or the engine may yet execute it.
CreateFails(r, p) ==
    \/ UNCHANGED <<hosted, accepted, snapshot, calls>>
    \/ /\ "late" \in Faults
       /\ calls' = calls \cup {Call("CreateRoom", r, p)}
       /\ UNCHANGED <<hosted, accepted, snapshot>>

Execute(c) ==
    /\ c \in calls
    /\ calls' = calls \ {c}
    /\ IF c.op = "CreateRoom" THEN Host(c.room, c.pod) ELSE Unhost(c.room, c.pod)
    /\ UNCHANGED <<process, phase, nodeVars, roomVars, startVars, pc, moveVars>>

Lose(c) ==
    /\ c \in calls
    /\ calls' = calls \ {c}
    /\ UNCHANGED <<process, hosted, accepted, snapshot, phase, nodeVars, roomVars, startVars,
                   pc, moveVars>>

\* The pod gets a new process.
Replace(p) ==
    /\ process[p] < MaxProcesses
    /\ process' = [process EXCEPT ![p] = @ + 1]
    /\ hosted' = {h \in hosted : h[2] # p}
    /\ UNCHANGED <<accepted, calls, snapshot, phase, nodeVars, roomVars, startVars, pc, moveVars>>

-----------------------------------------------------------------------------
(* What the gateway knows of the pods, and what makes it reassign rooms    *)

\* Health waits for the reassignments it has started itself.
HealthFree == phase # "down" /\ (Serving => pc[Health] = "idle")

\* Mutant: the node is marked healthy and not entered in the map.
ConnectUnlisted(p) ==
    /\ phase # "down"
    /\ p \notin healthy
    /\ healthy' = healthy \cup {p}
    /\ UNCHANGED <<engineVars, phase, known, serverID, active, roomVars, startVars, pc, moveVars>>

\* connectAndRegisterPod: a new node, or another connection for an old one.
Connect(p) ==
    /\ phase # "down"
    /\ p \notin healthy
    /\ known' = known \cup {p}
    /\ healthy' = healthy \cup {p}
    /\ UNCHANGED <<engineVars, phase, serverID, active, roomVars, startVars, pc, moveVars>>

Replaced(p) == serverID[p] \notin {Unknown, process[p]}

\* A heartbeat is answered; a new ServerID makes Health reassign.  (Before main
\* has registered the callback, it makes nobody do anything.)
Beat(p) ==
    /\ HealthFree
    /\ p \in known
    /\ healthy' = healthy \cup {p}
    /\ serverID' = [serverID EXCEPT ![p] = process[p]]
    /\ active' = IF \E r \in Rooms : <<r, p>> \in hosted THEN active \cup {p} ELSE active \ {p}
    /\ IF Serving /\ Replaced(p) THEN Goto(Health, "collect") ELSE UNCHANGED pc
    /\ UNCHANGED <<engineVars, phase, known, roomVars, startVars, moveVars>>

Miss(p) ==
    /\ HealthFree
    /\ p \in healthy
    /\ healthy' = healthy \ {p}
    /\ UNCHANGED <<engineVars, phase, known, serverID, active, roomVars, startVars, pc, moveVars>>

\* GetStatus hides lost nodes whose last heartbeat told of no rooms.
Unhealthy == (known \ healthy) \cap active

\* The end of a patrol: checkAndTriggerReassign.
Patrol ==
    /\ Serving
    /\ pc[Health] = "idle"
    /\ Unhealthy # {}
    /\ Goto(Health, "collect")
    /\ UNCHANGED <<engineVars, phase, nodeVars, roomVars, startVars, moveVars>>

DeleteNode(p) ==
    /\ known' = known \ {p}
    /\ healthy' = healthy \ {p}
    /\ active' = active \ {p}
    /\ serverID' = [q \in Pods |-> IF q = p THEN Unknown ELSE serverID[q]]

\* recordReconnectFailure: after the second failure the rooms are reassigned, and
\* then the node is deleted.
GiveUp(m, p) ==
    /\ phase # "down"
    /\ m = Health => HealthFree
    /\ p \in known
    /\ IF Serving
         THEN /\ pc[m] = "idle"
              /\ Goto(m, "collect")
              /\ drop' = [drop EXCEPT ![m] = p]
              /\ UNCHANGED nodeVars
         ELSE DeleteNode(p) /\ UNCHANGED <<pc, drop>>
    /\ UNCHANGED <<engineVars, phase, roomVars, startVars, targets, room, newNode, oldNodeID,
                   updated>>

-----------------------------------------------------------------------------
(* main: start, crash and shutdown                                         *)

\* NewEngineInstance: the pods that answer get nodes, and Health begins.
Boot(S) ==
    /\ phase = "down"
    /\ phase' = "booting"
    /\ known' = S
    /\ healthy' = S
    /\ UNCHANGED <<engineVars, serverID, active, roomVars, startVars, pc, moveVars>>

Saved == {r \in Rooms : snapshot[r] # NoSnapshot}

\* RestoreFromStore; main then reassigns.
Restore ==
    /\ phase = "booting"
    /\ phase' = "restoring"
    /\ rooms' = Saved
    /\ status' = [r \in Rooms |-> IF r \in Saved THEN "Playing" ELSE "none"]
    /\ nodeID' = [r \in Rooms |-> IF r \in Saved THEN snapshot[r].node ELSE 0]
    /\ Goto(Health, "collect")
    /\ UNCHANGED <<engineVars, nodeVars, leaving, startVars, moveVars>>

\* Redis does not list the snapshots: the gateway starts without any room.
RestoreFails ==
    /\ "redis" \in Faults
    /\ phase = "booting"
    /\ phase' = "serving"
    /\ UNCHANGED <<engineVars, nodeVars, roomVars, startVars, pc, moveVars>>

\* The process ends, at any step.
Crash ==
    /\ "crash" \in Faults
    /\ phase # "down"
    /\ phase' = "down"
    /\ Forgotten
    /\ UNCHANGED engineVars

\* DestroyAllRooms: requests nobody waits for, and an empty map.  The handlers of
\* the connections go on.
DestroyAllRooms ==
    /\ "shutdown" \in Commands
    /\ phase = "serving"
    /\ phase' = "closing"
    /\ calls' = calls \cup {Call("DestroyRoom", r, nodeID[r]) : r \in {q \in rooms : nodeID[q] \in known}}
    /\ rooms' = {}
    /\ UNCHANGED <<process, hosted, accepted, snapshot, nodeVars, status, nodeID, leaving,
                   startVars, pc, moveVars>>

-----------------------------------------------------------------------------
(* The rooms: made, started, left and deleted by handlers of connections   *)

roomRest == <<process, phase, nodeVars, pc, moveVars>>

\* Room IDs are random: what has had one before has left no trace.
Fresh(r) ==
    /\ r \notin rooms /\ status[r] = "none"
    /\ Saved \cap {r} = {}
    /\ \A p \in Pods : <<r, p>> \notin accepted
    /\ \A c \in calls : c.room # r

CreateRoom(r) ==
    /\ Serving
    /\ Fresh(r)
    /\ rooms' = rooms \cup {r}
    /\ status' = [status EXCEPT ![r] = "Waiting"]
    /\ nodeID' = [nodeID EXCEPT ![r] = 0]
    /\ UNCHANGED <<roomRest, hosted, accepted, calls, snapshot, leaving, startVars>>

\* StartGame sets the status before it has a node.
StartGame(r) ==
    /\ Serving
    /\ r \in rooms
    /\ status[r] = "Waiting"
    /\ status' = [status EXCEPT ![r] = "Playing"]
    /\ start' = [start EXCEPT ![r] = "claimed"]
    /\ fellBack' = fellBack \ {r}
    /\ UNCHANGED <<roomRest, hosted, accepted, calls, snapshot, rooms, nodeID, leaving, target, tries>>

\* handleStartError
StartError(r) ==
    /\ status' = [status EXCEPT ![r] = "Waiting"]
    /\ start' = [start EXCEPT ![r] = "no"]
    /\ target' = [target EXCEPT ![r] = 0]
    /\ UNCHANGED <<rooms, nodeID, leaving, fellBack>>

\* GetNodeForRoom: a healthy node with little load, or the node of the hash
\* whatever its health, which may be missing.
Assign(r, p) ==
    /\ start[r] = "claimed"
    /\ IF p \in known
         THEN /\ nodeID' = [nodeID EXCEPT ![r] = p]
              /\ target' = [target EXCEPT ![r] = p]
              /\ start' = [start EXCEPT ![r] = "assigned"]
              /\ UNCHANGED <<rooms, status, leaving, tries, fellBack>>
         ELSE StartError(r) /\ UNCHANGED tries
    /\ UNCHANGED <<roomRest, hosted, accepted, calls, snapshot>>

\* The goroutine looks its node up, and takes another one if that is gone.
Begin(r, p) ==
    /\ start[r] = "assigned"
    /\ target[r] \in known => p = target[r]
    /\ IF p \in known
         THEN /\ target' = [target EXCEPT ![r] = p]
              /\ fellBack' = IF p = target[r] THEN fellBack ELSE fellBack \cup {r}
              /\ start' = [start EXCEPT ![r] = "calling"]
              /\ tries' = [tries EXCEPT ![r] = MaxRetries]
              /\ UNCHANGED <<rooms, status, nodeID, leaving>>
         ELSE StartError(r) /\ UNCHANGED tries
    /\ UNCHANGED <<roomRest, hosted, accepted, calls, snapshot>>

StartAccepted(r) ==
    /\ start[r] = "calling"
    /\ target[r] \in known
    /\ Host(r, target[r])
    /\ start' = [start EXCEPT ![r] = "no"]
    /\ target' = [target EXCEPT ![r] = 0]
    /\ tries' = [tries EXCEPT ![r] = 0]
    /\ UNCHANGED <<roomRest, calls, roomVars, fellBack>>

\* Mutant: the last failure ends the goroutine and not the battle.
StartGivenUp(r) ==
    /\ start[r] = "calling"
    /\ target[r] \in known
    /\ CreateFails(r, target[r])
    /\ tries' = [tries EXCEPT ![r] = @ - 1]
    /\ start' = IF tries[r] > 1 THEN start ELSE [start EXCEPT ![r] = "no"]
    /\ UNCHANGED <<roomRest, roomVars, target, fellBack>>

\* Mutant: the attempts are not counted.
StartRetried(r) ==
    /\ start[r] = "calling"
    /\ target[r] \in known
    /\ CreateFails(r, target[r])
    /\ UNCHANGED <<roomRest, roomVars, startVars>>

StartFails(r) ==
    /\ start[r] = "calling"
    /\ target[r] \in known
    /\ CreateFails(r, target[r])
    /\ tries' = [tries EXCEPT ![r] = @ - 1]
    /\ IF tries[r] > 1 THEN UNCHANGED <<roomVars, start, target, fellBack>> ELSE StartError(r)
    /\ UNCHANGED roomRest

\* A player leaves a room in which another one stays.
LeaveRoom(r) ==
    /\ "leave" \in Commands
    /\ Serving
    /\ status[r] = "Playing"
    /\ r \in rooms
    /\ status' = [status EXCEPT ![r] = "Finished"]
    /\ UNCHANGED <<roomRest, hosted, accepted, calls, snapshot, rooms, nodeID, leaving, startVars>>

\* The last player leaves: the engine is told to destroy what it has.  It does,
\* does not, or does later.
DestroyRoom(r) ==
    /\ "leave" \in Commands
    /\ Serving
    /\ r \in rooms \ leaving
    /\ status[r] # "Waiting"
    /\ leaving' = leaving \cup {r}
    /\ \/ nodeID[r] \in known /\ Unhost(r, nodeID[r]) /\ UNCHANGED calls
       \/ UNCHANGED <<hosted, accepted, snapshot, calls>>
       \/ /\ "late" \in Faults
          /\ nodeID[r] \in known
          /\ calls' = calls \cup {Call("DestroyRoom", r, nodeID[r])}
          /\ UNCHANGED <<hosted, accepted, snapshot>>
    /\ UNCHANGED <<roomRest, rooms, status, nodeID, startVars>>

\* Whatever the engine has done, the room leaves the map.  (Or it never does, if its
\* node was deleted between two attempts and the call of the second panics.)
Unlink(r) ==
    /\ "leave" \in Commands
    /\ Serving
    /\ r \in rooms
    /\ r \in leaving \/ status[r] = "Waiting"
    /\ rooms' = rooms \ {r}
    /\ leaving' = leaving \ {r}
    /\ UNCHANGED <<roomRest, hosted, accepted, calls, snapshot, status, nodeID, startVars>>

-----------------------------------------------------------------------------
(* ReassignRunningRoomsFromUnavailableNodes                                *)

moveRest == <<process, nodeVars, rooms, status, leaving, startVars>>

\* The reassignment ends: main goes on to serve, recordReconnectFailure to delete
\* the node.
End(m) ==
    /\ Goto(m, "idle")
    /\ targets' = [targets EXCEPT ![m] = {}]
    /\ phase' = IF phase = "restoring" /\ m = Health THEN "serving" ELSE phase
    /\ IF drop[m] = NoPod THEN UNCHANGED nodeVars ELSE DeleteNode(drop[m])
    /\ drop' = [drop EXCEPT ![m] = NoPod]
    /\ UNCHANGED <<engineVars, roomVars, startVars, room, newNode, oldNodeID, updated>>

\* Mutant: only the processes are compared.
MisplacedProcess(r) ==
    /\ snapshot[r] # NoSnapshot
    /\ snapshot[r].server \notin {Unknown, serverID[nodeID[r]]}

\* The node of r is not healthy, or is not known to be the process that the
\* snapshot names.
Misplaced(r) ==
    \/ nodeID[r] \notin healthy
    \/ /\ snapshot[r] # NoSnapshot
       /\ snapshot[r].server \notin {Unknown, serverID[nodeID[r]]}

\* GetStatus, and the rooms under rm.mu.RLock; a snapshot Redis does not give is
\* not compared.
Collect(m) ==
    /\ pc[m] = "collect"
    /\ healthy # {}
    /\ \E unread \in IF "redis" \in Faults THEN SUBSET rooms ELSE {{}} :
          targets' = [targets EXCEPT ![m] =
              {r \in rooms : Misplaced(r) /\ (r \in unread => nodeID[r] \notin healthy)}]
    /\ Goto(m, "pick")
    /\ UNCHANGED <<moveRest, phase, hosted, accepted, calls, snapshot, nodeID, room, newNode,
                   oldNodeID, updated, drop>>

Finish(m) ==
    /\ \/ pc[m] = "collect" /\ healthy = {}
       \/ pc[m] = "pick" /\ targets[m] = {}
    /\ End(m)

\* Done with the room m is at, in whatever way.
NextRoom(m) ==
    /\ Goto(m, "pick")
    /\ room' = [room EXCEPT ![m] = NoRoom]
    /\ newNode' = [newNode EXCEPT ![m] = 0]
    /\ oldNodeID' = [oldNodeID EXCEPT ![m] = 0]
    /\ updated' = [updated EXCEPT ![m] = NoSnapshot]
    /\ UNCHANGED <<phase, targets, drop>>

\* Mutant: the room's own node is not excluded.
AnyHealthy(r) == healthy

\* pickHealthyNodeForRoom: any healthy node but the room's own, as the hash of
\* the room has it.
Candidates(r) == healthy \ {nodeID[r]}

Pick(m, r) ==
    /\ pc[m] = "pick"
    /\ r \in targets[m]
    /\ targets' = [targets EXCEPT ![m] = @ \ {r}]
    /\ IF Candidates(r) = {}
         THEN UNCHANGED <<pc, room, newNode>>
         ELSE /\ \E p \in Candidates(r) : newNode' = [newNode EXCEPT ![m] = p]
              /\ room' = [room EXCEPT ![m] = r]
              /\ Goto(m, "reread")
    /\ UNCHANGED <<moveRest, phase, hosted, accepted, calls, snapshot, nodeID, oldNodeID,
                   updated, drop>>

\* Only rooms that are played are moved.
Reread(m) ==
    /\ pc[m] = "reread"
    /\ IF status[room[m]] = "Playing"
         THEN /\ oldNodeID' = [oldNodeID EXCEPT ![m] = nodeID[room[m]]]
              /\ Goto(m, "load")
              /\ UNCHANGED <<phase, targets, room, newNode, updated, drop>>
         ELSE NextRoom(m)
    /\ UNCHANGED <<moveRest, hosted, accepted, calls, snapshot, nodeID>>

\* Mutant: the room gets its node before that has accepted it.
LoadAndSetNode(m) ==
    /\ pc[m] = "load"
    /\ snapshot[room[m]] # NoSnapshot
    /\ nodeID' = [nodeID EXCEPT ![room[m]] = newNode[m]]
    /\ Goto(m, "create")
    /\ UNCHANGED <<moveRest, phase, hosted, accepted, calls, snapshot, moveVars>>

Load(m) ==
    /\ pc[m] = "load"
    /\ \/ /\ snapshot[room[m]] # NoSnapshot
          /\ Goto(m, "create")
          /\ UNCHANGED <<phase, targets, room, newNode, oldNodeID, updated, drop>>
       \/ /\ snapshot[room[m]] = NoSnapshot \/ "redis" \in Faults
          /\ NextRoom(m)
    /\ UNCHANGED <<moveRest, hosted, accepted, calls, snapshot, nodeID>>

CreateAccepted(m) ==
    /\ pc[m] = "create"
    /\ newNode[m] \in known
    /\ Host(room[m], newNode[m])
    /\ Goto(m, "assign")
    /\ UNCHANGED <<moveRest, phase, calls, nodeID, moveVars>>

\* Mutant: the answer of the engine is not looked at.
CreateUnchecked(m) ==
    /\ pc[m] = "create"
    /\ newNode[m] \in known
    /\ CreateFails(room[m], newNode[m])
    /\ Goto(m, "assign")
    /\ UNCHANGED <<moveRest, phase, nodeID, moveVars>>

CreateFault(m) ==
    /\ pc[m] = "create"
    /\ newNode[m] \in known
    /\ CreateFails(room[m], newNode[m])
    /\ NextRoom(m)
    /\ UNCHANGED <<moveRest, nodeID>>

\* The client of a deleted node is nil: the call panics.  Nothing recovers that in
\* the goroutine of a start (game.go:74) or of a reassignment (manager.go:650).  (The
\* other calls on such a client are recovered, or take a Crash's place.)
Panic ==
    /\ \/ \E m \in Movers : pc[m] = "create" /\ newNode[m] \notin known
       \/ \E r \in Rooms : start[r] = "calling" /\ target[r] \notin known
    /\ phase' = "down"
    /\ Forgotten
    /\ UNCHANGED engineVars

\* Mutant: the status is written again with the node.
SetNodePlaying(m) ==
    /\ pc[m] = "assign"
    /\ nodeID' = [nodeID EXCEPT ![room[m]] = newNode[m]]
    /\ status' = [status EXCEPT ![room[m]] = "Playing"]
    /\ Goto(m, "save")
    /\ UNCHANGED <<process, nodeVars, rooms, leaving, startVars, phase, hosted, accepted, calls,
                   snapshot, moveVars>>

SetNode(m) ==
    /\ pc[m] = "assign"
    /\ nodeID' = [nodeID EXCEPT ![room[m]] = newNode[m]]
    /\ Goto(m, "save")
    /\ UNCHANGED <<moveRest, phase, hosted, accepted, calls, snapshot, moveVars>>

\* What Redis is told of the room; it may not take it.
Write(r, new) ==
    \/ snapshot' = [snapshot EXCEPT ![r] = new]
    \/ "redis" \in Faults /\ UNCHANGED snapshot

\* The ServerID a node had when it was deleted is not kept here.
KnownIDs(p) == IF p \in known THEN {serverID[p]} ELSE ServerIDs

Save(m) ==
    /\ pc[m] = "save"
    /\ \E id \in KnownIDs(newNode[m]) :
          LET new == [node |-> newNode[m], server |-> id] IN
          updated' = [updated EXCEPT ![m] = new] /\ Write(room[m], new)
    /\ Goto(m, "destroy")
    /\ UNCHANGED <<moveRest, phase, hosted, accepted, calls, nodeID, targets, room, newNode,
                   oldNodeID, drop>>

\* sendDestroyRoomRequest: nobody waits for the call.
SendDestroy(m) ==
    /\ pc[m] = "destroy"
    /\ calls' = IF oldNodeID[m] \in known
                  THEN calls \cup {Call("DestroyRoom", room[m], oldNodeID[m])} ELSE calls
    /\ Goto(m, "resave")
    /\ UNCHANGED <<moveRest, phase, hosted, accepted, snapshot, nodeID, moveVars>>

SaveAgain(m) ==
    /\ pc[m] = "resave"
    /\ Write(room[m], updated[m])
    /\ NextRoom(m)
    /\ UNCHANGED <<moveRest, hosted, accepted, calls, nodeID>>

-----------------------------------------------------------------------------
Move(m) ==
    \/ Collect(m) \/ Finish(m) \/ \E r \in Rooms : Pick(m, r)
    \/ Reread(m) \/ Load(m) \/ CreateAccepted(m) \/ CreateFault(m)
    \/ SetNode(m) \/ Save(m) \/ SendDestroy(m) \/ SaveAgain(m)

Engine ==
    \/ \E c \in calls : Execute(c) \/ Lose(c)
    \/ \E p \in Pods : Replace(p)

Watch ==
    \/ \E p \in Pods : Connect(p) \/ Beat(p) \/ Miss(p) \/ \E m \in Movers : GiveUp(m, p)
    \/ Patrol

StartStep(r) ==
    \/ \E p \in Pods : Assign(r, p) \/ Begin(r, p)
    \/ StartAccepted(r) \/ StartFails(r)

Play(r) ==
    \/ CreateRoom(r) \/ StartGame(r) \/ StartStep(r)
    \/ LeaveRoom(r) \/ DestroyRoom(r) \/ Unlink(r)

Process ==
    \/ \E S \in SUBSET Pods : Boot(S)
    \/ Restore \/ RestoreFails \/ Crash \/ Panic \/ DestroyAllRooms

Next ==
    \/ Engine \/ Watch \/ Process
    \/ \E r \in Rooms : Play(r)
    \/ \E m \in Movers : Move(m)

Spec == Init /\ [][Next]_vars

\* Goroutines run, calls end in an answer, an error or a panic, and the tickers of
\* Health go on.
Fairness ==
    /\ WF_vars(Patrol)
    /\ \A m \in Movers : WF_vars(Move(m) \/ Panic)
    /\ \A r \in Rooms : WF_vars(StartStep(r) \/ Panic)

FairSpec == Spec /\ Fairness
=============================================================================
