------------------------- MODULE EngineNodesProofs -------------------------
(***************************************************************************)
(* Proofs about EngineNodes for any number of pods, loops and outages.     *)
(***************************************************************************)
EXTENDS EngineProperties, TLAPS

\* A goroutine holds the node its pod has in the map, or one that was deleted.
HeldNodesExist == \A g \in Procs : pc[g] \in Holding /\ g \notin stale => pod[g] \in nodes

\* Where Health is when its ping has been cut off, when it has claimed a node and
\* while it connects to the pods of the start; it pings and claims on a patrol.
HealthIsPlaced ==
    /\ cut => pc[Health] = "pinging"
    /\ claimed => pc[Health] \in ConnectLabels \cup {"unclaim"} /\ job \in {"ensure", "patrol"}
    /\ job = "boot" => pc[Health] \in ConnectLabels \cup {"next", "idle", "closing", "ended"}
    /\ pc[Health] \in {"pinging", "missed", "address", "claim"} => job \in {"ensure", "patrol"}

Inv == TypeOK /\ HeldNodesExist /\ HealthIsPlaced

\* A pod of the start that has answered all the time: nobody is at work against
\* it, and it is served or NewEngineInstance has yet to come to it.
SteadyPod(p) ==
    Working /\ p < Replicas /\ outages[p] = 0 =>
        /\ p \in up \ broken
        /\ failures[p] = 0
        /\ \A l \in Loops : pod[l] = p => pc[l] = "off"
        /\ pod[Health] = p =>
             /\ pc[Health] \notin RecordLabels \cup {"missed", "address", "claim", "unclaim"}
             /\ pc[Health] \in ConnectLabels => job = "boot"
             /\ Health \notin stale
             /\ ~cut
        /\ \/ Served(p)
           \/ /\ job = "boot"
              /\ pc[Health] # "idle"
              /\ p \in todo \/ (pod[Health] = p /\ pc[Health] \in {"dial", "enter", "replace"})

AllSteady == \A p \in Pods : SteadyPod(p)

(***************************************************************************)
(* Types, and the nodes that goroutines hold.                              *)
(***************************************************************************)

LEMMA Processes == Health \in Procs /\ Health \notin Loops /\ Loops \subseteq Procs
BY ConstantsAssumption DEF Health, Procs

LEMMA PodNumbers == 0 \in Pods /\ Pods \subseteq Int /\ Probed \subseteq Pods
BY ConstantsAssumption DEF Pods, Probed

LEMMA NextLabel ==
    ASSUME NEW g \in Procs
    PROVE  /\ g = Health => AfterConnect(g) \in {"next", "raise", "unclaim"}
           /\ job = "boot" => AfterConnect(Health) = "next"
           /\ job \in {"ensure", "patrol"} => AfterConnect(Health) = "unclaim"
           /\ g # Health => AfterConnect(g) = "again"
BY DEF AfterConnect

LEMMA TypeInit ==
    ASSUME Init
    PROVE  Inv
<1>. USE Processes, ConstantsAssumption DEF Init, Pods, Procs, Health
<1>1. /\ failures \in [Pods -> 0 .. 2]
      /\ serverID \in [Pods -> {"none", "same", "other"}]
      /\ pod \in [Procs -> Pods]
      /\ replicas \in Int /\ maxPodIndex \in Int
      /\ todo \subseteq Pods
    OBVIOUS
<1>2. outages \in [Pods -> 0 .. MaxOutages]
    OBVIOUS
<1>3. /\ pc \in [Procs -> Labels]
      /\ pc[Health] \notin LoopLabels
      /\ \A l \in Loops : pc[l] \notin HealthLabels
    BY DEF Labels, ConnectLabels, RecordLabels, HealthLabels, LoopLabels
<1>4. TypeOK
    BY <1>1, <1>2, <1>3 DEF TypeOK
<1>. QED
    BY <1>4 DEF Inv, HeldNodesExist, HealthIsPlaced, Holding

\* The pods change nothing that the goroutines hold.
LEMMA TypePods ==
    ASSUME TypeOK, HeldNodesExist, NEW p \in Pods, Fail(p) \/ Recover(p) \/ Mend(p)
    PROVE  TypeOK' /\ HeldNodesExist'
<1>. USE Processes, ConstantsAssumption
    DEF TypeOK, HeldNodesExist, podVars, linkVars, countVars, nodeVars, boundVars, healthVars,
        Goto, Return, Holding, Labels, ConnectLabels, RecordLabels, HealthLabels, LoopLabels
<1>1. CASE Fail(p)
    BY <1>1 DEF Fail
<1>2. CASE Recover(p)
    BY <1>2 DEF Recover
<1>3. CASE Mend(p)
    BY <1>3 DEF Mend
<1>. QED
    BY <1>1, <1>2, <1>3

\* Connecting.
LEMMA TypeConnect ==
    ASSUME TypeOK, HeldNodesExist, NEW g \in Procs, Connect(g)
    PROVE  TypeOK' /\ HeldNodesExist'
<1>. USE Processes, ConstantsAssumption
    DEF TypeOK, HeldNodesExist, podVars, linkVars, countVars, nodeVars, boundVars, healthVars,
        Goto, Return, Holding, Labels, ConnectLabels, RecordLabels, HealthLabels, LoopLabels, Pinging
<1>1. CASE DialSucceeds(g)
    BY <1>1 DEF DialSucceeds
<1>2. CASE Enter(g)
    BY <1>2 DEF Enter
<1>3. CASE Replace(g)
    BY <1>3 DEF Replace
<1>4. CASE Reset(g)
    BY <1>4, NextLabel DEF Reset
<1>. QED
    BY <1>1, <1>2, <1>3, <1>4 DEF Connect

\* Recording a failure.
LEMMA TypeRecord ==
    ASSUME TypeOK, HeldNodesExist, NEW g \in Procs, Record(g)
    PROVE  TypeOK' /\ HeldNodesExist'
<1>. USE Processes, ConstantsAssumption
    DEF TypeOK, HeldNodesExist, podVars, linkVars, countVars, nodeVars, boundVars, healthVars,
        Goto, Return, Holding, Labels, ConnectLabels, RecordLabels, HealthLabels, LoopLabels, Counted, Holders, Pinging
<1>1. CASE Count(g)
    BY <1>1 DEF Count
<1>2. CASE Judge(g)
    BY <1>2 DEF Judge
<1>3. CASE Delete(g)
    <2>. DEFINE p == pod[g]
    <2>1. claimed' \in BOOLEAN /\ cut' \in BOOLEAN
        BY <1>3 DEF Delete
    <2>2. /\ pc' \in [Procs -> Labels]
          /\ pc'[Health] \notin LoopLabels
          /\ \A l \in Loops : pc'[l] \notin HealthLabels
          /\ \A h \in Procs : pc[h] \in Holding => pc'[h] = pc[h]
          /\ pc'[g] \notin Holding /\ pc[g] \notin Holding
          /\ \A h \in Procs : h # g => pc'[h] = pc[h]
        BY <1>3 DEF Delete
    <2>3. stale' \subseteq {h \in Procs : pc'[h] \in Holding}
        BY <1>3, <2>2 DEF Delete
    <2>4. HeldNodesExist'
        BY <1>3, <2>2 DEF Delete
    <2>5. /\ failures' \in [Pods -> 0 .. 2]
          /\ serverID' \in [Pods -> {"none", "same", "other"}]
        BY <1>3 DEF Delete
    <2>6. /\ nodes' \subseteq Pods /\ addr' \subseteq nodes' /\ conn' \subseteq nodes'
          /\ healthy' \subseteq nodes' /\ reconnecting' \subseteq nodes' /\ broken' \subseteq conn'
        BY <1>3 DEF Delete
    <2>7. UNCHANGED <<up, outages, ctxDone, replicas, maxPodIndex, pod, job, todo>>
        BY <1>3 DEF Delete
    <2>. QED
        BY <2>1, <2>2, <2>3, <2>4, <2>5, <2>6, <2>7
<1>. QED
    BY <1>1, <1>2, <1>3 DEF Record

\* The rest of a reconnect loop.
LEMMA TypeLoop ==
    ASSUME TypeOK, HeldNodesExist, NEW l \in Loops,
           \/ Top(l)
           \/ DialFails(l)
           \/ Again(l)
           \/ Leave(l)
    PROVE  TypeOK' /\ HeldNodesExist'
<1>. USE Processes, ConstantsAssumption
    DEF TypeOK, HeldNodesExist, podVars, linkVars, countVars, nodeVars, boundVars, healthVars,
        Goto, Return, Holding, Labels, ConnectLabels, RecordLabels, HealthLabels, LoopLabels
<1>1. CASE Top(l)
    BY <1>1 DEF Top
<1>2. CASE DialFails(l)
    BY <1>2 DEF DialFails
<1>3. CASE Again(l)
    BY <1>3 DEF Again
<1>4. CASE Leave(l)
    BY <1>4, PodNumbers DEF Leave
<1>. QED
    BY <1>1, <1>2, <1>3, <1>4

\* Going through the pods.
LEMMA TypeSearch ==
    ASSUME TypeOK, HeldNodesExist, NEW p \in Pods,
           \/ BootPod(p)
           \/ ProbePod(p)
           \/ EnsurePod(p)
           \/ Ping(p)
           \/ CloseNode(p)
    PROVE  TypeOK' /\ HeldNodesExist'
<1>. USE Processes, ConstantsAssumption
    DEF TypeOK, HeldNodesExist, podVars, linkVars, countVars, nodeVars, boundVars, healthVars,
        Goto, Return, Holding, Labels, ConnectLabels, RecordLabels, HealthLabels, LoopLabels, DialNext, Lowest
<1>1. CASE BootPod(p)
    BY <1>1 DEF BootPod
<1>2. CASE ProbePod(p)
    BY <1>2 DEF ProbePod
<1>3. CASE EnsurePod(p)
    BY <1>3 DEF EnsurePod
<1>4. CASE Ping(p)
    BY <1>4 DEF Ping
<1>5. CASE CloseNode(p)
    BY <1>5 DEF CloseNode
<1>. QED
    BY <1>1, <1>2, <1>3, <1>4, <1>5

\* Reconnecting.
LEMMA TypeReconnect ==
    ASSUME TypeOK, HeldNodesExist,
           \/ DialGivenUp
           \/ \E l \in Loops : DialScheduled(l)
           \/ Claim
           \/ Unclaim
    PROVE  TypeOK' /\ HeldNodesExist'
<1>. USE Processes, ConstantsAssumption
    DEF TypeOK, HeldNodesExist, podVars, linkVars, countVars, nodeVars, boundVars, healthVars,
        Goto, Return, Holding, Labels, ConnectLabels, RecordLabels, HealthLabels, LoopLabels, AfterError, FreeLoop
<1>1. CASE DialGivenUp
    BY <1>1 DEF DialGivenUp
<1>2. CASE \E l \in Loops : DialScheduled(l)
    <2>1. PICK l \in Loops : DialScheduled(l)
        BY <1>2
    <2>2. pc' = [pc EXCEPT ![Health] = AfterError, ![l] = "top"] /\ pc[l] = "off"
        BY <2>1 DEF DialScheduled
    <2>3. /\ pc' \in [Procs -> Labels]
          /\ pc'[Health] \notin LoopLabels \cup Holding
          /\ \A m \in Loops : pc'[m] \notin HealthLabels
          /\ pc'[l] \notin Holding
          /\ \A g \in Procs \ {Health, l} : pc'[g] = pc[g]
        BY <2>2
    <2>4. /\ pod' \in [Procs -> Pods]
          /\ \A g \in Procs \ {Health, l} : pod'[g] = pod[g]
          /\ stale' = stale /\ nodes' = nodes
        BY <2>1 DEF DialScheduled
    <2>5. HeldNodesExist' /\ stale' \subseteq {g \in Procs : pc'[g] \in Holding}
        BY <2>1, <2>2, <2>3, <2>4 DEF DialScheduled
    <2>. QED
        BY <2>1, <2>3, <2>4, <2>5 DEF DialScheduled
<1>3. CASE Claim
    <2>1. nodes' = nodes /\ stale' = stale
        BY <1>3 DEF Claim
    <2>4. reconnecting' \subseteq nodes /\ claimed' \in BOOLEAN
        <3>1. CASE pod[Health] \in nodes \ reconnecting
            BY <1>3, <3>1 DEF Claim
        <3>2. CASE pod[Health] \notin nodes \ reconnecting
            BY <1>3, <3>2 DEF Claim
        <3>. QED
            BY <3>1, <3>2
    <2>2. PICK label \in {"dial", AfterError} : pc' = [pc EXCEPT ![Health] = label] /\ pc[Health] = "claim"
        BY <1>3 DEF Claim
    <2>3. /\ pc' \in [Procs -> Labels]
          /\ pc'[Health] \notin LoopLabels \cup Holding
          /\ \A g \in Procs \ {Health} : pc'[g] = pc[g]
        BY <2>2
    <2>. QED
        BY <1>3, <2>1, <2>2, <2>3, <2>4 DEF Claim
<1>4. CASE Unclaim
    BY <1>4 DEF Unclaim
<1>. QED
    BY <1>1, <1>2, <1>3, <1>4

\* The answers to a ping.
LEMMA TypePatrol ==
    ASSUME TypeOK, HeldNodesExist,
           \/ Answer
           \/ Answered
           \/ Unanswered
           \/ Missed
           \/ Address
    PROVE  TypeOK' /\ HeldNodesExist'
<1>. USE Processes, ConstantsAssumption
    DEF TypeOK, HeldNodesExist, podVars, linkVars, countVars, nodeVars, boundVars, healthVars,
        Goto, Return, Holding, Labels, ConnectLabels, RecordLabels, HealthLabels, LoopLabels, MarkUnhealthy
<1>1. CASE Answer
    BY <1>1 DEF Answer
<1>2. CASE Answered
    BY <1>2 DEF Answered
<1>3. CASE Unanswered
    BY <1>3 DEF Unanswered
<1>4. CASE Missed
    BY <1>4 DEF Missed
<1>5. CASE Address
    BY <1>5 DEF Address
<1>. QED
    BY <1>1, <1>2, <1>3, <1>4, <1>5

\* The ticks and the bounds of the search.
LEMMA TypeTicks ==
    ASSUME TypeOK, HeldNodesExist,
           \/ StartPatrol
           \/ StartDiscovery
           \/ Visited
           \/ StartHeartbeat
           \/ Raise
           \/ ShrinkRead
           \/ Resize
    PROVE  TypeOK' /\ HeldNodesExist'
<1>. USE Processes, ConstantsAssumption
    DEF TypeOK, HeldNodesExist, podVars, linkVars, countVars, nodeVars, boundVars, healthVars,
        Goto, Return, Holding, Labels, ConnectLabels, RecordLabels, HealthLabels, LoopLabels
<1>1. CASE StartPatrol
    BY <1>1, PodNumbers DEF StartPatrol
<1>2. CASE StartDiscovery
    BY <1>2, PodNumbers DEF StartDiscovery
<1>3. CASE Visited
    BY <1>3, PodNumbers DEF Visited
<1>4. CASE StartHeartbeat
    BY <1>4, PodNumbers DEF StartHeartbeat
<1>5. CASE Raise
    BY <1>5, PodNumbers DEF Raise
<1>6. CASE ShrinkRead
    BY <1>6, PodNumbers DEF ShrinkRead
<1>7. CASE Resize
    <2>1. pod[Health] \in Int
        BY PodNumbers
    <2>2. PICK n \in Int : n = pod[Health] + 1
        BY <2>1
    <2>3. /\ replicas' \in {replicas, n}
          /\ maxPodIndex' \in {maxPodIndex, n - 1}
        BY <1>7, <2>2 DEF Resize
    <2>. QED
        BY <1>7, <2>3, PodNumbers DEF Resize
<1>. QED
    BY <1>1, <1>2, <1>3, <1>4, <1>5, <1>6, <1>7

\* The shutdown.
LEMMA TypeStop ==
    ASSUME TypeOK, HeldNodesExist,
           \/ Cancel
           \/ StopHealth
           \/ DropNodes
    PROVE  TypeOK' /\ HeldNodesExist'
<1>. USE Processes, ConstantsAssumption
    DEF TypeOK, HeldNodesExist, podVars, linkVars, countVars, nodeVars, boundVars, healthVars,
        Goto, Return, Holding, Labels, ConnectLabels, RecordLabels, HealthLabels, LoopLabels
<1>1. CASE Cancel
    BY <1>1 DEF Cancel
<1>2. CASE StopHealth
    BY <1>2 DEF StopHealth
<1>3. CASE DropNodes
    BY <1>3 DEF DropNodes
<1>. QED
    BY <1>1, <1>2, <1>3

(***************************************************************************)
(* Where Health is.                                                        *)
(***************************************************************************)

\* Connecting and recording.
LEMMA PlacedInConnect ==
    ASSUME TypeOK, HealthIsPlaced, NEW g \in Procs,
           \/ DialSucceeds(g)
           \/ Enter(g)
           \/ Replace(g)
           \/ Reset(g)
           \/ Count(g)
           \/ Judge(g)
           \/ Delete(g)
    PROVE  HealthIsPlaced'
<1>. USE Processes DEF HealthIsPlaced, TypeOK, podVars, linkVars, countVars, nodeVars, boundVars,
        healthVars, Goto, Return, ConnectLabels, Pinging
<1>1. CASE DialSucceeds(g)
    BY <1>1, NextLabel DEF DialSucceeds
<1>2. CASE Enter(g)
    BY <1>2, NextLabel DEF Enter
<1>3. CASE Replace(g)
    BY <1>3, NextLabel DEF Replace
<1>4. CASE Reset(g)
    BY <1>4, NextLabel DEF Reset
<1>5. CASE Count(g)
    BY <1>5, NextLabel DEF Count
<1>6. CASE Judge(g)
    BY <1>6, NextLabel DEF Judge
<1>7. CASE Delete(g)
    BY <1>7, NextLabel DEF Delete
<1>. QED
    BY <1>1, <1>2, <1>3, <1>4, <1>5, <1>6, <1>7

\* Going through the pods.
LEMMA PlacedInSearch ==
    ASSUME TypeOK, HealthIsPlaced, NEW p \in Pods,
           \/ Fail(p)
           \/ Recover(p)
           \/ Mend(p)
           \/ BootPod(p)
           \/ ProbePod(p)
           \/ EnsurePod(p)
           \/ Ping(p)
           \/ CloseNode(p)
    PROVE  HealthIsPlaced'
<1>. USE Processes DEF HealthIsPlaced, TypeOK, podVars, linkVars, countVars, nodeVars, boundVars,
        healthVars, Goto, Return, ConnectLabels, DialNext
<1>1. CASE Fail(p)
    BY <1>1 DEF Fail
<1>2. CASE Recover(p)
    BY <1>2 DEF Recover
<1>3. CASE Mend(p)
    BY <1>3 DEF Mend
<1>4. CASE BootPod(p)
    BY <1>4 DEF BootPod
<1>5. CASE ProbePod(p)
    BY <1>5 DEF ProbePod
<1>6. CASE EnsurePod(p)
    BY <1>6 DEF EnsurePod
<1>7. CASE Ping(p)
    BY <1>7 DEF Ping
<1>8. CASE CloseNode(p)
    BY <1>8 DEF CloseNode
<1>. QED
    BY <1>1, <1>2, <1>3, <1>4, <1>5, <1>6, <1>7, <1>8

\* The rest of a reconnect loop.
LEMMA PlacedInLoop ==
    ASSUME TypeOK, HealthIsPlaced, NEW l \in Loops,
           \/ Top(l)
           \/ DialFails(l)
           \/ Again(l)
           \/ Leave(l)
    PROVE  HealthIsPlaced'
<1>. USE Processes DEF HealthIsPlaced, TypeOK, podVars, linkVars, countVars, nodeVars, boundVars,
        healthVars, Goto, Return, ConnectLabels
<1>1. CASE Top(l)
    BY <1>1 DEF Top
<1>2. CASE DialFails(l)
    BY <1>2 DEF DialFails
<1>3. CASE Again(l)
    BY <1>3 DEF Again
<1>4. CASE Leave(l)
    BY <1>4 DEF Leave
<1>. QED
    BY <1>1, <1>2, <1>3, <1>4

\* The rest of the patrol.
LEMMA PlacedInPatrol ==
    ASSUME TypeOK, HealthIsPlaced,
           \/ DialGivenUp
           \/ \E l \in Loops : DialScheduled(l)
           \/ Claim
           \/ Unclaim
           \/ Answer
           \/ Answered
           \/ Unanswered
           \/ Missed
           \/ Address
    PROVE  HealthIsPlaced'
<1>. USE Processes DEF HealthIsPlaced, TypeOK, podVars, linkVars, countVars, nodeVars, boundVars,
        healthVars, Goto, Return, ConnectLabels, AfterError
<1>1. CASE DialGivenUp
    BY <1>1 DEF DialGivenUp
<1>2. CASE \E l \in Loops : DialScheduled(l)
    BY <1>2 DEF DialScheduled
<1>3. CASE Claim
    BY <1>3 DEF Claim
<1>4. CASE Unclaim
    BY <1>4 DEF Unclaim
<1>5. CASE Answer
    BY <1>5 DEF Answer
<1>6. CASE Answered
    BY <1>6 DEF Answered
<1>7. CASE Unanswered
    BY <1>7 DEF Unanswered
<1>8. CASE Missed
    BY <1>8 DEF Missed
<1>9. CASE Address
    BY <1>9 DEF Address
<1>. QED
    BY <1>1, <1>2, <1>3, <1>4, <1>5, <1>6, <1>7, <1>8, <1>9

\* Ticks and shutdown.
LEMMA PlacedInTicks ==
    ASSUME TypeOK, HealthIsPlaced,
           \/ StartPatrol
           \/ StartDiscovery
           \/ Visited
           \/ StartHeartbeat
           \/ Raise
           \/ ShrinkRead
           \/ Resize
           \/ Cancel
           \/ StopHealth
           \/ DropNodes
    PROVE  HealthIsPlaced'
<1>. USE Processes DEF HealthIsPlaced, TypeOK, podVars, linkVars, countVars, nodeVars, boundVars,
        healthVars, Goto, Return, ConnectLabels
<1>1. CASE StartPatrol
    BY <1>1 DEF StartPatrol
<1>2. CASE StartDiscovery
    BY <1>2 DEF StartDiscovery
<1>3. CASE Visited
    BY <1>3 DEF Visited
<1>4. CASE StartHeartbeat
    BY <1>4 DEF StartHeartbeat
<1>5. CASE Raise
    BY <1>5 DEF Raise
<1>6. CASE ShrinkRead
    BY <1>6 DEF ShrinkRead
<1>7. CASE Resize
    BY <1>7 DEF Resize
<1>8. CASE Cancel
    BY <1>8 DEF Cancel
<1>9. CASE StopHealth
    BY <1>9 DEF StopHealth
<1>10. CASE DropNodes
    BY <1>10 DEF DropNodes
<1>. QED
    BY <1>1, <1>2, <1>3, <1>4, <1>5, <1>6, <1>7, <1>8, <1>9, <1>10

(***************************************************************************)
(* Everything together.                                                    *)
(***************************************************************************)

LEMMA InvStep ==
    ASSUME Inv, [Next]_vars
    PROVE  Inv'
<1>. USE DEF Inv
<1>1. CASE \E p \in Pods : Fail(p) \/ Recover(p) \/ Mend(p)
    BY <1>1, TypePods, PlacedInSearch
<1>2. CASE StartPatrol \/ StartDiscovery \/ Cancel
    BY <1>2, TypeTicks, TypeStop, PlacedInTicks
<1>3. CASE HealthStep
    <2>1. CASE \E p \in Pods : BootPod(p) \/ ProbePod(p) \/ EnsurePod(p) \/ Ping(p) \/ CloseNode(p)
        BY <2>1, TypeSearch, PlacedInSearch
    <2>2. CASE DialGivenUp \/ (\E l \in Loops : DialScheduled(l)) \/ Claim \/ Unclaim
        BY <2>2, TypeReconnect, PlacedInPatrol
    <2>3. CASE Connect(Health) \/ Record(Health)
        BY <2>3, Processes, TypeConnect, TypeRecord, PlacedInConnect DEF Connect, Record
    <2>4. CASE Answer \/ Answered \/ Unanswered \/ Missed \/ Address
        BY <2>4, TypePatrol, PlacedInPatrol
    <2>5. CASE Raise \/ Visited \/ StartHeartbeat \/ ShrinkRead \/ Resize
        BY <2>5, TypeTicks, PlacedInTicks
    <2>6. CASE StopHealth \/ DropNodes
        BY <2>6, TypeStop, PlacedInTicks
    <2>. QED
        BY <1>3, <2>1, <2>2, <2>3, <2>4, <2>5, <2>6 DEF HealthStep
<1>4. CASE \E l \in Loops : LoopStep(l)
    <2>1. PICK l \in Loops : LoopStep(l)
        BY <1>4
    <2>2. CASE Top(l) \/ DialFails(l) \/ Again(l) \/ Leave(l)
        BY <2>2, TypeLoop, PlacedInLoop
    <2>3. CASE Connect(l) \/ Record(l)
        BY <2>3, Processes, TypeConnect, TypeRecord, PlacedInConnect DEF Connect, Record
    <2>. QED
        BY <2>1, <2>2, <2>3 DEF LoopStep
<1>5. CASE UNCHANGED vars
    BY <1>5 DEF vars, podVars, linkVars, countVars, nodeVars, boundVars, healthVars, TypeOK,
        HeldNodesExist, HealthIsPlaced
<1>. QED
    BY <1>1, <1>2, <1>3, <1>4, <1>5 DEF Next

\* The invariant of every state.
LEMMA InvAlways == Spec => []Inv
<1>1. Init => Inv
    BY TypeInit
<1>2. Inv /\ [Next]_vars => Inv'
    BY InvStep
<1>. QED
    BY <1>1, <1>2, PTL DEF Spec

\* Types: every field has its values, only nodes of the map have an address, a
\* connection, health or a mark, and a deleted node is held only where the code
\* holds a node between two locks.
THEOREM TypeCorrect == Spec => []TypeOK
<1>1. Inv => TypeOK
    BY DEF Inv
<1>. QED
    BY <1>1, InvAlways, PTL

(***************************************************************************)
(* Addressed nodes are connected.                                          *)
(***************************************************************************)

\* Connecting and recording.
LEMMA AddressedInConnect ==
    ASSUME TypeOK, AddressedNodesAreConnected, NEW g \in Procs,
           \/ DialSucceeds(g)
           \/ Enter(g)
           \/ Replace(g)
           \/ Reset(g)
           \/ Count(g)
           \/ Judge(g)
           \/ Delete(g)
    PROVE  AddressedNodesAreConnected'
<1>. USE Processes DEF AddressedNodesAreConnected, Working, TypeOK, Holding,
        podVars, linkVars, countVars, nodeVars, boundVars, healthVars, Goto, Return
<1>1. CASE DialSucceeds(g)
    BY <1>1, NextLabel DEF DialSucceeds
<1>2. CASE Enter(g)
    BY <1>2, NextLabel DEF Enter
<1>3. CASE Replace(g)
    BY <1>3, NextLabel DEF Replace
<1>4. CASE Reset(g)
    BY <1>4, NextLabel DEF Reset
<1>5. CASE Count(g)
    BY <1>5, NextLabel DEF Count
<1>6. CASE Judge(g)
    BY <1>6, NextLabel DEF Judge
<1>7. CASE Delete(g)
    BY <1>7, NextLabel DEF Delete
<1>. QED
    BY <1>1, <1>2, <1>3, <1>4, <1>5, <1>6, <1>7

\* Going through the pods.
LEMMA AddressedInSearch ==
    ASSUME TypeOK, AddressedNodesAreConnected, NEW p \in Pods,
           \/ Fail(p)
           \/ Recover(p)
           \/ Mend(p)
           \/ BootPod(p)
           \/ ProbePod(p)
           \/ EnsurePod(p)
           \/ Ping(p)
           \/ CloseNode(p)
    PROVE  AddressedNodesAreConnected'
<1>. USE Processes DEF AddressedNodesAreConnected, Working, TypeOK, Holding,
        podVars, linkVars, countVars, nodeVars, boundVars, healthVars, Goto, Return
<1>1. CASE Fail(p)
    BY <1>1 DEF Fail
<1>2. CASE Recover(p)
    BY <1>2 DEF Recover
<1>3. CASE Mend(p)
    BY <1>3 DEF Mend
<1>4. CASE BootPod(p)
    BY <1>4 DEF BootPod
<1>5. CASE ProbePod(p)
    BY <1>5 DEF ProbePod
<1>6. CASE EnsurePod(p)
    BY <1>6 DEF EnsurePod
<1>7. CASE Ping(p)
    BY <1>7 DEF Ping
<1>8. CASE CloseNode(p)
    BY <1>8 DEF CloseNode
<1>. QED
    BY <1>1, <1>2, <1>3, <1>4, <1>5, <1>6, <1>7, <1>8

\* The rest of a reconnect loop.
LEMMA AddressedInLoop ==
    ASSUME TypeOK, AddressedNodesAreConnected, NEW l \in Loops,
           \/ Top(l)
           \/ DialFails(l)
           \/ Again(l)
           \/ Leave(l)
    PROVE  AddressedNodesAreConnected'
<1>. USE Processes DEF AddressedNodesAreConnected, Working, TypeOK, Holding,
        podVars, linkVars, countVars, nodeVars, boundVars, healthVars, Goto, Return
<1>1. CASE Top(l)
    BY <1>1 DEF Top
<1>2. CASE DialFails(l)
    BY <1>2 DEF DialFails
<1>3. CASE Again(l)
    BY <1>3 DEF Again
<1>4. CASE Leave(l)
    BY <1>4 DEF Leave
<1>. QED
    BY <1>1, <1>2, <1>3, <1>4

\* The rest of the patrol.
LEMMA AddressedInPatrol ==
    ASSUME TypeOK, AddressedNodesAreConnected,
           \/ DialGivenUp
           \/ \E l \in Loops : DialScheduled(l)
           \/ Claim
           \/ Unclaim
           \/ Answer
           \/ Answered
           \/ Unanswered
           \/ Missed
           \/ Address
    PROVE  AddressedNodesAreConnected'
<1>. USE Processes DEF AddressedNodesAreConnected, Working, TypeOK, Holding,
        podVars, linkVars, countVars, nodeVars, boundVars, healthVars, Goto, Return
<1>1. CASE DialGivenUp
    BY <1>1 DEF DialGivenUp
<1>2. CASE \E l \in Loops : DialScheduled(l)
    BY <1>2 DEF DialScheduled
<1>3. CASE Claim
    BY <1>3 DEF Claim
<1>4. CASE Unclaim
    BY <1>4 DEF Unclaim
<1>5. CASE Answer
    BY <1>5 DEF Answer
<1>6. CASE Answered
    BY <1>6 DEF Answered
<1>7. CASE Unanswered
    BY <1>7 DEF Unanswered
<1>8. CASE Missed
    BY <1>8 DEF Missed
<1>9. CASE Address
    BY <1>9 DEF Address
<1>. QED
    BY <1>1, <1>2, <1>3, <1>4, <1>5, <1>6, <1>7, <1>8, <1>9

\* Ticks and shutdown.
LEMMA AddressedInTicks ==
    ASSUME TypeOK, AddressedNodesAreConnected,
           \/ StartPatrol
           \/ StartDiscovery
           \/ Visited
           \/ StartHeartbeat
           \/ Raise
           \/ ShrinkRead
           \/ Resize
           \/ Cancel
           \/ StopHealth
           \/ DropNodes
    PROVE  AddressedNodesAreConnected'
<1>. USE Processes DEF AddressedNodesAreConnected, Working, TypeOK, Holding,
        podVars, linkVars, countVars, nodeVars, boundVars, healthVars, Goto, Return
<1>1. CASE StartPatrol
    BY <1>1 DEF StartPatrol
<1>2. CASE StartDiscovery
    BY <1>2 DEF StartDiscovery
<1>3. CASE Visited
    BY <1>3 DEF Visited
<1>4. CASE StartHeartbeat
    BY <1>4 DEF StartHeartbeat
<1>5. CASE Raise
    BY <1>5 DEF Raise
<1>6. CASE ShrinkRead
    BY <1>6 DEF ShrinkRead
<1>7. CASE Resize
    BY <1>7 DEF Resize
<1>8. CASE Cancel
    BY <1>8 DEF Cancel
<1>9. CASE StopHealth
    BY <1>9 DEF StopHealth
<1>10. CASE DropNodes
    BY <1>10 DEF DropNodes
<1>. QED
    BY <1>1, <1>2, <1>3, <1>4, <1>5, <1>6, <1>7, <1>8, <1>9, <1>10

\* Every step keeps the nodes with an address connected.
LEMMA AddressedStep ==
    ASSUME TypeOK, AddressedNodesAreConnected, [Next]_vars
    PROVE  AddressedNodesAreConnected'
<1>1. CASE \E p \in Pods : Fail(p) \/ Recover(p) \/ Mend(p)
    BY <1>1, AddressedInSearch
<1>2. CASE StartPatrol \/ StartDiscovery \/ Cancel
    BY <1>2, AddressedInTicks
<1>3. CASE HealthStep
    BY <1>3, Processes, AddressedInConnect, AddressedInSearch, AddressedInPatrol, AddressedInTicks DEF HealthStep, Connect, Record
<1>4. CASE \E l \in Loops : LoopStep(l)
    BY <1>4, Processes, AddressedInConnect, AddressedInLoop DEF LoopStep, Connect, Record
<1>5. CASE UNCHANGED vars
    BY <1>5 DEF vars, podVars, linkVars, countVars, nodeVars, boundVars, healthVars, Goto, Return, AddressedNodesAreConnected, Working
<1>. QED
    BY <1>1, <1>2, <1>3, <1>4, <1>5 DEF Next

\* The only connections that are taken from nodes of the map are taken by
\* Shutdown: replaceConnection writes address and connection together, and
\* deleteNode takes the node out of the map first.
THEOREM AddressedAreConnected == Spec => []AddressedNodesAreConnected
<1>1. Init => AddressedNodesAreConnected
    BY DEF Init, AddressedNodesAreConnected
<1>2. Inv /\ AddressedNodesAreConnected /\ [Next]_vars => AddressedNodesAreConnected'
    BY AddressedStep DEF Inv
<1>. QED
    BY <1>1, <1>2, InvAlways, PTL DEF Spec

(***************************************************************************)
(* Marks of reconnecting are cleared.                                      *)
(***************************************************************************)

\* Connecting and recording.
LEMMA FlagInConnect ==
    ASSUME TypeOK, HealthIsPlaced, FlagIsCleared, NEW g \in Procs,
           \/ DialSucceeds(g)
           \/ Enter(g)
           \/ Replace(g)
           \/ Reset(g)
           \/ Count(g)
           \/ Judge(g)
           \/ Delete(g)
    PROVE  FlagIsCleared'
<1>. USE Processes DEF FlagIsCleared, HealthIsPlaced, TypeOK, AfterError, DialNext,
        ConnectLabels, HealthLabels, podVars, linkVars, countVars, nodeVars, boundVars, healthVars, Goto, Return
<1>1. CASE DialSucceeds(g)
    BY <1>1, NextLabel DEF DialSucceeds
<1>2. CASE Enter(g)
    BY <1>2, NextLabel DEF Enter
<1>3. CASE Replace(g)
    BY <1>3, NextLabel DEF Replace
<1>4. CASE Reset(g)
    BY <1>4, NextLabel DEF Reset
<1>5. CASE Count(g)
    BY <1>5, NextLabel DEF Count
<1>6. CASE Judge(g)
    BY <1>6, NextLabel DEF Judge
<1>7. CASE Delete(g)
    BY <1>7, NextLabel DEF Delete
<1>. QED
    BY <1>1, <1>2, <1>3, <1>4, <1>5, <1>6, <1>7

\* Going through the pods.
LEMMA FlagInSearch ==
    ASSUME TypeOK, HealthIsPlaced, FlagIsCleared, NEW p \in Pods,
           \/ Fail(p)
           \/ Recover(p)
           \/ Mend(p)
           \/ BootPod(p)
           \/ ProbePod(p)
           \/ EnsurePod(p)
           \/ Ping(p)
           \/ CloseNode(p)
    PROVE  FlagIsCleared'
<1>. USE Processes DEF FlagIsCleared, HealthIsPlaced, TypeOK, AfterError, DialNext,
        ConnectLabels, HealthLabels, podVars, linkVars, countVars, nodeVars, boundVars, healthVars, Goto, Return
<1>1. CASE Fail(p)
    BY <1>1 DEF Fail
<1>2. CASE Recover(p)
    BY <1>2 DEF Recover
<1>3. CASE Mend(p)
    BY <1>3 DEF Mend
<1>4. CASE BootPod(p)
    BY <1>4 DEF BootPod
<1>5. CASE ProbePod(p)
    BY <1>5 DEF ProbePod
<1>6. CASE EnsurePod(p)
    BY <1>6 DEF EnsurePod
<1>7. CASE Ping(p)
    BY <1>7 DEF Ping
<1>8. CASE CloseNode(p)
    BY <1>8 DEF CloseNode
<1>. QED
    BY <1>1, <1>2, <1>3, <1>4, <1>5, <1>6, <1>7, <1>8

\* The rest of a reconnect loop.
LEMMA FlagInLoop ==
    ASSUME TypeOK, HealthIsPlaced, FlagIsCleared, NEW l \in Loops,
           \/ Top(l)
           \/ DialFails(l)
           \/ Again(l)
           \/ Leave(l)
    PROVE  FlagIsCleared'
<1>. USE Processes DEF FlagIsCleared, HealthIsPlaced, TypeOK, AfterError, DialNext,
        ConnectLabels, HealthLabels, podVars, linkVars, countVars, nodeVars, boundVars, healthVars, Goto, Return
<1>1. CASE Top(l)
    BY <1>1 DEF Top
<1>2. CASE DialFails(l)
    BY <1>2 DEF DialFails
<1>3. CASE Again(l)
    BY <1>3 DEF Again
<1>4. CASE Leave(l)
    BY <1>4 DEF Leave
<1>. QED
    BY <1>1, <1>2, <1>3, <1>4

\* The rest of the patrol.
LEMMA FlagInPatrol ==
    ASSUME TypeOK, HealthIsPlaced, FlagIsCleared,
           \/ DialGivenUp
           \/ \E l \in Loops : DialScheduled(l)
           \/ Claim
           \/ Unclaim
           \/ Answer
           \/ Answered
           \/ Unanswered
           \/ Missed
           \/ Address
    PROVE  FlagIsCleared'
<1>. USE Processes DEF FlagIsCleared, HealthIsPlaced, TypeOK, AfterError, DialNext,
        ConnectLabels, HealthLabels, podVars, linkVars, countVars, nodeVars, boundVars, healthVars, Goto, Return
<1>1. CASE DialGivenUp
    BY <1>1 DEF DialGivenUp
<1>2. CASE \E l \in Loops : DialScheduled(l)
    <2>1. PICK l \in Loops : DialScheduled(l)
        BY <1>2
    <2>2. /\ reconnecting' = reconnecting
          /\ pc' = [pc EXCEPT ![Health] = AfterError, ![l] = "top"]
          /\ pod' = [pod EXCEPT ![l] = pod[Health]]
          /\ pc[l] = "off"
        BY <2>1 DEF DialScheduled, FreeLoop
    <2>3. pc'[l] = "top" /\ pod'[l] = pod[Health]
        BY <2>2
    <2>4. \A m \in Loops : pc[m] # "off" => pc'[m] # "off" /\ pod'[m] = pod[m]
        BY <2>2
    <2>. QED
        BY <2>2, <2>3, <2>4
<1>3. CASE Claim
    BY <1>3 DEF Claim
<1>4. CASE Unclaim
    BY <1>4 DEF Unclaim
<1>5. CASE Answer
    BY <1>5 DEF Answer
<1>6. CASE Answered
    BY <1>6 DEF Answered
<1>7. CASE Unanswered
    BY <1>7 DEF Unanswered
<1>8. CASE Missed
    BY <1>8 DEF Missed
<1>9. CASE Address
    BY <1>9 DEF Address
<1>. QED
    BY <1>1, <1>2, <1>3, <1>4, <1>5, <1>6, <1>7, <1>8, <1>9

\* Ticks and shutdown.
LEMMA FlagInTicks ==
    ASSUME TypeOK, HealthIsPlaced, FlagIsCleared,
           \/ StartPatrol
           \/ StartDiscovery
           \/ Visited
           \/ StartHeartbeat
           \/ Raise
           \/ ShrinkRead
           \/ Resize
           \/ Cancel
           \/ StopHealth
           \/ DropNodes
    PROVE  FlagIsCleared'
<1>. USE Processes DEF FlagIsCleared, HealthIsPlaced, TypeOK, AfterError, DialNext,
        ConnectLabels, HealthLabels, podVars, linkVars, countVars, nodeVars, boundVars, healthVars, Goto, Return
<1>1. CASE StartPatrol
    BY <1>1 DEF StartPatrol
<1>2. CASE StartDiscovery
    BY <1>2 DEF StartDiscovery
<1>3. CASE Visited
    BY <1>3 DEF Visited
<1>4. CASE StartHeartbeat
    BY <1>4 DEF StartHeartbeat
<1>5. CASE Raise
    BY <1>5 DEF Raise
<1>6. CASE ShrinkRead
    BY <1>6 DEF ShrinkRead
<1>7. CASE Resize
    BY <1>7 DEF Resize
<1>8. CASE Cancel
    BY <1>8 DEF Cancel
<1>9. CASE StopHealth
    BY <1>9 DEF StopHealth
<1>10. CASE DropNodes
    BY <1>10 DEF DropNodes
<1>. QED
    BY <1>1, <1>2, <1>3, <1>4, <1>5, <1>6, <1>7, <1>8, <1>9, <1>10

\* Every step leaves somebody who will clear the mark.
LEMMA FlagStep ==
    ASSUME TypeOK, HealthIsPlaced, FlagIsCleared, [Next]_vars
    PROVE  FlagIsCleared'
<1>1. CASE \E p \in Pods : Fail(p) \/ Recover(p) \/ Mend(p)
    BY <1>1, FlagInSearch
<1>2. CASE StartPatrol \/ StartDiscovery \/ Cancel
    BY <1>2, FlagInTicks
<1>3. CASE HealthStep
    BY <1>3, Processes, FlagInConnect, FlagInSearch, FlagInPatrol, FlagInTicks DEF HealthStep, Connect, Record
<1>4. CASE \E l \in Loops : LoopStep(l)
    BY <1>4, Processes, FlagInConnect, FlagInLoop DEF LoopStep, Connect, Record
<1>5. CASE UNCHANGED vars
    BY <1>5 DEF vars, podVars, linkVars, countVars, nodeVars, boundVars, healthVars, Goto, Return, FlagIsCleared
<1>. QED
    BY <1>1, <1>2, <1>3, <1>4, <1>5 DEF Next

\* Health clears the mark it has set or hands it to a loop of the same pod in the
\* step in which it starts that loop; a loop ends by clearing the mark of the
\* node its pod has then, and a deleted node takes its mark with it.
THEOREM FlagsAreCleared == Spec => []FlagIsCleared
<1>1. Init => FlagIsCleared
    BY DEF Init, FlagIsCleared
<1>2. Inv /\ FlagIsCleared /\ [Next]_vars => FlagIsCleared'
    BY FlagStep DEF Inv
<1>. QED
    BY <1>1, <1>2, InvAlways, PTL DEF Spec

(***************************************************************************)
(* Pods that have answered all the time.                                   *)
(***************************************************************************)

\* Connecting and recording.
LEMMA SteadyInConnect ==
    ASSUME TypeOK, HeldNodesExist, HealthIsPlaced, NEW q \in Pods, SteadyPod(q), NEW g \in Procs,
           \/ DialSucceeds(g)
           \/ Enter(g)
           \/ Replace(g)
           \/ Reset(g)
           \/ Count(g)
           \/ Judge(g)
           \/ Delete(g)
    PROVE  SteadyPod(q)'
<1>. USE Processes DEF SteadyPod, Working, Served, HeldNodesExist, HealthIsPlaced, TypeOK, Holding,
        ConnectLabels, RecordLabels, Pinging, Holders, Procs, podVars, linkVars, countVars, nodeVars, boundVars, healthVars, Goto, Return
<1>1. CASE DialSucceeds(g)
    BY <1>1, NextLabel DEF DialSucceeds
<1>2. CASE Enter(g)
    BY <1>2, NextLabel DEF Enter
<1>3. CASE Replace(g)
    BY <1>3, NextLabel DEF Replace
<1>4. CASE Reset(g)
    BY <1>4, NextLabel DEF Reset
<1>5. CASE Count(g)
    BY <1>5, NextLabel DEF Count
<1>6. CASE Judge(g)
    BY <1>6, NextLabel DEF Judge
<1>7. CASE Delete(g)
    BY <1>7, NextLabel DEF Delete
<1>. QED
    BY <1>1, <1>2, <1>3, <1>4, <1>5, <1>6, <1>7

\* Going through the pods.
LEMMA SteadyInSearch ==
    ASSUME TypeOK, HeldNodesExist, HealthIsPlaced, NEW q \in Pods, SteadyPod(q), NEW p \in Pods,
           \/ Fail(p)
           \/ Recover(p)
           \/ Mend(p)
           \/ BootPod(p)
           \/ ProbePod(p)
           \/ EnsurePod(p)
           \/ Ping(p)
           \/ CloseNode(p)
    PROVE  SteadyPod(q)'
<1>. USE Processes DEF SteadyPod, Working, Served, HeldNodesExist, HealthIsPlaced, TypeOK, Holding,
        ConnectLabels, RecordLabels, DialNext, Lowest, podVars, linkVars, countVars, nodeVars, boundVars, healthVars, Goto, Return
<1>1. CASE Fail(p)
    BY <1>1 DEF Fail
<1>2. CASE Recover(p)
    BY <1>2 DEF Recover
<1>3. CASE Mend(p)
    BY <1>3 DEF Mend
<1>4. CASE BootPod(p)
    BY <1>4 DEF BootPod
<1>5. CASE ProbePod(p)
    BY <1>5 DEF ProbePod
<1>6. CASE EnsurePod(p)
    BY <1>6 DEF EnsurePod
<1>7. CASE Ping(p)
    BY <1>7 DEF Ping
<1>8. CASE CloseNode(p)
    BY <1>8 DEF CloseNode
<1>. QED
    BY <1>1, <1>2, <1>3, <1>4, <1>5, <1>6, <1>7, <1>8

\* The rest of a reconnect loop.
LEMMA SteadyInLoop ==
    ASSUME TypeOK, HeldNodesExist, HealthIsPlaced, NEW q \in Pods, SteadyPod(q), NEW l \in Loops,
           \/ Top(l)
           \/ DialFails(l)
           \/ Again(l)
           \/ Leave(l)
    PROVE  SteadyPod(q)'
<1>. USE Processes DEF SteadyPod, Working, Served, HeldNodesExist, HealthIsPlaced, TypeOK, Holding,
        ConnectLabels, RecordLabels, LoopLabels, podVars, linkVars, countVars, nodeVars, boundVars, healthVars, Goto, Return
<1>1. CASE Top(l)
    BY <1>1 DEF Top
<1>2. CASE DialFails(l)
    BY <1>2 DEF DialFails
<1>3. CASE Again(l)
    BY <1>3 DEF Again
<1>4. CASE Leave(l)
    BY <1>4 DEF Leave
<1>. QED
    BY <1>1, <1>2, <1>3, <1>4

\* The rest of the patrol.
LEMMA SteadyInPatrol ==
    ASSUME TypeOK, HeldNodesExist, HealthIsPlaced, NEW q \in Pods, SteadyPod(q),
           \/ DialGivenUp
           \/ \E l \in Loops : DialScheduled(l)
           \/ Claim
           \/ Unclaim
           \/ Answer
           \/ Answered
           \/ Unanswered
           \/ Missed
           \/ Address
    PROVE  SteadyPod(q)'
<1>. USE Processes DEF SteadyPod, Working, Served, HeldNodesExist, HealthIsPlaced, TypeOK, Holding,
        ConnectLabels, RecordLabels, AfterError, MarkUnhealthy, podVars, linkVars, countVars, nodeVars, boundVars, healthVars, Goto, Return
<1>1. CASE DialGivenUp
    BY <1>1 DEF DialGivenUp
<1>2. CASE \E l \in Loops : DialScheduled(l)
    BY <1>2 DEF DialScheduled
<1>3. CASE Claim
    BY <1>3 DEF Claim
<1>4. CASE Unclaim
    BY <1>4 DEF Unclaim
<1>5. CASE Answer
    BY <1>5 DEF Answer
<1>6. CASE Answered
    BY <1>6 DEF Answered
<1>7. CASE Unanswered
    BY <1>7 DEF Unanswered
<1>8. CASE Missed
    BY <1>8 DEF Missed
<1>9. CASE Address
    BY <1>9 DEF Address
<1>. QED
    BY <1>1, <1>2, <1>3, <1>4, <1>5, <1>6, <1>7, <1>8, <1>9

\* Ticks and shutdown.
LEMMA SteadyInTicks ==
    ASSUME TypeOK, HeldNodesExist, HealthIsPlaced, NEW q \in Pods, SteadyPod(q),
           \/ StartPatrol
           \/ StartDiscovery
           \/ Visited
           \/ StartHeartbeat
           \/ Raise
           \/ ShrinkRead
           \/ Resize
           \/ Cancel
           \/ StopHealth
           \/ DropNodes
    PROVE  SteadyPod(q)'
<1>. USE Processes DEF SteadyPod, Working, Served, HeldNodesExist, HealthIsPlaced, TypeOK, Holding,
        ConnectLabels, RecordLabels, podVars, linkVars, countVars, nodeVars, boundVars, healthVars, Goto, Return
<1>1. CASE StartPatrol
    BY <1>1 DEF StartPatrol
<1>2. CASE StartDiscovery
    BY <1>2 DEF StartDiscovery
<1>3. CASE Visited
    BY <1>3 DEF Visited
<1>4. CASE StartHeartbeat
    BY <1>4 DEF StartHeartbeat
<1>5. CASE Raise
    BY <1>5 DEF Raise
<1>6. CASE ShrinkRead
    BY <1>6 DEF ShrinkRead
<1>7. CASE Resize
    BY <1>7 DEF Resize
<1>8. CASE Cancel
    BY <1>8 DEF Cancel
<1>9. CASE StopHealth
    BY <1>9 DEF StopHealth
<1>10. CASE DropNodes
    BY <1>10 DEF DropNodes
<1>. QED
    BY <1>1, <1>2, <1>3, <1>4, <1>5, <1>6, <1>7, <1>8, <1>9, <1>10

\* Every step leaves a pod that answers as it was.
LEMMA SteadyStep ==
    ASSUME TypeOK, HeldNodesExist, HealthIsPlaced, NEW q \in Pods, SteadyPod(q), [Next]_vars
    PROVE  SteadyPod(q)'
<1>1. CASE \E p \in Pods : Fail(p) \/ Recover(p) \/ Mend(p)
    BY <1>1, SteadyInSearch
<1>2. CASE StartPatrol \/ StartDiscovery \/ Cancel
    BY <1>2, SteadyInTicks
<1>3. CASE HealthStep
    BY <1>3, Processes, SteadyInConnect, SteadyInSearch, SteadyInPatrol, SteadyInTicks DEF HealthStep, Connect, Record
<1>4. CASE \E l \in Loops : LoopStep(l)
    BY <1>4, Processes, SteadyInConnect, SteadyInLoop DEF LoopStep, Connect, Record
<1>5. CASE UNCHANGED vars
    BY <1>5 DEF vars, podVars, linkVars, countVars, nodeVars, boundVars, healthVars, Goto, Return, SteadyPod, Working, Served
<1>. QED
    BY <1>1, <1>2, <1>3, <1>4, <1>5 DEF Next

\* Whatever the other pods do, whatever loops run for them and however the
\* replicas shrink, no step disconnects or counts against a pod that answers:
\* failures are recorded only after an attempt at that pod has failed or its
\* connection has been closed by somebody who had such a failure.
THEOREM SteadyNodesAreKept == Spec => []SteadyNodesStay
<1>1. Init => AllSteady
    BY ConstantsAssumption DEF Init, AllSteady, SteadyPod, Working, RecordLabels, ConnectLabels, Pods, Procs, Health
<1>2. Inv /\ AllSteady /\ [Next]_vars => AllSteady'
    <2>. SUFFICES ASSUME Inv, AllSteady, [Next]_vars, NEW q \in Pods
                  PROVE  SteadyPod(q)'
        BY DEF AllSteady
    <2>. QED
        BY SteadyStep DEF Inv, AllSteady
<1>3. AllSteady => SteadyNodesStay
    BY DEF AllSteady, SteadyPod, SteadyNodesStay, Booted, Served
<1>. QED
    BY <1>1, <1>2, <1>3, InvAlways, PTL DEF Spec
=============================================================================
