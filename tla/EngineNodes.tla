---------------------------- MODULE EngineNodes ----------------------------
(***************************************************************************)
(* The connections to the engine pods: internal/engine/manager.go.         *)
(*                                                                         *)
(* One goroutine (Health) connects to the pods of the start, then pings    *)
(* the nodes on one ticker and looks for new pods on another.  A node that *)
(* cannot be reached at once gets a reconnect loop of its own.  Health and *)
(* the loops work on the map e.nodes under e.mu, on the fields of a node   *)
(* under its own locks, and call the network between; a step is one        *)
(* holding of a lock or one call, with what directly follows it.           *)
(*                                                                         *)
(* The map has at most one node per pod, and a node that has been deleted  *)
(* never comes back: it lives on only in the hands of goroutines that      *)
(* looked it up before (stale), and what they write to it is lost.         *)
(*                                                                         *)
(* The callback that moves rooms away from lost pods runs between the      *)
(* steps around it and changes nothing here; rpc.Mgr, which repeats the    *)
(* map, is read by nobody and left out.                                    *)
(***************************************************************************)
EXTENDS Integers

CONSTANTS
    PodCount,      \* the pods that exist are 0 .. PodCount - 1
    Replicas,      \* K8S_ENGINE_REPLICAS
    ProbeAhead,    \* how far discovery looks beyond the highest known pod
    Loops,         \* the reconnect loops (a bound)
    Failing,       \* the pods that may fail (a bound)
    MaxOutages     \* outages of each of them (a bound)

ASSUME ConstantsAssumption ==
    /\ PodCount \in Nat \ {0}
    /\ Replicas \in 0 .. PodCount
    /\ ProbeAhead \in Nat
    /\ Loops \subseteq Nat \ {0}
    /\ Failing \subseteq 0 .. PodCount - 1
    /\ MaxOutages \in Nat \ {0}

Pods   == 0 .. PodCount - 1
Health == 0
Procs  == {Health} \cup Loops

VARIABLES
    up,            \* the pods that answer
    outages,       \* the outages each pod has begun
    broken,        \* the nodes whose connection has not recovered from one
    ctxDone,       \* e.ctx is cancelled
    nodes,         \* the pods with a node in e.nodes; of these nodes:
    addr,          \*   Addr # ""
    conn,          \*   conn and client # nil
    healthy,       \*   Healthy
    reconnecting,  \*   reconnecting
    failures,      \*   reconnectFailures, 2 standing for 2 or more
    serverID,      \*   ServerID, compared with that of the pod
    replicas,      \* e.replicas
    maxPodIndex,   \* e.maxPodIndex
    pc,            \* what a goroutine does next
    pod,           \* for which pod
    stale,         \* the goroutines whose node has been deleted from the map
    claimed,       \* Health has set the flag of that node, in reconnect
    cut,           \* the connection it pings through has been closed
    job,           \* what it goes through the pods for
    todo           \* the pods it has left

podVars     == <<up, outages, broken>>
linkVars    == <<addr, conn, healthy>>
countVars   == <<failures, serverID>>
nodeVars    == <<nodes, linkVars, reconnecting, countVars>>
boundVars   == <<replicas, maxPodIndex>>
healthVars  == <<claimed, cut, job, todo>>
vars == <<podVars, ctxDone, nodeVars, boundVars, pc, pod, stale, healthVars>>

ConnectLabels == {"dial", "enter", "replace", "reset"}
RecordLabels  == {"count", "judge", "delete"}
HealthLabels  == {"next", "pinging", "answered", "restarted", "missed", "address", "claim",
                  "unclaim", "raise", "shrink", "resize", "idle", "closing", "ended"}
LoopLabels    == {"off", "top", "again", "leave"}
Labels        == ConnectLabels \cup RecordLabels \cup HealthLabels \cup LoopLabels

\* The labels at which a goroutine holds a node.
Holding == {"pinging", "answered", "restarted", "missed", "address", "replace", "judge"}

TypeOK ==
    /\ up \subseteq Pods
    /\ outages \in [Pods -> 0 .. MaxOutages]
    /\ broken \subseteq conn
    /\ ctxDone \in BOOLEAN
    /\ nodes \subseteq Pods
    /\ addr \subseteq nodes
    /\ conn \subseteq nodes
    /\ healthy \subseteq nodes
    /\ reconnecting \subseteq nodes
    /\ failures \in [Pods -> 0 .. 2]
    /\ serverID \in [Pods -> {"none", "same", "other"}]
    /\ replicas \in Int
    /\ maxPodIndex \in Int
    /\ pc \in [Procs -> Labels]
    /\ pc[Health] \notin LoopLabels
    /\ \A l \in Loops : pc[l] \notin HealthLabels
    /\ pod \in [Procs -> Pods]
    /\ stale \subseteq {g \in Procs : pc[g] \in Holding}
    /\ claimed \in BOOLEAN
    /\ cut \in BOOLEAN
    /\ job \in {"boot", "ensure", "patrol", "discover"}
    /\ todo \subseteq Pods

Init ==
    /\ up \in SUBSET Pods
    /\ Pods \ Failing \subseteq up
    /\ outages = [p \in Pods |-> IF p \in up THEN 0 ELSE 1]
    /\ broken = {}
    /\ ctxDone = FALSE
    /\ nodes = {}
    /\ addr = {}
    /\ conn = {}
    /\ healthy = {}
    /\ reconnecting = {}
    /\ failures = [p \in Pods |-> 0]
    /\ serverID = [p \in Pods |-> "none"]
    /\ replicas = Replicas
    /\ maxPodIndex = Replicas - 1
    /\ pc = [g \in Procs |-> IF g = Health THEN "next" ELSE "off"]
    /\ pod = [g \in Procs |-> 0]
    /\ stale = {}
    /\ claimed = FALSE
    /\ cut = FALSE
    /\ job = "boot"
    /\ todo = 0 .. Replicas - 1

Goto(g, label) == pc' = [pc EXCEPT ![g] = label]

\* The end of an attempt on one pod.
Return(g) == Goto(g, IF g = Health THEN "next" ELSE "top")

-----------------------------------------------------------------------------
(* The pods                                                                *)

Fail(p) ==
    /\ p \in up
    /\ p \in Failing
    /\ outages[p] < MaxOutages
    /\ up' = up \ {p}
    /\ outages' = [outages EXCEPT ![p] = @ + 1]
    /\ broken' = broken \cup (conn \cap {p})
    /\ UNCHANGED <<ctxDone, nodeVars, boundVars, pc, pod, stale, healthVars>>

\* The pod answers again: the same process after a loss of the network, or a
\* new one with another ServerID.
Recover(p) ==
    /\ p \notin up
    /\ up' = up \cup {p}
    /\ \/ UNCHANGED serverID
       \/ /\ serverID[p] = "same"
          /\ serverID' = [serverID EXCEPT ![p] = "other"]
    /\ UNCHANGED <<outages, broken, ctxDone, nodes, linkVars, reconnecting, failures, boundVars,
                   pc, pod, stale, healthVars>>

\* gRPC repairs the connection of a node by itself.
Mend(p) ==
    /\ p \in up \cap broken
    /\ broken' = broken \ {p}
    /\ UNCHANGED <<up, outages, ctxDone, nodeVars, boundVars, pc, pod, stale, healthVars>>

-----------------------------------------------------------------------------
(* connectAndRegisterPod, by Health and by the loops                       *)

DialSucceeds(g) ==
    /\ pc[g] = "dial"
    /\ pod[g] \in up
    /\ Goto(g, "enter")
    /\ UNCHANGED <<podVars, ctxDone, nodeVars, boundVars, pod, stale, healthVars>>

\* Mutant: the first pod that cannot be reached ends the search.
DialGivenUpAtOnce ==
    /\ pc[Health] = "dial"
    /\ job \in {"boot", "discover"}
    /\ pod[Health] \notin up
    /\ todo' = {}
    /\ Return(Health)
    /\ UNCHANGED <<podVars, ctxDone, nodeVars, boundVars, pod, stale, claimed, cut, job>>

\* Health passes over a pod it looked for.
DialGivenUp ==
    /\ pc[Health] = "dial"
    /\ job \in {"boot", "discover"}
    /\ pod[Health] \notin up
    /\ Return(Health)
    /\ UNCHANGED <<podVars, ctxDone, nodeVars, boundVars, pod, stale, healthVars>>

FreeLoop(l) == pc[l] = "off" /\ \A m \in Loops : pc[m] = "off" => l <= m

\* After an error of reconnect checkHeartbeat goes on to record a failure,
\* ensureConnected does not.
AfterError == IF job = "ensure" THEN "next" ELSE "count"

\* reconnect: the first attempt fails and a loop is started.
DialScheduled(l) ==
    /\ pc[Health] = "dial"
    /\ job \in {"ensure", "patrol"}
    /\ pod[Health] \notin up
    /\ FreeLoop(l)
    /\ pc' = [pc EXCEPT ![Health] = AfterError, ![l] = "top"]
    /\ pod' = [pod EXCEPT ![l] = pod[Health]]
    /\ claimed' = FALSE
    /\ UNCHANGED <<podVars, ctxDone, nodeVars, boundVars, stale, cut, job, todo>>

DialFails(l) ==
    /\ pc[l] = "dial"
    /\ pod[l] \notin up
    /\ Goto(l, "count")
    /\ UNCHANGED <<podVars, ctxDone, nodeVars, boundVars, pod, stale, healthVars>>

\* The node of the pod is looked up, and made if there is none.
Enter(g) ==
    /\ pc[g] = "enter"
    /\ nodes' = nodes \cup {pod[g]}
    /\ Goto(g, "replace")
    /\ UNCHANGED <<podVars, ctxDone, linkVars, reconnecting, countVars, boundVars,
                   pod, stale, healthVars>>

\* Mutant: whatever connection is closed, the call under way ends.
PingingAny(p) == pc[Health] = "pinging"

Pinging(p) == pc[Health] = "pinging" /\ pod[Health] = p

\* Mutant: the node is written as if it could not have been deleted.
ReplaceAnyway(g) ==
    /\ pc[g] = "replace"
    /\ addr' = addr \cup {pod[g]}
    /\ conn' = conn \cup {pod[g]}
    /\ healthy' = healthy \cup {pod[g]}
    /\ stale' = stale \ {g}
    /\ Goto(g, "reset")
    /\ UNCHANGED <<podVars, ctxDone, nodes, reconnecting, countVars, boundVars, pod, healthVars>>

\* replaceConnection, and the former connection is closed.  On a stale node
\* the new connection is lost.
Replace(g) ==
    /\ pc[g] = "replace"
    /\ IF g \in stale
         THEN UNCHANGED <<linkVars, broken, cut>>
         ELSE /\ addr' = addr \cup {pod[g]}
              /\ conn' = conn \cup {pod[g]}
              /\ healthy' = healthy \cup {pod[g]}
              /\ broken' = (broken \ {pod[g]}) \cup ({pod[g]} \ up)
              /\ cut' = (cut \/ Pinging(pod[g]))
    /\ stale' = stale \ {g}
    /\ Goto(g, "reset")
    /\ UNCHANGED <<up, outages, ctxDone, nodes, reconnecting, countVars, boundVars, pod,
                   claimed, job, todo>>

AfterConnect(g) ==
    CASE g # Health                 -> "again"
      [] g = Health /\ job = "boot"     -> "next"
      [] g = Health /\ job = "discover" -> "raise"
      [] OTHER                       -> "unclaim"

\* resetReconnectFailures
Reset(g) ==
    /\ pc[g] = "reset"
    /\ failures' = [failures EXCEPT ![pod[g]] = 0]
    /\ Goto(g, AfterConnect(g))
    /\ UNCHANGED <<podVars, ctxDone, nodes, linkVars, reconnecting, serverID, boundVars,
                   pod, stale, healthVars>>

-----------------------------------------------------------------------------
(* recordReconnectFailure and deleteNode                                   *)

\* Mutant: the count is set, not increased.
CountedOnce(n) == 1

Counted(n) == IF n < 2 THEN n + 1 ELSE 2

Count(g) ==
    /\ pc[g] = "count"
    /\ IF pod[g] \in nodes
         THEN /\ failures' = [failures EXCEPT ![pod[g]] = Counted(@)]
              /\ Goto(g, "judge")
         ELSE Return(g) /\ UNCHANGED failures
    /\ UNCHANGED <<podVars, ctxDone, nodes, linkVars, reconnecting, serverID, boundVars,
                   pod, stale, healthVars>>

\* With two failures the rooms are moved (the callback) and the node deleted.
\* The count of a stale node, which others may have counted or reset before it
\* was deleted, may be either.
Judge(g) ==
    /\ pc[g] = "judge"
    /\ \/ (g \in stale \/ failures[pod[g]] < 2) /\ Return(g)
       \/ (g \in stale \/ failures[pod[g]] >= 2) /\ Goto(g, "delete")
    /\ stale' = stale \ {g}
    /\ UNCHANGED <<podVars, ctxDone, nodeVars, boundVars, pod, healthVars>>

\* Those who hold a node of the pod.
Holders(p) == {g \in Procs : pc[g] \in Holding /\ pod[g] = p}

\* Mutant: the connection is closed, and the node stays.
DeleteConnection(g) ==
    /\ pc[g] = "delete"
    /\ conn' = conn \ {pod[g]}
    /\ broken' = broken \ {pod[g]}
    /\ cut' = (cut \/ Pinging(pod[g]))
    /\ Return(g)
    /\ UNCHANGED <<up, outages, ctxDone, nodes, addr, healthy, reconnecting, countVars, boundVars,
                   pod, stale, claimed, job, todo>>

\* Whatever node the pod has now leaves the map, and its connection is closed.
Delete(g) ==
    LET p == pod[g] IN
    /\ pc[g] = "delete"
    /\ nodes' = nodes \ {p}
    /\ addr' = addr \ {p}
    /\ conn' = conn \ {p}
    /\ broken' = broken \ {p}
    /\ healthy' = healthy \ {p}
    /\ reconnecting' = reconnecting \ {p}
    /\ failures' = [failures EXCEPT ![p] = 0]
    /\ serverID' = [serverID EXCEPT ![p] = "none"]
    /\ stale' = stale \cup Holders(p)
    /\ claimed' = (claimed /\ pod[Health] # p)
    /\ cut' = (cut \/ Pinging(p))
    /\ Return(g)
    /\ UNCHANGED <<up, outages, ctxDone, boundVars, pod, job, todo>>

-----------------------------------------------------------------------------
(* attemptReconnectLoop                                                    *)

Top(l) ==
    /\ pc[l] = "top"
    /\ Goto(l, IF ctxDone THEN "leave" ELSE "dial")
    /\ UNCHANGED <<podVars, ctxDone, nodeVars, boundVars, pod, stale, healthVars>>

\* The loop resets the failures once more after its success.
Again(l) ==
    /\ pc[l] = "again"
    /\ failures' = [failures EXCEPT ![pod[l]] = 0]
    /\ Goto(l, "leave")
    /\ UNCHANGED <<podVars, ctxDone, nodes, linkVars, reconnecting, serverID, boundVars,
                   pod, stale, healthVars>>

\* Mutant: the loop ends and leaves the flag.
LeaveSilently(l) ==
    /\ pc[l] = "leave"
    /\ Goto(l, "off")
    /\ pod' = [pod EXCEPT ![l] = 0]
    /\ UNCHANGED <<podVars, ctxDone, nodeVars, boundVars, stale, healthVars>>

\* The deferred end: the flag of the node the pod has now is cleared.
Leave(l) ==
    /\ pc[l] = "leave"
    /\ reconnecting' = reconnecting \ {pod[l]}
    /\ Goto(l, "off")
    /\ pod' = [pod EXCEPT ![l] = 0]
    /\ UNCHANGED <<podVars, ctxDone, nodes, linkVars, countVars, boundVars, stale, healthVars>>

-----------------------------------------------------------------------------
(* NewEngineInstance and discoverNewPods: Health connects to pods in order *)

Lowest(p, S) == p \in S /\ \A q \in S : p <= q

DialNext(p) ==
    /\ Goto(Health, "dial")
    /\ pod' = [pod EXCEPT ![Health] = p]
    /\ todo' = todo \ {p}

BootPod(p) ==
    /\ pc[Health] = "next"
    /\ job = "boot"
    /\ Lowest(p, todo)
    /\ DialNext(p)
    /\ UNCHANGED <<podVars, ctxDone, nodeVars, boundVars, stale, claimed, cut, job>>

\* Mutant: the last index is not looked for.
ProbedBelow == {p \in Pods : p < maxPodIndex + ProbeAhead}

Probed == {p \in Pods : p <= maxPodIndex + ProbeAhead}

StartDiscovery ==
    /\ pc[Health] = "idle"
    /\ ~ctxDone
    /\ job' = "discover"
    /\ todo' = Probed
    /\ Goto(Health, "next")
    /\ UNCHANGED <<podVars, ctxDone, nodeVars, boundVars, pod, stale, claimed, cut>>

\* A pod that has a node, or does not answer the first attempt, is passed over.
ProbePod(p) ==
    /\ pc[Health] = "next"
    /\ job = "discover"
    /\ Lowest(p, todo)
    /\ IF p \notin nodes /\ p \in up
         THEN DialNext(p)
         ELSE todo' = todo \ {p} /\ UNCHANGED <<pc, pod>>
    /\ UNCHANGED <<podVars, ctxDone, nodeVars, boundVars, stale, claimed, cut, job>>

\* updateMaxPodIndex
Raise ==
    /\ pc[Health] = "raise"
    /\ maxPodIndex' = IF pod[Health] > maxPodIndex THEN pod[Health] ELSE maxPodIndex
    /\ Return(Health)
    /\ UNCHANGED <<podVars, ctxDone, nodeVars, replicas, pod, stale, healthVars>>

\* Every pod has been visited: by NewEngineInstance, discoverNewPods or
\* checkHeartbeat.
Visited ==
    /\ pc[Health] = "next"
    /\ job # "ensure"
    /\ todo = {}
    /\ Goto(Health, IF job = "patrol" THEN "shrink" ELSE "idle")
    /\ pod' = [pod EXCEPT ![Health] = 0]
    /\ UNCHANGED <<podVars, ctxDone, nodeVars, boundVars, stale, healthVars>>

-----------------------------------------------------------------------------
(* The patrol: ensureConnected, checkHeartbeat, shrinkReplicaCountIfNeeded *)

StartPatrol ==
    /\ pc[Health] = "idle"
    /\ ~ctxDone
    /\ job' = "ensure"
    /\ todo' = {p \in Pods : p < replicas}
    /\ Goto(Health, "next")
    /\ UNCHANGED <<podVars, ctxDone, nodeVars, boundVars, pod, stale, claimed, cut>>

\* A node that is neither connected nor being reconnected is asked for its address.
EnsurePod(p) ==
    /\ pc[Health] = "next"
    /\ job = "ensure"
    /\ Lowest(p, todo)
    /\ todo' = todo \ {p}
    /\ IF p \in nodes \ (conn \cup reconnecting)
         THEN Goto(Health, "address") /\ pod' = [pod EXCEPT ![Health] = p]
         ELSE UNCHANGED <<pc, pod>>
    /\ UNCHANGED <<podVars, ctxDone, nodeVars, boundVars, stale, claimed, cut, job>>

StartHeartbeat ==
    /\ pc[Health] = "next"
    /\ job = "ensure"
    /\ todo = {}
    /\ job' = "patrol"
    /\ todo' = nodes
    /\ UNCHANGED <<podVars, ctxDone, nodeVars, boundVars, pc, pod, stale, claimed, cut>>

\* checkSingleNode up to the call, or to the finding that there is no client.
Ping(p) ==
    /\ pc[Health] = "next"
    /\ job = "patrol"
    /\ p \in todo
    /\ todo' = todo \ {p}
    /\ IF p \in nodes
         THEN /\ pod' = [pod EXCEPT ![Health] = p]
              /\ Goto(Health, IF p \in conn THEN "pinging" ELSE "missed")
         ELSE UNCHANGED <<pc, pod>>
    /\ UNCHANGED <<podVars, ctxDone, nodeVars, boundVars, stale, claimed, cut, job>>

\* markUnhealthy by Health, for the node it holds.
MarkUnhealthy == healthy' = IF Health \in stale THEN healthy ELSE healthy \ {pod[Health]}

Missed ==
    /\ pc[Health] = "missed"
    /\ MarkUnhealthy
    /\ Goto(Health, "address")
    /\ UNCHANGED <<podVars, ctxDone, nodes, addr, conn, reconnecting, countVars, boundVars,
                   pod, stale, healthVars>>

\* A node that has its address by now is reconnected, another is left alone.  A
\* stale one may have either.
Address ==
    /\ pc[Health] = "address"
    /\ \/ (Health \in stale \/ pod[Health] \in addr) /\ Goto(Health, "claim")
       \/ (Health \in stale \/ pod[Health] \notin addr) /\ Goto(Health, "next")
    /\ stale' = stale \ {Health}
    /\ UNCHANGED <<podVars, ctxDone, nodeVars, boundVars, pod, healthVars>>

\* The call returns.  The process has another ServerID if it is a new one.  (The
\* ServerID, which only Health reads, is written here already.)
Answer ==
    LET p == pod[Health] IN
    /\ pc[Health] = "pinging"
    /\ p \in up \ broken
    /\ ~cut
    /\ serverID' = [serverID EXCEPT ![p] = "same"]
    /\ Goto(Health, IF serverID[p] = "other" THEN "restarted" ELSE "answered")
    /\ UNCHANGED <<podVars, ctxDone, nodes, linkVars, reconnecting, failures, boundVars, pod,
                   stale, healthVars>>

\* markHealthy; if another process answered, the failures are forgotten and
\* the rooms moved.
Answered ==
    /\ pc[Health] \in {"answered", "restarted"}
    /\ healthy' = IF Health \in stale THEN healthy ELSE healthy \cup {pod[Health]}
    /\ failures' = IF Health \notin stale /\ pc[Health] = "restarted"
                     THEN [failures EXCEPT ![pod[Health]] = 0]
                     ELSE failures
    /\ stale' = stale \ {Health}
    /\ Return(Health)
    /\ UNCHANGED <<podVars, ctxDone, nodes, addr, conn, reconnecting, serverID, boundVars,
                   pod, healthVars>>

Unanswered ==
    /\ pc[Health] = "pinging"
    /\ pod[Health] \notin up \ broken \/ cut
    /\ MarkUnhealthy
    /\ stale' = stale \ {Health}
    /\ cut' = FALSE
    /\ Goto(Health, "claim")
    /\ UNCHANGED <<podVars, ctxDone, nodes, addr, conn, reconnecting, countVars, boundVars,
                   pod, claimed, job, todo>>

\* reconnect: a missing node, or one that is being reconnected, is an error.
Claim ==
    LET p == pod[Health] IN
    /\ pc[Health] = "claim"
    /\ IF p \in nodes \ reconnecting
         THEN /\ reconnecting' = reconnecting \cup {p}
              /\ claimed' = TRUE
              /\ Goto(Health, "dial")
         ELSE Goto(Health, AfterError) /\ UNCHANGED <<reconnecting, claimed>>
    /\ UNCHANGED <<podVars, ctxDone, nodes, linkVars, countVars, boundVars, pod, stale,
                   cut, job, todo>>

Unclaim ==
    /\ pc[Health] = "unclaim"
    /\ reconnecting' = IF claimed THEN reconnecting \ {pod[Health]} ELSE reconnecting
    /\ claimed' = FALSE
    /\ Return(Health)
    /\ UNCHANGED <<podVars, ctxDone, nodes, linkVars, countVars, boundVars, pod, stale,
                   cut, job, todo>>

\* The highest healthy pod is found, under another lock than what follows.
ShrinkRead ==
    /\ pc[Health] = "shrink"
    /\ \/ /\ healthy = {}
          /\ Goto(Health, "idle")
          /\ UNCHANGED pod
       \/ \E p \in healthy :
             /\ \A q \in healthy : q <= p
             /\ pod' = [pod EXCEPT ![Health] = p]
             /\ Goto(Health, "resize")
    /\ UNCHANGED <<podVars, ctxDone, nodeVars, boundVars, stale, healthVars>>

Resize ==
    LET new == pod[Health] + 1 IN
    /\ pc[Health] = "resize"
    /\ IF new >= replicas
         THEN UNCHANGED <<replicas, maxPodIndex>>
         ELSE /\ replicas' = new
              /\ maxPodIndex' = IF maxPodIndex >= new THEN new - 1 ELSE maxPodIndex
    /\ pod' = [pod EXCEPT ![Health] = 0]
    /\ Goto(Health, "idle")
    /\ UNCHANGED <<podVars, ctxDone, nodeVars, stale, healthVars>>

-----------------------------------------------------------------------------
(* Shutdown                                                                *)

Booted == job # "boot" \/ pc[Health] = "idle"

Cancel ==
    /\ Booted
    /\ ~ctxDone
    /\ ctxDone' = TRUE
    /\ UNCHANGED <<podVars, nodeVars, boundVars, pc, pod, stale, healthVars>>

\* Health has ended, and Shutdown goes through the nodes in its place.
StopHealth ==
    /\ pc[Health] = "idle"
    /\ ctxDone
    /\ Goto(Health, "closing")
    /\ todo' = nodes
    /\ UNCHANGED <<podVars, ctxDone, nodeVars, boundVars, pod, stale, claimed, cut, job>>

CloseNode(p) ==
    /\ pc[Health] = "closing"
    /\ p \in todo
    /\ todo' = todo \ {p}
    /\ conn' = conn \ {p}
    /\ broken' = broken \ {p}
    /\ UNCHANGED <<up, outages, ctxDone, nodes, addr, healthy, reconnecting, countVars, boundVars,
                   pc, pod, stale, claimed, cut, job>>

\* e.nodes becomes a new map.
DropNodes ==
    /\ pc[Health] = "closing"
    /\ todo = {}
    /\ nodes' = {}
    /\ addr' = {}
    /\ conn' = {}
    /\ broken' = {}
    /\ healthy' = {}
    /\ reconnecting' = {}
    /\ failures' = [p \in Pods |-> 0]
    /\ serverID' = [p \in Pods |-> "none"]
    /\ stale' = {g \in Procs : pc[g] \in Holding}
    /\ Goto(Health, "ended")
    /\ UNCHANGED <<up, outages, ctxDone, boundVars, pod, healthVars>>

-----------------------------------------------------------------------------
Connect(g) == DialSucceeds(g) \/ Enter(g) \/ Replace(g) \/ Reset(g)

Record(g) == Count(g) \/ Judge(g) \/ Delete(g)

LoopStep(l) ==
    \/ Top(l) \/ DialFails(l) \/ Again(l) \/ Leave(l)
    \/ Connect(l) \/ Record(l)

\* What Health does when it has something to do.
HealthStep ==
    \/ \E p \in Pods : BootPod(p) \/ ProbePod(p) \/ EnsurePod(p) \/ Ping(p) \/ CloseNode(p)
    \/ DialGivenUp \/ \E l \in Loops : DialScheduled(l)
    \/ Connect(Health) \/ Record(Health)
    \/ Raise \/ Visited \/ StartHeartbeat \/ Answer \/ Answered \/ Unanswered \/ Missed \/ Address
    \/ Claim \/ Unclaim \/ ShrinkRead \/ Resize \/ StopHealth \/ DropNodes

Next ==
    \/ \E p \in Pods : Fail(p) \/ Recover(p) \/ Mend(p)
    \/ StartPatrol \/ StartDiscovery \/ HealthStep
    \/ \E l \in Loops : LoopStep(l)
    \/ Cancel

Spec == Init /\ [][Next]_vars

\* Goroutines run, calls and sleeps end, and neither ticker is passed over for
\* ever: its tick stays in its channel, and select draws among the ready ones.
Fairness ==
    /\ WF_vars(HealthStep)
    /\ SF_vars(StartPatrol)
    /\ SF_vars(StartDiscovery)
    /\ \A l \in Loops : WF_vars(LoopStep(l))

FairSpec == Spec /\ Fairness
=============================================================================
