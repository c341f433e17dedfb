------------------------- MODULE EngineProperties -------------------------
(***************************************************************************)
(* What must hold of the connections to the engine pods.                   *)
(***************************************************************************)
EXTENDS EngineNodes

Working == pc[Health] \notin {"closing", "ended"}

\* A node of the map that has an address has a connection: whoever takes the
\* connection away takes the node out of the map first (deleteNode).  It is the
\* nodes with an address and no connection that ensureConnected is made for, and
\* it can only meet one that is connected while it looks.
AddressedNodesAreConnected == Working => addr \subseteq conn

\* A node that is marked as reconnecting is not left so: Health is about to
\* reconnect it, or a loop of its pod is on its way to clear the mark.  With a
\* mark that stays, reconnect would refuse the node for ever.
FlagIsCleared ==
    \A p \in reconnecting :
        \/ claimed /\ pod[Health] = p
        \/ \E l \in Loops : pc[l] # "off" /\ pod[l] = p

\* A pod of the start that has answered all the time keeps its node, connected
\* and healthy and without failures, whatever becomes of the other pods.
SteadyNodesStay ==
    Booted /\ Working =>
        \A p \in Pods :
            p < Replicas /\ outages[p] = 0 =>
                p \in nodes \cap conn \cap healthy /\ failures[p] = 0

Served(p) == p \in nodes \cap conn \cap healthy

\* A pod that answers for good gets a node that is connected and healthy, by a
\* loop or by discovery, and keeps it.  (Pods so far ahead of the known ones
\* that discovery does not look there are excepted.)
UpPodsAreServed ==
    \A p \in Pods :
        p <= ProbeAhead /\ <>[](p \in up) => <>[](Served(p) \/ ctxDone)

\* A pod that is gone for good loses its node, so that no room is sent there.
GonePodsAreDropped ==
    \A p \in Pods : <>[](p \notin up) => <>[](p \notin nodes \/ ctxDone)
=============================================================================
