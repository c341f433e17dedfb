------------------------- MODULE BlockingProperties -------------------------
(***************************************************************************)
(* What must hold of the goroutines that wait for each other, and what the *)
(* documents say that the code does not do.                                *)
(***************************************************************************)
EXTENDS BlockingSends

Waiting(g) == ~Idle(g) /\ Head(script[g]).op # "take"

Sending(g) == ~Idle(g) /\ Head(script[g]).op = "send"

\* No goroutine and no waiting match can go on.
Stuck ==
    /\ \A g \in Goroutines : Idle(g) \/ ~Ready(g)
    /\ Idle(Worker) => matching = 0

\* The locks and channels make no cycle of their own: when every goroutine that
\* is in a command waits, one of them waits to put an answer into a full s.Send
\* (session.go:76), for which some client has to read.
StuckMeansUnread ==
    Stuck /\ (\E g \in Goroutines : Waiting(g)) => \E g \in Goroutines : Sending(g)

\* docs/frontend_command_protocol.md:876: a player who connects again within the
\* time allowed is served.  FindSession needs rm.mu, which CreateRoom and JoinRoom
\* hold while they send, perhaps to that very player's full s.Send.
ReturnsAreServed ==
    \A g \in Helpers, p \in Players :
        (~Idle(g) /\ \E i \in DOMAIN script[g] : script[g][i] = Attach(p)) ~> p \in reading
=============================================================================
