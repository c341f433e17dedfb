------------------------- MODULE SessionProperties -------------------------
(***************************************************************************)
(* What SessionLink must guarantee.                                        *)
(***************************************************************************)
EXTENDS SessionLink

(***************************************************************************)
(* The session and its connection.                                         *)
(***************************************************************************)

\* The connection of a session is always that of a handler which works for this
\* session and has yet to detach it (websocket.go:71-84): no interleaving of
\* takeovers, panics and clean-ups leaves the field pointing at a connection
\* nobody reads, which would make the player look online for ever.
CurrentHasHandler ==
    \A s \in Sessions, c \in Conns : conn[s] = c => sess[c] = s /\ pc[c] \in Attached

\* Nobody has come back yet to a session that a restart took from a snapshot.
NotYetBack(s) ==
    s \in Restored /\ \A c \in Conns : sess[c] = s => pc[c] \in {"test", "attach"}

\* The player is known and has no connection.
Absent == registered # None /\ conn[registered] = None

\* A known player without a connection is being waited for: some timer will
\* look at the session again (websocket.go:77-80), also when a handler cleared
\* a connection that was not its own (websocket.go:74-75).  Nobody waits for the
\* player of a restored session (manager.go:497-507) before the first return.
OfflineSessionsExpire ==
    Absent => timers # <<>> \/ NotYetBack(registered)

WillServe(p, c) ==
    \/ pump[p] = "start"
    \/ pump[p] \in {"ready", "check", "write"} /\ pumpConn[p] = c

\* The connection of a session, while it is open, has a pump that writes to it
\* or has yet to read which one it serves (session.go:31, 47-50): pumps started
\* late or leaving on a takeover never leave a connection mute.
CurrentConnHasWriter ==
    \A s \in Sessions, c \in Conns :
        conn[s] = c /\ c \in open => \E p \in Conns : sess[p] = s /\ WillServe(p, c)

\* An absence that a connection has come before.
Offline == Absent /\ ~NotYetBack(registered)

\* So a player who has gone is either back or cleaned up, unless the process
\* dies of a pump that has nil for a connection (session.go:31).
OfflineIsResolved == Offline ~> (~Offline \/ ~up)

\* The connection is the one of the session its handler works for.
Serves(c) == sess[c] # None /\ conn[sess[c]] = c

\* A closed connection does not stay that of its session, unless the process
\* dies or the buffer of the session is full and blocks the handler in
\* SendResponse (session.go:76), out of reach of the read error.
ClosedConnsAreDetached ==
    \A c \in Conns :
        (Serves(c) /\ c \notin open)
            ~> (~Serves(c) \/ ~up \/ Len(queue[sess[c]]) = SendBuffer)
=============================================================================
