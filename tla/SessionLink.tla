---------------------------- MODULE SessionLink ----------------------------
(***************************************************************************)
(* The WebSocket connections of one player: HandleWS in                    *)
(* internal/handler/websocket.go, the session and its WritePump in         *)
(* internal/room/session.go, and the sessions of internal/room/manager.go. *)
(*                                                                         *)
(* Every connection runs a handler (find or make the session, attach, read *)
(* until the connection fails, detach), a write pump, possibly a goroutine *)
(* that sends the state of the room, and after it a timer.  They all share *)
(* the fields of the session, which no lock protects: an access of s.Conn  *)
(* or s.RoomID is a step of its own.                                       *)
(*                                                                         *)
(* A session is named after the connection it was made for, or is one that *)
(* a restart has taken from a snapshot of a room.  The player sits in at   *)
(* most one room, which other players keep in being; what happens inside a *)
(* room is RoomManager.                                                    *)
(***************************************************************************)
EXTENDS Naturals, Sequences

CONSTANTS
    Conns,       \* the connections the player makes, and the sessions made for them
    Restored,    \* the session restoreRoomSnapshot may have made for the player
    None,        \* nil: no connection, no session
    Other,       \* any message that is not the answer to a reconnection
    SendBuffer   \* the capacity of s.Send

ASSUME ConstantsAssumption ==
    /\ None \notin Conns \cup Restored
    /\ Other \notin Conns \cup {None}
    /\ Conns \cap Restored = {}
    /\ SendBuffer \in Nat \ {0}

VARIABLES
    registered,  \* rm.AllSessions[uid]
    conn,        \* s.Conn of every session
    inRoom,      \* s.RoomID # ""
    seat,        \* the session object the room holds under the player's ID
    queue,       \* s.Send
    open,        \* the connections neither side has closed
    pc,          \* what the handler of a connection does next
    sess,        \* the session it works for
    syncing,     \* the connections whose SyncRoomState has not answered yet
    pump,        \* what the write pump of a connection does next
    pumpConn,    \* currentConn of that pump
    held,        \* the message it took from the channel
    timers,      \* the connections whose ReconnectionTimeout runs, oldest first
    leaving,     \* the sessions a clean-up is about to take out of the room
    up           \* the process runs

sessionVars == <<registered, conn, inRoom, seat>>
handlerVars == <<pc, sess, syncing>>
pumpVars    == <<pump, pumpConn, held>>
timerVars   == <<timers, leaving>>
vars == <<sessionVars, queue, open, handlerVars, pumpVars, timerVars, up>>

Sessions == Conns \cup Restored

\* A connection c as a message is the answer to its reconnection.
Messages == Conns \cup {Other}

\* Before and after a handler has made itself that of its session.
Unattached == {"none", "create", "test", "close", "attach"}
Attached   == {"greet", "hello", "read", "answer", "check", "clear"}
Labels     == Unattached \cup Attached \cup {"gone"}

TypeOK ==
    /\ registered \in Sessions \cup {None}
    /\ conn \in [Sessions -> Conns \cup {None}]
    /\ inRoom \in [Sessions -> BOOLEAN]
    /\ seat \in Sessions \cup {None}
    /\ queue \in [Sessions -> Seq(Messages)]
    /\ \A s \in Sessions : Len(queue[s]) <= SendBuffer
    /\ open \subseteq Conns
    /\ pc \in [Conns -> Labels]
    /\ sess \in [Conns -> Sessions \cup {None}]
    /\ syncing \subseteq Conns
    /\ pump \in [Conns -> {"none", "start", "ready", "check", "write", "gone"}]
    /\ pumpConn \in [Conns -> Conns \cup {None}]
    /\ held \in [Conns -> Messages \cup {None}]
    /\ timers \in Seq(Conns)
    /\ leaving \subseteq Sessions
    /\ up \in BOOLEAN
    /\ \A c \in Conns : sess[c] = None <=> pc[c] \in {"none", "create"}
    /\ \A c \in Conns : pc[c] \in Unattached => pump[c] = "none"
    /\ \A c \in syncing : sess[c] # None
    /\ \A c \in Conns : pump[c] \in {"check", "write"} => held[c] # None

\* RestoreFromStore is over before anybody can connect.  A restored session is
\* known and sits in its room, without a connection and without a timer.
Init ==
    /\ registered \in Restored \cup {None}
    /\ conn = [s \in Sessions |-> None]
    /\ inRoom = [s \in Sessions |-> s = registered]
    /\ seat = registered
    /\ queue = [s \in Sessions |-> <<>>]
    /\ open = {}
    /\ pc = [c \in Conns |-> "none"]
    /\ sess = [c \in Conns |-> None]
    /\ syncing = {}
    /\ pump = [c \in Conns |-> "none"]
    /\ pumpConn = [c \in Conns |-> None]
    /\ held = [c \in Conns |-> None]
    /\ timers = <<>>
    /\ leaving = {}
    /\ up = TRUE

Goto(c, label) ==
    /\ pc' = [pc EXCEPT ![c] = label]
    /\ UNCHANGED <<sess, syncing>>

\* Mutant: the buffer has no end.
SendUnbounded(s, m) == queue' = [queue EXCEPT ![s] = Append(@, m)]

\* A blocking send on s.Send.
Send(s, m) ==
    /\ Len(queue[s]) < SendBuffer
    /\ queue' = [queue EXCEPT ![s] = Append(@, m)]

(***************************************************************************)
(* The handler of a connection, up to its read loop.                       *)
(***************************************************************************)

\* Upgrade and FindSession.
Connect(c) ==
    /\ pc[c] = "none"
    /\ open' = open \cup {c}
    /\ sess' = [sess EXCEPT ![c] = registered]
    /\ pc' = [pc EXCEPT ![c] = IF registered = None THEN "create" ELSE "test"]
    /\ UNCHANGED <<sessionVars, queue, syncing, pumpVars, timerVars, up>>

\* NewSession, RegisterSession and the start of the write pump.
Create(c) ==
    /\ pc[c] = "create"
    /\ registered' = c
    /\ conn' = [conn EXCEPT ![c] = c]
    /\ sess' = [sess EXCEPT ![c] = c]
    /\ pc' = [pc EXCEPT ![c] = "read"]
    /\ pump' = [pump EXCEPT ![c] = "start"]
    /\ UNCHANGED <<inRoom, seat, queue, open, syncing, pumpConn, held, timerVars, up>>

\* A known player: is there a connection to close?
Test(c) ==
    /\ pc[c] = "test"
    /\ Goto(c, IF conn[sess[c]] = None THEN "attach" ELSE "close")
    /\ UNCHANGED <<sessionVars, queue, open, pumpVars, timerVars, up>>

\* oldSession.Conn.Close().  When the field has become nil since it was first
\* tested, the second test skips the call or the call panics; net/http recovers
\* from the panic and the new connection is closed.
CloseOld(c) ==
    /\ pc[c] = "close"
    /\ \/ /\ conn[sess[c]] # None
          /\ open' = open \ {conn[sess[c]]}
          /\ Goto(c, "attach")
       \/ /\ conn[sess[c]] = None
          /\ open' = open
          /\ Goto(c, "attach")
       \/ /\ conn[sess[c]] = None
          /\ open' = open \ {c}
          /\ Goto(c, "gone")
    /\ UNCHANGED <<sessionVars, queue, pumpVars, timerVars, up>>

\* Mutant: a pump that is still there is left to serve the new connection.
AttachKeepsPump(c) ==
    /\ pc[c] = "attach"
    /\ conn' = [conn EXCEPT ![sess[c]] = c]
    /\ pump' = IF \E d \in Conns : sess[d] = sess[c] /\ pump[d] = "ready"
               THEN pump ELSE [pump EXCEPT ![c] = "start"]
    /\ Goto(c, "greet")
    /\ UNCHANGED <<registered, inRoom, seat, queue, open, pumpConn, held, timerVars, up>>

\* s.Conn = currentConn and the start of the write pump.
Attach(c) ==
    /\ pc[c] = "attach"
    /\ conn' = [conn EXCEPT ![sess[c]] = c]
    /\ pump' = [pump EXCEPT ![c] = "start"]
    /\ Goto(c, "greet")
    /\ UNCHANGED <<registered, inRoom, seat, queue, open, pumpConn, held, timerVars, up>>

\* Somebody in a room gets its state from a goroutine of its own.
Greet(c) ==
    /\ pc[c] = "greet"
    /\ IF inRoom[sess[c]]
       THEN /\ syncing' = syncing \cup {c}
            /\ pc' = [pc EXCEPT ![c] = "read"]
       ELSE /\ syncing' = syncing
            /\ pc' = [pc EXCEPT ![c] = "hello"]
    /\ UNCHANGED <<sessionVars, queue, open, sess, pumpVars, timerVars, up>>

Hello(c) ==
    /\ pc[c] = "hello"
    /\ Send(sess[c], c)
    /\ Goto(c, "read")
    /\ UNCHANGED <<sessionVars, open, pumpVars, timerVars, up>>

\* SyncRoomState answers with the room's state, or that the room is gone; the
\* broadcast that may follow is one of Broadcast.
Sync(c) ==
    /\ c \in syncing
    /\ syncing' = syncing \ {c}
    /\ Send(sess[c], c)
    /\ UNCHANGED <<sessionVars, open, pc, sess, pumpVars, timerVars, up>>

(***************************************************************************)
(* The read loop and what is deferred to its end.                          *)
(***************************************************************************)

\* JoinRoom finds the player's ID in the room, or seats this session object.
Join(s) ==
    /\ seat = None
    /\ seat' = s
    /\ inRoom' = [inRoom EXCEPT ![s] = TRUE]

\* LeaveRoom takes out whichever session object sits under the player's ID, but
\* clears the RoomID of its own.
Leave(s) ==
    /\ inRoom[s]
    /\ seat' = None
    /\ inRoom' = [inRoom EXCEPT ![s] = FALSE]

Command(c) ==
    /\ pc[c] = "read"
    /\ c \in open
    /\ \/ Join(sess[c])
       \/ Leave(sess[c])
       \/ UNCHANGED <<seat, inRoom>>
    /\ Goto(c, "answer")
    /\ UNCHANGED <<registered, conn, queue, open, pumpVars, timerVars, up>>

Answer(c) ==
    /\ pc[c] = "answer"
    /\ Send(sess[c], Other)
    /\ Goto(c, "read")
    /\ UNCHANGED <<sessionVars, open, pumpVars, timerVars, up>>

\* ReadMessage fails.
ReadError(c) ==
    /\ pc[c] = "read"
    /\ c \notin open
    /\ Goto(c, "check")
    /\ UNCHANGED <<sessionVars, queue, open, pumpVars, timerVars, up>>

\* Mutant: a session that has been cleaned up is not detached.
IsCurrentIfRegistered(c) == conn[sess[c]] = c /\ registered = sess[c]

IsCurrent(c) == conn[sess[c]] = c

Check(c) ==
    /\ pc[c] = "check"
    /\ Goto(c, IF IsCurrent(c) THEN "clear" ELSE "gone")
    /\ UNCHANGED <<sessionVars, queue, open, pumpVars, timerVars, up>>

\* Mutant: only players in a room are waited for.
StartTimerIfInRoom(c) == timers' = IF inRoom[sess[c]] THEN Append(timers, c) ELSE timers

StartTimer(c) == timers' = Append(timers, c)

\* s.Conn = nil, whoever has attached since the comparison, and the timer.
Clear(c) ==
    /\ pc[c] = "clear"
    /\ conn' = [conn EXCEPT ![sess[c]] = None]
    /\ StartTimer(c)
    /\ Goto(c, "gone")
    /\ UNCHANGED <<registered, inRoom, seat, queue, open, pumpVars, leaving, up>>

\* Mutant: players in the lobby are not cleaned up.
StillOfflineInRoom == registered # None /\ conn[registered] = None /\ inRoom[registered]

(***************************************************************************)
(* CleanUpIfStillOffline, when ReconnectionTimeout is over.  Every timer   *)
(* lasts as long as any other, so the oldest ends first.                   *)
(***************************************************************************)
StillOffline == registered # None /\ conn[registered] = None

Expire ==
    /\ timers # <<>>
    /\ timers' = Tail(timers)
    /\ IF StillOffline
       THEN /\ registered' = None
            /\ leaving' = IF inRoom[registered] THEN leaving \cup {registered} ELSE leaving
       ELSE UNCHANGED <<registered, leaving>>
    /\ UNCHANGED <<conn, inRoom, seat, queue, open, handlerVars, pumpVars, up>>

\* LeaveRoom(roomID, s) for the removed session; the room ID was read before.
LeaveRemoved(s) ==
    /\ s \in leaving
    /\ leaving' = leaving \ {s}
    /\ seat' = None
    /\ inRoom' = [inRoom EXCEPT ![s] = FALSE]
    /\ UNCHANGED <<registered, conn, queue, open, handlerVars, pumpVars, timers, up>>

(***************************************************************************)
(* The write pump a connection started.                                    *)
(***************************************************************************)

\* The goroutine runs at last and reads s.Conn.
PumpStart(c) ==
    /\ pump[c] = "start"
    /\ pumpConn' = [pumpConn EXCEPT ![c] = conn[sess[c]]]
    /\ pump' = [pump EXCEPT ![c] = "ready"]
    /\ UNCHANGED <<sessionVars, queue, open, handlerVars, held, timerVars, up>>

PumpTake(c) ==
    /\ pump[c] = "ready"
    /\ queue[sess[c]] # <<>>
    /\ held' = [held EXCEPT ![c] = Head(queue[sess[c]])]
    /\ queue' = [queue EXCEPT ![sess[c]] = Tail(@)]
    /\ pump' = [pump EXCEPT ![c] = "check"]
    /\ UNCHANGED <<sessionVars, open, handlerVars, pumpConn, timerVars, up>>

IsStale(c) == conn[sess[c]] # pumpConn[c]

\* The return of the pump: the deferred Close panics on nil, and nobody recovers.
PumpExit(c) ==
    /\ pump' = [pump EXCEPT ![c] = "gone"]
    /\ held' = [held EXCEPT ![c] = None]
    /\ open' = open \ {pumpConn[c]}
    /\ up' = (pumpConn[c] # None)

PumpCheck(c) ==
    /\ pump[c] = "check"
    /\ IF IsStale(c)
       THEN PumpExit(c)
       ELSE /\ pump' = [pump EXCEPT ![c] = "write"]
            /\ UNCHANGED <<held, open, up>>
    /\ UNCHANGED <<sessionVars, queue, handlerVars, pumpConn, timerVars>>

\* WriteMessage panics on nil, fails on a closed connection, or sends.
PumpWrite(c) ==
    /\ pump[c] = "write"
    /\ IF pumpConn[c] \in open
       THEN /\ pump' = [pump EXCEPT ![c] = "ready"]
            /\ held' = [held EXCEPT ![c] = None]
            /\ UNCHANGED <<open, up>>
       ELSE PumpExit(c)
    /\ UNCHANGED <<sessionVars, queue, handlerVars, pumpConn, timerVars>>

\* gorilla/websocket panics when it notices two writers on one connection.
WritersClash(c, d) ==
    /\ c # d
    /\ pump[c] = "write" /\ pump[d] = "write"
    /\ pumpConn[c] = pumpConn[d]
    /\ up' = FALSE
    /\ UNCHANGED <<sessionVars, queue, open, handlerVars, pumpVars, timerVars>>

(***************************************************************************)
(* The client and the rest of the room.                                    *)
(***************************************************************************)
Drop(c) ==
    /\ c \in open
    /\ open' = open \ {c}
    /\ UNCHANGED <<sessionVars, queue, handlerVars, pumpVars, timerVars, up>>

\* BroadcastToRoom never blocks: a full buffer drops the message.
Broadcast ==
    /\ seat # None
    /\ Send(seat, Other)
    /\ UNCHANGED <<sessionVars, open, handlerVars, pumpVars, timerVars, up>>

Handler(c) ==
    \/ Create(c) \/ Test(c) \/ CloseOld(c) \/ Attach(c) \/ Greet(c) \/ Hello(c)
    \/ Answer(c) \/ ReadError(c) \/ Check(c) \/ Clear(c)

Pump(c) == PumpStart(c) \/ PumpTake(c) \/ PumpCheck(c) \/ PumpWrite(c)

Next ==
    /\ up
    /\ \/ \E c \in Conns : \/ Connect(c) \/ Handler(c) \/ Command(c) \/ Sync(c)
                           \/ Pump(c) \/ Drop(c)
       \/ \E s \in Sessions : LeaveRemoved(s)
       \/ \E c, d \in Conns : WritersClash(c, d)
       \/ Expire
       \/ Broadcast

(***************************************************************************)
(* Goroutines that can run do run, and sleeps end.  Clients need not       *)
(* connect, send commands or close, nor others speak in the room.          *)
(***************************************************************************)
Fairness ==
    /\ \A c \in Conns : /\ WF_vars(up /\ Handler(c))
                        /\ WF_vars(up /\ Sync(c))
                        /\ WF_vars(up /\ Pump(c))
    /\ \A s \in Sessions : WF_vars(up /\ LeaveRemoved(s))
    /\ WF_vars(up /\ Expire)

Spec == Init /\ [][Next]_vars

FairSpec == Spec /\ Fairness
=============================================================================
