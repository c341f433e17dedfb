------------------------- MODULE SessionLinkProofs -------------------------
(***************************************************************************)
(* Proofs about SessionLink for any number of connections and any buffer.  *)
(***************************************************************************)
EXTENDS SessionProperties, SequenceTheorems, TLAPS

(***************************************************************************)
(* Types.                                                                  *)
(***************************************************************************)

LEMMA SessionFacts == Conns \subseteq Sessions /\ None \notin Sessions /\ None \notin Conns
BY ConstantsAssumption DEF Sessions

\* A send that finds room leaves a buffer that is no longer than allowed.
LEMMA SendKeepsBuffer ==
    ASSUME TypeOK, NEW s \in Sessions, NEW m \in Messages, Send(s, m)
    PROVE  /\ queue' \in [Sessions -> Seq(Messages)]
           /\ \A t \in Sessions : Len(queue'[t]) <= SendBuffer
<1>1. Append(queue[s], m) \in Seq(Messages) /\ Len(Append(queue[s], m)) = Len(queue[s]) + 1
    BY AppendProperties DEF TypeOK
<1>2. queue' = [queue EXCEPT ![s] = Append(queue[s], m)] /\ Len(queue[s]) < SendBuffer
    BY DEF Send
<1>3. Len(queue[s]) \in Nat
    BY LenProperties DEF TypeOK
<1>. QED
    BY <1>1, <1>2, <1>3, ConstantsAssumption DEF TypeOK

\* A handler that has made itself that of its session has one.
LEMMA AttachedHasSession ==
    ASSUME TypeOK, NEW c \in Conns, pc[c] \notin {"none", "create"}
    PROVE  sess[c] \in Sessions
BY DEF TypeOK

\* The steps of a handler keep the types.
LEMMA TypeHandler ==
    ASSUME TypeOK, NEW c \in Conns, Connect(c) \/ Handler(c) \/ Command(c) \/ Sync(c)
    PROVE  TypeOK'
<1>. USE ConstantsAssumption, SessionFacts DEF TypeOK, sessionVars, pumpVars, timerVars, Goto, Messages,
         Labels, Unattached, Attached
<1>1. CASE Connect(c)
    BY <1>1 DEF Connect
<1>2. CASE Create(c)
    BY <1>2 DEF Create
<1>3. CASE Test(c)
    BY <1>3 DEF Test
<1>4. CASE CloseOld(c)
    <2>1. /\ open' \subseteq open /\ sess' = sess /\ syncing' = syncing /\ pc[c] = "close"
        BY <1>4 DEF CloseOld
    <2>2. PICK l \in {"attach", "gone"} : pc' = [pc EXCEPT ![c] = l]
        BY <1>4 DEF CloseOld
    <2>3. /\ pc' \in [Conns -> Labels]
          /\ \A d \in Conns : sess'[d] = None <=> pc'[d] \in {"none", "create"}
        BY <2>1, <2>2
    <2>4. \A d \in Conns : pc'[d] \in Unattached => pump[d] = "none"
        BY <2>1, <2>2
    <2>5. UNCHANGED <<sessionVars, queue, pumpVars, timerVars, up>>
        BY <1>4 DEF CloseOld
    <2>. QED
        BY <2>1, <2>3, <2>4, <2>5
<1>5. CASE Attach(c)
    <2>1. conn' \in [Sessions -> Conns \cup {None}] /\ pc[c] = "attach"
        BY <1>5 DEF Attach
    <2>2. /\ pc' = [pc EXCEPT ![c] = "greet"]
          /\ pump' = [pump EXCEPT ![c] = "start"]
          /\ sess' = sess /\ syncing' = syncing /\ held' = held
        BY <1>5 DEF Attach
    <2>. QED
        BY <1>5, <2>1, <2>2 DEF Attach
<1>6. CASE Greet(c)
    <2>1. /\ pc[c] = "greet" /\ sess' = sess /\ UNCHANGED pumpVars
          /\ syncing' = syncing \cup {c} \/ syncing' = syncing
        BY <1>6 DEF Greet
    <2>2. PICK l \in {"read", "hello"} : pc' = [pc EXCEPT ![c] = l]
        BY <1>6 DEF Greet
    <2>3. syncing' \subseteq Conns /\ \A d \in syncing' : sess'[d] # None
        BY <2>1
    <2>4. /\ pc' \in [Conns -> Labels]
          /\ \A d \in Conns : sess'[d] = None <=> pc'[d] \in {"none", "create"}
        BY <2>1, <2>2
    <2>5. \A d \in Conns : pc'[d] \in Unattached => pump[d] = "none"
        BY <2>1, <2>2
    <2>6. UNCHANGED <<sessionVars, queue, open, timerVars, up>>
        BY <1>6 DEF Greet
    <2>. QED
        BY <2>1, <2>3, <2>4, <2>5, <2>6
<1>7. CASE Hello(c)
    <2>3. pc[c] = "hello" /\ Send(sess[c], c)
        BY <1>7 DEF Hello
    <2>1. sess[c] \in Sessions /\ Send(sess[c], c)
        BY <2>3, AttachedHasSession
    <2>2. queue' \in [Sessions -> Seq(Messages)] /\ \A t \in Sessions : Len(queue'[t]) <= SendBuffer
        BY <2>1, SendKeepsBuffer
    <2>. QED
        BY <1>7, <2>2 DEF Hello
<1>8. CASE Sync(c)
    <2>1. sess[c] \in Sessions /\ Send(sess[c], c)
        BY <1>8 DEF Sync
    <2>2. queue' \in [Sessions -> Seq(Messages)] /\ \A t \in Sessions : Len(queue'[t]) <= SendBuffer
        BY <2>1, SendKeepsBuffer
    <2>. QED
        BY <1>8, <2>2 DEF Sync
<1>9. CASE Command(c)
    <2>5. pc[c] = "read"
        BY <1>9 DEF Command
    <2>1. sess[c] \in Sessions
        BY <2>5, AttachedHasSession
    <2>2. CASE Join(sess[c])
        BY <1>9, <2>1, <2>2 DEF Command, Join
    <2>3. CASE Leave(sess[c])
        BY <1>9, <2>1, <2>3 DEF Command, Leave
    <2>4. CASE UNCHANGED <<seat, inRoom>>
        BY <1>9, <2>4 DEF Command
    <2>. QED
        BY <1>9, <2>2, <2>3, <2>4 DEF Command
<1>10. CASE Answer(c)
    <2>3. pc[c] = "answer" /\ Send(sess[c], Other)
        BY <1>10 DEF Answer
    <2>1. sess[c] \in Sessions /\ Send(sess[c], Other)
        BY <2>3, AttachedHasSession
    <2>2. queue' \in [Sessions -> Seq(Messages)] /\ \A t \in Sessions : Len(queue'[t]) <= SendBuffer
        BY <2>1, SendKeepsBuffer
    <2>. QED
        BY <1>10, <2>2 DEF Answer
<1>11. CASE ReadError(c)
    BY <1>11 DEF ReadError
<1>12. CASE Check(c)
    BY <1>12 DEF Check
<1>13. CASE Clear(c)
    <2>1. timers' \in Seq(Conns)
        BY <1>13, AppendProperties DEF Clear, StartTimer
    <2>2. conn' \in [Sessions -> Conns \cup {None}]
        BY <1>13 DEF Clear
    <2>3. pc' = [pc EXCEPT ![c] = "gone"] /\ pc[c] = "clear" /\ UNCHANGED <<sess, syncing, pumpVars>>
        BY <1>13 DEF Clear
    <2>. QED
        BY <1>13, <2>1, <2>2, <2>3 DEF Clear
<1>. QED
    BY <1>1, <1>2, <1>3, <1>4, <1>5, <1>6, <1>7, <1>8, <1>9, <1>10, <1>11, <1>12, <1>13
    DEF Handler

\* So do the steps of a write pump.
LEMMA TypePump ==
    ASSUME TypeOK, NEW c \in Conns, Pump(c)
    PROVE  TypeOK'
<1>. USE ConstantsAssumption, SessionFacts DEF TypeOK, sessionVars, handlerVars, timerVars, Messages, Unattached
<1>1. sess[c] \in Sessions
    BY DEF Pump, PumpStart, PumpTake, PumpCheck, PumpWrite
<1>2. CASE PumpStart(c)
    BY <1>1, <1>2 DEF PumpStart
<1>3. CASE PumpTake(c)
    <2>1. /\ Head(queue[sess[c]]) \in Messages
          /\ Tail(queue[sess[c]]) \in Seq(Messages)
          /\ Len(Tail(queue[sess[c]])) = Len(queue[sess[c]]) - 1
        BY <1>1, <1>3, HeadTailProperties DEF PumpTake
    <2>2. Len(queue[sess[c]]) \in Nat
        BY <1>1, LenProperties
    <2>3. queue' = [queue EXCEPT ![sess[c]] = Tail(queue[sess[c]])]
        BY <1>3 DEF PumpTake
    <2>4. queue' \in [Sessions -> Seq(Messages)]
        BY <1>1, <2>1, <2>3
    <2>5. \A t \in Sessions : Len(queue'[t]) <= SendBuffer
        BY <1>1, <2>1, <2>2, <2>3
    <2>. QED
        BY <1>1, <1>3, <2>1, <2>4, <2>5 DEF PumpTake
<1>4. ASSUME PumpExit(c), pump[c] # "none",
             UNCHANGED <<sessionVars, queue, handlerVars, pumpConn, timerVars>>
      PROVE  TypeOK'
    <2>1. open' \subseteq Conns /\ up' \in BOOLEAN
        BY <1>4 DEF PumpExit
    <2>2. pump' = [pump EXCEPT ![c] = "gone"] /\ held' = [held EXCEPT ![c] = None]
        BY <1>4 DEF PumpExit
    <2>. QED
        BY <1>4, <2>1, <2>2
<1>5. CASE PumpCheck(c)
    <2>1. CASE IsStale(c)
        BY <1>4, <1>5, <2>1 DEF PumpCheck
    <2>2. CASE ~IsStale(c)
        <3>1. pump' = [pump EXCEPT ![c] = "write"] /\ held[c] # None /\ pc[c] \notin Unattached
            BY <1>5, <2>2 DEF PumpCheck
        <3>2. UNCHANGED <<held, open, up, sessionVars, queue, handlerVars, pumpConn, timerVars>>
            BY <1>5, <2>2 DEF PumpCheck
        <3>. QED
            BY <3>1, <3>2
    <2>. QED
        BY <2>1, <2>2
<1>6. CASE PumpWrite(c)
    <2>1. CASE pumpConn[c] \notin open
        BY <1>4, <1>6, <2>1 DEF PumpWrite
    <2>2. CASE pumpConn[c] \in open
        <3>1. pump' = [pump EXCEPT ![c] = "ready"] /\ held' = [held EXCEPT ![c] = None]
            BY <1>6, <2>2 DEF PumpWrite
        <3>2. pump[c] # "none" /\ UNCHANGED <<open, up>>
            BY <1>6, <2>2 DEF PumpWrite
        <3>3. UNCHANGED <<sessionVars, queue, handlerVars, pumpConn, timerVars>>
            BY <1>6 DEF PumpWrite
        <3>. QED
            BY <3>1, <3>2, <3>3
    <2>. QED
        BY <2>1, <2>2
<1>. QED
    BY <1>2, <1>3, <1>5, <1>6 DEF Pump

\* Types are correct in every reachable state.
LEMMA TypeStep == TypeOK /\ [Next]_vars => TypeOK'
<1>. SUFFICES ASSUME TypeOK, [Next]_vars PROVE TypeOK'
    OBVIOUS
<1>. USE ConstantsAssumption, SessionFacts
<1>1. CASE UNCHANGED vars
    BY <1>1 DEF TypeOK, vars, sessionVars, handlerVars, pumpVars, timerVars
<1>2. ASSUME NEW c \in Conns, Connect(c) \/ Handler(c) \/ Command(c) \/ Sync(c) PROVE TypeOK'
    BY <1>2, TypeHandler
<1>3. ASSUME NEW c \in Conns, Pump(c) PROVE TypeOK'
    BY <1>3, TypePump
<1>4. ASSUME NEW c \in Conns, Drop(c) PROVE TypeOK'
    BY <1>4 DEF Drop, TypeOK, sessionVars, handlerVars, pumpVars, timerVars
<1>5. ASSUME NEW c \in Sessions, LeaveRemoved(c) PROVE TypeOK'
    BY <1>5 DEF LeaveRemoved, TypeOK, handlerVars, pumpVars
<1>6. ASSUME NEW c \in Conns, NEW d \in Conns, WritersClash(c, d) PROVE TypeOK'
    BY <1>6 DEF WritersClash, TypeOK, sessionVars, handlerVars, pumpVars, timerVars
<1>7. CASE Expire
    <2>1. timers' \in Seq(Conns)
        BY <1>7, HeadTailProperties DEF Expire, TypeOK
    <2>2. registered' \in Sessions \cup {None} /\ leaving' \subseteq Sessions
        BY <1>7 DEF Expire, TypeOK, StillOffline
    <2>. QED
        BY <1>7, <2>1, <2>2 DEF Expire, TypeOK, handlerVars, pumpVars
<1>8. CASE Broadcast
    <2>1. seat \in Sessions /\ Send(seat, Other) /\ Other \in Messages
        BY <1>8 DEF Broadcast, TypeOK, Messages
    <2>2. queue' \in [Sessions -> Seq(Messages)] /\ \A t \in Sessions : Len(queue'[t]) <= SendBuffer
        BY <2>1, SendKeepsBuffer
    <2>. QED
        BY <1>8, <2>2 DEF Broadcast, TypeOK, sessionVars, handlerVars, pumpVars, timerVars
<1>. QED
    BY <1>1, <1>2, <1>3, <1>4, <1>5, <1>6, <1>7, <1>8 DEF Next

THEOREM TypeCorrect == Spec => []TypeOK
<1>1. Init => TypeOK
    BY ConstantsAssumption, SessionFacts, EmptySeq DEF Init, TypeOK, Sessions, Labels, Unattached
<1>. QED
    BY <1>1, TypeStep, PTL DEF Spec

(***************************************************************************)
(* The connection of a session and its handler.                            *)
(***************************************************************************)

\* Only the handler of a connection makes it that of a session, when it attaches,
\* and the handler does not leave before the field holds something else.
LEMMA HandlerStep ==
    ASSUME TypeOK, CurrentHasHandler, [Next]_vars
    PROVE  CurrentHasHandler'
<1>. USE SessionFacts DEF TypeOK, CurrentHasHandler, Attached, Goto
<1>1. CASE UNCHANGED <<conn, pc, sess>>
    BY <1>1
<1>2. ASSUME NEW c \in Conns, Connect(c) PROVE CurrentHasHandler'
    <2>1. \A s \in Sessions : conn[s] # c
        BY <1>2 DEF Connect
    <2>. QED
        BY <1>2, <2>1 DEF Connect, sessionVars
<1>3. ASSUME NEW c \in Conns, Create(c) PROVE CurrentHasHandler'
    <2>1. \A s \in Sessions : conn[s] # c
        BY <1>3 DEF Create
    <2>. QED
        BY <1>3, <2>1 DEF Create
<1>4. ASSUME NEW c \in Conns, Test(c) \/ CloseOld(c) PROVE CurrentHasHandler'
    <2>1. \A s \in Sessions : conn[s] # c
        BY <1>4 DEF Test, CloseOld
    <2>2. conn' = conn /\ sess' = sess
        BY <1>4 DEF Test, CloseOld, sessionVars
    <2>3. \A d \in Conns : d # c => pc'[d] = pc[d]
        BY <1>4 DEF Test, CloseOld
    <2>. QED
        BY <2>1, <2>2, <2>3
<1>5. ASSUME NEW c \in Conns, Attach(c) PROVE CurrentHasHandler'
    <2>1. /\ conn' = [conn EXCEPT ![sess[c]] = c]
          /\ pc' = [pc EXCEPT ![c] = "greet"] /\ sess' = sess
        BY <1>5 DEF Attach
    <2>2. \A s \in Sessions : conn[s] # c
        BY <1>5 DEF Attach
    <2>. QED
        BY <2>1, <2>2
<1>6. ASSUME NEW c \in Conns,
             Greet(c) \/ Hello(c) \/ Command(c) \/ Answer(c) \/ ReadError(c)
      PROVE  CurrentHasHandler'
    <2>1. PICK l \in Attached : pc' = [pc EXCEPT ![c] = l]
        BY <1>6 DEF Greet, Hello, Command, Answer, ReadError
    <2>2. conn' = conn /\ sess' = sess
        BY <1>6 DEF Greet, Hello, Command, Answer, ReadError, sessionVars
    <2>. QED
        BY <2>1, <2>2
<1>7. ASSUME NEW c \in Conns, Check(c) PROVE CurrentHasHandler'
    <2>1. conn' = conn /\ sess' = sess
        BY <1>7 DEF Check, sessionVars
    <2>2. CASE conn[sess[c]] = c
        <3>1. pc' = [pc EXCEPT ![c] = "clear"]
            BY <1>7, <2>2 DEF Check, IsCurrent
        <3>. QED
            BY <2>1, <3>1
    <2>3. CASE conn[sess[c]] # c
        <3>1. \A s \in Sessions : conn[s] # c
            BY <2>3
        <3>2. \A d \in Conns : d # c => pc'[d] = pc[d]
            BY <1>7 DEF Check
        <3>. QED
            BY <2>1, <3>1, <3>2
    <2>. QED
        BY <2>2, <2>3
<1>8. ASSUME NEW c \in Conns, Clear(c) PROVE CurrentHasHandler'
    <2>1. /\ conn' = [conn EXCEPT ![sess[c]] = None]
          /\ pc' = [pc EXCEPT ![c] = "gone"] /\ sess' = sess
        BY <1>8 DEF Clear
    <2>2. \A s \in Sessions : conn'[s] # c
        BY <2>1, ConstantsAssumption
    <2>. QED
        BY <2>1, <2>2, ConstantsAssumption
<1>9. ASSUME NEW c \in Conns, Pump(c) PROVE CurrentHasHandler'
    BY <1>1, <1>9
    DEF Pump, PumpStart, PumpTake, PumpCheck, PumpWrite, sessionVars, handlerVars
<1>10. ASSUME NEW c \in Conns, Sync(c) \/ Drop(c) PROVE CurrentHasHandler'
    BY <1>1, <1>10 DEF Sync, Drop, sessionVars, handlerVars
<1>11. ASSUME NEW c \in Conns, NEW d \in Conns, WritersClash(c, d) PROVE CurrentHasHandler'
    BY <1>1, <1>11 DEF WritersClash, sessionVars, handlerVars
<1>12. CASE Expire \/ Broadcast
    BY <1>1, <1>12 DEF Expire, Broadcast, sessionVars, handlerVars
<1>13. CASE UNCHANGED vars
    BY <1>1, <1>13 DEF vars, sessionVars, handlerVars
<1>14. ASSUME NEW s \in Sessions, LeaveRemoved(s) PROVE CurrentHasHandler'
    BY <1>1, <1>14 DEF LeaveRemoved, sessionVars, handlerVars
<1>. QED
    BY <1>2, <1>3, <1>4, <1>5, <1>6, <1>7, <1>8, <1>9, <1>10, <1>11, <1>12, <1>13, <1>14
    DEF Next, Handler

\* The connection of a session is always that of a handler that serves it.
THEOREM CurrentIsServed == Spec => []CurrentHasHandler
<1>1. Init => CurrentHasHandler
    BY ConstantsAssumption DEF Init, CurrentHasHandler
<1>2. TypeOK /\ CurrentHasHandler /\ [Next]_vars => CurrentHasHandler'
    BY HandlerStep
<1>. QED
    BY <1>1, <1>2, TypeCorrect, PTL DEF Spec

(***************************************************************************)
(* Sessions without a connection are waited for.                           *)
(***************************************************************************)

\* The step that takes the connection away starts a timer, and a timer that ends
\* without removing the session has found a connection.  Who leaves the handlers
\* that have yet to attach to a restored session gives it a connection.
LEMMA OfflineStep ==
    ASSUME TypeOK, OfflineSessionsExpire, [Next]_vars
    PROVE  OfflineSessionsExpire'
<1>. USE SessionFacts DEF TypeOK, OfflineSessionsExpire, Absent, NotYetBack
<1>1. CASE UNCHANGED <<registered, conn, timers, pc, sess>>
    BY <1>1
<1>2. ASSUME NEW c \in Conns, Create(c) PROVE OfflineSessionsExpire'
    BY <1>2, ConstantsAssumption DEF Create
<1>3. ASSUME NEW c \in Conns, Attach(c) PROVE OfflineSessionsExpire'
    <2>1. /\ conn' = [conn EXCEPT ![sess[c]] = c] /\ c # None /\ sess[c] \in Sessions
          /\ registered' = registered /\ timers' = timers /\ sess' = sess
          /\ pc' = [pc EXCEPT ![c] = "greet"]
        BY <1>3, ConstantsAssumption DEF Attach, timerVars, Goto
    <2>2. SUFFICES ASSUME Absent' PROVE timers' # <<>> \/ NotYetBack(registered)'
        OBVIOUS
    <2>3. registered \in Sessions /\ registered # sess[c] /\ Absent
        BY <2>1, <2>2
    <2>. QED
        BY <2>1, <2>3
<1>4. ASSUME NEW c \in Conns, Clear(c) PROVE OfflineSessionsExpire'
    <2>1. timers' = Append(timers, c)
        BY <1>4 DEF Clear, StartTimer
    <2>2. timers \in Seq(Conns)
        OBVIOUS
    <2>3. Len(Append(timers, c)) = Len(timers) + 1 /\ Len(timers) \in Nat
        BY <2>2, AppendProperties, LenProperties
    <2>4. Append(timers, c) # <<>>
        <3>1. ASSUME Append(timers, c) = <<>> PROVE FALSE
            <4>1. Len(Append(timers, c)) = 0
                BY <3>1
            <4>. QED
                BY <2>3, <4>1
        <3>. QED
            BY <3>1
    <2>. QED
        BY <2>1, <2>4
<1>5. CASE Expire
    BY <1>5 DEF Expire, StillOffline
<1>6. ASSUME NEW c \in Conns, Connect(c) PROVE OfflineSessionsExpire'
    <2>1. /\ UNCHANGED <<registered, conn, timers>>
          /\ sess' = [sess EXCEPT ![c] = registered]
          /\ registered # None => pc' = [pc EXCEPT ![c] = "test"]
        BY <1>6 DEF Connect, sessionVars, timerVars
    <2>. QED
        BY <2>1
<1>7. ASSUME NEW c \in Conns, Test(c) \/ CloseOld(c) PROVE OfflineSessionsExpire'
    <2>1. UNCHANGED <<registered, conn, timers, sess>>
        BY <1>7 DEF Test, CloseOld, Goto, sessionVars, timerVars
    <2>2. PICK l \in Labels : pc' = [pc EXCEPT ![c] = l]
        BY <1>7 DEF Test, CloseOld, Goto, Labels, Unattached, Attached
    <2>3. CASE Test(c) /\ conn[sess[c]] = None
        <3>1. pc' = [pc EXCEPT ![c] = "attach"]
            BY <2>3 DEF Test, Goto
        <3>. QED
            BY <2>1, <3>1
    <2>4. CASE sess[c] # registered \/ pc[c] = "close" \/ conn[sess[c]] # None
        BY <2>1, <2>2, <2>4
    <2>. QED
        BY <1>7, <2>3, <2>4 DEF CloseOld
<1>8. ASSUME NEW c \in Conns, \/ Greet(c) \/ Hello(c) \/ Answer(c) \/ ReadError(c)
                              \/ Check(c) \/ Command(c)
      PROVE  OfflineSessionsExpire'
    <2>1. UNCHANGED <<registered, conn, timers, sess>> /\ pc[c] \notin {"test", "attach"}
        BY <1>8
        DEF Greet, Hello, Answer, ReadError, Check, Command, Goto, sessionVars, timerVars
    <2>2. PICK l \in Labels : pc' = [pc EXCEPT ![c] = l]
        BY <1>8
        DEF Greet, Hello, Answer, ReadError, Check, Command, Goto, Labels, Unattached, Attached
    <2>. QED
        BY <2>1, <2>2
<1>9. ASSUME NEW c \in Conns, Sync(c) \/ Pump(c) \/ Drop(c) PROVE OfflineSessionsExpire'
    BY <1>1, <1>9
    DEF Sync, Pump, PumpStart, PumpTake, PumpCheck, PumpWrite, Drop, sessionVars, handlerVars,
        timerVars
<1>10. ASSUME NEW s \in Sessions, LeaveRemoved(s) PROVE OfflineSessionsExpire'
    BY <1>1, <1>10 DEF LeaveRemoved, handlerVars
<1>11. ASSUME NEW c \in Conns, NEW d \in Conns, WritersClash(c, d)
       PROVE  OfflineSessionsExpire'
    BY <1>1, <1>11 DEF WritersClash, sessionVars, handlerVars, timerVars
<1>12. CASE Broadcast
    BY <1>1, <1>12 DEF Broadcast, sessionVars, handlerVars, timerVars
<1>13. CASE UNCHANGED vars
    BY <1>1, <1>13 DEF vars, sessionVars, handlerVars, timerVars
<1>. QED
    BY <1>2, <1>3, <1>4, <1>5, <1>6, <1>7, <1>8, <1>9, <1>10, <1>11, <1>12, <1>13
    DEF Next, Handler

\* A known player without a connection has a timer running, or a restart has made
\* the session and nobody has come for it.
THEOREM OfflineIsWaitedFor == Spec => []OfflineSessionsExpire
<1>1. Init => OfflineSessionsExpire
    BY DEF Init, OfflineSessionsExpire, Absent, NotYetBack
<1>2. TypeOK /\ OfflineSessionsExpire /\ [Next]_vars => OfflineSessionsExpire'
    BY OfflineStep
<1>. QED
    BY <1>1, <1>2, TypeCorrect, PTL DEF Spec

(***************************************************************************)
(* Open connections have a writer.                                         *)
(***************************************************************************)

\* A pump that leaves is not the one that serves the session's connection, or
\* finds this connection closed; one that starts takes the connection of the
\* moment.
LEMMA WriterStep ==
    ASSUME TypeOK, CurrentHasHandler, CurrentConnHasWriter, [Next]_vars,
           NEW s \in Sessions, NEW x \in Conns, conn'[s] = x, x \in open'
    PROVE  \E p \in Conns :
               /\ sess'[p] = s
               /\ \/ pump'[p] = "start"
                  \/ pump'[p] \in {"ready", "check", "write"} /\ pumpConn'[p] = x
<1>. DEFINE Served == \E p \in Conns :
                          /\ sess'[p] = s
                          /\ \/ pump'[p] = "start"
                             \/ pump'[p] \in {"ready", "check", "write"} /\ pumpConn'[p] = x
<1>. USE SessionFacts DEF TypeOK, CurrentConnHasWriter, WillServe, Unattached, Attached
<1>. SUFFICES Served
    OBVIOUS
<1>1. CASE UNCHANGED <<conn, sess, pump, pumpConn>> /\ open' \subseteq open
    BY <1>1
<1>2. ASSUME NEW c \in Conns, Connect(c) PROVE Served
    <2>1. \A t \in Sessions : conn[t] # c
        BY <1>2 DEF Connect, CurrentHasHandler
    <2>2. /\ conn' = conn /\ UNCHANGED pumpVars
          /\ open' = open \cup {c} /\ \A p \in Conns : p # c => sess'[p] = sess[p]
        BY <1>2 DEF Connect, sessionVars
    <2>3. pump[c] = "none"
        BY <1>2 DEF Connect
    <2>4. conn[s] = x /\ x \in open
        BY <2>1, <2>2
    <2>5. PICK p \in Conns : sess[p] = s /\ WillServe(p, x)
        BY <2>4
    <2>6. p # c
        BY <2>3, <2>5
    <2>. QED
        BY <2>2, <2>5, <2>6 DEF pumpVars
<1>3. ASSUME NEW c \in Conns, Create(c) PROVE Served
    <2>1. /\ conn' = [conn EXCEPT ![c] = c] /\ sess' = [sess EXCEPT ![c] = c]
          /\ pump' = [pump EXCEPT ![c] = "start"] /\ UNCHANGED <<open, pumpConn>>
          /\ pump[c] = "none"
        BY <1>3 DEF Create
    <2>2. CASE s = c
        BY <2>1, <2>2
    <2>3. CASE s # c
        <3>1. PICK p \in Conns : sess[p] = s /\ WillServe(p, x)
            BY <2>1, <2>3
        <3>. QED
            BY <2>1, <3>1
    <2>. QED
        BY <2>2, <2>3
<1>4. ASSUME NEW c \in Conns, Attach(c) PROVE Served
    <2>1. /\ conn' = [conn EXCEPT ![sess[c]] = c] /\ sess' = sess
          /\ pump' = [pump EXCEPT ![c] = "start"] /\ UNCHANGED <<open, pumpConn>>
          /\ pump[c] = "none"
        BY <1>4 DEF Attach, Goto
    <2>2. CASE s = sess[c]
        BY <2>1, <2>2
    <2>3. CASE s # sess[c]
        <3>1. PICK p \in Conns : sess[p] = s /\ WillServe(p, x)
            BY <2>1, <2>3
        <3>. QED
            BY <2>1, <3>1
    <2>. QED
        BY <2>2, <2>3
<1>5. ASSUME NEW c \in Conns, Clear(c) PROVE Served
    <2>1. /\ conn' = [conn EXCEPT ![sess[c]] = None]
          /\ UNCHANGED <<open, sess, pump, pumpConn>>
        BY <1>5 DEF Clear, Goto, pumpVars
    <2>. QED
        BY <2>1, ConstantsAssumption
<1>6. ASSUME NEW c \in Conns, PumpStart(c) PROVE Served
    <2>1. /\ pumpConn' = [pumpConn EXCEPT ![c] = conn[sess[c]]]
          /\ pump' = [pump EXCEPT ![c] = "ready"] /\ pump[c] = "start"
          /\ UNCHANGED <<open, sess, conn>>
        BY <1>6 DEF PumpStart, sessionVars, handlerVars
    <2>2. PICK p \in Conns : sess[p] = s /\ WillServe(p, x)
        BY <2>1
    <2>. QED
        BY <2>1, <2>2
<1>7. ASSUME NEW c \in Conns, PumpTake(c) PROVE Served
    <2>1. /\ pump' = [pump EXCEPT ![c] = "check"] /\ pump[c] = "ready"
          /\ UNCHANGED <<open, sess, conn, pumpConn>>
        BY <1>7 DEF PumpTake, sessionVars, handlerVars
    <2>2. PICK p \in Conns : sess[p] = s /\ WillServe(p, x)
        BY <2>1
    <2>. QED
        BY <2>1, <2>2
<1>8. ASSUME NEW c \in Conns, PumpCheck(c) \/ PumpWrite(c) PROVE Served
    <2>1. UNCHANGED <<sess, conn, pumpConn>> /\ open' \subseteq open
        BY <1>8 DEF PumpCheck, PumpWrite, PumpExit, sessionVars, handlerVars
    <2>2. \/ PumpExit(c) /\ (conn[sess[c]] # pumpConn[c] \/ pumpConn[c] \notin open)
          \/ pump' \in {[pump EXCEPT ![c] = "write"], [pump EXCEPT ![c] = "ready"]}
        BY <1>8 DEF PumpCheck, PumpWrite, IsStale
    <2>3. pump[c] \in {"check", "write"}
        BY <1>8 DEF PumpCheck, PumpWrite
    <2>4. CASE PumpExit(c) /\ (conn[sess[c]] # pumpConn[c] \/ pumpConn[c] \notin open)
        <3>1. PICK p \in Conns : sess[p] = s /\ WillServe(p, x)
            BY <2>1
        <3>2. p # c
            BY <2>1, <2>3, <2>4, <3>1
        <3>3. pump'[p] = pump[p]
            BY <2>4, <3>2 DEF PumpExit
        <3>. QED
            BY <2>1, <3>1, <3>3
    <2>5. CASE pump' \in {[pump EXCEPT ![c] = "write"], [pump EXCEPT ![c] = "ready"]}
        <3>1. PICK p \in Conns : sess[p] = s /\ WillServe(p, x)
            BY <2>1
        <3>. QED
            BY <2>1, <2>3, <2>5, <3>1
    <2>. QED
        BY <2>2, <2>4, <2>5
<1>9. ASSUME NEW c \in Conns, \/ Test(c) \/ CloseOld(c) \/ Greet(c) \/ Hello(c)
                              \/ Answer(c) \/ ReadError(c) \/ Check(c)
      PROVE  Served
    BY <1>1, <1>9
    DEF Test, CloseOld, Greet, Hello, Answer, ReadError, Check, Goto, sessionVars, pumpVars
<1>10. ASSUME NEW c \in Conns, Command(c) \/ Sync(c) \/ Drop(c)
       PROVE  Served
    BY <1>1, <1>10
    DEF Command, Sync, Drop, Goto, sessionVars, handlerVars, pumpVars
<1>11. ASSUME NEW c \in Conns, NEW d \in Conns, WritersClash(c, d)
       PROVE  Served
    BY <1>1, <1>11 DEF WritersClash, sessionVars, handlerVars, pumpVars
<1>12. CASE Expire \/ Broadcast
    BY <1>1, <1>12 DEF Expire, Broadcast, sessionVars, handlerVars, pumpVars
<1>13. CASE UNCHANGED vars
    BY <1>1, <1>13 DEF vars, sessionVars, handlerVars, pumpVars
<1>14. ASSUME NEW t \in Sessions, LeaveRemoved(t) PROVE Served
    BY <1>1, <1>14 DEF LeaveRemoved, sessionVars, handlerVars, pumpVars
<1>. QED
    BY <1>2, <1>3, <1>4, <1>5, <1>6, <1>7, <1>8, <1>9, <1>10, <1>11, <1>12, <1>13, <1>14
    DEF Next, Handler, Pump

\* A session's connection that is open has a pump that writes to it, or will.
THEOREM OpenConnectionsAreServed == Spec => []CurrentConnHasWriter
<1>1. Init => CurrentConnHasWriter
    BY ConstantsAssumption DEF Init, CurrentConnHasWriter
<1>2. TypeOK /\ CurrentHasHandler /\ CurrentConnHasWriter /\ [Next]_vars
      => CurrentConnHasWriter'
    BY WriterStep DEF CurrentConnHasWriter, WillServe
<1>. QED
    BY <1>1, <1>2, CurrentIsServed, TypeCorrect, PTL DEF Spec
=============================================================================
