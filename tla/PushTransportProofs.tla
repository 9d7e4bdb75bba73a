------------------------ MODULE PushTransportProofs ------------------------
(* Theorems about PushTransport, for every set of slots and every policy. *)
EXTENDS PushTransport, TLAPS

USE SlotsAssumption, PolicyAssumption

(* The delay stays within the policy. *)
LEMMA NextDelayBounded ==
    ASSUME NEW d \in 0 .. MaxDelay
    PROVE  NextDelay(d) \in 0 .. MaxDelay
<1>1. CASE d = 0
  BY <1>1 DEF NextDelay
<1>2. CASE d # 0 /\ d * Multiplier <= MaxDelay
  <2>1. d * Multiplier \in Nat
    BY <1>2
  <2> QED
    BY <1>2, <2>1 DEF NextDelay
<1>3. CASE d # 0 /\ ~(d * Multiplier <= MaxDelay)
  BY <1>3 DEF NextDelay
<1> QED
  BY <1>1, <1>2, <1>3

LEMMA InitType == Init => TypeOK
<1> SUFFICES ASSUME Init PROVE TypeOK
  OBVIOUS
<1>1. /\ running \in BOOLEAN /\ pending \in BOOLEAN
      /\ websocket \in OptConn /\ readerTask \in OptConn /\ heartbeatTask \in OptConn
      /\ reconnectTask \in OptRec
      /\ startedAt \in {"none", "fresh", "aged"}
      /\ open \subseteq Conns /\ closeRaises \in BOOLEAN
  BY DEF Init, OptConn, OptRec
<1>5. nextDelay \in 0 .. MaxDelay
  BY DEF Init
<1>2. /\ reader \in [Conns -> ReaderPC]
      /\ heartbeat \in [Conns -> HeartbeatPC]
      /\ readerWaits \in [Conns -> OptConn]
      /\ heartbeatWaits \in [Conns -> OptConn]
  BY DEF Init, OptConn, ReaderPC, HeartbeatPC
<1>3. pc \in [Connectors -> ConnectorPC] /\ conn \in [Connectors -> OptConn]
  BY DEF Init, OptConn, Connectors, ConnectorPC
<1>4. stop \in [pc : StopPC, rec : OptRec, hb : OptConn, rd : OptConn, ws : OptConn]
  BY DEF Init, StopPC, OptConn, OptRec
<1> QED
  BY <1>1, <1>2, <1>3, <1>4, <1>5 DEF TypeOK

(* Scheduling a reconnect and the head of the reconnect loop keep the types. *)
LEMMA ScheduleType ==
    ASSUME TypeOK, NEW p \in [Connectors -> ConnectorPC], ScheduleReconnect(p)
    PROVE  reconnectTask' \in OptRec /\ pc' \in [Connectors -> ConnectorPC] /\ pending' \in BOOLEAN
BY DEF TypeOK, ScheduleReconnect, OptRec, Connectors, ConnectorPC

LEMMA LoopType ==
    ASSUME TypeOK, NEW t \in Recs, NEW ws, ReconnectLoop(t, ws)
    PROVE  /\ reconnectTask' \in OptRec /\ pc' \in [Connectors -> ConnectorPC]
           /\ pending' \in BOOLEAN /\ nextDelay' \in 0 .. MaxDelay
<1>1. NextDelay(nextDelay) \in 0 .. MaxDelay
  BY NextDelayBounded DEF TypeOK
<1>2. reconnectTask' \in OptRec /\ pending' \in BOOLEAN /\ nextDelay' \in 0 .. MaxDelay
  BY <1>1 DEF TypeOK, ReconnectLoop, OptRec
<1>3. pc' \in [Connectors -> ConnectorPC]
  BY DEF TypeOK, ReconnectLoop, Connectors, ConnectorPC
<1> QED
  BY <1>2, <1>3

LEMMA AttemptType ==
    ASSUME TypeOK, NEW k \in Connectors, AttemptFailed(k)
    PROVE  /\ reconnectTask' \in OptRec /\ pc' \in [Connectors -> ConnectorPC]
           /\ pending' \in BOOLEAN /\ nextDelay' \in 0 .. MaxDelay
<1>1. CASE k = Starter
  <2> DEFINE p == [pc EXCEPT ![Starter] = "done"]
  <2>1. p \in [Connectors -> ConnectorPC]
    BY DEF TypeOK, ConnectorPC
  <2>2. ScheduleReconnect(p) /\ nextDelay' = nextDelay
    BY <1>1 DEF AttemptFailed
  <2> HIDE DEF p
  <2>3. reconnectTask' \in OptRec /\ pc' \in [Connectors -> ConnectorPC] /\ pending' \in BOOLEAN
    BY <2>1, <2>2, ScheduleType
  <2> QED
    BY <2>2, <2>3 DEF TypeOK
<1>2. CASE k # Starter
  <2>1. k \in Recs /\ ReconnectLoop(k, websocket)
    BY <1>2 DEF AttemptFailed, Connectors
  <2> QED
    BY <2>1, LoopType
<1> QED
  BY <1>1, <1>2

LEMMA ProceedType ==
    ASSUME TypeOK, NEW rec \in OptRec, NEW hb \in OptConn, NEW rd \in OptConn,
           StopProceeds(rec, hb, rd)
    PROVE  /\ stop' \in [pc : StopPC, rec : OptRec, hb : OptConn, rd : OptConn, ws : OptConn]
           /\ pc' \in [Connectors -> ConnectorPC]
           /\ heartbeat' \in [Conns -> HeartbeatPC]
           /\ reader' \in [Conns -> ReaderPC]
<1>1. pc' \in [Connectors -> ConnectorPC]
  BY DEF TypeOK, StopProceeds, ConnectorPC
<1>2. heartbeat' \in [Conns -> HeartbeatPC]
  BY DEF TypeOK, StopProceeds, HeartbeatPC
<1>3. reader' \in [Conns -> ReaderPC]
  BY DEF TypeOK, StopProceeds, CancelReader, ReaderPC
<1>4. stop' \in [pc : StopPC, rec : OptRec, hb : OptConn, rd : OptConn, ws : OptConn]
  BY DEF TypeOK, StopProceeds, StopPC, OptConn, OptRec
<1> QED
  BY <1>1, <1>2, <1>3, <1>4

LEMMA TypeStep ==
    ASSUME TypeOK, [Next]_vars, UNCHANGED closeRaises
    PROVE  TypeOK'
<1> USE DEF TypeOK, OptConn, OptRec, handles, health, tasks
<1>1. CASE StartCall
  BY <1>1 DEF StartCall, Connectors, ConnectorPC, ReaderPC, HeartbeatPC
<1>2. CASE StartRejected
  <2>1. pc' \in [Connectors -> ConnectorPC]
    BY <1>2 DEF StartRejected, ConnectorPC
  <2>2. /\ running' \in BOOLEAN
        /\ UNCHANGED <<websocket, readerTask, heartbeatTask, reconnectTask, nextDelay, startedAt,
                       pending, reader, readerWaits, heartbeat, heartbeatWaits, conn, stop, open>>
    BY <1>2 DEF StartRejected
  <2> QED
    BY <2>1, <2>2
<1>3. ASSUME NEW k \in Connectors, ConnectFails(k) PROVE TypeOK'
  BY <1>3, AttemptType DEF ConnectFails
<1>4. ASSUME NEW k \in Connectors, ConnectSucceeds(k) PROVE TypeOK'
  <2>1. PICK c \in Conns : websocket' = c /\ conn' = [conn EXCEPT ![k] = c] /\ open' = open \cup {c}
    BY <1>4 DEF ConnectSucceeds
  <2>2. conn' \in [Connectors -> OptConn] /\ open' \subseteq Conns
    BY <2>1
  <2>3. pc' \in [Connectors -> ConnectorPC]
    BY <1>4 DEF ConnectSucceeds, ConnectorPC
  <2> QED
    BY <1>4, <2>1, <2>2, <2>3 DEF ConnectSucceeds
<1>5. ASSUME NEW k \in Connectors, SubscribeSucceeds(k) PROVE TypeOK'
  <2>1. /\ reader' \in [Conns -> ReaderPC] /\ heartbeat' \in [Conns -> HeartbeatPC]
        /\ conn' \in [Connectors -> OptConn]
        /\ readerTask' \in OptConn /\ heartbeatTask' \in OptConn
    BY <1>5 DEF SubscribeSucceeds, ReaderPC, HeartbeatPC
  <2>2. CASE k = Starter
    <3>1. pc' \in [Connectors -> ConnectorPC]
      BY <1>5, <2>2 DEF SubscribeSucceeds, ConnectorPC
    <3> QED
      BY <1>5, <2>1, <2>2, <3>1 DEF SubscribeSucceeds
  <2>3. CASE k # Starter
    <3>1. ReconnectLoop(k, websocket) /\ k \in Recs
      BY <1>5, <2>3 DEF SubscribeSucceeds, Connectors
    <3> QED
      BY <1>5, <2>1, <3>1, LoopType DEF SubscribeSucceeds
  <2> QED
    BY <2>2, <2>3
<1>6. ASSUME NEW k \in Connectors, SubscribeFails(k) PROVE TypeOK'
  BY <1>6 DEF SubscribeFails, Connectors, ConnectorPC, ReaderPC, HeartbeatPC
<1>7. ASSUME NEW k \in Connectors, SubscribeClosed(k) PROVE TypeOK'
  BY <1>7, AttemptType DEF SubscribeClosed
<1>8. ASSUME NEW t \in Recs, ReconnectBegin(t) PROVE TypeOK'
  BY <1>8, LoopType DEF ReconnectBegin, Connectors, ConnectorPC, ReaderPC, HeartbeatPC
<1>9. ASSUME NEW t \in Recs, ReconnectWake(t) PROVE TypeOK'
  BY <1>9 DEF ReconnectWake, Connectors, ConnectorPC, ReaderPC, HeartbeatPC
<1>10. ASSUME NEW t \in Recs, ReconnectCancelled(t) PROVE TypeOK'
  BY <1>10 DEF ReconnectCancelled, Connectors, ConnectorPC, ReaderPC, HeartbeatPC
<1>11. ASSUME NEW c \in Conns, ReaderBegin(c) PROVE TypeOK'
  BY <1>11 DEF ReaderBegin, ReaderPC
<1>12. ASSUME NEW c \in Conns, ReaderDispatch(c) PROVE TypeOK'
  BY <1>12 DEF ReaderDispatch, ReaderPC
<1>13. ASSUME NEW c \in Conns, ReaderDispatched(c) PROVE TypeOK'
  BY <1>13 DEF ReaderDispatched, ReaderPC
<1>14. ASSUME NEW c \in Conns, ReaderEnds(c) PROVE TypeOK'
  BY <1>14, ScheduleType DEF ReaderEnds, ReaderPC, CancelHeartbeatTask, ReaderDisowned, DelayAfterLoss, HeartbeatPC
<1>15. ASSUME NEW c \in Conns, ReaderFails(c) PROVE TypeOK'
  BY <1>15, ScheduleType DEF ReaderFails, ReaderPC, CancelHeartbeatTask, ReaderDisowned, DelayAfterLoss, HeartbeatPC
<1>16. ASSUME NEW c \in Conns, ReaderHeartbeatGone(c) PROVE TypeOK'
  BY <1>16, ScheduleType DEF ReaderHeartbeatGone, ReaderPC
<1>17. ASSUME NEW c \in Conns, ReaderCancelled(c) PROVE TypeOK'
  BY <1>17, ScheduleType DEF ReaderCancelled, ReaderPC, ReaderDisowned
<1>18. ASSUME NEW c \in Conns, NEW ok \in BOOLEAN, ReaderClosed(c, ok) PROVE TypeOK'
  BY <1>18, ScheduleType DEF ReaderClosed, CancelHeartbeatTask, ReaderPC, HeartbeatPC
<1>19. CASE TimePasses
  BY <1>19 DEF TimePasses
<1>20. ASSUME NEW c \in Conns, HeartbeatFires(c) PROVE TypeOK'
  BY <1>20 DEF HeartbeatFires, HeartbeatPC, ForgetHeartbeat
<1>21. ASSUME NEW c \in Conns, HeartbeatSent(c) PROVE TypeOK'
  BY <1>21 DEF HeartbeatSent, HeartbeatPC
<1>22. ASSUME NEW c \in Conns, HeartbeatFails(c) PROVE TypeOK'
  BY <1>22, ScheduleType DEF HeartbeatFails, HeartbeatPC, ForgetHeartbeat, CancelReader, HeartbeatCloses, DelayAfterLoss, ReaderPC
<1>23. ASSUME NEW c \in Conns, HeartbeatReaderGone(c) PROVE TypeOK'
  BY <1>23, ScheduleType DEF HeartbeatReaderGone, HeartbeatPC, HeartbeatCloses, DelayAfterLoss
<1>24. ASSUME NEW c \in Conns, NEW ok \in BOOLEAN, HeartbeatClosed(c, ok) PROVE TypeOK'
  BY <1>24, ScheduleType DEF HeartbeatClosed, HeartbeatPC
<1>25. ASSUME NEW c \in Conns, HeartbeatCancelled(c) PROVE TypeOK'
  BY <1>25 DEF HeartbeatCancelled, HeartbeatPC, ForgetHeartbeat
<1>26. CASE StopCall
  BY <1>26, ProceedType DEF StopCall
<1>27. CASE StopTaskGone
  BY <1>27, ProceedType DEF StopTaskGone
<1>28. ASSUME NEW ok \in BOOLEAN, StopClosed(ok) PROVE TypeOK'
  <2>1. stop' \in [pc : StopPC, rec : OptRec, hb : OptConn, rd : OptConn, ws : OptConn]
    BY <1>28 DEF StopClosed, StopPC
  <2>2. websocket' \in OptConn /\ open' \subseteq Conns
    BY <1>28 DEF StopClosed
  <2> QED
    BY <1>28, <2>1, <2>2 DEF StopClosed
<1>29. CASE Finished
  BY <1>29 DEF Finished, vars
<1>30. CASE UNCHANGED vars
  BY <1>30 DEF vars
<1> QED
  BY <1>1, <1>2, <1>3, <1>4, <1>5, <1>6, <1>7, <1>8, <1>9, <1>10, <1>11, <1>12, <1>13, <1>14, <1>15, <1>16, <1>17, <1>18, <1>19, <1>20, <1>21, <1>22, <1>23, <1>24, <1>25, <1>26, <1>27, <1>28, <1>29, <1>30 DEF Next, ConnectorNext, ReconnectNext, ReaderNext, HeartbeatNext, StopNext

(* Every variable keeps its type: in particular a backoff delay never leaves   *)
(* the range of the policy (PushReconnectPolicy.next_delay).                 *)
THEOREM TypeCorrect == Spec => []TypeOK
<1>1. TypeOK /\ [Next /\ UNCHANGED closeRaises]_<<vars, closeRaises>> => TypeOK'
  BY TypeStep
<1> QED
  BY InitType, <1>1, PTL DEF Spec

LEMMA TaskStep == TypeOK /\ TaskInv /\ [Next]_vars => TaskInv'
<1> SUFFICES ASSUME TypeOK, TaskInv, [Next]_vars PROVE TaskInv'
  OBVIOUS
<1> USE DEF TypeOK, TaskInv, HandlesInv, StartInv, ConnectInv, HeartbeatInv, StopInv,
        Alive, Beating, ReconnectAlive, OptConn, OptRec, Connectors, handles, health, tasks
<1>1. CASE StartCall
  BY <1>1 DEF StartCall
<1>2. CASE StartRejected
  BY <1>2 DEF StartRejected
<1>3. ASSUME NEW k \in Connectors, ConnectFails(k) PROVE TaskInv'
  BY <1>3 DEF ConnectFails, AttemptFailed, ScheduleReconnect, ReconnectLoop
<1>4. ASSUME NEW k \in Connectors, ConnectSucceeds(k) PROVE TaskInv'
  BY <1>4 DEF ConnectSucceeds, FreeConn
<1>5. ASSUME NEW k \in Connectors, SubscribeSucceeds(k) PROVE TaskInv'
  BY <1>5 DEF SubscribeSucceeds, ReconnectLoop
<1>6. ASSUME NEW k \in Connectors, SubscribeFails(k) PROVE TaskInv'
  BY <1>6 DEF SubscribeFails
<1>7. ASSUME NEW k \in Connectors, SubscribeClosed(k) PROVE TaskInv'
  BY <1>7 DEF SubscribeClosed, AttemptFailed, ScheduleReconnect, ReconnectLoop
<1>8. ASSUME NEW t \in Recs, ReconnectBegin(t) PROVE TaskInv'
  BY <1>8 DEF ReconnectBegin, ReconnectLoop
<1>9. ASSUME NEW t \in Recs, ReconnectWake(t) PROVE TaskInv'
  BY <1>9 DEF ReconnectWake
<1>10. ASSUME NEW t \in Recs, ReconnectCancelled(t) PROVE TaskInv'
  BY <1>10 DEF ReconnectCancelled
<1>11. ASSUME NEW c \in Conns, ReaderBegin(c) PROVE TaskInv'
  BY <1>11 DEF ReaderBegin
<1>12. ASSUME NEW c \in Conns, ReaderDispatch(c) PROVE TaskInv'
  BY <1>12 DEF ReaderDispatch
<1>13. ASSUME NEW c \in Conns, ReaderDispatched(c) PROVE TaskInv'
  BY <1>13 DEF ReaderDispatched
<1>14. ASSUME NEW c \in Conns, ReaderEnds(c) PROVE TaskInv'
  BY <1>14 DEF ReaderEnds, CancelHeartbeatTask, ReaderDisowned, ScheduleReconnect
<1>15. ASSUME NEW c \in Conns, ReaderFails(c) PROVE TaskInv'
  BY <1>15 DEF ReaderFails, CancelHeartbeatTask, ReaderDisowned, ScheduleReconnect
<1>16. ASSUME NEW c \in Conns, NEW ok \in BOOLEAN, ReaderClosed(c, ok) PROVE TaskInv'
  BY <1>16 DEF ReaderClosed, CancelHeartbeatTask, ScheduleReconnect
<1>17. ASSUME NEW c \in Conns, ReaderHeartbeatGone(c) PROVE TaskInv'
  BY <1>17 DEF ReaderHeartbeatGone, ScheduleReconnect
<1>18. ASSUME NEW c \in Conns, ReaderCancelled(c) PROVE TaskInv'
  BY <1>18 DEF ReaderCancelled, ReaderDisowned, ScheduleReconnect
<1>19. CASE TimePasses
  BY <1>19 DEF TimePasses
<1>20. ASSUME NEW c \in Conns, HeartbeatFires(c) PROVE TaskInv'
  BY <1>20 DEF HeartbeatFires, ForgetHeartbeat
<1>21. ASSUME NEW c \in Conns, HeartbeatSent(c) PROVE TaskInv'
  BY <1>21 DEF HeartbeatSent
<1>22. ASSUME NEW c \in Conns, HeartbeatFails(c) PROVE TaskInv'
  BY <1>22 DEF HeartbeatFails, ForgetHeartbeat, CancelReader, HeartbeatCloses, ScheduleReconnect
<1>23. ASSUME NEW c \in Conns, HeartbeatReaderGone(c) PROVE TaskInv'
  BY <1>23 DEF HeartbeatReaderGone, HeartbeatCloses, ScheduleReconnect
<1>24. ASSUME NEW c \in Conns, NEW ok \in BOOLEAN, HeartbeatClosed(c, ok) PROVE TaskInv'
  BY <1>24 DEF HeartbeatClosed, ScheduleReconnect
<1>25. ASSUME NEW c \in Conns, HeartbeatCancelled(c) PROVE TaskInv'
  BY <1>25 DEF HeartbeatCancelled, ForgetHeartbeat
<1>26. CASE StopCall
  BY <1>26 DEF StopCall, StopProceeds, Dead, CancelReader
<1>27. CASE StopTaskGone
  BY <1>27 DEF StopTaskGone, StopProceeds, Dead, CancelReader
<1>28. ASSUME NEW ok \in BOOLEAN, StopClosed(ok) PROVE TaskInv'
  BY <1>28 DEF StopClosed
<1>29. CASE Finished
  BY <1>29 DEF Finished, vars
<1>30. CASE UNCHANGED vars
  BY <1>30 DEF vars
<1> HIDE DEF TypeOK, TaskInv, HandlesInv, StartInv, ConnectInv, HeartbeatInv, StopInv
<1> QED
  BY <1>1, <1>2, <1>3, <1>4, <1>5, <1>6, <1>7, <1>8, <1>9, <1>10, <1>11, <1>12, <1>13, <1>14, <1>15, <1>16, <1>17, <1>18, <1>19, <1>20, <1>21, <1>22, <1>23, <1>24, <1>25, <1>26, <1>27, <1>28, <1>29, <1>30 DEF Next, ConnectorNext, ReconnectNext, ReaderNext, HeartbeatNext, StopNext

(* Under a close() that does not raise, a websocket is always served or being   *)
(* taken down by a task that reschedules.                                    *)
LEMMA ServedStep ==
    ASSUME closeRaises = FALSE, TypeOK, TaskInv, ServedInv, [Next]_vars
    PROVE  ServedInv'
<1> USE DEF TypeOK, TaskInv, HandlesInv, StartInv, ConnectInv, HeartbeatInv, StopInv, ServedInv,
        Alive, Beating, Repairing, ReconnectAlive, OptConn, OptRec, Connectors, handles, health,
        tasks
<1>1. CASE StartCall
  BY <1>1 DEF StartCall
<1>2. CASE StartRejected
  BY <1>2 DEF StartRejected
<1>3. ASSUME NEW k \in Connectors, ConnectFails(k) PROVE ServedInv'
  BY <1>3 DEF ConnectFails, AttemptFailed, ScheduleReconnect, ReconnectLoop
<1>4. ASSUME NEW k \in Connectors, ConnectSucceeds(k) PROVE ServedInv'
  BY <1>4 DEF ConnectSucceeds, FreeConn
<1>5. ASSUME NEW k \in Connectors, SubscribeSucceeds(k) PROVE ServedInv'
  BY <1>5 DEF SubscribeSucceeds, ReconnectLoop
<1>6. ASSUME NEW k \in Connectors, SubscribeFails(k) PROVE ServedInv'
  BY <1>6 DEF SubscribeFails
<1>7. ASSUME NEW k \in Connectors, SubscribeClosed(k) PROVE ServedInv'
  BY <1>7 DEF SubscribeClosed, AttemptFailed, ScheduleReconnect, ReconnectLoop
<1>8. ASSUME NEW t \in Recs, ReconnectBegin(t) PROVE ServedInv'
  BY <1>8 DEF ReconnectBegin, ReconnectLoop
<1>9. ASSUME NEW t \in Recs, ReconnectWake(t) PROVE ServedInv'
  BY <1>9 DEF ReconnectWake
<1>10. ASSUME NEW t \in Recs, ReconnectCancelled(t) PROVE ServedInv'
  BY <1>10 DEF ReconnectCancelled
<1>11. ASSUME NEW c \in Conns, ReaderBegin(c) PROVE ServedInv'
  BY <1>11 DEF ReaderBegin
<1>12. ASSUME NEW c \in Conns, ReaderDispatch(c) PROVE ServedInv'
  BY <1>12 DEF ReaderDispatch
<1>13. ASSUME NEW c \in Conns, ReaderDispatched(c) PROVE ServedInv'
  BY <1>13 DEF ReaderDispatched
<1>14. ASSUME NEW c \in Conns, ReaderEnds(c) PROVE ServedInv'
  BY <1>14 DEF ReaderEnds, CancelHeartbeatTask, ReaderDisowned, ScheduleReconnect
<1>15. ASSUME NEW c \in Conns, ReaderFails(c) PROVE ServedInv'
  BY <1>15 DEF ReaderFails, CancelHeartbeatTask, ReaderDisowned, ScheduleReconnect
<1>16. ASSUME NEW c \in Conns, NEW ok \in BOOLEAN, ReaderClosed(c, ok) PROVE ServedInv'
  BY <1>16 DEF ReaderClosed, CancelHeartbeatTask, ScheduleReconnect
<1>17. ASSUME NEW c \in Conns, ReaderHeartbeatGone(c) PROVE ServedInv'
  BY <1>17 DEF ReaderHeartbeatGone, ScheduleReconnect
<1>18. ASSUME NEW c \in Conns, ReaderCancelled(c) PROVE ServedInv'
  BY <1>18 DEF ReaderCancelled, ReaderDisowned, ScheduleReconnect
<1>19. CASE TimePasses
  BY <1>19 DEF TimePasses
<1>20. ASSUME NEW c \in Conns, HeartbeatFires(c) PROVE ServedInv'
  BY <1>20 DEF HeartbeatFires, ForgetHeartbeat
<1>21. ASSUME NEW c \in Conns, HeartbeatSent(c) PROVE ServedInv'
  BY <1>21 DEF HeartbeatSent
<1>22. ASSUME NEW c \in Conns, HeartbeatFails(c) PROVE ServedInv'
  BY <1>22 DEF HeartbeatFails, ForgetHeartbeat, CancelReader, HeartbeatCloses, ScheduleReconnect
<1>23. ASSUME NEW c \in Conns, HeartbeatReaderGone(c) PROVE ServedInv'
  BY <1>23 DEF HeartbeatReaderGone, HeartbeatCloses, ScheduleReconnect
<1>24. ASSUME NEW c \in Conns, NEW ok \in BOOLEAN, HeartbeatClosed(c, ok) PROVE ServedInv'
  BY <1>24 DEF HeartbeatClosed, ScheduleReconnect
<1>25. ASSUME NEW c \in Conns, HeartbeatCancelled(c) PROVE ServedInv'
  BY <1>25 DEF HeartbeatCancelled, ForgetHeartbeat
<1>26. CASE StopCall
  BY <1>26 DEF StopCall, StopProceeds, Dead, CancelReader
<1>27. CASE StopTaskGone
  BY <1>27 DEF StopTaskGone, StopProceeds, Dead, CancelReader
<1>28. ASSUME NEW ok \in BOOLEAN, StopClosed(ok) PROVE ServedInv'
  BY <1>28 DEF StopClosed
<1>29. CASE Finished
  BY <1>29 DEF Finished, vars
<1>30. CASE UNCHANGED vars
  BY <1>30 DEF vars
<1> HIDE DEF TypeOK, TaskInv, HandlesInv, StartInv, ConnectInv, HeartbeatInv, StopInv, ServedInv
<1> QED
  BY <1>1, <1>2, <1>3, <1>4, <1>5, <1>6, <1>7, <1>8, <1>9, <1>10, <1>11, <1>12, <1>13, <1>14, <1>15, <1>16, <1>17, <1>18, <1>19, <1>20, <1>21, <1>22, <1>23, <1>24, <1>25, <1>26, <1>27, <1>28, <1>29, <1>30 DEF Next, ConnectorNext, ReconnectNext, ReaderNext, HeartbeatNext, StopNext

(* ... and an open websocket is _websocket, or about to be closed by the         *)
(* connector whose subscription failed.                                      *)
LEMMA SocketStep ==
    ASSUME closeRaises = FALSE, TypeOK, TaskInv, SocketInv, [Next]_vars
    PROVE  SocketInv'
<1> USE DEF TypeOK, TaskInv, HandlesInv, StartInv, ConnectInv, HeartbeatInv, StopInv, SocketInv,
        Alive, Beating, ReconnectAlive, OptConn, OptRec, Connectors, handles, health,
        tasks
<1>1. CASE StartCall
  BY <1>1 DEF StartCall
<1>2. CASE StartRejected
  BY <1>2 DEF StartRejected
<1>3. ASSUME NEW k \in Connectors, ConnectFails(k) PROVE SocketInv'
  BY <1>3 DEF ConnectFails, AttemptFailed, ScheduleReconnect, ReconnectLoop
<1>4. ASSUME NEW k \in Connectors, ConnectSucceeds(k) PROVE SocketInv'
  BY <1>4 DEF ConnectSucceeds, FreeConn
<1>5. ASSUME NEW k \in Connectors, SubscribeSucceeds(k) PROVE SocketInv'
  BY <1>5 DEF SubscribeSucceeds, ReconnectLoop
<1>6. ASSUME NEW k \in Connectors, SubscribeFails(k) PROVE SocketInv'
  BY <1>6 DEF SubscribeFails
<1>7. ASSUME NEW k \in Connectors, SubscribeClosed(k) PROVE SocketInv'
  BY <1>7 DEF SubscribeClosed, AttemptFailed, ScheduleReconnect, ReconnectLoop
<1>8. ASSUME NEW t \in Recs, ReconnectBegin(t) PROVE SocketInv'
  BY <1>8 DEF ReconnectBegin, ReconnectLoop
<1>9. ASSUME NEW t \in Recs, ReconnectWake(t) PROVE SocketInv'
  BY <1>9 DEF ReconnectWake
<1>10. ASSUME NEW t \in Recs, ReconnectCancelled(t) PROVE SocketInv'
  BY <1>10 DEF ReconnectCancelled
<1>11. ASSUME NEW c \in Conns, ReaderBegin(c) PROVE SocketInv'
  BY <1>11 DEF ReaderBegin
<1>12. ASSUME NEW c \in Conns, ReaderDispatch(c) PROVE SocketInv'
  BY <1>12 DEF ReaderDispatch
<1>13. ASSUME NEW c \in Conns, ReaderDispatched(c) PROVE SocketInv'
  BY <1>13 DEF ReaderDispatched
<1>14. ASSUME NEW c \in Conns, ReaderEnds(c) PROVE SocketInv'
  BY <1>14 DEF ReaderEnds, CancelHeartbeatTask, ReaderDisowned, ScheduleReconnect
<1>15. ASSUME NEW c \in Conns, ReaderFails(c) PROVE SocketInv'
  BY <1>15 DEF ReaderFails, CancelHeartbeatTask, ReaderDisowned, ScheduleReconnect
<1>16. ASSUME NEW c \in Conns, NEW ok \in BOOLEAN, ReaderClosed(c, ok) PROVE SocketInv'
  BY <1>16 DEF ReaderClosed, CancelHeartbeatTask, ScheduleReconnect
<1>17. ASSUME NEW c \in Conns, ReaderHeartbeatGone(c) PROVE SocketInv'
  BY <1>17 DEF ReaderHeartbeatGone, ScheduleReconnect
<1>18. ASSUME NEW c \in Conns, ReaderCancelled(c) PROVE SocketInv'
  BY <1>18 DEF ReaderCancelled, ReaderDisowned, ScheduleReconnect
<1>19. CASE TimePasses
  BY <1>19 DEF TimePasses
<1>20. ASSUME NEW c \in Conns, HeartbeatFires(c) PROVE SocketInv'
  BY <1>20 DEF HeartbeatFires, ForgetHeartbeat
<1>21. ASSUME NEW c \in Conns, HeartbeatSent(c) PROVE SocketInv'
  BY <1>21 DEF HeartbeatSent
<1>22. ASSUME NEW c \in Conns, HeartbeatFails(c) PROVE SocketInv'
  BY <1>22 DEF HeartbeatFails, ForgetHeartbeat, CancelReader, HeartbeatCloses, ScheduleReconnect
<1>23. ASSUME NEW c \in Conns, HeartbeatReaderGone(c) PROVE SocketInv'
  BY <1>23 DEF HeartbeatReaderGone, HeartbeatCloses, ScheduleReconnect
<1>24. ASSUME NEW c \in Conns, NEW ok \in BOOLEAN, HeartbeatClosed(c, ok) PROVE SocketInv'
  BY <1>24 DEF HeartbeatClosed, ScheduleReconnect
<1>25. ASSUME NEW c \in Conns, HeartbeatCancelled(c) PROVE SocketInv'
  BY <1>25 DEF HeartbeatCancelled, ForgetHeartbeat
<1>26. CASE StopCall
  BY <1>26 DEF StopCall, StopProceeds, Dead, CancelReader
<1>27. CASE StopTaskGone
  BY <1>27 DEF StopTaskGone, StopProceeds, Dead, CancelReader
<1>28. ASSUME NEW ok \in BOOLEAN, StopClosed(ok) PROVE SocketInv'
  BY <1>28 DEF StopClosed
<1>29. CASE Finished
  BY <1>29 DEF Finished, vars
<1>30. CASE UNCHANGED vars
  BY <1>30 DEF vars
<1> HIDE DEF TypeOK, TaskInv, HandlesInv, StartInv, ConnectInv, HeartbeatInv, StopInv, SocketInv
<1> QED
  BY <1>1, <1>2, <1>3, <1>4, <1>5, <1>6, <1>7, <1>8, <1>9, <1>10, <1>11, <1>12, <1>13, <1>14, <1>15, <1>16, <1>17, <1>18, <1>19, <1>20, <1>21, <1>22, <1>23, <1>24, <1>25, <1>26, <1>27, <1>28, <1>29, <1>30 DEF Next, ConnectorNext, ReconnectNext, ReaderNext, HeartbeatNext, StopNext

LEMMA InitInv == Init => TaskInv /\ ServedInv /\ SocketInv
BY DEF Init, TaskInv, HandlesInv, StartInv, ConnectInv, HeartbeatInv, StopInv, ServedInv,
       SocketInv, Alive, Beating, Connectors

(* The tasks never get in each other's way, for any number of slots and        *)
(* whatever close() does.                                                    *)
THEOREM TasksCorrect == Spec => [](TypeOK /\ TaskInv)
<1>1. Init => TypeOK /\ TaskInv
  BY InitType, InitInv
<1>2. TypeOK /\ TaskInv /\ [Next /\ UNCHANGED closeRaises]_<<vars, closeRaises>>
          => (TypeOK /\ TaskInv)'
  BY TypeStep, TaskStep
<1> QED
  BY <1>1, <1>2, PTL DEF Spec

(* At most one task is ever inside _connect_once, and it owns _websocket.      *)
THEOREM OneConnectorAlways == Spec => []OneConnector
<1>1. TypeOK /\ TaskInv => OneConnector
  BY DEF TypeOK, TaskInv, HandlesInv, StartInv, ConnectInv, StopInv, OneConnector, Connecting,
         Connectors
<1> QED
  BY <1>1, TasksCorrect, PTL

(* Only the current connection's reader ever dispatches.                      *)
THEOREM OneReceiverAlways == Spec => []OneReceiver
<1>1. TypeOK /\ TaskInv => OneReceiver
  BY DEF TypeOK, TaskInv, HandlesInv, StopInv, OneReceiver, Receiving, Alive
<1> QED
  BY <1>1, TasksCorrect, PTL

(* One connection is made, and one is listened to, at a time.                  *)
THEOREM OneConnectionAlways == Spec => []OneConnection
<1> QED
  BY OneConnectorAlways, OneReceiverAlways, PTL DEF OneConnection

(* Nothing works any more when async_stop has returned.                       *)
THEOREM QuietAfterStopAlways == Spec => []QuietAfterStop
<1>1. TypeOK /\ TaskInv => QuietAfterStop
  BY DEF TypeOK, TaskInv, StartInv, StopInv, QuietAfterStop, Receiving, Alive, Beating, Connectors
<1> QED
  BY <1>1, TasksCorrect, PTL

LEMMA NeverStrandedFollows == TypeOK /\ TaskInv /\ ServedInv => NeverStranded
<1> SUFFICES ASSUME TypeOK, TaskInv, ServedInv, running
             PROVE  Connecting(Starter) \/ Connected \/ Retrying \/ Repairing
  BY DEF NeverStranded
<1>1. pc[Starter] = "done" \/ Connecting(Starter)
  BY DEF TypeOK, TaskInv, StartInv, StopInv, Connecting, Connectors, ConnectorPC
<1>2. CASE pc[Starter] = "done" /\ websocket = None
  <2>1. reconnectTask # None => Retrying
    BY <1>2 DEF TaskInv, HandlesInv, Retrying, ReconnectAlive
  <2> QED
    BY <1>2, <2>1 DEF ServedInv
<1>3. CASE pc[Starter] = "done" /\ websocket # None
  <2>1. websocket \in Conns
    BY <1>3 DEF TypeOK, OptConn
  <2>2. readerTask = websocket => Connected
    BY <1>3 DEF TaskInv, HandlesInv, Alive, Connected
  <2>3. ASSUME NEW t \in Recs, pc[t] = "subscribe" PROVE Retrying
    BY <2>3 DEF TaskInv, HandlesInv, Retrying, ReconnectAlive
  <2>4. reader[websocket] = "closing" \/ heartbeat[websocket] \in {"cancelReader", "closing"}
            => Repairing
    BY <2>1 DEF Repairing
  <2> QED
    BY <1>3, <2>2, <2>3, <2>4 DEF ServedInv
<1> QED
  BY <1>1, <1>2, <1>3

LEMMA NoSocketLeakFollows == TypeOK /\ TaskInv /\ SocketInv => NoSocketLeak
BY DEF TypeOK, TaskInv, StartInv, StopInv, SocketInv, NoSocketLeak, Connectors

(* In every behaviour in which close() does not raise, a running transport is   *)
(* served, retrying or being repaired, and a stop closes every websocket.    *)
THEOREM ServedIfClosedAlways == Spec => []ServedIfClosed
<1>1. Init => IndInv
  BY InitType, InitInv DEF IndInv
<1>2. IndInv /\ [Next /\ UNCHANGED closeRaises]_<<vars, closeRaises>> => IndInv'
  <2> SUFFICES ASSUME IndInv, [Next /\ UNCHANGED closeRaises]_<<vars, closeRaises>>
               PROVE  IndInv'
    OBVIOUS
  <2>1. TypeOK /\ TaskInv /\ [Next]_vars /\ UNCHANGED closeRaises
    BY DEF IndInv
  <2>2. TypeOK' /\ TaskInv'
    BY <2>1, TypeStep, TaskStep
  <2>3. CASE closeRaises = TRUE
    BY <2>1, <2>2, <2>3 DEF IndInv
  <2>4. CASE closeRaises = FALSE
    <3>1. ServedInv /\ SocketInv
      BY <2>4 DEF IndInv
    <3>2. ServedInv' /\ SocketInv'
      BY <2>1, <2>4, <3>1, ServedStep, SocketStep
    <3> QED
      BY <2>2, <3>2 DEF IndInv
  <2> QED
    BY <2>1, <2>3, <2>4 DEF TypeOK
<1>3. IndInv => ServedIfClosed
  BY NeverStrandedFollows, NoSocketLeakFollows DEF IndInv, ServedIfClosed
<1> QED
  BY <1>1, <1>2, <1>3, PTL DEF Spec

-----------------------------------------------------------------------------
(* The transport implements the safety part of LiveFeed.                       *)

(* At most one reader is alive, and it is what the owner sees of the link. *)
LEMMA OneAlive ==
    ASSUME TypeOK, TaskInv, NEW c \in Conns, Alive(c)
    PROVE  /\ \A d \in Conns : Alive(d) => d = c
           /\ FeedLink = IF reader[c] = "dispatch" THEN "busy" ELSE "up"
<1>1. \A d \in Conns : Alive(d) => d = c
  BY DEF TypeOK, TaskInv, HandlesInv, StopInv
<1> QED
  BY <1>1 DEF FeedLink, Alive

LEMMA NoneAlive ==
    ASSUME \A c \in Conns : ~Alive(c)
    PROVE  FeedLink = "down"
BY DEF FeedLink, Alive

(* A step that leaves every living reader where it is, and none comes alive. *)
LEMMA LinkStays ==
    ASSUME \A c \in Conns : (Alive(c) \/ Alive(c)') => reader'[c] = reader[c]
    PROVE  FeedLink' = FeedLink
BY DEF FeedLink, Alive

(* The owner's calls are what async_start and async_stop do and nothing else. *)
LEMMA PhaseStays ==
    ASSUME pc'[Starter] = pc[Starter], stop'.pc = stop.pc
    PROVE  FeedPhase' = FeedPhase
BY DEF FeedPhase

LEMMA PhaseStarting ==
    ASSUME pc[Starter] \in {"connect", "subscribe", "subclose"}
    PROVE  FeedPhase = "starting"
BY DEF FeedPhase

LEMMA PhaseOn ==
    ASSUME TaskInv, running, pc[Starter] = "done"
    PROVE  FeedPhase = "on"
BY DEF FeedPhase, TaskInv, StopInv

(* Every step of the transport is one step of the feed, or none. *)
LEMMA FeedStep ==
    ASSUME TypeOK, TaskInv, TypeOK', TaskInv', [Next]_vars
    PROVE  [Feed!Next]_(Feed!vars)
<1> DEFINE Stutter == FeedPhase' = FeedPhase /\ FeedLink' = FeedLink
           Goal == Stutter \/ Feed!Next
<1> SUFFICES Goal
  BY DEF Feed!vars
<1> HIDE DEF Goal
<1>a. Stutter => Goal
  BY DEF Goal
<1>b. Feed!Start \/ Feed!Started \/ Feed!Rejected \/ Feed!Up \/ Feed!Deliver \/ Feed!Delivered
        \/ Feed!Down \/ Feed!Stop \/ Feed!Stopped => Goal
  BY DEF Goal, Feed!Next
<1>c. FeedPhase' = FeedPhase /\ FeedLink' = "down" => Goal
  BY <1>a, <1>b DEF Feed!Down
<1>k. Connectors = Recs \cup {Starter} /\ Starter \notin Recs
  BY DEF Connectors
<1>1. CASE StartCall
  <2>1. FeedPhase = "off" /\ FeedPhase' = "starting"
    BY <1>1 DEF StartCall, FeedPhase, TypeOK, Connectors
  <2>2. FeedLink' = FeedLink
    BY <1>1, LinkStays DEF StartCall, tasks
  <2> QED
    BY <2>1, <2>2, <1>b DEF Feed!Start
<1>2. CASE StartRejected
  <2>1. FeedPhase = "starting" /\ FeedPhase' = "failed"
    BY <1>2 DEF StartRejected, FeedPhase, TypeOK, Connectors
  <2>2. FeedLink = "down"
    BY <1>2, NoneAlive DEF StartRejected, TaskInv, StartInv, Alive
  <2>3. FeedLink' = FeedLink
    BY <1>2, LinkStays DEF StartRejected, tasks
  <2> QED
    BY <2>1, <2>2, <2>3, <1>b DEF Feed!Rejected
<1>3. ASSUME NEW k \in Connectors, AttemptFailed(k),
             pc[k] \in {"connect", "subclose"}, reader' = reader, stop' = stop
      PROVE  Goal
  <2>1. FeedLink' = FeedLink
    BY <1>3, LinkStays
  <2>2. CASE k = Starter
    <3>1. FeedPhase = "starting"
      BY <1>3, <2>2, PhaseStarting
    <3>2. pc'[Starter] = "done"
      BY <1>3, <2>2 DEF AttemptFailed, ScheduleReconnect, TypeOK, Connectors
    <3>3. FeedPhase' = "on"
      BY <1>3, <2>2, <3>2 DEF FeedPhase, TaskInv, StartInv
    <3>4. FeedLink = "down"
      BY <1>3, <2>2, NoneAlive DEF TaskInv, StartInv, Alive
    <3> QED
      BY <2>1, <3>1, <3>3, <3>4, <1>b DEF Feed!Started
  <2>3. CASE k # Starter
    <3>1. pc'[Starter] = pc[Starter]
      BY <1>3, <2>3, <1>k DEF AttemptFailed, ReconnectLoop, TypeOK
    <3> QED
      BY <1>3, <2>1, <3>1, <1>a, PhaseStays
  <2> QED
    BY <2>2, <2>3
<1>4. ASSUME NEW k \in Connectors, ConnectFails(k) PROVE Goal
  BY <1>4, <1>3 DEF ConnectFails, tasks
<1>5. ASSUME NEW k \in Connectors, ConnectSucceeds(k) PROVE Goal
  <2>1. FeedLink' = FeedLink
    BY <1>5, LinkStays DEF ConnectSucceeds, tasks
  <2>2. CASE k = Starter
    BY <1>5, <2>1, <2>2, <1>a DEF ConnectSucceeds, FeedPhase, TypeOK
  <2>3. CASE k # Starter
    BY <1>5, <2>1, <2>3, <1>a, PhaseStays DEF ConnectSucceeds, TypeOK
  <2> QED
    BY <2>2, <2>3
<1>6. ASSUME NEW k \in Connectors, SubscribeSucceeds(k) PROVE Goal
  <2> DEFINE c == conn[k]
  <2>1. c \in Conns /\ reader[c] = "done" /\ websocket = c
    BY <1>6 DEF SubscribeSucceeds, TaskInv, ConnectInv
  <2>2. reader' = [reader EXCEPT ![c] = "new"] /\ stop' = stop /\ running' = running
    BY <1>6 DEF SubscribeSucceeds
  <2>3. reader'[c] = "new"
    BY <2>1, <2>2 DEF TypeOK
  <2> HIDE DEF c
  <2>5. FeedLink' = "up"
    <3>1. \A d \in Conns : reader'[d] # "dispatch"
      <4> SUFFICES ASSUME NEW d \in Conns, reader'[d] = "dispatch" PROVE FALSE
        OBVIOUS
      <4>1. d # c /\ Alive(d)
        BY <2>2, <2>3 DEF Alive, TypeOK
      <4>2. running
        BY <1>6, <1>k DEF SubscribeSucceeds, TaskInv, StopInv
      <4> QED
        BY <2>1, <4>1, <4>2 DEF TaskInv, HandlesInv
    <3> QED
      BY <2>1, <2>3, <3>1 DEF FeedLink
  <2>6. FeedLink = "down"
    <3>1. running
      BY <1>6, <1>k DEF SubscribeSucceeds, TaskInv, StopInv
    <3>2. \A d \in Conns : ~Alive(d)
      BY <2>1, <3>1 DEF TaskInv, HandlesInv, Alive
    <3> QED
      BY <3>2, NoneAlive
  <2>7. CASE k = Starter
    <3>1. FeedPhase = "starting"
      BY <1>6, <2>7, PhaseStarting DEF SubscribeSucceeds
    <3>2. FeedPhase' = "on"
      BY <1>6, <2>2, <2>7 DEF SubscribeSucceeds, FeedPhase, TaskInv, StartInv, TypeOK
    <3> QED
      BY <2>5, <3>1, <3>2, <1>b DEF Feed!Started
  <2>8. CASE k # Starter
    <3>1. pc'[Starter] = pc[Starter]
      BY <1>6, <2>8, <1>k DEF SubscribeSucceeds, ReconnectLoop, TypeOK
    <3>2. running /\ pc[Starter] = "done"
      BY <1>6, <2>8, <1>k DEF SubscribeSucceeds, TaskInv, StartInv, StopInv
    <3>3. FeedPhase = "on" /\ FeedPhase' = FeedPhase
      BY <2>2, <3>1, <3>2, PhaseOn, PhaseStays
    <3> QED
      BY <2>5, <2>6, <3>3, <1>b DEF Feed!Up
  <2> QED
    BY <2>7, <2>8
<1>7. ASSUME NEW k \in Connectors, SubscribeFails(k) PROVE Goal
  <2>1. FeedLink' = FeedLink
    BY <1>7, LinkStays DEF SubscribeFails, tasks
  <2>2. CASE k = Starter
    BY <1>7, <2>1, <2>2, <1>a DEF SubscribeFails, FeedPhase, TypeOK
  <2>3. CASE k # Starter
    BY <1>7, <2>1, <2>3, <1>a, PhaseStays DEF SubscribeFails, TypeOK
  <2> QED
    BY <2>2, <2>3
<1>8. ASSUME NEW k \in Connectors, SubscribeClosed(k) PROVE Goal
  BY <1>8, <1>3 DEF SubscribeClosed, tasks
<1>9. ASSUME NEW t \in Recs, ReconnectBegin(t) \/ ReconnectWake(t) \/ ReconnectCancelled(t)
      PROVE  Goal
  <2>1. reader' = reader /\ stop' = stop
    BY <1>9 DEF ReconnectBegin, ReconnectWake, ReconnectCancelled, tasks
  <2>2. pc'[Starter] = pc[Starter]
    BY <1>9, <1>k DEF ReconnectBegin, ReconnectWake, ReconnectCancelled, ReconnectLoop, TypeOK
  <2> QED
    BY <2>1, <2>2, <1>a, LinkStays, PhaseStays
<1>10. ASSUME NEW p, p = pc, ScheduleReconnect(p), stop' = stop
       PROVE  FeedPhase' = FeedPhase
  BY <1>10, <1>k, PhaseStays DEF ScheduleReconnect, TypeOK
<1>11. ASSUME NEW c \in Conns, ReaderBegin(c) PROVE Goal
  <2>1. FeedPhase' = FeedPhase
    BY <1>11, PhaseStays DEF ReaderBegin
  <2>2. Alive(c) /\ FeedLink = "up"
    BY <1>11, OneAlive DEF ReaderBegin, Alive
  <2>3. \A d \in Conns : d # c => ~Alive(d) /\ reader'[d] = reader[d]
    BY <1>11, <2>2, OneAlive DEF ReaderBegin, TypeOK
  <2>4. CASE websocket = None
    BY <1>11, <2>1, <2>3, <2>4, <1>c DEF ReaderBegin, TypeOK, FeedLink, Alive
  <2>5. CASE websocket # None
    BY <1>11, <2>1, <2>2, <2>3, <2>5, <1>a DEF ReaderBegin, TypeOK, FeedLink, Alive
  <2> QED
    BY <2>4, <2>5
<1>12. ASSUME NEW c \in Conns, ReaderDispatch(c) PROVE Goal
  <2>1. FeedPhase' = FeedPhase
    BY <1>12, PhaseStays DEF ReaderDispatch
  <2>2. FeedLink = "up"
    BY <1>12, OneAlive DEF ReaderDispatch, Alive
  <2>3. FeedLink' = "busy"
    BY <1>12 DEF ReaderDispatch, TypeOK, FeedLink
  <2> QED
    BY <2>1, <2>2, <2>3, <1>b DEF Feed!Deliver
<1>13. ASSUME NEW c \in Conns, ReaderDispatched(c) PROVE Goal
  <2>1. FeedPhase' = FeedPhase
    BY <1>13, PhaseStays DEF ReaderDispatched
  <2>2. FeedLink = "busy"
    BY <1>13, OneAlive DEF ReaderDispatched, Alive
  <2>3. \A d \in Conns : d # c => ~Alive(d) /\ reader'[d] = reader[d]
    BY <1>13, OneAlive DEF ReaderDispatched, TypeOK, Alive
  <2>4. FeedLink' = "up"
    BY <1>13, <2>3 DEF ReaderDispatched, TypeOK, FeedLink, Alive
  <2> QED
    BY <2>1, <2>2, <2>4, <1>b DEF Feed!Delivered
<1>14. ASSUME NEW c \in Conns, ReaderEnds(c) \/ ReaderFails(c) PROVE Goal
  <2>1. FeedPhase' = FeedPhase
    <3>1. stop' = stop
      BY <1>14 DEF ReaderEnds, ReaderFails
    <3>2. pc' = pc \/ ScheduleReconnect(pc)
      BY <1>14 DEF ReaderEnds, ReaderFails, ReaderDisowned, CancelHeartbeatTask
    <3> QED
      BY <3>1, <3>2, <1>10, PhaseStays
  <2>2. Alive(c)
    BY <1>14 DEF ReaderEnds, ReaderFails, Alive
  <2>3. \E where \in {"done", "cancelHb", "closing"} : reader' = [reader EXCEPT ![c] = where]
    BY <1>14 DEF ReaderEnds, ReaderFails, ReaderDisowned, CancelHeartbeatTask
  <2>4. \A d \in Conns : ~Alive(d)'
    BY <2>2, <2>3, OneAlive DEF TypeOK, Alive
  <2>5. FeedLink' = "down"
    BY <2>4 DEF FeedLink, Alive
  <2> QED
    BY <2>1, <2>5, <1>c
<1>15. ASSUME NEW c \in Conns, \/ \E ok \in BOOLEAN : ReaderClosed(c, ok)
                               \/ ReaderHeartbeatGone(c)
                               \/ ReaderCancelled(c)
       PROVE  Goal
  <2>1. FeedPhase' = FeedPhase
    <3>1. stop' = stop
      BY <1>15 DEF ReaderClosed, ReaderHeartbeatGone, ReaderCancelled
    <3>2. pc' = pc \/ ScheduleReconnect(pc)
      BY <1>15 DEF ReaderClosed, ReaderHeartbeatGone, ReaderCancelled, ReaderDisowned,
                   CancelHeartbeatTask
    <3> QED
      BY <3>1, <3>2, <1>10, PhaseStays
  <2>2. ~Alive(c)
    BY <1>15 DEF ReaderClosed, ReaderHeartbeatGone, ReaderCancelled, Alive
  <2>3. \E where \in {"done", "cancelHb"} : reader' = [reader EXCEPT ![c] = where]
    BY <1>15 DEF ReaderClosed, ReaderHeartbeatGone, ReaderCancelled, ReaderDisowned,
                 CancelHeartbeatTask
  <2>4. \A d \in Conns : Alive(d) \/ Alive(d)' => reader'[d] = reader[d]
    BY <2>2, <2>3 DEF TypeOK, Alive
  <2> QED
    BY <2>1, <2>4, LinkStays, <1>a
<1>16. CASE TimePasses
  BY <1>16, <1>a, LinkStays, PhaseStays DEF TimePasses, tasks
<1>17. ASSUME NEW c \in Conns, \/ HeartbeatFires(c) \/ HeartbeatSent(c)
                               \/ HeartbeatReaderGone(c) \/ HeartbeatCancelled(c)
                               \/ \E ok \in BOOLEAN : HeartbeatClosed(c, ok)
       PROVE  Goal
  <2>1. reader' = reader /\ stop' = stop
    BY <1>17 DEF HeartbeatFires, HeartbeatSent, HeartbeatReaderGone, HeartbeatCancelled,
                 HeartbeatClosed
  <2>2. pc' = pc \/ ScheduleReconnect(pc)
    BY <1>17 DEF HeartbeatFires, HeartbeatSent, HeartbeatReaderGone, HeartbeatCancelled,
                 HeartbeatClosed, HeartbeatCloses
  <2>3. FeedPhase' = FeedPhase
    BY <2>1, <2>2, <1>10, PhaseStays
  <2> QED
    BY <2>1, <2>3, <1>a, LinkStays
<1>18. ASSUME NEW c \in Conns, HeartbeatFails(c) PROVE Goal
  <2>1. stop' = stop /\ (pc' = pc \/ ScheduleReconnect(pc))
    BY <1>18 DEF HeartbeatFails, HeartbeatCloses
  <2>2. FeedPhase' = FeedPhase
    BY <2>1, <1>10, PhaseStays
  <2>3. CASE readerTask # None /\ reader[readerTask] # "done"
    <3>1. readerTask \in Conns /\ Alive(readerTask)
      BY <2>3 DEF TypeOK, OptConn, TaskInv, HandlesInv
    <3>2. \E where \in {"done", "cancelled"} : reader' = [reader EXCEPT ![readerTask] = where]
      BY <1>18, <2>3, <3>1 DEF HeartbeatFails, CancelReader, TypeOK
    <3>3. \A d \in Conns : ~Alive(d)'
      BY <3>1, <3>2, OneAlive DEF TypeOK, Alive
    <3>4. FeedLink' = "down"
      BY <3>3 DEF FeedLink, Alive
    <3> QED
      BY <2>2, <3>4, <1>c
  <2>4. CASE ~(readerTask # None /\ reader[readerTask] # "done")
    <3>1. reader' = reader
      BY <1>18, <2>4 DEF HeartbeatFails
    <3> QED
      BY <2>2, <3>1, <1>a, LinkStays
  <2> QED
    BY <2>3, <2>4
<1>19. CASE StopCall
  <2>1. pc[Starter] = "done" /\ pc'[Starter] = "done"
    BY <1>19, <1>k DEF StopCall, StopProceeds, Dead, TypeOK, OptRec
  <2>2. FeedPhase \in {"on", "raised"}
    BY <1>19 DEF StopCall, FeedPhase
  <2>3. \A c \in Conns : Alive(c) => readerTask = c
    BY <1>19 DEF StopCall, TaskInv, HandlesInv, StopInv
  <2>4. CASE stop'.pc \in {"rec", "hb"}
    <3>1. FeedPhase' = "stopping"
      BY <2>1, <2>4 DEF FeedPhase
    <3>2. reader' = reader
      BY <1>19, <2>4 DEF StopCall, StopProceeds
    <3> QED
      BY <2>2, <3>1, <3>2, LinkStays, <1>b DEF Feed!Stop
  <2>5. CASE stop'.pc \notin {"rec", "hb"}
    <3>1. stop'.pc \in {"rd", "closing", "done"}
      BY <1>19, <2>5 DEF StopCall, StopProceeds
    <3>2. FeedPhase' \in {"stopping", "stopped"}
      BY <2>1, <3>1 DEF FeedPhase
    <3>3. \A c \in Conns : ~Alive(c)'
      BY <1>19, <2>5 DEF StopCall, TaskInv, StopInv
    <3>4. FeedLink' = "down"
      BY <3>3 DEF FeedLink, Alive
    <3> QED
      BY <2>2, <3>2, <3>4, <1>b DEF Feed!Stop
  <2> QED
    BY <2>4, <2>5
<1>20. CASE StopTaskGone
  <2>1. pc[Starter] = "done" /\ ~running /\ ~running'
    BY <1>20 DEF StopTaskGone, TaskInv, StopInv
  <2>2. pc'[Starter] = "done"
    BY <1>20, <2>1, <1>k DEF StopTaskGone, StopProceeds, Dead, TypeOK, OptRec
  <2>3. FeedPhase = "stopping"
    BY <1>20, <2>1 DEF StopTaskGone, FeedPhase
  <2>4. CASE stop'.pc \in {"rec", "hb"}
    <3>1. FeedPhase' = "stopping"
      BY <2>2, <2>4 DEF FeedPhase
    <3>2. reader' = reader
      BY <1>20, <2>4 DEF StopTaskGone, StopProceeds
    <3> QED
      BY <2>3, <3>1, <3>2, LinkStays, <1>a
  <2>5. CASE stop'.pc \notin {"rec", "hb"}
    <3>1. stop'.pc \in {"rd", "closing", "done"}
      BY <1>20, <2>5 DEF StopTaskGone, StopProceeds
    <3>2. FeedPhase' \in {"stopping", "stopped"}
      BY <2>2, <3>1 DEF FeedPhase
    <3>3. \A c \in Conns : ~Alive(c)'
      BY <2>1, <2>5 DEF TaskInv, StopInv
    <3>4. FeedLink' = "down"
      BY <3>3 DEF FeedLink, Alive
    <3> QED
      BY <2>3, <3>2, <3>4, <1>b, <1>c DEF Feed!Stopped
  <2> QED
    BY <2>4, <2>5
<1>21. ASSUME NEW ok \in BOOLEAN, StopClosed(ok) PROVE Goal
  <2>1. pc[Starter] = "done" /\ pc' = pc /\ ~running'
    BY <1>21 DEF StopClosed, TaskInv, StopInv
  <2>2. stop'.pc \in {"done", "raised"}
    BY <1>21 DEF StopClosed, TypeOK
  <2>3. FeedPhase = "stopping" /\ FeedPhase' \in {"stopped", "raised"}
    BY <1>21, <2>1, <2>2 DEF StopClosed, FeedPhase
  <2>4. \A c \in Conns : ~Alive(c)'
    BY <2>1, <2>2 DEF TaskInv, StopInv
  <2>5. FeedLink' = "down"
    BY <2>4 DEF FeedLink, Alive
  <2> QED
    BY <2>3, <2>5, <1>b DEF Feed!Stopped
<1>22. CASE Finished \/ UNCHANGED vars
  <2>1. reader' = reader /\ pc' = pc /\ stop' = stop
    BY <1>22 DEF Finished, vars
  <2> QED
    BY <2>1, <1>a, LinkStays, PhaseStays
<1> QED
  BY <1>1, <1>2, <1>4, <1>5, <1>6, <1>7, <1>8, <1>9, <1>11, <1>12, <1>13, <1>14, <1>15, <1>16,
     <1>17, <1>18, <1>19, <1>20, <1>21, <1>22
  DEF Next, ConnectorNext, ReconnectNext, ReaderNext, HeartbeatNext, StopNext

(* What the transport does is what its owner may expect of a live feed, whatever *)
(* close() does: payloads one at a time, over a link that is up, and none once   *)
(* async_stop has returned.                                                  *)
THEOREM ImplementsFeedSafely == Spec => Feed!Spec
<1>1. Init => Feed!Init
  BY NoneAlive DEF Init, Feed!Init, FeedPhase, Alive, Connectors
<1>2. /\ TypeOK /\ TaskInv
      /\ (TypeOK /\ TaskInv)'
      /\ [Next /\ UNCHANGED closeRaises]_<<vars, closeRaises>>
      => [Feed!Next]_(Feed!vars)
  BY FeedStep
<1> QED
  BY <1>1, <1>2, TasksCorrect, PTL DEF Spec, Feed!Spec
=============================================================================
