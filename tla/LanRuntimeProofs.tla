-------------------------- MODULE LanRuntimeProofs --------------------------
(* Theorems about LanRuntime, for every set of slots and every delay range. *)
EXTENDS LanRuntime, TLAPS

USE SlotsAssumption, DelayAssumption

(* The backoff stays within its bounds. *)
LEMMA NextDelayBounded ==
    ASSUME NEW d \in MinDelay .. MaxDelay, delay = d
    PROVE  NextDelay \in MinDelay .. MaxDelay
BY DEF NextDelay

LEMMA InitType == Init => TypeOK
<1> SUFFICES ASSUME Init PROVE TypeOK
  OBVIOUS
<1>1. /\ running \in BOOLEAN /\ connected \in BOOLEAN
      /\ link \in OptSock /\ topologyOn \in OptSock
      /\ readerTask \in OptLoop /\ reconnectTask \in OptRec
      /\ pendingAcks \subseteq Cmds
      /\ start \in StartPC
      /\ open \subseteq Socks /\ reset \subseteq Socks /\ resets \in BOOLEAN
  BY DEF Init, OptSock, OptLoop, OptRec, StartPC
<1>2. delay \in MinDelay .. MaxDelay
  BY DEF Init
<1>3. /\ loop \in [Loops -> LoopPC] /\ reads \in [Loops -> OptSock]
      /\ rec \in [Recs -> RecPC] /\ closes \in [Recs -> OptSock]
      /\ cmd \in [Cmds -> CmdPC] /\ sentOn \in [Cmds -> OptSock]
      /\ future \in [Cmds -> FuturePC]
  BY DEF Init, OptSock, LoopPC, RecPC, CmdPC, FuturePC
<1>4. stop \in [pc : StopPC, rec : OptRec, rd : OptLoop, ws : OptSock]
  BY DEF Init, StopPC, OptSock, OptLoop, OptRec
<1> QED
  BY <1>1, <1>2, <1>3, <1>4 DEF TypeOK

(* The operators that several actions share keep the types. *)
LEMMA ConnectType ==
    ASSUME TypeOK, NEW c \in Socks, Connect(c)
    PROVE  /\ link' \in OptSock /\ connected' \in BOOLEAN
           /\ delay' \in MinDelay .. MaxDelay
           /\ open' \subseteq Socks /\ reset' \subseteq Socks
           /\ loop' \in [Loops -> LoopPC] /\ readerTask' \in OptLoop
<1>1. delay' \in MinDelay .. MaxDelay
  BY DEF Connect
<1>2. /\ link' \in OptSock /\ connected' \in BOOLEAN
      /\ open' \subseteq Socks /\ reset' \subseteq Socks
  BY DEF TypeOK, Connect, OptSock
<1>3. loop' \in [Loops -> LoopPC] /\ readerTask' \in OptLoop
  BY DEF TypeOK, Connect, LoopPC, OptLoop
<1> QED
  BY <1>1, <1>2, <1>3

LEMMA EndsType ==
    ASSUME TypeOK, NEW t \in Recs, ReconnectEnds(t)
    PROVE  /\ rec' \in [Recs -> RecPC] /\ closes' \in [Recs -> OptSock]
           /\ reconnectTask' \in OptRec
BY DEF TypeOK, ReconnectEnds, RecPC, OptSock, OptRec

LEMMA RetryType ==
    ASSUME TypeOK, NEW t \in Recs, RetryLoop(t)
    PROVE  /\ rec' \in [Recs -> RecPC] /\ closes' \in [Recs -> OptSock]
           /\ reconnectTask' \in OptRec /\ delay' \in MinDelay .. MaxDelay
<1>1. CASE running
  <2>1. delay' \in MinDelay .. MaxDelay
    BY <1>1, NextDelayBounded DEF TypeOK, RetryLoop
  <2> QED
    BY <1>1, <2>1 DEF TypeOK, RetryLoop, RecPC, OptSock
<1>2. CASE ~running
  BY <1>2, EndsType DEF TypeOK, RetryLoop
<1> QED
  BY <1>1, <1>2

LEMMA ScheduleType ==
    ASSUME TypeOK, ScheduleReconnect
    PROVE  rec' \in [Recs -> RecPC] /\ reconnectTask' \in OptRec
BY DEF TypeOK, ScheduleReconnect, RecPC, OptRec

LEMMA FlushType ==
    ASSUME TypeOK, FlushPendingAcks
    PROVE  pendingAcks' \subseteq Cmds /\ future' \in [Cmds -> FuturePC]
BY DEF TypeOK, FlushPendingAcks, FuturePC

LEMMA ExitType ==
    ASSUME TypeOK, NEW l \in Loops, LoopExit(l)
    PROVE  /\ loop' \in [Loops -> LoopPC] /\ reads' \in [Loops -> OptSock]
           /\ connected' \in BOOLEAN
           /\ pendingAcks' \subseteq Cmds /\ future' \in [Cmds -> FuturePC]
           /\ rec' \in [Recs -> RecPC] /\ reconnectTask' \in OptRec
<1>1. /\ loop' \in [Loops -> LoopPC] /\ reads' \in [Loops -> OptSock]
      /\ connected' \in BOOLEAN
  BY DEF TypeOK, LoopExit, LoopPC, OptSock
<1> QED
  BY <1>1, FlushType, ScheduleType DEF LoopExit

LEMMA HeadType ==
    ASSUME TypeOK, NEW l \in Loops, LoopHead(l)
    PROVE  /\ loop' \in [Loops -> LoopPC] /\ reads' \in [Loops -> OptSock]
           /\ connected' \in BOOLEAN
           /\ pendingAcks' \subseteq Cmds /\ future' \in [Cmds -> FuturePC]
           /\ rec' \in [Recs -> RecPC] /\ reconnectTask' \in OptRec
<1>1. CASE running /\ link # None
  BY <1>1 DEF TypeOK, LoopHead, LoopPC
<1>2. CASE ~(running /\ link # None)
  BY <1>2, ExitType DEF LoopHead
<1> QED
  BY <1>1, <1>2

LEMMA StopReaderType ==
    ASSUME TypeOK, StopReader
    PROVE  /\ readerTask' \in OptLoop /\ loop' \in [Loops -> LoopPC]
           /\ stop' \in [pc : StopPC, rec : OptRec, rd : OptLoop, ws : OptSock]
           /\ link' \in OptSock /\ connected' \in BOOLEAN /\ open' \subseteq Socks
<1>1. readerTask' \in OptLoop /\ loop' \in [Loops -> LoopPC]
  BY DEF TypeOK, StopReader, LoopPC, OptLoop
<1>2. stop' \in [pc : StopPC, rec : OptRec, rd : OptLoop, ws : OptSock]
  <2>1. CASE readerTask # None /\ LoopAlive(readerTask)
    BY <2>1 DEF TypeOK, StopReader, StopPC, OptRec
  <2>2. CASE ~(readerTask # None /\ LoopAlive(readerTask))
    BY <2>2 DEF TypeOK, StopReader, StopPC, OptRec
  <2> QED
    BY <2>1, <2>2
<1>3. link' \in OptSock /\ connected' \in BOOLEAN /\ open' \subseteq Socks
  BY DEF TypeOK, StopReader, OptSock
<1> QED
  BY <1>1, <1>2, <1>3

LEMMA TypeStep ==
    ASSUME TypeOK, [Next]_vars, UNCHANGED resets
    PROVE  TypeOK'
<1> USE DEF TypeOK, OptSock, OptLoop, OptRec, health, handles, setup, loops, recs, commands
<1>1. CASE StartCall
  BY <1>1 DEF StartCall, StartPC
<1>2. CASE StartFails
  BY <1>2 DEF StartFails, StartPC
<1>3. CASE StartConnects
  BY <1>3, ConnectType DEF StartConnects, StartPC
<1>4. CASE TopologySent
  BY <1>4 DEF TopologySent, StartPC
<1>5. CASE TopologyFails
  BY <1>5 DEF TopologyFails, Lost, StartPC
<1>6. ASSUME NEW c \in Socks, PeerResets(c) PROVE TypeOK'
  BY <1>6 DEF PeerResets
<1>7. ASSUME NEW t \in Recs, ReconnectBegin(t) PROVE TypeOK'
  BY <1>7, RetryType DEF ReconnectBegin
<1>8. ASSUME NEW t \in Recs, ReconnectWake(t) PROVE TypeOK'
  <2>1. CASE running
    <3>1. rec' \in [Recs -> RecPC] /\ closes' \in [Recs -> OptSock]
      BY <1>8, <2>1 DEF ReconnectWake, RecPC
    <3>2. link' \in OptSock /\ open' \subseteq Socks
      BY <1>8, <2>1 DEF ReconnectWake
    <3> QED
      BY <1>8, <2>1, <3>1, <3>2 DEF ReconnectWake
  <2>2. CASE ~running
    BY <1>8, <2>2, EndsType DEF ReconnectWake
  <2> QED
    BY <2>1, <2>2
<1>9. ASSUME NEW t \in Recs, ReconnectClosed(t) PROVE TypeOK'
  BY <1>9 DEF ReconnectClosed, ClosedWell, RecPC
<1>10. ASSUME NEW t \in Recs, ReconnectCloseFails(t) PROVE TypeOK'
  BY <1>10, EndsType DEF ReconnectCloseFails
<1>11. ASSUME NEW t \in Recs, ReconnectConnects(t) PROVE TypeOK'
  BY <1>11, ConnectType, EndsType DEF ReconnectConnects
<1>12. ASSUME NEW t \in Recs, ReconnectConnectFails(t) PROVE TypeOK'
  BY <1>12, RetryType DEF ReconnectConnectFails
<1>13. ASSUME NEW t \in Recs, ReconnectCancelled(t) PROVE TypeOK'
  BY <1>13, EndsType DEF ReconnectCancelled
<1>14. ASSUME NEW l \in Loops, LoopBegin(l) PROVE TypeOK'
  BY <1>14, HeadType DEF LoopBegin
<1>15. ASSUME NEW l \in Loops, LoopReceives(l) PROVE TypeOK'
  BY <1>15 DEF LoopReceives, LoopPC, FuturePC
<1>16. ASSUME NEW l \in Loops, LoopDispatched(l) PROVE TypeOK'
  BY <1>16, HeadType DEF LoopDispatched
<1>17. ASSUME NEW l \in Loops, LoopLoses(l) PROVE TypeOK'
  BY <1>17, ExitType DEF LoopLoses
<1>18. ASSUME NEW l \in Loops, LoopCancelled(l) PROVE TypeOK'
  <2>1. CASE LoopExit(l)
    BY <1>18, <2>1, ExitType DEF LoopCancelled
  <2>2. CASE ~LoopExit(l)
    BY <1>18, <2>2 DEF LoopCancelled, LoopPC
  <2> QED
    BY <2>1, <2>2
<1>19. ASSUME NEW m \in Cmds, CommandSend(m) PROVE TypeOK'
  BY <1>19 DEF CommandSend, CmdPC, FuturePC
<1>20. ASSUME NEW m \in Cmds, CommandDrained(m) PROVE TypeOK'
  BY <1>20 DEF CommandDrained, CmdPC
<1>21. ASSUME NEW m \in Cmds, CommandSendFails(m) PROVE TypeOK'
  BY <1>21 DEF CommandSendFails, CommandEnds, CmdPC, FuturePC
<1>22. ASSUME NEW m \in Cmds, CommandAnswered(m) PROVE TypeOK'
  BY <1>22 DEF CommandAnswered, CommandEnds, CmdPC, FuturePC
<1>23. ASSUME NEW m \in Cmds, CommandTimesOut(m) PROVE TypeOK'
  BY <1>23 DEF CommandTimesOut, CommandEnds, CmdPC, FuturePC
<1>24. CASE StopCall
  <2>1. pendingAcks' \subseteq Cmds /\ future' \in [Cmds -> FuturePC]
    BY <1>24, FlushType DEF StopCall
  <2>2. CASE ReconnectAlive
    <3>1. rec' \in [Recs -> RecPC]
      BY <1>24, <2>2 DEF StopCall, CancelRec, RecPC
    <3>2. stop' \in [pc : StopPC, rec : OptRec, rd : OptLoop, ws : OptSock]
      BY <1>24, <2>2 DEF StopCall, StopPC
    <3> QED
      BY <1>24, <2>1, <2>2, <3>1, <3>2 DEF StopCall
  <2>3. CASE ~ReconnectAlive
    <3>1. StopReader /\ UNCHANGED rec
      BY <1>24, <2>3 DEF StopCall
    <3> QED
      BY <1>24, <2>1, <3>1, StopReaderType DEF StopCall
  <2> QED
    BY <2>2, <2>3
<1>25. CASE StopReconnectGone
  BY <1>25, StopReaderType DEF StopReconnectGone
<1>26. CASE StopLoopGone
  <2>1. stop' \in [pc : StopPC, rec : OptRec, rd : OptLoop, ws : OptSock]
    BY <1>26 DEF StopLoopGone, StopPC
  <2> QED
    BY <1>26, <2>1 DEF StopLoopGone
<1>27. CASE StopClosed
  <2>1. stop' \in [pc : StopPC, rec : OptRec, rd : OptLoop, ws : OptSock]
    BY <1>27 DEF StopClosed, StopPC
  <2> QED
    BY <1>27, <2>1 DEF StopClosed
<1>28. CASE Finished
  BY <1>28 DEF Finished, vars
<1>29. CASE UNCHANGED vars
  BY <1>29 DEF vars
<1> HIDE DEF TypeOK
<1> QED
  BY <1>1, <1>2, <1>3, <1>4, <1>5, <1>6, <1>7, <1>8, <1>9, <1>10, <1>11, <1>12, <1>13, <1>14, <1>15, <1>16, <1>17, <1>18, <1>19, <1>20, <1>21, <1>22, <1>23, <1>24, <1>25, <1>26, <1>27, <1>28, <1>29
  DEF Next, StartNext, ReconnectNext, LoopNext, CommandNext, StopNext

(* Every variable keeps its type: in particular the backoff delay never leaves *)
(* [_LAN_RECONNECT_DELAY_MIN, _LAN_RECONNECT_DELAY_MAX].                      *)
THEOREM TypeCorrect == Spec => []TypeOK
<1>1. TypeOK /\ [Next /\ UNCHANGED resets]_<<vars, resets>> => TypeOK'
  BY TypeStep
<1> QED
  BY InitType, <1>1, PTL DEF Spec

LEMMA TaskStep == TypeOK /\ TaskInv /\ [Next]_vars => TaskInv'
<1> SUFFICES ASSUME TypeOK, TaskInv, [Next]_vars PROVE TaskInv'
  OBVIOUS
<1>0. /\ running \in BOOLEAN /\ connected \in BOOLEAN
      /\ link \in OptSock /\ readerTask \in OptLoop /\ reconnectTask \in OptRec
      /\ pendingAcks \subseteq Cmds /\ start \in StartPC
      /\ loop \in [Loops -> LoopPC] /\ reads \in [Loops -> OptSock]
      /\ rec \in [Recs -> RecPC] /\ closes \in [Recs -> OptSock]
      /\ cmd \in [Cmds -> CmdPC] /\ sentOn \in [Cmds -> OptSock]
      /\ future \in [Cmds -> FuturePC]
      /\ stop \in [pc : StopPC, rec : OptRec, rd : OptLoop, ws : OptSock]
      /\ open \subseteq Socks
  BY DEF TypeOK
<1> USE DEF TaskInv, WorkersInv, LinkInv, StartInv, CommandsInv, NoAckAwaitedInVain,
        NoStaleAckId, StopInv, LoopAlive, ReconnectAlive, OptSock, OptLoop, OptRec, health,
        handles, setup, loops, recs, commands
<1>1. CASE StartCall
  BY <1>1, <1>0 DEF StartCall
<1>2. CASE StartFails
  BY <1>2, <1>0 DEF StartFails
<1>3. CASE StartConnects
  <2>1. PICK c \in Socks : Connect(c)
    BY <1>3 DEF StartConnects
  <2>11. WorkersInv'
    BY <1>3, <2>1, <1>0 DEF StartConnects, Connect, FreeSock
  <2>12. LinkInv'
    BY <1>3, <2>1, <1>0 DEF StartConnects, Connect, FreeSock
  <2>13. StartInv'
    BY <1>3, <2>1, <1>0 DEF StartConnects, Connect, FreeSock
  <2>14. CommandsInv'
    BY <1>3, <2>1, <1>0 DEF StartConnects, Connect, FreeSock
  <2>15. StopInv'
    BY <1>3, <2>1, <1>0 DEF StartConnects, Connect, FreeSock
  <2> QED
    BY <2>11, <2>12, <2>13, <2>14, <2>15
<1>4. CASE TopologySent
  BY <1>4, <1>0 DEF TopologySent
<1>5. CASE TopologyFails
  BY <1>5, <1>0 DEF TopologyFails, Lost
<1>6. ASSUME NEW c \in Socks, PeerResets(c) PROVE TaskInv'
  BY <1>6, <1>0 DEF PeerResets
<1>7. ASSUME NEW t \in Recs, ReconnectBegin(t) PROVE TaskInv'
  BY <1>7, <1>0 DEF ReconnectBegin, RetryLoop, ReconnectEnds
<1>8. ASSUME NEW t \in Recs, ReconnectWake(t) PROVE TaskInv'
  BY <1>8, <1>0 DEF ReconnectWake, ReconnectEnds
<1>9. ASSUME NEW t \in Recs, ReconnectClosed(t) PROVE TaskInv'
  BY <1>9, <1>0 DEF ReconnectClosed, ClosedWell
<1>10. ASSUME NEW t \in Recs, ReconnectCloseFails(t) PROVE TaskInv'
  BY <1>10, <1>0 DEF ReconnectCloseFails, ClosedWell, ReconnectEnds
<1>11. ASSUME NEW t \in Recs, ReconnectConnects(t) PROVE TaskInv'
  <2>1. PICK c \in Socks : Connect(c)
    BY <1>11 DEF ReconnectConnects
  <2>11. WorkersInv'
    BY <1>11, <2>1, <1>0 DEF ReconnectConnects, Connect, FreeSock, ReconnectEnds
  <2>12. LinkInv'
    BY <1>11, <2>1, <1>0 DEF ReconnectConnects, Connect, FreeSock, ReconnectEnds
  <2>13. StartInv'
    BY <1>11, <2>1, <1>0 DEF ReconnectConnects, Connect, FreeSock, ReconnectEnds
  <2>14. CommandsInv'
    BY <1>11, <2>1, <1>0 DEF ReconnectConnects, Connect, FreeSock, ReconnectEnds
  <2>15. StopInv'
    BY <1>11, <2>1, <1>0 DEF ReconnectConnects, Connect, FreeSock, ReconnectEnds
  <2> QED
    BY <2>11, <2>12, <2>13, <2>14, <2>15
<1>12. ASSUME NEW t \in Recs, ReconnectConnectFails(t) PROVE TaskInv'
  BY <1>12, <1>0 DEF ReconnectConnectFails, RetryLoop, ReconnectEnds
<1>13. ASSUME NEW t \in Recs, ReconnectCancelled(t) PROVE TaskInv'
  BY <1>13, <1>0 DEF ReconnectCancelled, ReconnectEnds
<1>14. ASSUME NEW l \in Loops, LoopBegin(l) PROVE TaskInv'
  BY <1>14, <1>0 DEF LoopBegin, LoopHead, LoopExit, FlushPendingAcks, ScheduleReconnect
<1>15. ASSUME NEW l \in Loops, LoopReceives(l) PROVE TaskInv'
  BY <1>15, <1>0 DEF LoopReceives
<1>16. ASSUME NEW l \in Loops, LoopDispatched(l) PROVE TaskInv'
  BY <1>16, <1>0 DEF LoopDispatched, LoopHead, LoopExit, FlushPendingAcks, ScheduleReconnect
<1>17. ASSUME NEW l \in Loops, LoopLoses(l) PROVE TaskInv'
  BY <1>17, <1>0 DEF LoopLoses, LoopExit, FlushPendingAcks, ScheduleReconnect
<1>18. ASSUME NEW l \in Loops, LoopCancelled(l) PROVE TaskInv'
  BY <1>18, <1>0 DEF LoopCancelled, LoopExit, FlushPendingAcks, ScheduleReconnect
<1>19. ASSUME NEW m \in Cmds, CommandSend(m) PROVE TaskInv'
  BY <1>19, <1>0 DEF CommandSend
<1>20. ASSUME NEW m \in Cmds, CommandDrained(m) PROVE TaskInv'
  BY <1>20, <1>0 DEF CommandDrained
<1>21. ASSUME NEW m \in Cmds, CommandSendFails(m) PROVE TaskInv'
  BY <1>21, <1>0 DEF CommandSendFails, CommandEnds
<1>22. ASSUME NEW m \in Cmds, CommandAnswered(m) PROVE TaskInv'
  BY <1>22, <1>0 DEF CommandAnswered, CommandEnds
<1>23. ASSUME NEW m \in Cmds, CommandTimesOut(m) PROVE TaskInv'
  BY <1>23, <1>0 DEF CommandTimesOut, CommandEnds
<1>24. CASE StopCall
  <2>0. running /\ start = "done"
    BY <1>24 DEF StopCall
  <2>1. CASE ReconnectAlive
    <3>10. stop'.pc = "rec" /\ stop'.rec = reconnectTask /\ running' = FALSE
      BY <1>24, <2>0, <2>1, <1>0 DEF StopCall, FlushPendingAcks, CancelRec, StopPC
    <3>11. WorkersInv'
      BY <1>24, <2>0, <2>1, <1>0, <3>10 DEF StopCall, FlushPendingAcks, CancelRec
    <3>12. LinkInv'
      BY <1>24, <2>0, <2>1, <1>0, <3>10 DEF StopCall, FlushPendingAcks, CancelRec
    <3>13. StartInv'
      BY <1>24, <2>0, <2>1, <1>0, <3>10 DEF StopCall, FlushPendingAcks, CancelRec
    <3>14. CommandsInv'
      BY <1>24, <2>0, <2>1, <1>0, <3>10 DEF StopCall, FlushPendingAcks, CancelRec
    <3>15. StopInv'
      BY <1>24, <2>0, <2>1, <1>0, <3>10 DEF StopCall, FlushPendingAcks, CancelRec
    <3> QED
      BY <3>11, <3>12, <3>13, <3>14, <3>15
  <2>2. CASE ~ReconnectAlive /\ readerTask # None /\ LoopAlive(readerTask)
    <3>10. stop'.pc = "rd" /\ stop'.rd = readerTask /\ running' = FALSE
      BY <1>24, <2>0, <2>2, <1>0 DEF StopCall, FlushPendingAcks, StopReader, StopPC
    <3>11. WorkersInv'
      BY <1>24, <2>0, <2>2, <1>0, <3>10 DEF StopCall, FlushPendingAcks, StopReader
    <3>12. LinkInv'
      BY <1>24, <2>0, <2>2, <1>0, <3>10 DEF StopCall, FlushPendingAcks, StopReader
    <3>13. StartInv'
      BY <1>24, <2>0, <2>2, <1>0, <3>10 DEF StopCall, FlushPendingAcks, StopReader
    <3>14. CommandsInv'
      BY <1>24, <2>0, <2>2, <1>0, <3>10 DEF StopCall, FlushPendingAcks, StopReader
    <3>15. StopInv'
      BY <1>24, <2>0, <2>2, <1>0, <3>10 DEF StopCall, FlushPendingAcks, StopReader
    <3> QED
      BY <3>11, <3>12, <3>13, <3>14, <3>15
  <2>3. CASE ~ReconnectAlive /\ ~(readerTask # None /\ LoopAlive(readerTask))
    <3>10. stop'.pc \in {"closing", "done"} /\ running' = FALSE
      BY <1>24, <2>0, <2>3, <1>0 DEF StopCall, FlushPendingAcks, StopReader, StopPC
    <3>11. WorkersInv'
      BY <1>24, <2>0, <2>3, <1>0, <3>10 DEF StopCall, FlushPendingAcks, StopReader
    <3>12. LinkInv'
      BY <1>24, <2>0, <2>3, <1>0, <3>10 DEF StopCall, FlushPendingAcks, StopReader
    <3>13. StartInv'
      BY <1>24, <2>0, <2>3, <1>0, <3>10 DEF StopCall, FlushPendingAcks, StopReader
    <3>14. CommandsInv'
      BY <1>24, <2>0, <2>3, <1>0, <3>10 DEF StopCall, FlushPendingAcks, StopReader
    <3>15. StopInv'
      BY <1>24, <2>0, <2>3, <1>0, <3>10 DEF StopCall, FlushPendingAcks, StopReader
    <3> QED
      BY <3>11, <3>12, <3>13, <3>14, <3>15
  <2> QED
    BY <2>1, <2>2, <2>3
<1>25. CASE StopReconnectGone
  <2>1. ~running /\ \A l \in Loops : loop[l] = "done"
    BY <1>25, <1>0 DEF StopReconnectGone
  <2>2. ~(readerTask # None /\ LoopAlive(readerTask))
    BY <2>1, <1>0
  <2>3. \A t \in Recs : rec[t] = "done"
    BY <1>25, <1>0, <2>1 DEF StopReconnectGone
  <2>10. stop'.pc \in {"closing", "done"} /\ running' = FALSE
    BY <1>25, <2>1, <2>2, <2>3, <1>0 DEF StopReconnectGone, StopReader, StopPC
  <2>11. WorkersInv'
    BY <1>25, <2>1, <2>2, <2>3, <1>0, <2>10 DEF StopReconnectGone, StopReader
  <2>12. LinkInv'
    BY <1>25, <2>1, <2>2, <2>3, <1>0, <2>10 DEF StopReconnectGone, StopReader
  <2>13. StartInv'
    BY <1>25, <2>1, <2>2, <2>3, <1>0, <2>10 DEF StopReconnectGone, StopReader
  <2>14. CommandsInv'
    BY <1>25, <2>1, <2>2, <2>3, <1>0, <2>10 DEF StopReconnectGone, StopReader
  <2>15. StopInv'
    BY <1>25, <2>1, <2>2, <2>3, <1>0, <2>10 DEF StopReconnectGone, StopReader
  <2> QED
    BY <2>11, <2>12, <2>13, <2>14, <2>15
<1>26. CASE StopLoopGone
  BY <1>26, <1>0 DEF StopLoopGone
<1>27. CASE StopClosed
  BY <1>27, <1>0 DEF StopClosed, ClosedWell
<1>28. CASE Finished
  BY <1>28, <1>0 DEF Finished, vars
<1>29. CASE UNCHANGED vars
  BY <1>29 DEF vars
<1> HIDE DEF TaskInv
<1> QED
  BY <1>1, <1>2, <1>3, <1>4, <1>5, <1>6, <1>7, <1>8, <1>9, <1>10, <1>11, <1>12, <1>13, <1>14, <1>15, <1>16, <1>17, <1>18, <1>19, <1>20, <1>21, <1>22, <1>23, <1>24, <1>25, <1>26, <1>27, <1>28, <1>29
  DEF Next, StartNext, ReconnectNext, LoopNext, CommandNext, StopNext

(* Without resets the reconnect loop cannot die, so the runtime is always served *)
(* or retrying.                                                              *)
LEMMA ServedStep ==
    ASSUME resets = FALSE, TypeOK, TaskInv, ServedInv, [Next]_vars
    PROVE  ServedInv'
<1> USE DEF TypeOK, TaskInv, WorkersInv, LinkInv, StartInv, StopInv, ServedInv, Served,
        LoopAlive, ReconnectAlive, OptSock, OptLoop, OptRec, health, handles, setup, loops, recs,
        commands
<1>1. CASE StartCall
  BY <1>1 DEF StartCall
<1>2. CASE StartFails
  BY <1>2 DEF StartFails
<1>3. CASE StartConnects
  BY <1>3 DEF StartConnects, Connect, FreeSock
<1>4. CASE TopologySent
  BY <1>4 DEF TopologySent
<1>5. CASE TopologyFails
  BY <1>5 DEF TopologyFails, Lost
<1>6. ASSUME NEW c \in Socks, PeerResets(c) PROVE ServedInv'
  BY <1>6 DEF PeerResets
<1>7. ASSUME NEW t \in Recs, ReconnectBegin(t) PROVE ServedInv'
  BY <1>7 DEF ReconnectBegin, RetryLoop, ReconnectEnds
<1>8. ASSUME NEW t \in Recs, ReconnectWake(t) PROVE ServedInv'
  BY <1>8 DEF ReconnectWake, ReconnectEnds
<1>9. ASSUME NEW t \in Recs, ReconnectClosed(t) PROVE ServedInv'
  BY <1>9 DEF ReconnectClosed, ClosedWell
<1>10. ASSUME NEW t \in Recs, ReconnectCloseFails(t) PROVE ServedInv'
  BY <1>10 DEF ReconnectCloseFails, ClosedWell, ReconnectEnds
<1>11. ASSUME NEW t \in Recs, ReconnectConnects(t) PROVE ServedInv'
  BY <1>11 DEF ReconnectConnects, Connect, FreeSock, ReconnectEnds
<1>12. ASSUME NEW t \in Recs, ReconnectConnectFails(t) PROVE ServedInv'
  BY <1>12 DEF ReconnectConnectFails, RetryLoop, ReconnectEnds
<1>13. ASSUME NEW t \in Recs, ReconnectCancelled(t) PROVE ServedInv'
  BY <1>13 DEF ReconnectCancelled, ReconnectEnds
<1>14. ASSUME NEW l \in Loops, LoopBegin(l) PROVE ServedInv'
  BY <1>14 DEF LoopBegin, LoopHead, LoopExit, FlushPendingAcks, ScheduleReconnect
<1>15. ASSUME NEW l \in Loops, LoopReceives(l) PROVE ServedInv'
  BY <1>15 DEF LoopReceives
<1>16. ASSUME NEW l \in Loops, LoopDispatched(l) PROVE ServedInv'
  BY <1>16 DEF LoopDispatched, LoopHead, LoopExit, FlushPendingAcks, ScheduleReconnect
<1>17. ASSUME NEW l \in Loops, LoopLoses(l) PROVE ServedInv'
  BY <1>17 DEF LoopLoses, LoopExit, FlushPendingAcks, ScheduleReconnect
<1>18. ASSUME NEW l \in Loops, LoopCancelled(l) PROVE ServedInv'
  BY <1>18 DEF LoopCancelled, LoopExit, FlushPendingAcks, ScheduleReconnect
<1>19. ASSUME NEW m \in Cmds, CommandSend(m) PROVE ServedInv'
  BY <1>19 DEF CommandSend
<1>20. ASSUME NEW m \in Cmds, CommandDrained(m) PROVE ServedInv'
  BY <1>20 DEF CommandDrained
<1>21. ASSUME NEW m \in Cmds, CommandSendFails(m) PROVE ServedInv'
  BY <1>21 DEF CommandSendFails, CommandEnds
<1>22. ASSUME NEW m \in Cmds, CommandAnswered(m) PROVE ServedInv'
  BY <1>22 DEF CommandAnswered, CommandEnds
<1>23. ASSUME NEW m \in Cmds, CommandTimesOut(m) PROVE ServedInv'
  BY <1>23 DEF CommandTimesOut, CommandEnds
<1>24. CASE StopCall
  BY <1>24 DEF StopCall, FlushPendingAcks, CancelRec, StopReader
<1>25. CASE StopReconnectGone
  BY <1>25 DEF StopReconnectGone, StopReader
<1>26. CASE StopLoopGone
  BY <1>26 DEF StopLoopGone
<1>27. CASE StopClosed
  BY <1>27 DEF StopClosed, ClosedWell
<1>28. CASE Finished
  BY <1>28 DEF Finished, vars
<1>29. CASE UNCHANGED vars
  BY <1>29 DEF vars
<1> HIDE DEF TypeOK, TaskInv, ServedInv
<1> QED
  BY <1>1, <1>2, <1>3, <1>4, <1>5, <1>6, <1>7, <1>8, <1>9, <1>10, <1>11, <1>12, <1>13, <1>14, <1>15, <1>16, <1>17, <1>18, <1>19, <1>20, <1>21, <1>22, <1>23, <1>24, <1>25, <1>26, <1>27, <1>28, <1>29
  DEF Next, StartNext, ReconnectNext, LoopNext, CommandNext, StopNext

LEMMA InitInv == Init => TaskInv /\ ServedInv
BY DEF Init, TaskInv, WorkersInv, LinkInv, StartInv, CommandsInv, NoAckAwaitedInVain,
       NoStaleAckId, StopInv, ServedInv, LoopAlive

(* The inductive invariant about tasks, link, commands and stop holds whether   *)
(* or not connections are reset.                                             *)
THEOREM TasksCorrect == Spec => [](TypeOK /\ TaskInv)
<1>1. Init => TypeOK /\ TaskInv
  BY InitType, InitInv
<1>2. TypeOK /\ TaskInv /\ [Next /\ UNCHANGED resets]_<<vars, resets>> => (TypeOK /\ TaskInv)'
  BY TypeStep, TaskStep
<1> QED
  BY <1>1, <1>2, PTL DEF Spec

(* The read loop and the reconnect loop never overlap, nor are there two of     *)
(* either.                                                                   *)
THEOREM OneWorkerAlways == Spec => []OneWorker
<1>1. TypeOK /\ TaskInv => OneWorker
  BY DEF TypeOK, TaskInv, WorkersInv, LinkInv, StopInv, OneWorker, LoopAlive
<1> QED
  BY <1>1, TasksCorrect, PTL

(* When the health says connected a live read loop reads the writer's           *)
(* connection, so that lan_control never prefers a dead LAN to the cloud.    *)
THEOREM HealthIsHonestAlways == Spec => []HealthIsHonest
<1>1. TypeOK /\ TaskInv => HealthIsHonest
  BY DEF TypeOK, TaskInv, WorkersInv, LinkInv, HealthIsHonest, LoopAlive, OptLoop
<1> QED
  BY <1>1, TasksCorrect, PTL

(* No command waits for an ACK that cannot come any more. *)
THEOREM NoAckAwaitedInVainAlways == Spec => []NoAckAwaitedInVain
<1>1. TypeOK /\ TaskInv => NoAckAwaitedInVain
  BY DEF TaskInv, CommandsInv
<1> QED
  BY <1>1, TasksCorrect, PTL

(* No connection is dropped without being closed. *)
THEOREM NoSocketLeakAlways == Spec => []NoSocketLeak
<1>1. TypeOK /\ TaskInv => NoSocketLeak
  BY DEF TaskInv, LinkInv, NoSocketLeak
<1> QED
  BY <1>1, TasksCorrect, PTL

(* Once async_stop returned or raised nothing of the runtime is left. *)
THEOREM QuietAfterStopAlways == Spec => []QuietAfterStop
<1>1. TypeOK /\ TaskInv => QuietAfterStop
  BY DEF TypeOK, TaskInv, LinkInv, StartInv, CommandsInv, NoAckAwaitedInVain, StopInv,
         QuietAfterStop, StartPC
<1> QED
  BY <1>1, TasksCorrect, PTL

(* In every behaviour without resets a running runtime is read or being          *)
(* reconnected: the reconnect loop lives until it has connected.             *)
THEOREM ServedUnlessResetAlways == Spec => []ServedUnlessReset
<1>1. Init => IndInv
  BY InitType, InitInv DEF IndInv
<1>2. IndInv /\ [Next /\ UNCHANGED resets]_<<vars, resets>> => IndInv'
  <2> SUFFICES ASSUME IndInv, [Next /\ UNCHANGED resets]_<<vars, resets>>
               PROVE  IndInv'
    OBVIOUS
  <2>1. TypeOK /\ TaskInv /\ [Next]_vars /\ UNCHANGED resets
    BY DEF IndInv
  <2>2. TypeOK' /\ TaskInv'
    BY <2>1, TypeStep, TaskStep
  <2>3. CASE resets = TRUE
    BY <2>1, <2>2, <2>3 DEF IndInv
  <2>4. CASE resets = FALSE
    BY <2>1, <2>2, <2>4, ServedStep DEF IndInv
  <2> QED
    BY <2>1, <2>3, <2>4 DEF TypeOK
<1>3. IndInv => ServedUnlessReset
  BY DEF IndInv, ServedUnlessReset, TaskInv, WorkersInv, ServedInv, NeverStranded, ReconnectAlive
<1> QED
  BY <1>1, <1>2, <1>3, PTL DEF Spec

-----------------------------------------------------------------------------
(* The runtime implements the safety part of LiveFeed.                         *)

(* At most one read loop is alive, only while the runtime runs, and it is what  *)
(* the owner sees of the link.                                               *)
LEMMA OneAlive ==
    ASSUME TypeOK, TaskInv, NEW l \in Loops, LoopAlive(l)
    PROVE  /\ running
           /\ \A k \in Loops : LoopAlive(k) => k = l
           /\ FeedLink = IF loop[l] = "dispatch" THEN "busy" ELSE "up"
<1>1. running /\ \A k \in Loops : LoopAlive(k) => k = l
  BY DEF TypeOK, TaskInv, WorkersInv, LinkInv, StopInv, LoopAlive
<1> QED
  BY <1>1 DEF FeedLink, LoopAlive

LEMMA NoneAlive ==
    ASSUME \A l \in Loops : ~LoopAlive(l)
    PROVE  FeedLink = "down"
BY DEF FeedLink, LoopAlive

(* A step that leaves every living read loop where it is, and none comes alive. *)
LEMMA LinkStays ==
    ASSUME \A l \in Loops : (LoopAlive(l) \/ LoopAlive(l)') => loop'[l] = loop[l]
    PROVE  FeedLink' = FeedLink
BY DEF FeedLink, LoopAlive

LEMMA PhaseStays ==
    ASSUME start' = start, stop'.pc = stop.pc
    PROVE  FeedPhase' = FeedPhase
BY DEF FeedPhase

LEMMA PhaseOn ==
    ASSUME TypeOK, TaskInv, running, start # "connect"
    PROVE  FeedPhase = "on"
BY DEF FeedPhase, TypeOK, TaskInv, StartInv, StartPC

(* The head and the finally clause of a read loop that is alive: it goes on      *)
(* reading, or the link goes down.                                           *)
LEMMA HeadLink ==
    ASSUME TypeOK, TaskInv, NEW l \in Loops, LoopAlive(l), LoopHead(l)
    PROVE  FeedLink' \in {"up", "down"}
<1>1. \A k \in Loops : k # l => ~LoopAlive(k) /\ loop'[k] = loop[k]
  BY OneAlive DEF LoopHead, LoopExit, TypeOK
<1>2. loop'[l] \in {"read", "done"}
  BY DEF LoopHead, LoopExit, TypeOK
<1> QED
  BY <1>1, <1>2 DEF FeedLink, LoopAlive

(* Every step of the runtime is one step of the feed, or none. *)
LEMMA FeedStep ==
    ASSUME TypeOK, TaskInv, TypeOK', TaskInv', [Next]_vars
    PROVE  [Feed!Next]_(Feed!vars)
<1> DEFINE Stutter == FeedPhase' = FeedPhase /\ FeedLink' = FeedLink
           Goal == Stutter \/ Feed!Next
<1> SUFFICES Goal
  BY DEF Feed!vars
<1> HIDE DEF Goal
<1>a. Stutter => Goal
  BY DEF Goal
<1>b. Feed!Start \/ Feed!Started \/ Feed!Rejected \/ Feed!Up \/ Feed!Deliver \/ Feed!Delivered
        \/ Feed!Down \/ Feed!Stop \/ Feed!Stopped => Goal
  BY DEF Goal, Feed!Next
<1>c. FeedPhase' = FeedPhase /\ FeedLink' = "down" => Goal
  BY <1>a, <1>b DEF Feed!Down
<1>d. ASSUME ~running PROVE FeedLink = "down"
  BY <1>d, NoneAlive DEF TaskInv, LinkInv
<1>e. ASSUME ~running' PROVE FeedLink' = "down"
  <2>1. \A l \in Loops : ~LoopAlive(l)'
    BY <1>e DEF TaskInv, LinkInv
  <2> QED
    BY <2>1 DEF FeedLink, LoopAlive
<1>1. CASE StartCall
  BY <1>1, LinkStays, <1>b DEF StartCall, loops, FeedPhase, Feed!Start
<1>2. CASE StartFails
  <2>1. FeedLink = "down"
    BY <1>2, NoneAlive DEF StartFails, TaskInv, StartInv, LoopAlive
  <2>2. FeedLink' = FeedLink
    BY <1>2, LinkStays DEF StartFails, loops
  <2> QED
    BY <1>2, <2>1, <2>2, <1>b DEF StartFails, FeedPhase, Feed!Rejected
<1>3. CASE StartConnects
  <2>1. FeedPhase = "starting" /\ FeedPhase' = "on"
    BY <1>3 DEF StartConnects, FeedPhase, TaskInv, StartInv
  <2>2. FeedLink' = "up"
    <3>1. \A l \in Loops : loop[l] = "done"
      BY <1>3 DEF StartConnects, TaskInv, StartInv
    <3>2. PICK l \in Loops : loop' = [loop EXCEPT ![l] = "new"]
      BY <1>3 DEF StartConnects, Connect
    <3> QED
      BY <3>1, <3>2 DEF FeedLink, TypeOK
  <2> QED
    BY <2>1, <2>2, <1>b DEF Feed!Started
<1>4. CASE TopologySent \/ TopologyFails
  <2>1. FeedLink' = FeedLink
    BY <1>4, LinkStays DEF TopologySent, TopologyFails, loops
  <2>2. FeedPhase' = FeedPhase
    BY <1>4 DEF TopologySent, TopologyFails, FeedPhase
  <2> QED
    BY <2>1, <2>2, <1>a
<1>5. ASSUME NEW c \in Socks, PeerResets(c) PROVE Goal
  BY <1>5, LinkStays, PhaseStays, <1>a DEF PeerResets, setup, loops
<1>6. ASSUME NEW t \in Recs, \/ ReconnectBegin(t) \/ ReconnectWake(t) \/ ReconnectClosed(t)
                              \/ ReconnectCloseFails(t) \/ ReconnectConnectFails(t)
                              \/ ReconnectCancelled(t)
      PROVE  Goal
  <2>1. loop' = loop /\ start' = start /\ stop' = stop
    BY <1>6 DEF ReconnectBegin, ReconnectWake, ReconnectClosed, ReconnectCloseFails,
                ReconnectConnectFails, ReconnectCancelled, setup, loops
  <2> QED
    BY <2>1, LinkStays, PhaseStays, <1>a
<1>7. ASSUME NEW t \in Recs, ReconnectConnects(t) PROVE Goal
  <2>1. start' = start /\ stop' = stop /\ rec[t] = "connect"
    BY <1>7 DEF ReconnectConnects, setup
  <2>2. running /\ start # "connect"
    BY <2>1 DEF TaskInv, StopInv, StartInv
  <2>3. FeedPhase = "on" /\ FeedPhase' = FeedPhase
    BY <2>1, <2>2, PhaseOn, PhaseStays
  <2>4. \A l \in Loops : ~LoopAlive(l)
    BY <2>1 DEF TaskInv, WorkersInv
  <2>5. PICK l \in Loops : loop' = [loop EXCEPT ![l] = "new"]
    BY <1>7 DEF ReconnectConnects, Connect
  <2>6. FeedLink = "down" /\ FeedLink' = "up"
    BY <2>4, <2>5, NoneAlive DEF FeedLink, LoopAlive, TypeOK
  <2> QED
    BY <2>3, <2>6, <1>b DEF Feed!Up
<1>8. ASSUME NEW l \in Loops, LoopBegin(l) PROVE Goal
  <2>1. FeedPhase' = FeedPhase
    BY <1>8, PhaseStays DEF LoopBegin, setup
  <2>2. FeedLink = "up"
    BY <1>8, OneAlive DEF LoopBegin, LoopAlive
  <2>3. FeedLink' \in {"up", "down"}
    BY <1>8, HeadLink DEF LoopBegin, LoopAlive
  <2> QED
    BY <2>1, <2>2, <2>3, <1>a, <1>c
<1>9. ASSUME NEW l \in Loops, LoopReceives(l) PROVE Goal
  <2>1. FeedPhase' = FeedPhase
    BY <1>9, PhaseStays DEF LoopReceives, setup
  <2>2. FeedLink = "up"
    BY <1>9, OneAlive DEF LoopReceives, LoopAlive
  <2>3. FeedLink' = "busy"
    BY <1>9 DEF LoopReceives, TypeOK, FeedLink
  <2> QED
    BY <2>1, <2>2, <2>3, <1>b DEF Feed!Deliver
<1>10. ASSUME NEW l \in Loops, LoopDispatched(l) PROVE Goal
  <2>1. FeedPhase' = FeedPhase
    BY <1>10, PhaseStays DEF LoopDispatched, setup
  <2>2. FeedLink = "busy"
    BY <1>10, OneAlive DEF LoopDispatched, LoopAlive
  <2>3. FeedLink' \in {"up", "down"}
    BY <1>10, HeadLink DEF LoopDispatched, LoopAlive
  <2> QED
    BY <2>1, <2>2, <2>3, <1>b, <1>c DEF Feed!Delivered
<1>11. ASSUME NEW l \in Loops, LoopLoses(l) PROVE Goal
  <2>1. FeedPhase' = FeedPhase
    BY <1>11, PhaseStays DEF LoopLoses, setup
  <2>2. \A k \in Loops : k # l => ~LoopAlive(k) /\ loop'[k] = loop[k]
    BY <1>11, OneAlive DEF LoopLoses, LoopExit, LoopAlive, TypeOK
  <2>3. loop'[l] = "done"
    BY <1>11 DEF LoopLoses, LoopExit, TypeOK
  <2>4. FeedLink' = "down"
    BY <2>2, <2>3 DEF FeedLink, LoopAlive
  <2> QED
    BY <2>1, <2>4, <1>c
<1>12. ASSUME NEW l \in Loops, LoopCancelled(l) PROVE Goal
  <2>1. FeedPhase' = FeedPhase
    BY <1>12, PhaseStays DEF LoopCancelled, setup
  <2>2. ~LoopAlive(l) /\ loop' = [loop EXCEPT ![l] = "done"]
    BY <1>12 DEF LoopCancelled, LoopExit, LoopAlive
  <2>3. \A k \in Loops : LoopAlive(k) \/ LoopAlive(k)' => loop'[k] = loop[k]
    BY <2>2 DEF LoopAlive, TypeOK
  <2> QED
    BY <2>1, <2>3, LinkStays, <1>a
<1>13. ASSUME NEW m \in Cmds, CommandNext(m) PROVE Goal
  <2>1. loop' = loop /\ start' = start /\ stop' = stop
    BY <1>13 DEF CommandNext, CommandSend, CommandDrained, CommandSendFails, CommandAnswered,
                 CommandTimesOut, setup, loops
  <2> QED
    BY <2>1, LinkStays, PhaseStays, <1>a
<1>14. CASE StopCall
  <2>1. start = "done" /\ start' = "done" /\ stop.pc = "idle" /\ ~running'
    BY <1>14 DEF StopCall, setup
  <2>2. stop'.pc \in {"rec", "rd", "closing", "done"}
    BY <1>14 DEF StopCall, StopReader, TypeOK
  <2>3. FeedPhase = "on" /\ FeedPhase' \in {"stopping", "stopped"}
    BY <2>1, <2>2 DEF FeedPhase
  <2> QED
    BY <2>1, <2>3, <1>e, <1>b DEF Feed!Stop
<1>15. ASSUME stop.pc \in {"rec", "rd", "closing"}, stop'.pc \in {"rd", "closing", "raised", "done"},
              start' = start, running' = running
       PROVE  Goal
  <2>1. start = "done" /\ ~running
    BY <1>15 DEF TypeOK, TaskInv, StartInv, StartPC
  <2>2. FeedPhase = "stopping" /\ FeedPhase' \in {"stopping", "stopped", "raised"}
    BY <1>15, <2>1 DEF FeedPhase
  <2>3. FeedLink' = "down"
    BY <1>15, <2>1, <1>e
  <2> QED
    BY <2>2, <2>3, <1>b, <1>c DEF Feed!Stopped
<1>16. CASE StopReconnectGone
  BY <1>16, <1>15 DEF StopReconnectGone, StopReader, setup, TypeOK
<1>17. CASE StopLoopGone
  BY <1>17, <1>15 DEF StopLoopGone, setup, TypeOK
<1>18. CASE StopClosed
  BY <1>18, <1>15 DEF StopClosed, setup, health, TypeOK
<1>19. CASE Finished \/ UNCHANGED vars
  <2>1. loop' = loop /\ start' = start /\ stop' = stop
    BY <1>19 DEF Finished, vars
  <2> QED
    BY <2>1, LinkStays, PhaseStays, <1>a
<1> QED
  BY <1>1, <1>2, <1>3, <1>4, <1>5, <1>6, <1>7, <1>8, <1>9, <1>10, <1>11, <1>12, <1>13, <1>14, <1>16,
     <1>17, <1>18, <1>19
  DEF Next, StartNext, ReconnectNext, LoopNext, StopNext

(* What the runtime does is what its owner may expect of a live feed, with or    *)
(* without resets: frames one at a time, over a connection that is read, and   *)
(* none once async_stop has returned.                                        *)
THEOREM ImplementsFeedSafely == Spec => Feed!Spec
<1>1. Init => Feed!Init
  BY NoneAlive DEF Init, Feed!Init, FeedPhase, LoopAlive
<1>2. /\ TypeOK /\ TaskInv
      /\ (TypeOK /\ TaskInv)'
      /\ [Next /\ UNCHANGED resets]_<<vars, resets>>
      => [Feed!Next]_(Feed!vars)
  BY FeedStep
<1> QED
  BY <1>1, <1>2, TasksCorrect, PTL DEF Spec, Feed!Spec
=============================================================================
