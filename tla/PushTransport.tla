--------------------------- MODULE PushTransport ---------------------------
(***************************************************************************)
(* The websocket push transport, YeelightPushWebSocketTransport            *)
(* (push_transport.py with its connection, runtime and reconnect mixins).  *)
(*                                                                         *)
(* All of its code runs on one asyncio loop, so the unit of atomicity is   *)
(* the code between two awaits: every action below is one such segment of  *)
(* one task.  The tasks are                                                *)
(*   - the caller of async_start (connector Starter) and of async_stop;      *)
(*   - the reconnect tasks (connectors Recs), which like Starter run         *)
(*     _connect_once;                                                      *)
(*   - per connection, a reader and a heartbeat task.                      *)
(* A connection c names the websocket, its reader and its heartbeat.       *)
(* Connections and reconnect tasks are slots: one is reused when nothing   *)
(* refers to it any more, so that an endless life stays finite-state.      *)
(*                                                                         *)
(* A transport object lives once: every setup of a config entry builds a   *)
(* new one (live_runtime.py), starts it, and stops it at unload.  _callback*)
(* is set and cleared together with _running, so `running` stands for both.*)
(***************************************************************************)
EXTENDS Naturals

CONSTANTS
    Conns,          \* connection slots
    Recs,           \* reconnect task slots
    None,           \* Python's None
    Starter,        \* the connector that is the caller of async_start
    MinDelay,       \* PushReconnectPolicy.min_delay_seconds
    MaxDelay,       \* PushReconnectPolicy.max_delay_seconds
    Multiplier      \* PushReconnectPolicy.multiplier

ASSUME SlotsAssumption ==
    /\ None \notin Conns
    /\ None \notin Recs
    /\ Starter \notin Recs
    /\ Starter # None

ASSUME PolicyAssumption ==
    /\ MinDelay \in Nat \ {0}
    /\ MaxDelay \in Nat
    /\ MinDelay <= MaxDelay
    /\ Multiplier \in Nat
    /\ Multiplier > 1

VARIABLES
    running,        \* _running (and _callback is not None)
    websocket,      \* _websocket
    readerTask,     \* _reader_task, as the connection whose reader it is
    heartbeatTask,  \* _heartbeat_task, likewise
    reconnectTask,  \* _reconnect_task
    nextDelay,      \* _next_reconnect_delay, 0 for None
    startedAt,      \* _connection_started_at: none, or younger/older than one heartbeat interval
    pending,        \* _health.reconnect_pending
    reader,         \* where the reader task of each connection is
    readerWaits,    \* the heartbeat task a finishing reader awaits
    heartbeat,      \* where the heartbeat task of each connection is
    heartbeatWaits, \* the reader a failing heartbeat awaits, then the websocket it closes
    pc,             \* where each connector is
    conn,           \* the websocket local to _connect_once
    stop,           \* async_stop: where it is and its local variables
    open,           \* websockets opened and neither closed by us nor ended by the peer
    closeRaises     \* may websocket.close() raise?  Chosen once; no step changes it

handles == <<readerTask, heartbeatTask>>
health  == <<nextDelay, startedAt>>
vars == <<running, websocket, readerTask, heartbeatTask, reconnectTask, nextDelay,
          startedAt, pending, reader, readerWaits, heartbeat, heartbeatWaits,
          pc, conn, stop, open>>

Connectors == Recs \cup {Starter}
OptConn    == Conns \cup {None}
OptRec     == Recs \cup {None}

ReaderPC    == {"done", "new", "recv", "dispatch", "cancelled", "closing", "cancelHb"}
HeartbeatPC == {"done", "sleep", "send", "cancelled", "cancelReader", "closing"}
ConnectorPC == {"idle", "done", "failed", "new", "sleep", "connect", "subscribe",
                "subclose", "cancelled"}
StopPC      == {"idle", "rec", "hb", "rd", "closing", "raised", "done"}

TypeOK ==
    /\ running \in BOOLEAN
    /\ websocket \in OptConn
    /\ readerTask \in OptConn
    /\ heartbeatTask \in OptConn
    /\ reconnectTask \in OptRec
    /\ nextDelay \in 0 .. MaxDelay
    /\ startedAt \in {"none", "fresh", "aged"}
    /\ pending \in BOOLEAN
    /\ reader \in [Conns -> ReaderPC]
    /\ readerWaits \in [Conns -> OptConn]
    /\ heartbeat \in [Conns -> HeartbeatPC]
    /\ heartbeatWaits \in [Conns -> OptConn]
    /\ pc \in [Connectors -> ConnectorPC]
    /\ conn \in [Connectors -> OptConn]
    /\ stop \in [pc : StopPC, rec : OptRec, hb : OptConn, rd : OptConn, ws : OptConn]
    /\ open \subseteq Conns
    /\ closeRaises \in BOOLEAN

Init ==
    /\ running = FALSE
    /\ websocket = None
    /\ readerTask = None
    /\ heartbeatTask = None
    /\ reconnectTask = None
    /\ nextDelay = 0
    /\ startedAt = "none"
    /\ pending = FALSE
    /\ reader = [c \in Conns |-> "done"]
    /\ readerWaits = [c \in Conns |-> None]
    /\ heartbeat = [c \in Conns |-> "done"]
    /\ heartbeatWaits = [c \in Conns |-> None]
    /\ pc = [k \in Connectors |-> IF k = Starter THEN "idle" ELSE "done"]
    /\ conn = [k \in Connectors |-> None]
    /\ stop = [pc |-> "idle", rec |-> None, hb |-> None, rd |-> None, ws |-> None]
    /\ open = {}
    /\ closeRaises \in BOOLEAN

-----------------------------------------------------------------------------
(* _schedule_reconnect and the reconnect loop *)

(* PushReconnectPolicy.next_delay *)
NextDelay(previous) ==
    IF previous = 0 THEN MinDelay
    ELSE IF previous * Multiplier <= MaxDelay THEN previous * Multiplier ELSE MaxDelay

ReconnectAlive == reconnectTask # None /\ pc[reconnectTask] # "done"

(* _schedule_reconnect, called when the connectors stand at p. *)
ScheduleReconnect(p) ==
    IF running /\ ~ReconnectAlive
    THEN /\ \E t \in Recs :
              /\ p[t] = "done"
              /\ reconnectTask' = t
              /\ pc' = [p EXCEPT ![t] = "new"]
         /\ pending' = TRUE
    ELSE /\ pc' = p
         /\ UNCHANGED <<reconnectTask, pending>>

(* The head of the while loop of _reconnect_until_connected, and its finally *)
(* clause.  The loop is left when it is stopped or connected, so the         *)
(* rescheduling in the finally clause finds nothing to do.                   *)
ReconnectLoop(t, ws) ==
    IF running /\ ws = None
    THEN /\ nextDelay' = NextDelay(nextDelay)
         /\ pending' = TRUE
         /\ pc' = [pc EXCEPT ![t] = "sleep"]
         /\ UNCHANGED reconnectTask
    ELSE /\ pc' = [pc EXCEPT ![t] = "done"]
         /\ reconnectTask' = IF reconnectTask = t THEN None ELSE reconnectTask
         /\ UNCHANGED <<nextDelay, pending>>

tasks == <<reader, readerWaits, heartbeat, heartbeatWaits>>

ReconnectBegin(t) ==
    /\ pc[t] = "new"
    /\ ReconnectLoop(t, websocket)
    /\ UNCHANGED <<running, websocket, handles, startedAt, tasks, conn, stop, open>>

(* The backoff sleep ends: give up if stopped or connected meanwhile. *)
ReconnectWake(t) ==
    /\ pc[t] = "sleep"
    /\ IF ~running \/ websocket # None
       THEN /\ pc' = [pc EXCEPT ![t] = "done"]
            /\ reconnectTask' = IF reconnectTask = t THEN None ELSE reconnectTask
       ELSE /\ pc' = [pc EXCEPT ![t] = "connect"]
            /\ UNCHANGED reconnectTask
    /\ UNCHANGED <<running, websocket, handles, health, pending, tasks, conn, stop, open>>

(* CancelledError inside the loop: no rescheduling.  A websocket whose        *)
(* subscription was cut short stays _websocket; the close() after a failed    *)
(* subscription, cut short, still drops the connection (aiohttp).            *)
ReconnectCancelled(t) ==
    /\ pc[t] = "cancelled"
    /\ pc' = [pc EXCEPT ![t] = "done"]
    /\ reconnectTask' = IF reconnectTask = t THEN None ELSE reconnectTask
    /\ conn' = [conn EXCEPT ![t] = None]
    /\ open' = IF conn[t] = websocket THEN open ELSE open \ {conn[t]}
    /\ UNCHANGED <<running, websocket, handles, health, pending, tasks, stop>>

-----------------------------------------------------------------------------
(* async_start and _connect_once *)

StartCall ==
    /\ pc[Starter] = "idle"
    /\ ~running /\ websocket = None
    /\ running' = TRUE
    /\ nextDelay' = 0
    /\ pc' = [pc EXCEPT ![Starter] = "connect"]
    /\ UNCHANGED <<websocket, handles, reconnectTask, startedAt, pending, tasks, conn,
                   stop, open>>

(* Mutant: a reconnect task gives up after a failed attempt. *)
MutAttemptFailed(k) ==
    IF k = Starter
    THEN /\ ScheduleReconnect([pc EXCEPT ![Starter] = "done"])
         /\ UNCHANGED nextDelay
    ELSE /\ pc' = [pc EXCEPT ![k] = "done"]
         /\ reconnectTask' = IF reconnectTask = k THEN None ELSE reconnectTask
         /\ UNCHANGED <<nextDelay, pending>>

(* An attempt of connector k raised an error that is no ValueError: the start *)
(* schedules a reconnect and returns, a reconnect task loops.                *)
AttemptFailed(k) ==
    IF k = Starter
    THEN /\ ScheduleReconnect([pc EXCEPT ![Starter] = "done"])
         /\ UNCHANGED nextDelay
    ELSE ReconnectLoop(k, websocket)

ConnectFails(k) ==
    /\ pc[k] = "connect"
    /\ AttemptFailed(k)
    /\ UNCHANGED <<running, websocket, handles, startedAt, tasks, conn, stop, open>>

(* build_push_url rejects the token (ValueError): async_start raises. *)
StartRejected ==
    /\ pc[Starter] = "connect"
    /\ running' = FALSE
    /\ pc' = [pc EXCEPT ![Starter] = "failed"]
    /\ UNCHANGED <<websocket, handles, reconnectTask, health, pending, tasks, conn,
                   stop, open>>

(* A slot nothing refers to. *)
FreeConn(c) ==
    /\ reader[c] = "done"
    /\ heartbeat[c] = "done"
    /\ c \notin open
    /\ c \notin {websocket, readerTask, heartbeatTask}
    /\ \A d \in Conns : c \notin {readerWaits[d], heartbeatWaits[d]}
    /\ \A k \in Connectors : conn[k] # c
    /\ c \notin {stop.hb, stop.rd, stop.ws}

ConnectSucceeds(k) ==
    /\ pc[k] = "connect"
    /\ \E c \in Conns :
         /\ FreeConn(c)
         /\ websocket' = c
         /\ conn' = [conn EXCEPT ![k] = c]
         /\ open' = open \cup {c}
    /\ startedAt' = "fresh"
    /\ pending' = FALSE
    /\ pc' = [pc EXCEPT ![k] = "subscribe"]
    /\ UNCHANGED <<running, handles, reconnectTask, nextDelay, tasks, stop>>

(* The subscribe frame is sent: reader and heartbeat tasks are created and    *)
(* the caller goes on without another await.                                 *)
SubscribeSucceeds(k) ==
    /\ pc[k] = "subscribe"
    /\ readerTask' = conn[k]
    /\ heartbeatTask' = conn[k]
    /\ reader' = [reader EXCEPT ![conn[k]] = "new"]
    /\ heartbeat' = [heartbeat EXCEPT ![conn[k]] = "sleep"]
    /\ conn' = [conn EXCEPT ![k] = None]
    /\ IF k = Starter
       THEN /\ pc' = [pc EXCEPT ![Starter] = "done"]
            /\ UNCHANGED <<nextDelay, pending, reconnectTask>>
       ELSE ReconnectLoop(k, websocket)
    /\ UNCHANGED <<running, websocket, startedAt, readerWaits, heartbeatWaits, stop, open>>

SubscribeFails(k) ==
    /\ pc[k] = "subscribe"
    /\ websocket' = None
    /\ pc' = [pc EXCEPT ![k] = "subclose"]
    /\ UNCHANGED <<running, handles, reconnectTask, health, pending, tasks, conn, stop, open>>

(* The half-open websocket is closed, whatever close() raises is suppressed. *)
SubscribeClosed(k) ==
    /\ pc[k] = "subclose"
    /\ AttemptFailed(k)
    /\ conn' = [conn EXCEPT ![k] = None]
    /\ \/ open' = open \ {conn[k]}
       \/ closeRaises /\ UNCHANGED open
    /\ UNCHANGED <<running, websocket, handles, startedAt, tasks, stop>>

-----------------------------------------------------------------------------
(* _read_messages *)

ReaderBegin(c) ==
    /\ reader[c] = "new"
    /\ reader' = [reader EXCEPT ![c] = IF websocket = None THEN "done" ELSE "recv"]
    /\ UNCHANGED <<running, websocket, handles, reconnectTask, health, pending, readerWaits,
                   heartbeat, heartbeatWaits, pc, conn, stop, open>>

(* A property, event or snapshot frame is handed to the callback. *)
ReaderDispatch(c) ==
    /\ reader[c] = "recv"
    /\ reader' = [reader EXCEPT ![c] = "dispatch"]
    /\ UNCHANGED <<running, websocket, handles, reconnectTask, health, pending, readerWaits,
                   heartbeat, heartbeatWaits, pc, conn, stop, open>>

ReaderDispatched(c) ==
    /\ reader[c] = "dispatch"
    /\ reader' = [reader EXCEPT ![c] = "recv"]
    /\ UNCHANGED <<running, websocket, handles, reconnectTask, health, pending, readerWaits,
                   heartbeat, heartbeatWaits, pc, conn, stop, open>>

(* The end of _cleanup_after_reader_exit, which cancels whatever task           *)
(* _heartbeat_task holds by now, and the _schedule_reconnect that follows it.  *)
CancelHeartbeatTask(c) ==
    /\ heartbeatTask' = None
    /\ IF heartbeatTask # None /\ heartbeat[heartbeatTask] # "done"
       THEN /\ heartbeat' = [heartbeat EXCEPT ![heartbeatTask] = "cancelled"]
            /\ reader' = [reader EXCEPT ![c] = "cancelHb"]
            /\ readerWaits' = [readerWaits EXCEPT ![c] = heartbeatTask]
            /\ UNCHANGED <<pc, reconnectTask, pending>>
       ELSE /\ reader' = [reader EXCEPT ![c] = "done"]
            /\ ScheduleReconnect(pc)
            /\ UNCHANGED <<heartbeat, readerWaits>>

(* A reader that is no longer _reader_task leaves the clean-up to whoever took *)
(* it, but still calls _schedule_reconnect.                                  *)
ReaderDisowned(c) ==
    /\ reader' = [reader EXCEPT ![c] = "done"]
    /\ ScheduleReconnect(pc)
    /\ UNCHANGED <<websocket, readerTask, heartbeatTask, nextDelay, startedAt, heartbeat,
                   readerWaits>>

DelayAfterLoss == IF startedAt = "aged" THEN 0 ELSE nextDelay

(* The peer closed the websocket (a CLOSE, CLOSED or ERROR message). *)
ReaderEnds(c) ==
    /\ reader[c] = "recv"
    /\ IF readerTask # c
       THEN ReaderDisowned(c)
       ELSE /\ readerTask' = None
            /\ IF websocket = c
               THEN /\ websocket' = None
                    /\ nextDelay' = DelayAfterLoss
                    /\ startedAt' = "none"
               ELSE UNCHANGED <<websocket, nextDelay, startedAt>>
            /\ CancelHeartbeatTask(c)
    /\ open' = open \ {c}
    /\ UNCHANGED <<running, heartbeatWaits, conn, stop>>

(* receive() raised, or a control frame reported an error. *)
ReaderFails(c) ==
    /\ reader[c] = "recv"
    /\ IF readerTask # c
       THEN ReaderDisowned(c)
       ELSE /\ readerTask' = None
            /\ IF websocket = c
               THEN /\ nextDelay' = DelayAfterLoss
                    /\ reader' = [reader EXCEPT ![c] = "closing"]
                    /\ UNCHANGED <<heartbeatTask, heartbeat, readerWaits, pc,
                                   reconnectTask, pending>>
               ELSE /\ CancelHeartbeatTask(c)
                    /\ UNCHANGED nextDelay
            /\ UNCHANGED <<websocket, startedAt>>
    /\ UNCHANGED <<running, heartbeatWaits, conn, stop, open>>

(* The close() of a failed reader returned (ok) or raised: only a successful   *)
(* close gives the websocket up.                                             *)
ReaderClosed(c, ok) ==
    /\ reader[c] = "closing"
    /\ ok \/ closeRaises
    /\ websocket' = IF ok /\ websocket = c THEN None ELSE websocket
    /\ open' = IF ok THEN open \ {c} ELSE open
    /\ startedAt' = "none"
    /\ CancelHeartbeatTask(c)
    /\ UNCHANGED <<running, readerTask, nextDelay, heartbeatWaits, conn, stop>>

(* Mutant: the finished reader forgets to schedule a reconnect. *)
MutReaderHeartbeatGone(c) ==
    /\ reader[c] = "cancelHb"
    /\ heartbeat[readerWaits[c]] = "done"
    /\ reader' = [reader EXCEPT ![c] = "done"]
    /\ readerWaits' = [readerWaits EXCEPT ![c] = None]
    /\ UNCHANGED <<running, websocket, handles, reconnectTask, health, pending, heartbeat,
                   heartbeatWaits, pc, conn, stop, open>>

ReaderHeartbeatGone(c) ==
    /\ reader[c] = "cancelHb"
    /\ heartbeat[readerWaits[c]] = "done"
    /\ reader' = [reader EXCEPT ![c] = "done"]
    /\ readerWaits' = [readerWaits EXCEPT ![c] = None]
    /\ ScheduleReconnect(pc)
    /\ UNCHANGED <<running, websocket, handles, health, heartbeat, heartbeatWaits, conn,
                   stop, open>>

(* CancelledError in receive() or in the callback: the finally clause.  *)
ReaderCancelled(c) ==
    /\ reader[c] = "cancelled"
    /\ ReaderDisowned(c)
    /\ UNCHANGED <<running, heartbeatWaits, conn, stop, open>>

-----------------------------------------------------------------------------
(* _send_heartbeats *)

ForgetHeartbeat(c) == IF heartbeatTask = c THEN None ELSE heartbeatTask

(* The current connection reaches the age from which on it counts as stable:   *)
(* one heartbeat interval.                                                   *)
TimePasses ==
    /\ startedAt = "fresh"
    /\ startedAt' = "aged"
    /\ UNCHANGED <<running, websocket, handles, reconnectTask, nextDelay, pending, tasks,
                   pc, conn, stop, open>>

(* The heartbeat's sleep ends: its connection is then at least one interval    *)
(* old, and the reader created along with it has long begun to run.          *)
HeartbeatFires(c) ==
    /\ heartbeat[c] = "sleep"
    /\ reader[c] # "new"
    /\ startedAt # "fresh"
    /\ IF websocket = None
       THEN /\ heartbeat' = [heartbeat EXCEPT ![c] = "done"]
            /\ heartbeatTask' = ForgetHeartbeat(c)
       ELSE /\ heartbeat' = [heartbeat EXCEPT ![c] = "send"]
            /\ UNCHANGED heartbeatTask
    /\ UNCHANGED <<running, websocket, readerTask, reconnectTask, health, pending, reader,
                   readerWaits, heartbeatWaits, pc, conn, stop, open>>

HeartbeatSent(c) ==
    /\ heartbeat[c] = "send"
    /\ heartbeat' = [heartbeat EXCEPT ![c] = "sleep"]
    /\ UNCHANGED <<running, websocket, handles, reconnectTask, health, pending, reader,
                   readerWaits, heartbeatWaits, pc, conn, stop, open>>

(* _close_after_background_failure once the reader is gone. *)
HeartbeatCloses(c) ==
    IF websocket = None
    THEN /\ heartbeat' = [heartbeat EXCEPT ![c] = "done"]
         /\ heartbeatWaits' = [heartbeatWaits EXCEPT ![c] = None]
         /\ ScheduleReconnect(pc)
         /\ UNCHANGED nextDelay
    ELSE /\ heartbeat' = [heartbeat EXCEPT ![c] = "closing"]
         /\ heartbeatWaits' = [heartbeatWaits EXCEPT ![c] = websocket]
         /\ nextDelay' = DelayAfterLoss
         /\ UNCHANGED <<pc, reconnectTask, pending>>

(* Cancelling a reader: one that has not run yet never runs. *)
CancelReader(c) ==
    reader' = [reader EXCEPT ![c] = IF @ = "new" THEN "done" ELSE "cancelled"]

(* Mutant: a failing heartbeat leaves the reader running. *)
MutHeartbeatFails(c) ==
    /\ heartbeat[c] = "send"
    /\ heartbeatTask' = ForgetHeartbeat(c)
    /\ readerTask' = None
    /\ HeartbeatCloses(c)
    /\ UNCHANGED <<running, websocket, startedAt, reader, readerWaits, conn, stop, open>>

HeartbeatFails(c) ==
    /\ heartbeat[c] = "send"
    /\ heartbeatTask' = ForgetHeartbeat(c)
    /\ readerTask' = None
    /\ IF readerTask # None /\ reader[readerTask] # "done"
       THEN /\ CancelReader(readerTask)
            /\ heartbeat' = [heartbeat EXCEPT ![c] = "cancelReader"]
            /\ heartbeatWaits' = [heartbeatWaits EXCEPT ![c] = readerTask]
            /\ UNCHANGED <<nextDelay, pc, reconnectTask, pending>>
       ELSE /\ HeartbeatCloses(c)
            /\ UNCHANGED reader
    /\ UNCHANGED <<running, websocket, startedAt, readerWaits, conn, stop, open>>

HeartbeatReaderGone(c) ==
    /\ heartbeat[c] = "cancelReader"
    /\ reader[heartbeatWaits[c]] = "done"
    /\ HeartbeatCloses(c)
    /\ UNCHANGED <<running, websocket, handles, startedAt, reader, readerWaits, conn, stop,
                   open>>

HeartbeatClosed(c, ok) ==
    /\ heartbeat[c] = "closing"
    /\ ok \/ closeRaises
    /\ websocket' = IF ok /\ websocket = heartbeatWaits[c] THEN None ELSE websocket
    /\ open' = IF ok THEN open \ {heartbeatWaits[c]} ELSE open
    /\ heartbeat' = [heartbeat EXCEPT ![c] = "done"]
    /\ heartbeatWaits' = [heartbeatWaits EXCEPT ![c] = None]
    /\ ScheduleReconnect(pc)
    /\ UNCHANGED <<running, handles, health, reader, readerWaits, conn, stop>>

HeartbeatCancelled(c) ==
    /\ heartbeat[c] = "cancelled"
    /\ heartbeat' = [heartbeat EXCEPT ![c] = "done"]
    /\ heartbeatWaits' = [heartbeatWaits EXCEPT ![c] = None]
    /\ heartbeatTask' = ForgetHeartbeat(c)
    /\ UNCHANGED <<running, websocket, readerTask, reconnectTask, health, pending, reader,
                   readerWaits, pc, conn, stop, open>>

-----------------------------------------------------------------------------
(* async_stop *)

Dead(kind, t) ==
    \/ t = None
    \/ kind = "rec" /\ pc[t] = "done"
    \/ kind = "hb"  /\ heartbeat[t] = "done"
    \/ kind = "rd"  /\ reader[t] = "done"

(* Cancel and await the three tasks in turn, skipping the finished ones, then  *)
(* close the websocket.                                                      *)
StopProceeds(rec, hb, rd) ==
    LET at(where, ws) == [pc |-> where, rec |-> rec, hb |-> hb, rd |-> rd, ws |-> ws]
    IN  IF ~Dead("rec", rec)
        THEN /\ pc' = [pc EXCEPT ![rec] = IF @ = "new" THEN "done" ELSE "cancelled"]
             /\ stop' = at("rec", None)
             /\ UNCHANGED <<heartbeat, reader>>
        ELSE IF ~Dead("hb", hb)
        THEN /\ heartbeat' = [heartbeat EXCEPT ![hb] = "cancelled"]
             /\ stop' = at("hb", None)
             /\ UNCHANGED <<pc, reader>>
        ELSE IF ~Dead("rd", rd)
        THEN /\ CancelReader(rd)
             /\ stop' = at("rd", None)
             /\ UNCHANGED <<pc, heartbeat>>
        ELSE /\ stop' = [pc |-> IF websocket = None THEN "done" ELSE "closing",
                         rec |-> None, hb |-> None, rd |-> None, ws |-> websocket]
             /\ UNCHANGED <<pc, heartbeat, reader>>

(* Mutant: the reader is forgotten instead of being cancelled. *)
MutStopCallReader ==
    /\ pc[Starter] = "done"
    /\ stop.pc \in {"idle", "raised"}
    /\ running' = FALSE
    /\ pending' = FALSE
    /\ reconnectTask' = None
    /\ heartbeatTask' = None
    /\ readerTask' = None
    /\ StopProceeds(reconnectTask, heartbeatTask, None)
    /\ UNCHANGED <<websocket, health, readerWaits, heartbeatWaits, conn, open>>

(* Called once the start has returned, and again after a stop that raised.    *)
StopCall ==
    /\ pc[Starter] = "done"
    /\ stop.pc \in {"idle", "raised"}
    /\ running' = FALSE
    /\ pending' = FALSE
    /\ reconnectTask' = None
    /\ heartbeatTask' = None
    /\ readerTask' = None
    /\ StopProceeds(reconnectTask, heartbeatTask, readerTask)
    /\ UNCHANGED <<websocket, health, readerWaits, heartbeatWaits, conn, open>>

StopTaskGone ==
    /\ \/ stop.pc = "rec" /\ Dead("rec", stop.rec)
       \/ stop.pc = "hb"  /\ Dead("hb", stop.hb)
       \/ stop.pc = "rd"  /\ Dead("rd", stop.rd)
    /\ StopProceeds(stop.rec, stop.hb, stop.rd)
    /\ UNCHANGED <<running, websocket, handles, reconnectTask, health, pending, readerWaits,
                   heartbeatWaits, conn, open>>

StopClosed(ok) ==
    /\ stop.pc = "closing"
    /\ ok \/ closeRaises
    /\ websocket' = IF ok THEN None ELSE websocket
    /\ open' = IF ok THEN open \ {stop.ws} ELSE open
    /\ stop' = [stop EXCEPT !.pc = IF ok THEN "done" ELSE "raised", !.ws = None]
    /\ UNCHANGED <<running, handles, reconnectTask, health, pending, tasks, pc, conn>>

(* Nothing is left to run. *)
Finished ==
    /\ stop.pc = "done" \/ pc[Starter] = "failed"
    /\ \A c \in Conns : reader[c] = "done" /\ heartbeat[c] = "done"
    /\ \A t \in Recs : pc[t] = "done"
    /\ UNCHANGED vars

-----------------------------------------------------------------------------
ConnectorNext(k) ==
    \/ ConnectFails(k)
    \/ ConnectSucceeds(k)
    \/ SubscribeSucceeds(k)
    \/ SubscribeFails(k)
    \/ SubscribeClosed(k)

ReconnectNext(t) ==
    \/ ReconnectBegin(t)
    \/ ReconnectWake(t)
    \/ ReconnectCancelled(t)

ReaderNext(c) ==
    \/ ReaderBegin(c)
    \/ ReaderDispatch(c)
    \/ ReaderDispatched(c)
    \/ ReaderEnds(c)
    \/ ReaderFails(c)
    \/ \E ok \in BOOLEAN : ReaderClosed(c, ok)
    \/ ReaderHeartbeatGone(c)
    \/ ReaderCancelled(c)

HeartbeatNext(c) ==
    \/ HeartbeatFires(c)
    \/ HeartbeatSent(c)
    \/ HeartbeatFails(c)
    \/ HeartbeatReaderGone(c)
    \/ \E ok \in BOOLEAN : HeartbeatClosed(c, ok)
    \/ HeartbeatCancelled(c)

StopNext ==
    \/ StopCall
    \/ StopTaskGone
    \/ \E ok \in BOOLEAN : StopClosed(ok)

Next ==
    \/ StartCall
    \/ StartRejected
    \/ \E k \in Connectors : ConnectorNext(k)
    \/ \E t \in Recs : ReconnectNext(t)
    \/ \E c \in Conns : ReaderNext(c)
    \/ \E c \in Conns : HeartbeatNext(c)
    \/ TimePasses
    \/ StopNext
    \/ Finished

Spec == Init /\ [][Next /\ UNCHANGED closeRaises]_<<vars, closeRaises>>

(* Every task that can run runs, every sleep ends and every close() returns;   *)
(* StopCall, StartCall and what the peer sends are nobody's obligation.       *)
TaskFairness ==
    /\ \A t \in Recs : WF_vars(ReconnectNext(t))
    /\ \A k \in Connectors : WF_vars(ConnectorNext(k))
    /\ \A c \in Conns :
         /\ WF_vars(ReaderBegin(c))
         /\ WF_vars(ReaderDispatched(c))
         /\ WF_vars(\E ok \in BOOLEAN : ReaderClosed(c, ok))
         /\ WF_vars(ReaderHeartbeatGone(c))
         /\ WF_vars(ReaderCancelled(c))
         /\ WF_vars(HeartbeatNext(c))
    /\ WF_vars(TimePasses)
    /\ WF_vars(StopTaskGone)
    /\ WF_vars(\E ok \in BOOLEAN : StopClosed(ok))

(* The cloud is not down for ever: an attempt repeated for ever succeeds. *)
NetworkFairness ==
    \A k \in Connectors : SF_vars(ConnectSucceeds(k)) /\ SF_vars(SubscribeSucceeds(k))

FairSpec == Spec /\ TaskFairness /\ NetworkFairness

-----------------------------------------------------------------------------
(* Properties *)

Connecting(k) == pc[k] \in {"connect", "subscribe", "subclose"}
Receiving(c)  == reader[c] \in {"recv", "dispatch"}

(* No two tasks are inside _connect_once at a time, so that no websocket      *)
(* overwrites another in _websocket: a connect begins with none, and while    *)
(* the subscribe frame is sent nobody takes the new one away.                *)
OneConnector ==
    /\ \A k, l \in Connectors : Connecting(k) /\ Connecting(l) => k = l
    /\ \A k \in Connectors :
         /\ pc[k] = "connect" => websocket = None
         /\ pc[k] = "subscribe" => websocket = conn[k]

(* Payloads come from one connection at a time, the current one: a reader     *)
(* that lost its connection to a failure never dispatches again, even though  *)
(* its clean-up may still be running when the next connection is up.         *)
OneReceiver ==
    /\ \A c, d \in Conns : Receiving(c) /\ Receiving(d) => c = d
    /\ \A c \in Conns : running /\ Receiving(c) => websocket = c

(* However late the tasks of earlier connections clean up: one connection is made   *)
(* at a time, and one is listened to.                                           *)
OneConnection == OneConnector /\ OneReceiver

Connected == websocket # None /\ readerTask = websocket
                /\ reader[websocket] \in {"new", "recv", "dispatch"}
Retrying  == ReconnectAlive /\ (websocket = None \/ pc[reconnectTask] = "subscribe")
Repairing == \E c \in Conns :
                 \/ reader[c] \in {"closing", "cancelHb"}
                 \/ heartbeat[c] \in {"cancelReader", "closing"}

(* A running transport is never stranded: unless the start is still at work,   *)
(* a reader serves the websocket, or a reconnect task is on its way, or a      *)
(* failure is being cleaned up by a task that reschedules when it is done.   *)
NeverStranded ==
    running => Connecting(Starter) \/ Connected \/ Retrying \/ Repairing

(* After async_stop returned there is no websocket, no reader that could       *)
(* dispatch, no heartbeat that could send and no reconnect task.             *)
QuietAfterStop ==
    stop.pc = "done" =>
        /\ websocket = None
        /\ \A c \in Conns : /\ reader[c] # "new" /\ ~Receiving(c)
                            /\ heartbeat[c] \notin {"sleep", "send"}
        /\ \A k \in Connectors : pc[k] = "done"

(* ... and every websocket that was opened is closed.                          *)
NoSocketLeak == stop.pc = "done" => open = {}

(* If close() does not raise, the transport is never stranded and leaves no    *)
(* websocket open.                                                           *)
ServedIfClosed == closeRaises \/ (NeverStranded /\ NoSocketLeak)

-----------------------------------------------------------------------------
(* The inductive invariant behind OneConnector, OneReceiver, NeverStranded     *)
(* and QuietAfterStop.                                                       *)

Alive(c)   == reader[c] \in {"new", "recv", "dispatch"}
Beating(c) == heartbeat[c] \in {"sleep", "send"}

(* Each task handle holds the one task that works, and only while running;    *)
(* whoever works on the websocket works on the current one.                  *)
HandlesInv ==
    /\ readerTask # None => running /\ websocket = readerTask /\ Alive(readerTask)
    /\ heartbeatTask # None => running /\ websocket = heartbeatTask /\ Beating(heartbeatTask)
    /\ reconnectTask # None => running /\ pc[reconnectTask] \notin {"done", "cancelled"}
    /\ running =>
         /\ \A c \in Conns : Alive(c) => readerTask = c
         /\ \A c \in Conns : Beating(c) => heartbeatTask = c
         /\ \A t \in Recs : pc[t] # "done" => reconnectTask = t

(* Until async_start returned there is nothing but its own attempt. *)
StartInv ==
    /\ pc[Starter] \notin {"new", "sleep", "cancelled"}
    /\ \A t \in Recs : pc[t] \notin {"idle", "failed"}
    /\ pc[Starter] # "done" =>
         /\ \A c \in Conns : reader[c] = "done" /\ heartbeat[c] = "done"
         /\ \A t \in Recs : pc[t] = "done"
         /\ stop.pc = "idle"

ConnectInv ==
    \A k \in Connectors :
        /\ pc[k] \in {"sleep", "connect", "subclose"} => websocket = None
        /\ pc[k] = "subscribe" =>
             /\ conn[k] \in Conns
             /\ websocket = conn[k]
             /\ reader[conn[k]] = "done" /\ heartbeat[conn[k]] = "done"

(* A failing heartbeat closes its own websocket and no other. *)
HeartbeatInv ==
    \A c \in Conns :
        /\ Beating(c) \/ heartbeat[c] = "cancelReader" => websocket \in {c, None}
        /\ heartbeat[c] = "cancelReader" =>
             /\ running => websocket = c
             /\ reader[c] \in {"cancelled", "done"}
        /\ heartbeat[c] = "closing" =>
             /\ heartbeatWaits[c] = c
             /\ running => ~Alive(c)

(* What is still at work when running is off is what async_stop will come to. *)
StopInv ==
    /\ stop.pc # "idle" => ~running /\ pc[Starter] = "done"
    /\ pc[Starter] \in {"idle", "failed"} => ~running
    /\ pc[Starter] \in {"connect", "subscribe", "subclose"} => running
    /\ pc[Starter] = "done" /\ stop.pc = "idle" => running
    /\ stop.pc = "done" => websocket = None
    /\ ~running =>
         /\ \A c \in Conns : Alive(c) => stop.pc \in {"rec", "hb"} /\ stop.rd = c
         /\ \A c \in Conns : Beating(c) => stop.pc = "rec" /\ stop.hb = c
         /\ \A t \in Recs : pc[t] # "done" =>
                pc[t] = "cancelled" /\ stop.pc = "rec" /\ stop.rec = t

(* A websocket is served, or being taken down by a task that reschedules; and *)
(* without one a reconnect task or such a task is there.                     *)
ServedInv ==
    running /\ pc[Starter] = "done" =>
        /\ websocket # None =>
             \/ readerTask = websocket
             \/ \E t \in Recs : pc[t] = "subscribe"
             \/ reader[websocket] = "closing"
             \/ heartbeat[websocket] \in {"cancelReader", "closing"}
        /\ websocket = None => reconnectTask # None \/ Repairing

TaskInv == HandlesInv /\ StartInv /\ ConnectInv /\ HeartbeatInv /\ StopInv

(* If close() does not raise: an open websocket is _websocket, or the local     *)
(* one of a connector that closes it; and async_stop closes _websocket.      *)
SocketInv ==
    /\ \A c \in open : \/ websocket = c
                        \/ \E k \in Connectors : /\ pc[k] \in {"subclose", "cancelled"}
                                                /\ conn[k] = c
    /\ stop.pc = "closing" => websocket \in {stop.ws, None}

IndInv == TypeOK /\ TaskInv /\ (closeRaises \/ (ServedInv /\ SocketInv))

-----------------------------------------------------------------------------
(* The transport implements the feed its manager expects. *)

FeedPhase ==
    IF pc[Starter] = "idle" THEN "off"
    ELSE IF pc[Starter] = "failed" THEN "failed"
    ELSE IF pc[Starter] # "done" THEN "starting"
    ELSE IF stop.pc = "idle" THEN "on"
    ELSE IF stop.pc = "raised" THEN "raised"
    ELSE IF stop.pc = "done" THEN "stopped"
    ELSE "stopping"

FeedLink ==
    IF \E c \in Conns : reader[c] = "dispatch" THEN "busy"
    ELSE IF \E c \in Conns : reader[c] \in {"new", "recv"} THEN "up"
    ELSE "down"

Feed == INSTANCE LiveFeed WITH phase <- FeedPhase, link <- FeedLink

FeedIfClosed ==
    INSTANCE LiveFeed WITH
        phase <- IF closeRaises THEN "off" ELSE FeedPhase,
        link  <- IF closeRaises THEN "down" ELSE FeedLink

(* If close() does not raise, the transport is a live feed: it gets its         *)
(* connection back after every loss, and a stop ends.                        *)
ImplementsFeedIfClosed == FeedIfClosed!FairSpec
=============================================================================
