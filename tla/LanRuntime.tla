----------------------------- MODULE LanRuntime -----------------------------
(***************************************************************************)
(* The LAN gateway runtime, LanGatewayRuntime (lan_runtime.py), with its   *)
(* caller async_start_lan_runtime and the commands that core/lan_control.py *)
(* sends through it.                                                       *)
(*                                                                         *)
(* As in PushTransport every action is the code between two awaits of one  *)
(* task.  The tasks are the setup that starts the runtime and asks for the *)
(* topology, the read loops, the reconnect loops, the commands that wait   *)
(* for an ACK, and async_stop.  A read loop is not bound to a connection:  *)
(* it takes self._reader anew for every read, so `reads` records what it   *)
(* took.  Sockets, loops, reconnect loops and commands are slots that are  *)
(* used again when nothing refers to them any more; a command's id is fresh *)
(* (LanMessageBuilder counts up), so a late ACK for an earlier use of the  *)
(* slot matches no id and is a frame like any other.                       *)
(*                                                                         *)
(* _reader and _writer are set and cleared together: `link` is both.       *)
(***************************************************************************)
EXTENDS Naturals

CONSTANTS
    Socks,      \* TCP connection slots
    Loops,      \* read loop task slots
    Recs,       \* reconnect loop task slots
    Cmds,       \* commands that may be under way at a time
    None,       \* Python's None
    MinDelay,   \* _LAN_RECONNECT_DELAY_MIN
    MaxDelay    \* _LAN_RECONNECT_DELAY_MAX

ASSUME SlotsAssumption == None \notin Socks \cup Loops \cup Recs

ASSUME DelayAssumption ==
    /\ MinDelay \in Nat \ {0}
    /\ MaxDelay \in Nat
    /\ MinDelay <= MaxDelay

VARIABLES
    running,        \* _health.running (and _callback is not None)
    connected,      \* _health.connected
    link,           \* _reader and _writer
    readerTask,     \* _reader_task
    reconnectTask,  \* _reconnect_task
    delay,          \* _reconnect_delay
    pendingAcks,    \* the keys of _pending_acks
    start,          \* where async_start_lan_runtime is
    topologyOn,     \* the writer async_get_topology waits for
    loop,           \* where each read loop is
    reads,          \* the connection it reads
    rec,            \* where each reconnect loop is
    closes,         \* the writer whose closing it awaits
    cmd,            \* where each command is
    sentOn,         \* the connection it was written to
    future,         \* its ACK future
    stop,           \* async_stop: where it is and its local variables
    open,           \* connections that were opened and that we did not close
    reset,          \* connections that were lost with an error
    resets          \* may a connection be so lost, and not just end?  No step changes it

health   == <<running, connected>>
handles  == <<readerTask, reconnectTask>>
setup    == <<start, topologyOn>>
loops    == <<loop, reads>>
recs     == <<rec, closes>>
commands == <<pendingAcks, cmd, sentOn, future>>
vars == <<running, connected, link, readerTask, reconnectTask, delay, pendingAcks, start,
          topologyOn, loop, reads, rec, closes, cmd, sentOn, future, stop, open, reset>>

OptSock == Socks \cup {None}
OptLoop == Loops \cup {None}
OptRec  == Recs \cup {None}

StartPC   == {"idle", "connect", "topology", "done", "failed", "lost"}
LoopPC    == {"done", "new", "read", "dispatch", "cancelled", "killed"}
RecPC     == {"done", "new", "sleep", "closing", "connect", "cancelled"}
CmdPC     == {"idle", "drain", "wait"}
FuturePC  == {"none", "pending", "ack", "cancelled"}
StopPC    == {"idle", "rec", "rd", "closing", "raised", "done"}

TypeOK ==
    /\ running \in BOOLEAN
    /\ connected \in BOOLEAN
    /\ link \in OptSock
    /\ readerTask \in OptLoop
    /\ reconnectTask \in OptRec
    /\ delay \in MinDelay .. MaxDelay
    /\ pendingAcks \subseteq Cmds
    /\ start \in StartPC
    /\ topologyOn \in OptSock
    /\ loop \in [Loops -> LoopPC]
    /\ reads \in [Loops -> OptSock]
    /\ rec \in [Recs -> RecPC]
    /\ closes \in [Recs -> OptSock]
    /\ cmd \in [Cmds -> CmdPC]
    /\ sentOn \in [Cmds -> OptSock]
    /\ future \in [Cmds -> FuturePC]
    /\ stop \in [pc : StopPC, rec : OptRec, rd : OptLoop, ws : OptSock]
    /\ open \subseteq Socks
    /\ reset \subseteq Socks
    /\ resets \in BOOLEAN

Init ==
    /\ running = FALSE
    /\ connected = FALSE
    /\ link = None
    /\ readerTask = None
    /\ reconnectTask = None
    /\ delay = MinDelay
    /\ pendingAcks = {}
    /\ start = "idle"
    /\ topologyOn = None
    /\ loop = [l \in Loops |-> "done"]
    /\ reads = [l \in Loops |-> None]
    /\ rec = [t \in Recs |-> "done"]
    /\ closes = [t \in Recs |-> None]
    /\ cmd = [m \in Cmds |-> "idle"]
    /\ sentOn = [m \in Cmds |-> None]
    /\ future = [m \in Cmds |-> "none"]
    /\ stop = [pc |-> "idle", rec |-> None, rd |-> None, ws |-> None]
    /\ open = {}
    /\ reset = {}
    /\ resets \in BOOLEAN

-----------------------------------------------------------------------------
(* Connections *)

(* A slot nothing refers to. *)
FreeSock(c) ==
    /\ c \notin open
    /\ c \notin {link, topologyOn, stop.ws}
    /\ \A l \in Loops : reads[l] # c
    /\ \A t \in Recs : closes[t] # c
    /\ \A m \in Cmds : sentOn[m] # c

(* The transport is lost with an exception (ECONNRESET, ETIMEDOUT, ...). *)
PeerResets(c) ==
    /\ resets
    /\ ~FreeSock(c) /\ c \notin reset
    /\ reset' = reset \cup {c}
    /\ UNCHANGED <<health, link, handles, delay, commands, setup, loops, recs, stop, open>>

(* _connect succeeded with connection c, and the task that called it creates a *)
(* read loop before it awaits anything else.                                 *)
Connect(c) ==
    /\ FreeSock(c)
    /\ link' = c
    /\ open' = open \cup {c}
    /\ reset' = reset \ {c}
    /\ connected' = TRUE
    /\ delay' = MinDelay
    /\ \E l \in Loops :
         /\ loop[l] = "done"
         /\ loop' = [loop EXCEPT ![l] = "new"]
         /\ readerTask' = l

(* wait_closed() raises the exception that lost the connection, if one did. *)
ClosedWell(c) == c \notin reset

Lost(c) == c \in reset \/ c \notin open

-----------------------------------------------------------------------------
(* async_start_lan_runtime: async_start, then async_get_topology *)

StartCall ==
    /\ start = "idle"
    /\ running' = TRUE
    /\ start' = "connect"
    /\ UNCHANGED <<connected, link, handles, delay, commands, topologyOn, loops, recs, stop,
                   open, reset>>

StartFails ==
    /\ start = "connect"
    /\ running' = FALSE
    /\ start' = "failed"
    /\ UNCHANGED <<connected, link, handles, delay, commands, topologyOn, loops, recs, stop,
                   open, reset>>

StartConnects ==
    /\ start = "connect"
    /\ \E c \in Socks : Connect(c) /\ topologyOn' = c
    /\ start' = "topology"
    /\ UNCHANGED <<running, reconnectTask, commands, reads, recs, stop>>

TopologySent ==
    /\ start = "topology"
    /\ start' = "done"
    /\ topologyOn' = None
    /\ UNCHANGED <<health, link, handles, delay, commands, loops, recs, stop, open, reset>>

(* drain() raises: the caller of async_start_lan_runtime gets the exception and *)
(* not the runtime, which nobody can stop any more.                          *)
TopologyFails ==
    /\ start = "topology"
    /\ Lost(topologyOn)
    /\ start' = "lost"
    /\ topologyOn' = None
    /\ UNCHANGED <<health, link, handles, delay, commands, loops, recs, stop, open, reset>>

-----------------------------------------------------------------------------
(* _schedule_reconnect and _reconnect_loop *)

ReconnectAlive == reconnectTask # None /\ rec[reconnectTask] # "done"

ScheduleReconnect ==
    IF running /\ ~ReconnectAlive
    THEN \E t \in Recs :
           /\ rec[t] = "done"
           /\ rec' = [rec EXCEPT ![t] = "new"]
           /\ reconnectTask' = t
    ELSE UNCHANGED <<rec, reconnectTask>>

(* The task ends, and its finally clause forgets it. *)
ReconnectEnds(t) ==
    /\ rec' = [rec EXCEPT ![t] = "done"]
    /\ closes' = [closes EXCEPT ![t] = None]
    /\ reconnectTask' = IF reconnectTask = t THEN None ELSE reconnectTask

NextDelay == IF 2 * delay <= MaxDelay THEN 2 * delay ELSE MaxDelay

(* The head of the while loop. *)
RetryLoop(t) ==
    IF running
    THEN /\ rec' = [rec EXCEPT ![t] = "sleep"]
         /\ closes' = [closes EXCEPT ![t] = None]
         /\ delay' = NextDelay
         /\ UNCHANGED reconnectTask
    ELSE /\ ReconnectEnds(t)
         /\ UNCHANGED delay

ReconnectBegin(t) ==
    /\ rec[t] = "new"
    /\ RetryLoop(t)
    /\ UNCHANGED <<health, link, readerTask, commands, setup, loops, stop, open, reset>>

(* Mutant: the old writer is overwritten without being closed. *)
MutReconnectWake(t) ==
    /\ rec[t] = "sleep"
    /\ rec' = [rec EXCEPT ![t] = "connect"]
    /\ UNCHANGED <<health, link, handles, delay, commands, setup, loops, closes, stop, open,
                   reset>>

(* The backoff sleep is over: the writer that is left of the old connection is *)
(* dropped and its closing awaited.                                          *)
ReconnectWake(t) ==
    /\ rec[t] = "sleep"
    /\ IF ~running
       THEN /\ ReconnectEnds(t)
            /\ UNCHANGED <<connected, link, open>>
       ELSE /\ rec' = [rec EXCEPT ![t] = IF link = None THEN "connect" ELSE "closing"]
            /\ closes' = [closes EXCEPT ![t] = link]
            /\ link' = None
            /\ connected' = FALSE
            /\ open' = open \ {link}
            /\ UNCHANGED reconnectTask
    /\ UNCHANGED <<running, readerTask, delay, commands, setup, loops, stop, reset>>

ReconnectClosed(t) ==
    /\ rec[t] = "closing"
    /\ ClosedWell(closes[t])
    /\ rec' = [rec EXCEPT ![t] = "connect"]
    /\ closes' = [closes EXCEPT ![t] = None]
    /\ UNCHANGED <<health, link, handles, delay, commands, setup, loops, stop, open, reset>>

(* wait_closed() raises outside the try statement of the loop: it ends. *)
ReconnectCloseFails(t) ==
    /\ rec[t] = "closing"
    /\ ~ClosedWell(closes[t])
    /\ ReconnectEnds(t)
    /\ UNCHANGED <<health, link, readerTask, delay, commands, setup, loops, stop, open, reset>>

(* Mutant: the loop goes on after it connected. *)
MutReconnectConnects(t) ==
    /\ rec[t] = "connect"
    /\ \E c \in Socks : Connect(c)
    /\ rec' = [rec EXCEPT ![t] = "sleep"]
    /\ UNCHANGED <<running, reconnectTask, closes, commands, setup, reads, stop>>

ReconnectConnects(t) ==
    /\ rec[t] = "connect"
    /\ \E c \in Socks : Connect(c)
    /\ ReconnectEnds(t)
    /\ UNCHANGED <<running, commands, setup, reads, stop>>

(* Mutant: the loop ends after a failed attempt. *)
MutReconnectConnectFails(t) ==
    /\ rec[t] = "connect"
    /\ ReconnectEnds(t)
    /\ UNCHANGED <<health, link, readerTask, delay, commands, setup, loops, stop, open, reset>>

ReconnectConnectFails(t) ==
    /\ rec[t] = "connect"
    /\ RetryLoop(t)
    /\ UNCHANGED <<health, link, readerTask, commands, setup, loops, stop, open, reset>>

ReconnectCancelled(t) ==
    /\ rec[t] = "cancelled"
    /\ ReconnectEnds(t)
    /\ UNCHANGED <<health, link, readerTask, delay, commands, setup, loops, stop, open, reset>>

-----------------------------------------------------------------------------
(* _flush_pending_acks and _read_loop *)

FlushPendingAcks ==
    /\ pendingAcks' = {}
    /\ future' = [m \in Cmds |-> IF m \in pendingAcks /\ future[m] = "pending"
                                 THEN "cancelled" ELSE future[m]]

(* Mutant: `connected` is left set until the writer is closed. *)
MutLoopExit(l) ==
    /\ loop' = [loop EXCEPT ![l] = "done"]
    /\ reads' = [reads EXCEPT ![l] = None]
    /\ UNCHANGED connected
    /\ FlushPendingAcks
    /\ ScheduleReconnect

(* Mutant: the reconnect is scheduled only when the link is already gone. *)
MutLoopExitSchedule(l) ==
    /\ loop' = [loop EXCEPT ![l] = "done"]
    /\ reads' = [reads EXCEPT ![l] = None]
    /\ connected' = FALSE
    /\ FlushPendingAcks
    /\ IF link = None THEN ScheduleReconnect ELSE UNCHANGED <<rec, reconnectTask>>

(* The finally clause. *)
LoopExit(l) ==
    /\ loop' = [loop EXCEPT ![l] = "done"]
    /\ reads' = [reads EXCEPT ![l] = None]
    /\ connected' = FALSE
    /\ FlushPendingAcks
    /\ ScheduleReconnect

(* The while condition, before the first read or after the frames of a read. *)
LoopHead(l) ==
    IF running /\ link # None
    THEN /\ loop' = [loop EXCEPT ![l] = "read"]
         /\ reads' = [reads EXCEPT ![l] = link]
         /\ UNCHANGED <<connected, pendingAcks, future, rec, reconnectTask>>
    ELSE LoopExit(l)

LoopBegin(l) ==
    /\ loop[l] = "new"
    /\ LoopHead(l)
    /\ UNCHANGED <<running, link, readerTask, delay, cmd, sentOn, setup, closes, stop, open,
                   reset>>

(* A frame arrives: if it is the ACK of a command whose future still waits, it *)
(* resolves it (_try_resolve_ack); the callback gets the frame either way.    *)
LoopReceives(l) ==
    /\ loop[l] = "read"
    /\ loop' = [loop EXCEPT ![l] = "dispatch"]
    /\ \/ UNCHANGED future
       \/ \E m \in pendingAcks :
            /\ sentOn[m] = reads[l]
            /\ future[m] = "pending"
            /\ future' = [future EXCEPT ![m] = "ack"]
    /\ UNCHANGED <<health, link, handles, delay, pendingAcks, cmd, sentOn, setup, reads, recs,
                   stop, open, reset>>

(* The callback returned, or raised and was ignored. *)
LoopDispatched(l) ==
    /\ loop[l] = "dispatch"
    /\ LoopHead(l)
    /\ UNCHANGED <<running, link, readerTask, delay, cmd, sentOn, setup, closes, stop, open,
                   reset>>

(* The connection ended or was reset, the read timed out, or the frame cannot  *)
(* be decoded.                                                               *)
LoopLoses(l) ==
    /\ loop[l] = "read"
    /\ LoopExit(l)
    /\ UNCHANGED <<running, link, readerTask, delay, cmd, sentOn, setup, closes, stop, open,
                   reset>>

(* CancelledError: in a task that never ran it skips the finally clause. *)
LoopCancelled(l) ==
    \/ /\ loop[l] = "cancelled"
       /\ LoopExit(l)
       /\ UNCHANGED <<running, link, readerTask, delay, cmd, sentOn, setup, closes, stop, open,
                      reset>>
    \/ /\ loop[l] = "killed"
       /\ loop' = [loop EXCEPT ![l] = "done"]
       /\ UNCHANGED <<health, link, handles, delay, commands, setup, reads, recs, stop, open,
                      reset>>

-----------------------------------------------------------------------------
(* Commands: lan_control's gate, then async_send_and_wait *)

(* Mutant: the gate asks for a writer instead of a connection. *)
MutCommandSend(m) ==
    /\ cmd[m] = "idle"
    /\ start = "done" /\ running /\ link # None
    /\ cmd' = [cmd EXCEPT ![m] = "drain"]
    /\ sentOn' = [sentOn EXCEPT ![m] = link]
    /\ future' = [future EXCEPT ![m] = "pending"]
    /\ pendingAcks' = pendingAcks \cup {m}
    /\ UNCHANGED <<health, link, handles, delay, setup, loops, recs, stop, open, reset>>

(* The coordinator knows the runtime once it was returned, and asks for its    *)
(* health; without a connection the command goes to the cloud instead.       *)
CommandSend(m) ==
    /\ cmd[m] = "idle"
    /\ start = "done" /\ running /\ connected
    /\ link # None
    /\ cmd' = [cmd EXCEPT ![m] = "drain"]
    /\ sentOn' = [sentOn EXCEPT ![m] = link]
    /\ future' = [future EXCEPT ![m] = "pending"]
    /\ pendingAcks' = pendingAcks \cup {m}
    /\ UNCHANGED <<health, link, handles, delay, setup, loops, recs, stop, open, reset>>

CommandDrained(m) ==
    /\ cmd[m] = "drain"
    /\ cmd' = [cmd EXCEPT ![m] = "wait"]
    /\ UNCHANGED <<health, link, handles, delay, pendingAcks, sentOn, future, setup, loops,
                   recs, stop, open, reset>>

(* Whatever the outcome, the finally clause drops the id. *)
CommandEnds(m) ==
    /\ cmd' = [cmd EXCEPT ![m] = "idle"]
    /\ sentOn' = [sentOn EXCEPT ![m] = None]
    /\ future' = [future EXCEPT ![m] = "none"]
    /\ pendingAcks' = pendingAcks \ {m}

(* drain() raises on a lost or closed connection. *)
CommandSendFails(m) ==
    /\ cmd[m] = "drain"
    /\ Lost(sentOn[m])
    /\ CommandEnds(m)
    /\ UNCHANGED <<health, link, handles, delay, setup, loops, recs, stop, open, reset>>

(* The ACK is returned, or the cancellation of the future raised. *)
CommandAnswered(m) ==
    /\ cmd[m] = "wait"
    /\ future[m] \in {"ack", "cancelled"}
    /\ CommandEnds(m)
    /\ UNCHANGED <<health, link, handles, delay, setup, loops, recs, stop, open, reset>>

(* ... wait_for's timeout can win against an answer that is already there. *)
CommandTimesOut(m) ==
    /\ cmd[m] = "wait"
    /\ CommandEnds(m)
    /\ UNCHANGED <<health, link, handles, delay, setup, loops, recs, stop, open, reset>>

-----------------------------------------------------------------------------
(* async_stop *)

LoopAlive(l) == loop[l] \in {"new", "read", "dispatch"}

CancelRec(t) == rec' = [rec EXCEPT ![t] = "cancelled"]

(* The rest of async_stop once the reconnect loop is gone: the read loop is    *)
(* cancelled and awaited, then the writer closed.                            *)
StopReader ==
    /\ readerTask' = None
    /\ IF readerTask # None /\ LoopAlive(readerTask)
       THEN /\ loop' = [loop EXCEPT ![readerTask] =
                            IF loop[readerTask] = "new" THEN "killed" ELSE "cancelled"]
            /\ stop' = [stop EXCEPT !.pc = "rd", !.rec = None, !.rd = readerTask]
            /\ UNCHANGED <<link, connected, open>>
       ELSE /\ stop' = [stop EXCEPT !.pc = IF link = None THEN "done" ELSE "closing",
                                    !.rec = None, !.ws = link]
            /\ link' = None
            /\ connected' = FALSE
            /\ open' = open \ {link}
            /\ UNCHANGED loop

(* Mutant: the ACK futures are left to the read loop. *)
MutStopCall ==
    /\ start = "done"
    /\ stop.pc = "idle"
    /\ running' = FALSE
    /\ UNCHANGED <<pendingAcks, future>>
    /\ reconnectTask' = None
    /\ IF ReconnectAlive
       THEN /\ CancelRec(reconnectTask)
            /\ stop' = [stop EXCEPT !.pc = "rec", !.rec = reconnectTask]
            /\ UNCHANGED <<readerTask, loop, link, connected, open>>
       ELSE StopReader /\ UNCHANGED rec
    /\ UNCHANGED <<delay, cmd, sentOn, setup, reads, closes, reset>>

StopCall ==
    /\ start = "done"
    /\ stop.pc = "idle"
    /\ running' = FALSE
    /\ FlushPendingAcks
    /\ reconnectTask' = None
    /\ IF ReconnectAlive
       THEN /\ CancelRec(reconnectTask)
            /\ stop' = [stop EXCEPT !.pc = "rec", !.rec = reconnectTask]
            /\ UNCHANGED <<readerTask, loop, link, connected, open>>
       ELSE StopReader /\ UNCHANGED rec
    /\ UNCHANGED <<delay, cmd, sentOn, setup, reads, closes, reset>>

StopReconnectGone ==
    /\ stop.pc = "rec"
    /\ rec[stop.rec] = "done"
    /\ StopReader
    /\ UNCHANGED <<running, reconnectTask, delay, commands, setup, reads, recs, reset>>

StopLoopGone ==
    /\ stop.pc = "rd"
    /\ loop[stop.rd] = "done"
    /\ stop' = [stop EXCEPT !.pc = IF link = None THEN "done" ELSE "closing",
                            !.rd = None, !.ws = link]
    /\ link' = None
    /\ connected' = FALSE
    /\ open' = open \ {link}
    /\ UNCHANGED <<running, handles, delay, commands, setup, loops, recs, reset>>

StopClosed ==
    /\ stop.pc = "closing"
    /\ stop' = [stop EXCEPT !.pc = IF ClosedWell(stop.ws) THEN "done" ELSE "raised",
                            !.ws = None]
    /\ UNCHANGED <<health, link, handles, delay, commands, setup, loops, recs, open, reset>>

(* Nothing is left to run: also an orphan whose reconnect loop has died. *)
Finished ==
    /\ stop.pc \in {"done", "raised"} \/ start \in {"failed", "lost"}
    /\ \A l \in Loops : loop[l] = "done"
    /\ \A t \in Recs : rec[t] = "done"
    /\ \A m \in Cmds : cmd[m] = "idle"
    /\ UNCHANGED vars

-----------------------------------------------------------------------------
StartNext == StartCall \/ StartFails \/ StartConnects \/ TopologySent \/ TopologyFails

ReconnectNext(t) ==
    \/ ReconnectBegin(t)
    \/ ReconnectWake(t)
    \/ ReconnectClosed(t)
    \/ ReconnectCloseFails(t)
    \/ ReconnectConnects(t)
    \/ ReconnectConnectFails(t)
    \/ ReconnectCancelled(t)

LoopNext(l) ==
    \/ LoopBegin(l)
    \/ LoopReceives(l)
    \/ LoopDispatched(l)
    \/ LoopLoses(l)
    \/ LoopCancelled(l)

CommandNext(m) ==
    \/ CommandSend(m)
    \/ CommandDrained(m)
    \/ CommandSendFails(m)
    \/ CommandAnswered(m)
    \/ CommandTimesOut(m)

StopNext == StopCall \/ StopReconnectGone \/ StopLoopGone \/ StopClosed

Next ==
    \/ StartNext
    \/ \E t \in Recs : ReconnectNext(t)
    \/ \E l \in Loops : LoopNext(l)
    \/ \E m \in Cmds : CommandNext(m)
    \/ \E c \in Socks : PeerResets(c)
    \/ StopNext
    \/ Finished

Spec == Init /\ [][Next /\ UNCHANGED resets]_<<vars, resets>>

(* Tasks that can run do, sleeps and timeouts end, a connect attempt and a     *)
(* wait_closed() end.  drain() on a connection that is not lost may block for  *)
(* ever, and nobody owes a command, a stop or a frame.                       *)
TaskFairness ==
    /\ WF_vars(StartFails \/ StartConnects)
    /\ WF_vars(TopologyFails)
    /\ \A t \in Recs : WF_vars(ReconnectNext(t))
    /\ \A l \in Loops : WF_vars(LoopBegin(l) \/ LoopDispatched(l) \/ LoopCancelled(l))
    /\ \A m \in Cmds :
         /\ WF_vars(CommandSendFails(m))
         /\ WF_vars(CommandAnswered(m) \/ CommandTimesOut(m))
    /\ WF_vars(StopReconnectGone \/ StopLoopGone \/ StopClosed)

(* The gateway is not unreachable for ever. *)
NetworkFairness == \A t \in Recs : SF_vars(ReconnectConnects(t))

FairSpec == Spec /\ TaskFairness /\ NetworkFairness

-----------------------------------------------------------------------------
(* Properties *)

(* The connection is read or being replaced, never both: read loops and        *)
(* reconnect loops together are one task, except for those async_stop has     *)
(* cancelled.  (Two readers of one StreamReader raise, two reconnect loops    *)
(* overwrite each other's writer.)                                           *)
OneWorker ==
    /\ \A k, l \in Loops : LoopAlive(k) /\ LoopAlive(l) => k = l
    /\ \A t, u \in Recs : rec[t] # "done" /\ rec[u] # "done" => t = u
    /\ \A l \in Loops, t \in Recs : ~(LoopAlive(l) /\ rec[t] # "done")

(* What lan_control relies on when it prefers the LAN over the cloud: while    *)
(* the health says connected, the writer is the connection that a live read   *)
(* loop reads (or will, when it runs for the first time).                    *)
HealthIsHonest ==
    running /\ connected =>
        /\ link # None
        /\ \E l \in Loops : LoopAlive(l) /\ readerTask = l /\ reads[l] \in {None, link}

(* A command waits for its ACK only while that ACK can still come: on the       *)
(* connection it was written to, which is being read.  Otherwise its future   *)
(* was cancelled by whoever lost or stopped the connection.                  *)
NoAckAwaitedInVain ==
    \A m \in Cmds : future[m] = "pending" =>
        /\ running /\ connected
        /\ link = sentOn[m]
        /\ m \in pendingAcks

(* ... and _pending_acks holds no id whose command is over. *)
NoStaleAckId == \A m \in pendingAcks : cmd[m] # "idle"

Served == \E l \in Loops : LoopAlive(l) /\ readerTask = l

(* A running runtime is read or being reconnected.                            *)
(* ("Reconnect with bounded exponential backoff until stopped.",             *)
(* lan_runtime.py:314)                                                       *)
NeverStranded == running => start = "connect" \/ Served \/ ReconnectAlive

(* Unless a connection is reset the runtime is never stranded. *)
ServedUnlessReset == resets \/ NeverStranded

(* After async_stop returned or raised nothing of the runtime is left: no task, *)
(* no writer, no future that somebody waits for, no connection left open.    *)
QuietAfterStop ==
    stop.pc \in {"done", "raised"} =>
        /\ link = None /\ ~connected
        /\ \A l \in Loops : loop[l] = "done"
        /\ \A t \in Recs : rec[t] = "done"
        /\ \A m \in Cmds : future[m] # "pending"
        /\ open = {}

(* No connection is dropped without being closed. *)
NoSocketLeak == open \subseteq {link}

(* A command whose connection was lost or stopped comes back to its caller,     *)
(* even if it still waits for drain().                                       *)
LostCommandEnds ==
    \A m \in Cmds : (future[m] = "cancelled") ~> (cmd[m] = "idle")

-----------------------------------------------------------------------------
(* The inductive invariant behind the safety properties. *)

(* While it runs the handles hold the one task that works. *)
WorkersInv ==
    /\ running =>
         /\ \A l \in Loops : loop[l] # "done" => LoopAlive(l) /\ readerTask = l
         /\ \A t \in Recs : rec[t] # "done" => rec[t] # "cancelled" /\ reconnectTask = t
    /\ reconnectTask # None => running /\ rec[reconnectTask] # "done"
    /\ \A l \in Loops, t \in Recs : ~(LoopAlive(l) /\ rec[t] # "done")

(* A live read loop is what makes the runtime connected, and it reads the link. *)
LinkInv ==
    /\ open \subseteq {link}
    /\ running /\ connected => readerTask # None /\ LoopAlive(readerTask)
    /\ \A l \in Loops :
         /\ LoopAlive(l) => running /\ connected /\ link # None /\ reads[l] \in {None, link}
         /\ loop[l] \in {"done", "new", "killed"} => reads[l] = None
    /\ \A t \in Recs :
         /\ rec[t] \in {"closing", "connect"} => link = None
         /\ rec[t] = "closing" => closes[t] # None

(* Until async_start connected there is nothing but its own attempt. *)
StartInv ==
    /\ start \in {"idle", "connect", "failed"} =>
         /\ link = None /\ ~connected
         /\ \A l \in Loops : loop[l] = "done"
         /\ \A t \in Recs : rec[t] = "done"
    /\ start \in {"idle", "failed"} => ~running
    /\ start \in {"connect", "topology", "lost"} => running
    /\ start = "done" => (running <=> stop.pc = "idle")
    /\ start # "done" => stop.pc = "idle"

CommandsInv == NoAckAwaitedInVain /\ NoStaleAckId

(* What is still at work when running is off is what async_stop awaits. *)
StopInv ==
    /\ \A l \in Loops : ~running /\ loop[l] # "done" => stop.pc = "rd" /\ stop.rd = l
    /\ \A t \in Recs : ~running /\ rec[t] # "done" =>
         rec[t] = "cancelled" /\ stop.pc = "rec" /\ stop.rec = t
    /\ stop.pc = "rec" => stop.rec # None
    /\ stop.pc = "rd" => stop.rd # None
    /\ stop.pc \in {"closing", "raised", "done"} => link = None /\ ~connected

(* Without resets the reconnect loop never dies. *)
ServedInv ==
    /\ reset = {}
    /\ running /\ start # "connect" => Served \/ reconnectTask # None

TaskInv == WorkersInv /\ LinkInv /\ StartInv /\ CommandsInv /\ StopInv

IndInv == TypeOK /\ TaskInv /\ (resets \/ ServedInv)

-----------------------------------------------------------------------------
(* The runtime is a live feed, too: its start either connects or raises. *)

FeedPhase ==
    IF start = "idle" THEN "off"
    ELSE IF start = "connect" THEN "starting"
    ELSE IF start = "failed" THEN "failed"
    ELSE IF stop.pc = "idle" THEN "on"
    ELSE IF stop.pc = "raised" THEN "raised"
    ELSE IF stop.pc = "done" THEN "stopped"
    ELSE "stopping"

FeedLink ==
    IF \E l \in Loops : loop[l] = "dispatch" THEN "busy"
    ELSE IF \E l \in Loops : loop[l] \in {"new", "read"} THEN "up"
    ELSE "down"

Feed == INSTANCE LiveFeed WITH phase <- FeedPhase, link <- FeedLink

FeedUnlessReset ==
    INSTANCE LiveFeed WITH
        phase <- IF resets THEN "off" ELSE FeedPhase,
        link  <- IF resets THEN "down" ELSE FeedLink

(* Unless a connection is reset the runtime is a live feed: it gets its          *)
(* connection back after every loss, and a stop ends.                        *)
ImplementsFeedUnlessReset == FeedUnlessReset!FairSpec
=============================================================================
