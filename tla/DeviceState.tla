---------------------------- MODULE DeviceState ----------------------------
(***************************************************************************)
(* What the coordinator believes about one device.                         *)
(*                                                                         *)
(* The loaded payload of the device (coordinator.devices, whose entries    *)
(* coordinator.data shares) is written by four parties: the poll, which    *)
(* replaces the payload (_async_update_data); reports the feeds push, which *)
(* are merged into it (async_handle_push_payload, async_handle_lan_payload); *)
(* control commands, which merge what they ask for before or after the     *)
(* answer and roll back when it fails (async_control_device); and the      *)
(* gateway's topology, which replaces it too.  A topology names the nodes  *)
(* and need not carry a property: what it leaves out takes the default of  *)
(* the device's type, or is not there.  RuntimeStateStore keeps what was    *)
(* reported or confirmed and lays it over every payload that is built:      *)
(* nothing ever takes an override out again.                               *)
(*                                                                         *)
(* Every action is the code between two awaits.  The device, the cloud and *)
(* the gateway are the environment: the device changes on its own (a wall  *)
(* switch, an app, a scene, async_toggle_device, which changes nothing     *)
(* here but asks for a poll), may report the change, and applies a command *)
(* at some moment before its answer.  An answer of success means that the  *)
(* device has applied the command.  A poll reads the device at one moment. *)
(***************************************************************************)
EXTENDS Naturals, Sequences

CONSTANTS
    Keys,        \* the device's properties
    Values,      \* their values
    Defaults,    \* the type's defaults; None where the type names no value
    Carried,     \* sets of properties, those a topology may carry: {{}} in the protocol
    Cmds,        \* control commands that may be under way at a time
    Polls,       \* polls that may be under way at a time
    Routes,      \* the ways a command can take: "lan", "cloud"
    Troubles,    \* what may go wrong: "refused", "lost", "timeout", "cancelled", "absent"
    Reported,    \* is a change reported: always {TRUE}, never {FALSE}, or either?
    MaxChanges,  \* bound: changes of the device on its own
    MaxCommands, \* bound: commands issued
    MaxReports,  \* bound: reports on their way
    None,        \* Python's None
    Absent       \* the device is not among the loaded ones

ASSUME ValuesAssumption == None \notin Values

ASSUME StatesAssumption ==
    {None, Absent} \cap [Keys -> Values \cup {None}] = {} /\ None # Absent

ASSUME DefaultsAssumption == Defaults \in [Keys -> Values \cup {None}]

ASSUME CarriedAssumption == Carried \subseteq SUBSET Keys

ASSUME RoutesAssumption == Routes \subseteq {"lan", "cloud"}

ASSUME ReportedAssumption == Reported \subseteq BOOLEAN

ASSUME BoundsAssumption == MaxChanges \in Nat /\ MaxCommands \in Nat /\ MaxReports \in Nat

VARIABLES
    actual,     \* the device's properties
    had,        \* history: every value a property has had
    untold,     \* history: keys whose last change was not reported
    feed,       \* reports on their way to the coordinator, in order
    overrides,  \* RuntimeStateStore._overrides
    payload,    \* the loaded payload's params
    shown,      \* what the entities wrote to Home Assistant last
    polled,     \* what each poll has read
    cmd,        \* where each command is
    params,     \* what it asks for
    snapshot,   \* its snapshot of the payload, None when that payload was replaced
    applied,    \* the commands that the device has applied
    changes,    \* changes of the device on its own so far
    issued,     \* commands so far
    outdated,   \* history: keys whose override is an answer that was not true when it came
    misshown    \* history: keys whose loaded value is a default, or what a command left,
                \* and not true either

truth   == <<actual, had, untold>>
device  == <<truth, feed, applied>>
command == <<cmd, params, snapshot>>
store   == <<overrides, outdated>>
view    == <<payload, misshown>>
budget  == <<changes, issued>>
vars == <<actual, had, untold, feed, overrides, payload, shown, polled, cmd, params, snapshot,
          applied, changes, issued, outdated, misshown>>

States  == [Keys -> Values]
Updates == [Keys -> Values \cup {None}]     \* a value for some of the keys
Reports == [kind : {"props", "topology"}, params : Updates]

NoUpdate == [k \in Keys |-> None]
CmdPC    == {"idle", "lan", "cloud"}

TypeOK ==
    /\ actual \in States
    /\ had \in [Keys -> SUBSET Values]
    /\ untold \subseteq Keys
    /\ feed \in Seq(Reports)
    /\ overrides \in Updates
    /\ payload \in Updates \cup {Absent}
    /\ shown \in Updates \cup {Absent}
    /\ polled \in [Polls -> States \cup {None, Absent}]
    /\ cmd \in [Cmds -> CmdPC]
    /\ params \in [Cmds -> Updates]
    /\ snapshot \in [Cmds -> Updates \cup {None}]
    /\ applied \subseteq Cmds
    /\ changes \in 0 .. MaxChanges
    /\ issued \in 0 .. MaxCommands
    /\ outdated \subseteq Keys
    /\ misshown \subseteq Keys

(* params.update(u): the keys u has take their value from it. *)
Merge(s, u) == [k \in Keys |-> IF u[k] = None THEN s[k] ELSE u[k]]

(* The params of a topology's node: the type's defaults, under what it carries. *)
LanPayload(u) == Merge(Defaults, u)

(* The first refresh or, over the LAN, the first topology has loaded the    *)
(* device before any feed or entity exists.                                *)
Init ==
    /\ actual \in States
    /\ had = [k \in Keys |-> {actual[k]}]
    /\ untold = {}
    /\ feed = <<>>
    /\ overrides = NoUpdate
    /\ payload = actual \/ ("lan" \in Routes /\ payload = LanPayload(NoUpdate))
    /\ shown = payload
    /\ polled = [p \in Polls |-> None]
    /\ cmd = [c \in Cmds |-> "idle"]
    /\ params = [c \in Cmds |-> NoUpdate]
    /\ snapshot = [c \in Cmds |-> None]
    /\ applied = {}
    /\ changes = 0
    /\ issued = 0
    /\ outdated = {}
    /\ misshown = {k \in Keys : payload[k] # actual[k]}

(* History: the keys that u has are told, or asked for, anew. *)
Renewed(keys, u) == {k \in keys : u[k] = None}

-----------------------------------------------------------------------------
(* The device and its reports. *)

Pushes(kind, u) ==
    /\ Len(feed) < MaxReports
    /\ feed' = Append(feed, [kind |-> kind, params |-> u])

Tells(u) == Pushes("props", u) /\ untold' = Renewed(untold, u)

DeviceTakes(u) ==
    /\ actual' = Merge(actual, u)
    /\ had' = [k \in Keys |-> had[k] \cup {actual'[k]}]
    /\ \/ TRUE \in Reported /\ Tells(u)
       \/ FALSE \in Reported /\ UNCHANGED feed
                             /\ untold' = untold \cup {k \in Keys : u[k] # None}

DeviceChanges(k, v) ==
    /\ changes < MaxChanges
    /\ v # actual[k]
    /\ changes' = changes + 1
    /\ DeviceTakes([NoUpdate EXCEPT ![k] = v])
    /\ UNCHANGED <<store, view, shown, polled, command, applied, issued>>

(* The gateway sends its topology: the nodes, with some properties or none. *)
GatewaySendsTopology ==
    /\ "lan" \in Routes
    /\ \E ks \in Carried :
         Pushes("topology", [k \in Keys |-> IF k \in ks THEN actual[k] ELSE None])
    /\ UNCHANGED <<truth, store, view, shown, polled, command, applied, budget>>

(* The gateway sends the state of all its nodes, as it does after a topology *)
(* that was asked for and every ten minutes.                               *)
GatewaySendsState ==
    /\ "lan" \in Routes
    /\ Tells(actual)
    /\ UNCHANGED <<actual, had, store, view, shown, polled, command, applied, budget>>

-----------------------------------------------------------------------------
(* The runtime state store. *)

(* merge_runtime_state_into_loaded_payloads *)
MergedPayload(u) == IF payload = Absent THEN Absent ELSE Merge(payload, u)

(* setdefault instead of update: the first value of a key stays. *)
MutStoreUpdate(u) ==
    /\ overrides' = Merge(u, overrides)
    /\ payload' = IF payload = Absent THEN Absent ELSE Merge(payload, overrides')

(* store_update: an update of a device that is not loaded is kept, too. *)
StoreUpdate(u) ==
    /\ overrides' = Merge(overrides, u)
    /\ payload' = MergedPayload(u)

(* The overrides are not laid over what was read. *)
MutReplacePayload(s) ==
    /\ payload' = s
    /\ snapshot' = [c \in Cmds |-> None]

(* A new payload: apply_to_device lays the overrides over what was read.  A *)
(* command's snapshot belongs to the payload that is dropped.              *)
ReplacePayload(s) ==
    /\ payload' = IF s = Absent THEN Absent ELSE Merge(s, overrides)
    /\ snapshot' = [c \in Cmds |-> None]

-----------------------------------------------------------------------------
(* The feeds. *)

HandleReport ==
    /\ feed # <<>>
    /\ Head(feed).kind = "props"
    /\ feed' = Tail(feed)
    /\ StoreUpdate(Head(feed).params)
    /\ outdated' = Renewed(outdated, Head(feed).params)
    /\ misshown' = Renewed(misshown, Head(feed).params)
    /\ shown' = payload'
    /\ UNCHANGED <<truth, polled, command, applied, budget>>

(* What is neither carried nor in the store is shown by the type's default. *)
HandleTopology ==
    /\ feed # <<>>
    /\ Head(feed).kind = "topology"
    /\ feed' = Tail(feed)
    /\ ReplacePayload(LanPayload(Head(feed).params))
    /\ misshown' = {k \in Keys : /\ Merge(Head(feed).params, overrides)[k] = None
                                 /\ Defaults[k] # actual[k]}
    /\ shown' = payload'
    /\ UNCHANGED <<truth, store, polled, cmd, params, applied, budget>>

-----------------------------------------------------------------------------
(* The poll.  What it read is stale by the time it is used; async_refresh  *)
(* does not exclude a poll that is under way.                              *)

PollReads(p) ==
    /\ polled[p] = None
    /\ \/ polled' = [polled EXCEPT ![p] = actual]
       \/ "absent" \in Troubles /\ polled' = [polled EXCEPT ![p] = Absent]
    /\ UNCHANGED <<device, store, view, shown, command, budget>>

PollEnds(p) ==
    /\ polled[p] # None
    /\ ReplacePayload(polled[p])
    /\ misshown' = {}
    /\ shown' = payload'
    /\ polled' = [polled EXCEPT ![p] = None]
    /\ UNCHANGED <<device, store, cmd, params, budget>>

(* UpdateFailed: the payload stays; the entities are told the first time. *)
PollFails(p) ==
    /\ polled[p] # None
    /\ shown' \in {shown, payload}
    /\ polled' = [polled EXCEPT ![p] = None]
    /\ UNCHANGED <<device, store, view, command, budget>>

-----------------------------------------------------------------------------
(* async_control_device *)

CommandStarts(c, u) ==
    /\ cmd[c] = "idle"
    /\ payload # Absent
    /\ u # NoUpdate
    /\ issued < MaxCommands
    /\ issued' = issued + 1
    /\ params' = [params EXCEPT ![c] = u]

ControlLan(c, u) ==
    /\ "lan" \in Routes
    /\ CommandStarts(c, u)
    /\ cmd' = [cmd EXCEPT ![c] = "lan"]
    /\ UNCHANGED <<device, store, view, shown, polled, snapshot, changes>>

(* The snapshot is taken after the merge. *)
MutControlCloud(c, u) ==
    /\ "cloud" \in Routes
    /\ CommandStarts(c, u)
    /\ cmd' = [cmd EXCEPT ![c] = "cloud"]
    /\ snapshot' = [snapshot EXCEPT ![c] = MergedPayload(u)]
    /\ payload' = MergedPayload(u)
    /\ misshown' = Renewed(misshown, u)
    /\ shown' = payload'
    /\ UNCHANGED <<device, store, polled, changes>>

(* Stored before the cloud has confirmed. *)
MutControlCloudStores(c, u) ==
    /\ "cloud" \in Routes
    /\ CommandStarts(c, u)
    /\ cmd' = [cmd EXCEPT ![c] = "cloud"]
    /\ snapshot' = [snapshot EXCEPT ![c] = payload]
    /\ StoreUpdate(u)
    /\ misshown' = Renewed(misshown, u)
    /\ shown' = payload'
    /\ UNCHANGED <<device, outdated, polled, changes>>

(* The cloud is slow: the payload takes the wanted values at once. *)
ControlCloud(c, u) ==
    /\ "cloud" \in Routes
    /\ CommandStarts(c, u)
    /\ cmd' = [cmd EXCEPT ![c] = "cloud"]
    /\ snapshot' = [snapshot EXCEPT ![c] = payload]
    /\ payload' = MergedPayload(u)
    /\ misshown' = Renewed(misshown, u)
    /\ shown' = payload'
    /\ UNCHANGED <<device, store, polled, changes>>

(* The device applies the command. *)
CommandApplied(c) ==
    /\ cmd[c] # "idle"
    /\ c \notin applied
    /\ applied' = applied \cup {c}
    /\ DeviceTakes(params[c])
    /\ UNCHANGED <<store, view, shown, polled, command, budget>>

(* The slot is free again. *)
CommandEnds(c) ==
    /\ cmd' = [cmd EXCEPT ![c] = "idle"]
    /\ params' = [params EXCEPT ![c] = NoUpdate]
    /\ snapshot' = [snapshot EXCEPT ![c] = None]
    /\ applied' = applied \ {c}
    /\ UNCHANGED <<truth, feed, polled, budget>>

(* What was asked for is stored, whatever was reported since. *)
StoreAnswer(u) ==
    /\ StoreUpdate(u)
    /\ outdated' = Renewed(outdated, u) \cup {k \in Keys : u[k] \notin {None, actual[k]}}
    /\ misshown' = Renewed(misshown, u)

(* An ACK, or none in time: async_send_and_wait returns None for a timeout, *)
(* and only an ACK that says "error" is a failure.                         *)
LanAnswered(c) ==
    /\ cmd[c] = "lan"
    /\ c \in applied \/ "timeout" \in Troubles
    /\ StoreAnswer(params[c])
    /\ shown' = payload'
    /\ CommandEnds(c)

(* Refused by the cloud or the gateway, or the answer was lost. *)
MayFail(c) ==
    \/ "refused" \in Troubles /\ c \notin applied
    \/ "lost" \in Troubles

LanFails(c) ==
    /\ cmd[c] = "lan"
    /\ MayFail(c)
    /\ CommandEnds(c)
    /\ UNCHANGED <<store, view, shown>>

(* The update is stored, but the entities are not told. *)
CloudAnswered(c) ==
    /\ cmd[c] = "cloud"
    /\ c \in applied
    /\ StoreAnswer(params[c])
    /\ CommandEnds(c)
    /\ UNCHANGED shown

(* restore_loaded_payload_snapshot: all of params, on the payload that was *)
(* loaded when the command began.                                          *)
CloudFails(c) ==
    /\ cmd[c] = "cloud"
    /\ MayFail(c)
    /\ IF snapshot[c] = None THEN UNCHANGED view
       ELSE /\ payload' = snapshot[c]
            /\ misshown' = {k \in Keys : snapshot[c][k] # actual[k]}
    /\ shown' = payload'
    /\ CommandEnds(c)
    /\ UNCHANGED store

(* A cancelled caller: `except Exception` does not see CancelledError. *)
CommandCancelled(c) ==
    /\ cmd[c] # "idle"
    /\ "cancelled" \in Troubles
    /\ CommandEnds(c)
    /\ misshown' = IF snapshot[c] = None THEN misshown
                   ELSE misshown \cup {k \in Keys : params[c][k] # None /\ payload[k] # actual[k]}
    /\ UNCHANGED <<store, payload, shown>>

-----------------------------------------------------------------------------
EnvironmentNext ==
    \/ \E k \in Keys, v \in Values : DeviceChanges(k, v)
    \/ GatewaySendsTopology
    \/ GatewaySendsState
    \/ \E c \in Cmds : CommandApplied(c)

FeedNext == HandleReport \/ HandleTopology

PollNext == \E p \in Polls : PollReads(p) \/ PollEnds(p) \/ PollFails(p)

CommandNext ==
    \E c \in Cmds :
        \/ \E u \in Updates : ControlLan(c, u) \/ ControlCloud(c, u)
        \/ LanAnswered(c)
        \/ LanFails(c)
        \/ CloudAnswered(c)
        \/ CloudFails(c)
        \/ CommandCancelled(c)

Next == EnvironmentNext \/ FeedNext \/ PollNext \/ CommandNext

Spec == Init /\ [][Next]_vars

(* Reports are handled, the poll's timer runs, and a poll cannot fail for ever. *)
FairSpec ==
    /\ Spec
    /\ WF_vars(FeedNext)
    /\ \A p \in Polls : WF_vars(PollReads(p)) /\ SF_vars(PollEnds(p))

-----------------------------------------------------------------------------
(* Properties *)

(* What the cloud commands under way ask of a key. *)
Optimistic(k) ==
    {params[c][k] : c \in {d \in Cmds : cmd[d] = "cloud" /\ params[d][k] # None}}

(* The loaded payload agrees with the override store, but for a cloud     *)
(* command that is under way: RuntimeStateStore "keeps the overrides and   *)
(* synchronises the coordinator's current payload".                        *)
PayloadShowsOverrides ==
    payload # Absent =>
        \A k \in Keys : overrides[k] # None =>
            payload[k] = overrides[k] \/ payload[k] \in Optimistic(k)

(* A default is a guess, shown of a property that no one has told, or put   *)
(* back by a command that began before the property was told.              *)
Guessed(k) == payload[k] = Defaults[k] /\ (overrides[k] = None \/ k \in misshown)

(* No ghost values: but for such a guess, the payload never shows a value    *)
(* that the device did not have and that no command under way asks for,     *)
(* whatever order reports, topologies, polls, answers and rollbacks come in. *)
NoGhost ==
    payload # Absent =>
        \A k \in Keys : payload[k] \in had[k] \cup Optimistic(k) \/ Guessed(k)

(* The store only holds values the device had: an override outlives every  *)
(* poll, so one that never was true would never be corrected by one.       *)
OverridesWereReal ==
    \A k \in Keys : overrides[k] # None => overrides[k] \in had[k]

(* Home Assistant shows what the payload says: whoever changes the payload *)
(* tells the entities before it awaits anything.                           *)
HaShowsPayload == shown = payload

(* The payload has the value of a property once what was reported of it was *)
(* handled and no cloud command asks for it: polls, topologies, commands and *)
(* answers come in any order and may fail.  Four losses are excepted: a     *)
(* change that was not reported and an answer that a change has overtaken,  *)
(* until the property is reported again; what a failed or cancelled cloud   *)
(* command leaves in the payload, and the type's default that a topology     *)
(* gives a property that no one has told, both until the payload is replaced *)
(* or the property told.                                                   *)
CaughtUp ==
    payload # Absent =>
        \A k \in Keys \ (untold \cup outdated \cup misshown) :
            /\ \A i \in DOMAIN feed : feed[i].kind = "props" => feed[i].params[k] = None
            /\ Optimistic(k) = {}
            => payload[k] = actual[k]

(* Once the device is left alone the payload becomes its state, but for        *)
(* answers that were overtaken: the polls are a full refresh.  A topology may   *)
(* show the type's default again, only of a property that no one ever told, and *)
(* only until a poll.  No leftover of a command stays.                      *)
CatchesUp ==
    /\ <>[](payload # Absent /\ \A k \in Keys \ outdated :
               payload[k] = actual[k] \/ (payload[k] = Defaults[k] /\ overrides[k] = None))
    /\ []<>(payload # Absent /\ \A k \in Keys \ outdated : payload[k] = actual[k])

=============================================================================
