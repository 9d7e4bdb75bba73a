# A formal model of the Yeelight Pro integration

This directory holds TLA+ models of the concurrent, failure-prone core of the
Home Assistant integration in `src/custom_components/yeelight_pro/`, TLC
configurations that check them on small instances, and TLAPS proofs of the
safety properties for instances of any size. Paths below are relative to that
package unless they begin with `src/`.

Everything in the integration runs on one asyncio loop. Nothing is preempted,
so the unit of atomicity in every model is the code **between two awaits**; what
is hard about the code is what other tasks do while one of them awaits.
`PROJECT.json` maps each definition to the lines it models and lists the runs,
the hazards they are aimed at, the deviations they found and the theorems.

## 1. Inventory

| Part | State it keeps | Operations | What is hard | Correct when |
| --- | --- | --- | --- | --- |
| Push websocket transport (`push_transport*.py`, `push_contract.py`) | `_running`, `_websocket`, handles of reader, heartbeat and reconnect task, backoff delay, health | `async_start`, `async_stop`, read, dispatch, heartbeat, reconnect | three kinds of tasks that cancel, await and replace each other; a clean-up that resumes when the next connection is already up; stop at any moment | one connection and one receiver at a time; the connection comes back; nothing is left after stop |
| LAN gateway runtime (`lan_runtime.py`, `core/lan_control.py`) | stream pair, read and reconnect task, backoff, `_pending_acks`, health | start and topology request, read loop, reconnect loop, commands with an ACK, stop | ACK, timeout, loss and stop race for one future; connections that end and connections that are reset behave differently; a task cancelled before it ran skips its `finally` | as above, and `connected` means that an ACK can come; no command waits in vain |
| Device state (`core/coordinator.py`, `core/runtime_state.py`, `core/coordinator_controls.py`, `core/coordinator_runtime.py`, `core/lan_topology_payload.py`, `core/runtime_bridge_properties.py`) | loaded payloads, override store, what entities wrote | poll, push and LAN reports, LAN topology, `async_control_device` with optimistic update and rollback | four writers, three of which use what they read or saved before an await; a topology that names nodes without their values | payload, override store, Home Assistant and the device agree |
| Routing of updates (`core/runtime_bridge_properties.py`, `core/runtime_bridge_nodes.py`, `core/runtime_state.py`) | none but the override store, which has numbers for keys | find the number that is meant, the dict or list it goes to; keep, merge | numbers are unique per type only, an update names several and perhaps no type, and its node may not be loaded | no node shows what another one reported |
| Push manager, live runtime (`push_manager.py`, `live_runtime.py`) | `_transport_started`, health | start, stop, forward a payload | a stop that raises | a stopped manager forwards nothing and can be started again |
| Entry life cycle (`__init__.py`, `entry_setup.py`, `runtime_options.py`) | `hass.data[DOMAIN][entry_id]`, listeners | setup (cloud, private, LAN), unload, reload, options update, clean-up of a failed setup | any of a dozen awaited steps may fail; reload and update listeners come from outside | what was started is stopped; an entry is either loaded or leaves nothing |
| Token refresh, HTTP client (`oauth_refresh.py`, `core/client.py`, `core/client_request.py`) | tokens in entry and client, a lock per entry | request, 401, refresh, retry once | several requests get 401 at once; the refresh token is replaced by each refresh | client and entry hold the newest token; one refresh per expiry |
| Product schema cache (`core/schema_cache.py`) | schemas by product id, `_loaded`, delayed save | load, get with fallback, update, save | `_loaded` is set before the load is awaited | a newer schema is not overwritten by an older one |
| Auxiliary lists, analytics (`core/auxiliary_data.py`, `core/analytics_coordinator.py`) | last lists, last snapshot | fetch with soft failures | one of several fetches fails | last good value kept, authentication errors not swallowed |
| Event routing (`core/runtime_bridge*.py`, `event*.py`) | LRU of 256 event keys | de-duplicate, resolve node ids, fire | redelivery, eviction | an event delivered twice fires once |
| Topology, Repairs, registries (`core/topology_*.py`, `repair_issues.py`, `ha_device_registry.py`, `entity_lifecycle*.py`, `dynamic_entities.py`, `registry_cleanup_service.py`) | generation and signature, registry entries, preview audit | track, reconcile, add missing entities, preview and confirm a clean-up | reconciliations that overlap; a preview that is out of date when confirmed | nothing active is disabled; one entity per unique id |
| Config flow, scan login (`config_flow*.py`, `scan_login_contract.py`, `core/scan_login.py`) | QR code, polling task, token, house | forms, poll until granted or expired, reauthenticate | expiry races the grant; another account grants | a grant is used; token, house and unique id of an entry belong together |
| Import filter (`device_filter*.py`, `options_flow.py`, `config_flow_device_picker.py`) | the filter in the options; the selections of an open form | wizard, picker, confirm | devices come and go while a form is open; two forms and old releases write the same filter | what is stored is what the user ticked; an untouched form changes nothing |
| Property hydration (`core/property_hydration.py`) | the rows and the dicts of one poll | read groups of devices, then sub-devices; merge; normalise | any read fails or answers in part, and devices change between reads | a row holds only what the device had, and all that was answered |
| Rows of groups, rooms, areas, houses (`core/auxiliary_data.py`, `node_metadata.py`, `light_group.py`, `node_light.py`) | the loaded lists | refresh, report, topology, command | a refresh assigns lists it began with; a row has two shapes, and after a topology perhaps neither | the row becomes as the node is, and the light shows the row |
| Components of a device (`canonical/`, `adapters/`, `converter/`, `projector/`) | the canonical instance, rebuilt or updated in place | index a property, scale it, hydrate, project, name the key of a command | keys with and without index, raw and actual values, two ways to keep the state | reading and writing agree on the component a key names and on what its number means |
| Entities (`light*.py`, `cover.py`, `fan.py`, `climate.py`, `select.py`, `switch.py`, with their projectors) | none: what they show is computed from the row | show the properties; turn service calls into properties | scales that start at 0 or 1, rounding, values without a name | what an entity showed can be sent back to it |
| The rest of the projection (`capabilities/`, classification, naming, diagnostics, migration) | none | pure functions over payloads and product schemas | volume | – |

How they interact: setup creates the client, the coordinator, the push manager
with its transport and the LAN runtime. Both transports call back into the
coordinator with payloads, one at a time per transport; the coordinator merges
them into the payloads and the override store and tells the entities. Entities
call `async_control_device`, which prefers the LAN while its health says
`connected` and takes the cloud otherwise. The poll replaces the payloads.
Unload stops the transports and forgets the rest.

`PROJECT.json` lists every part under `components`, those that are not modelled
with the reason, and under `hazards` the lines where something hard to test can
go wrong.

## 2. Modules

| Module | Models | Kind |
| --- | --- | --- |
| `LiveFeed` | what a live-update transport promises its owner (the protocol class behind `PushManager`) | abstract specification |
| `PushTransport` | the push transport, task by task | detailed, implements `LiveFeed` |
| `LanRuntime` | the LAN runtime with its setup call and the commands of `lan_control` | detailed, implements `LiveFeed` |
| `DeviceState` | the payload of one device under its four writers | detailed, with the device as environment |
| `EntryLifecycle` | setup, unload, clean-up, reload and the options listener of one entry | detailed, over two feeds that behave like `LiveFeed` |
| `TokenRefresh` | everybody who writes the entry's tokens | detailed, with the account server as environment |
| `RegistrySync` | entity rows under scans, reconciliation, clean-up and the user | detailed, with Home Assistant's registry |
| `SchemaCache` | the product schema cache under overlapping refreshes | detailed |
| `EventRouting` | resolution, de-duplication and firing of events | detailed, event by event |
| `Paging` | `get_paginated_rows` over a list that changes | detailed, with the server's list |
| `ImportFilter` | the rules of the import filter, and the wizard and the picker that write it | functions, and the flow around them |
| `SetupFlow` | set-up of cloud, private and LAN entries, scan login, reauthentication | detailed, with the account server as environment |
| `ComponentState` | one property of a device of several components, from the device to the entity and back | functions over Python dicts, and the writers around them |
| `PropertyHydration` | the reads that complete the device list of one poll | detailed, with devices that change |
| `NodeRows` | the row of a group, room, area or house under its writers | detailed, with the node and the gateway |
| `NodeRouting` | which node an update reaches, now and after reloads | functions, and updates, commands and reloads around them |
| `EntityControls` | what an entity shows of its device, and what its services send | functions, and a Home Assistant scene around them |
| `MCParts` | `TokenRefresh`, `RegistrySync`, `SchemaCache`, `EventRouting`, `Paging`, `ImportFilter`, `SetupFlow`, `NodeRouting`, one of them in each behaviour | model-checking module |
| `MCReadings` | `DeviceState`, `ComponentState`, `PropertyHydration`, `NodeRows`, `EntityControls`, one of them in each behaviour | model-checking module |
| `MCPushTransport` | `PushTransport` over both values of `closeRaises` | model-checking module |
| `MCLanRuntime` | `LanRuntime` over both values of `resets`, with two commands at a time where there are none | model-checking module |
| other `MC...` | symmetry sets, constants that a cfg cannot write | |
| `...Proofs` | theorems: of `PushTransport`, `LanRuntime`, `DeviceState`, `EntryLifecycle` in the modules of their names; `AccountProofs` has those of `TokenRefresh` and `SetupFlow`, `EntityProofs` of `RegistrySync`, `ImportFilter` and `EntityControls`, `ReadingProofs` of `ComponentState`, `NodeRouting`, `NodeRows` and `PropertyHydration`, `CloudProofs` of `SchemaCache`, `EventRouting` and `Paging` | proofs |

### PushTransport

A *connection* slot `c` names a websocket, its reader and its heartbeat; a slot
is used again when nothing refers to it any more (`FreeConn`), so a transport
that loses its connection for ever still has finitely many states. Connectors
are the caller of `async_start` and the reconnect tasks, which both run
`_connect_once`. `pc`, `reader` and `heartbeat` say at which await each task
stands. Correspondence:

- `_running` and `_callback` are set and cleared together: `running`.
- `ReaderFails`/`ReaderClosed`/`ReaderHeartbeatGone` are `_read_messages`' error
  path and `_cleanup_after_reader_exit`: cancel the heartbeat, close, clear,
  schedule a reconnect, each in the segment where the code does it. The
  heartbeat's own failure path is `HeartbeatFails`, `HeartbeatReaderGone`,
  `HeartbeatClosed`.
- A cancelled task ends in a later step (`...Cancelled`), as asyncio delivers
  the CancelledError on the task's next turn.
- `startedAt` keeps of the connection's age only what the code asks: whether a
  heartbeat interval has passed, which resets the backoff (`TimePasses`).
- `closeRaises` is chosen at the start and never changes: does `close()` of this
  transport's websockets ever raise? Both kinds of behaviour are checked and proved
  about together.
- A transport object lives once: every setup builds a new one. `async_stop` may
  be called again when `close()` raised.

### LanRuntime

A read loop takes `self._reader` anew for every read, so a loop is not tied to a
connection; `reads` says what it took. `link` is the stream pair. A connection can end
(read returns nothing) or, if `resets`, which is chosen at the start and never changes,
be lost with an error, which `read`, `drain` and `wait_closed` then raise (`PeerResets`,
`ClosedWell`, `Lost` state this of asyncio's streams). `start` follows
`async_start_lan_runtime`, including the topology request that comes after the start.
`commands` follow `async_send_and_wait` behind `lan_control`'s test of `connected`. A
read loop that is cancelled before it ran for the first time is `killed`: its `finally`
is never entered, which `async_stop` has to make up for.

### DeviceState

One device, a few properties. `payload` is `params` of the loaded entry, `overrides` the
device's entry in `RuntimeStateStore`, `shown` what entities wrote to Home Assistant
when they were last told. A LAN topology names the nodes; those of the protocol carry no
property (`src/docs/iot/Yeelight Pro局域网协议.md:160`), though the code takes what one may
carry (`Carried`). `HandleTopology` builds a **new** payload from it as
`_params_for_node` does: the defaults of the type (`Defaults`, which is `None` where the
type names no value), what the topology carries over them (`LanPayload`), and the
overrides over both. So a property that nobody has told is shown by a default that need
not be true; over the LAN the first payload may consist of defaults alone (`Init`).
`GatewaySendsState` is the protocol's state synchronisation, which tells every property.
A poll reads the device at one moment (`PollReads`) and uses what it read at a later one
(`PollEnds`), when it builds a **new** payload and lays the overrides over it. A
rollback writes into the payload object that was loaded when its command began: once
that object was replaced the rollback has no effect on the loaded one, and `snapshot` is
`None`. `had` is a history variable, and so are two that name what can be wrong:
`outdated`, the properties whose override is an answer that was not, or no longer, true
when it came, and `misshown`, those whose loaded value is not true and is what a failed
or cancelled cloud command left, or a default; news of the property ends either, and a
new payload the latter. A third, `untold`, holds the properties whose last change was
not reported. `async_toggle_device` changes nothing locally but asks for a poll; it is a
`DeviceChanges` together with a poll. Reports (`feed`) arrive in order; a report may be
missed (`Reported`).

### EntryLifecycle

Home Assistant holds one lock per entry while it sets the entry up, unloads it
or reloads it, so at any time at most one such call is under way and `step` says
at which await it stands. What comes in between are the user (options, entry
data), the update listener's tasks (`notices`) and calls of `async_reload` that
wait for the lock (`reloads`). A *generation* is what one setup builds; an older
one can only still be there because something of it was left behind, and
`mishaps` remembers why. `runtime` is `hass.data[DOMAIN][entry_id]` as far as
the clean-up looks at it: whether it finds a push manager, a LAN runtime, or the
`OptionalRuntimeStartupFailure` that took the runtime's place. `FirstStop` and
`AfterPush` are `async_stop_loaded_runtime`, whose exceptions end an unload but
not a clean-up. Private mode differs from cloud in addresses only.

### TokenRefresh

`queue` is the `asyncio.Lock` of the entry: its holder and who waits.
`async_refresh_entry_token` reads the entry (`read`), awaits the server and writes
back *what it had read* with the new tokens; `Refreshed` does that in one step
with the answer, `AnswerLost` is an answer that spent the token and was not
stored. `pending` is the copy of the entry's data the options flow makes when its
general step is entered and writes back at the end. `harm` is a history: each
property says which harms excuse what.

### RegistrySync

A key is a pair of domain and unique id. `TopologyUpdated` is a listener update of
all platforms, which is one segment without an await; adding entities is a task
(`adding`, `Register`). The reconciliation after a topology change is a task too
(`due`). The clean-up service keeps one preview per coordinator (`audit`), and its
confirmation compares the preview, what the administrator has seen, and what
would be cleaned up now.

### SchemaCache, EventRouting, Paging

`SchemaCache` follows refreshes that overlap: `_loaded` is set before the store is read,
the force flag belongs to the coordinator and not to a refresh, and all entries share
one file. `EventRouting` goes through a frame event by event: the de-duplicator sees the
whole frame (`Filter`) before the first event is fired (`Fire`), and an event that
raises takes the rest of its frame with it. `Paging` ends a list at an empty page or
when it has as many rows as the last answer's `total`.

### ImportFilter

A filter is a record of rules; `Visible` decides whether it lets a device pass. The
values of a device are given twice, as the matching reads them (`Match`) and as the
wizard's pages read them (`Shown`, in the order in which the code meets them, since
a device adds the first of its values that is new). `offered` is what the wizard
found when it began, `options` what the present page offers; devices change between.
A flow object is dropped when it is confirmed or abandoned (`CloseForm`). `lasting`,
`ticked`, `gone`, `asShown` and `blind` are histories.

### SetupFlow

`page` is the step of the one open flow, `connection` its `_connection_mode`. The code
at the account server ages (`TimePasses`), may be granted (`UserGrants`) and is polled
by a task (`poll`): an answer leaves the server in `CheckCode` and is handled in
`Checked`, so it can be older than the code. `skew` says how far Home Assistant's clock
is ahead, by which alone `Expired` judges. A token is an id, its account, its region and
whether it names its account (`named`): what a scan login returns may, what a user types
in does not, and `Identity` is then the token's fingerprint.

### ComponentState

A device has components; some products name a property by the component's index
("1-actt"), others by the property alone. A key is therefore an index or `Plain`,
and `params` and the overrides are Python dicts of such keys: a partial map and the
order in which its keys came (`rank`), on which the rebuilt state depends. `state`
is the canonical instance: rebuilt from `params` when the payload has the product's
official schema (`Hydrated`), updated in place when its model was inferred
(`MergedState`). `Shown` is what the two kinds of entities look up, `ControlKey`
what a command writes. Zoom and scale are applied by `Actual`, in units of
1/`Unit` so that a division stays a number. Who writes when is left to
`DeviceState`: here a change is reported at once.

### PropertyHydration

`listedValue` is what came with the device list, `merged` the dict that the code
keeps per device, and `dropped` says that `values_by_device` does not refer to it
any more although a loop still writes into it. `row` is what becomes `params`. A key
can be absent (`Nil`), hold `None` (`Null`), or a value; the three are told apart
wherever the code does. `since` and `empty` are histories: the values a property has
had since the list was read, and the devices of which a sub-device answered nothing.

### NodeRows

A row has two halves: `params`, which reports and commands write, and `properties`, as
the Open API lists it. A row that comes from the gateway's topology has as its `params`
what the topology states of the node (`Stated`), which in the protocol's sample is
nothing: such a row has no value at all until it is told or fetched
(`_typed_auxiliary_nodes`). Lists are objects: a refresh remembers the one it began with
(`found`) and, when its fetch fails, puts it back; a report is merged in place into the
loaded one. `Lists` names as many objects as can be referred to (`ListsAssumption`:
there is always one that no refresh remembers). Two refreshes may overlap. `missed` and
`news` are histories: the properties of which the loaded row lacks the last news, or
which its topology did not state, and those with news since a refresh fetched its row.

### NodeRouting

A node has a kind, which is the dict or list of the coordinator that holds it, and a
number. Numbers are unique among the nodes of one type (`NodesAssumption`, after
`src/docs/iot/Yeelight Pro局域网协议.md:200`); gateways share the type of devices. An update
(`NodeUpdates`) is what the parser makes of a frame: `about` is the node that sent it,
which the code does not know, `fields` the numbers it names, each with the first field
that does (an alias of the node's own number, or a relation such as `roomId`), `id` the
one that comes first. `placed` are the nodes that are loaded, `says` the update that
each of them shows, `kept` the override store. `Receive` is the whole of
`apply_property_updates` for one update: `Resolved` finds the number, `ListsFor` the
list if it is for a list's node; otherwise it is kept, and merged into the device, the
gateway and the group of that number. A command (`Control`) is kept and merged the same
way but reaches no group, since its caller hands none over. `LoadDevices` and
`LoadLists` are the two halves of a refresh, `LoadTopology` is a gateway's topology,
which brings devices and lists together; each may leave out some nodes: filtered, gone,
or not there yet. `told` is a history: the last update that should be seen of each node.
How an update merges with what was there before is left to `DeviceState` and `NodeRows`,
so an update has one property here, and stands for its value.

### EntityControls

`unit` is one entity, of a kind that says which platform it is of; its other fields
are what the product schema gives (range, options, speeds). `own` holds the properties of
its device as the gateway has them. The actions are those of Home Assistant's scenes:
the attributes an entity shows are stored (`scene`), somebody else changes the device, the
stored state is restored by the calls that Home Assistant's `reproduce_state` makes of
each platform. `kept` is a history: what the device did when the scene was stored.
`StateShown` and `Call` are the code's functions for reading and writing, `Obeyed` is the
device; `OutOfReach` names what cannot be restored. `UnitsAssumption` says what a
product may be and `IsSetting` what states its device has.

## 3. Runs

| Run | Asks | Bounds |
| --- | --- | --- |
| `push` | Do the tasks ever overlap, and does anything survive a stop, whether or not `close()` may raise? If it does not: is the transport ever stranded, is a websocket leaked, is `LiveFeed` implemented? | 3 connections, 2 reconnect tasks |
| `lan` | The same for the LAN, with and without resets; does a command whose connection is gone end, is an ACK awaited in vain? | 3 connections, 2 loops of each kind, 2 commands (1 with resets) |
| `lan_stranded` | deviation, see below | as `lan` |
| `device` | Can two commands that overlap, of either route and with every trouble, or a poll, a topology or a lost device take a handled report back? | 2 properties, 1 change that may go unreported, 2 commands, 1 report, 1 poll; a command asks for one property, a topology carries none, no type has a default |
| `readings` | Can one command at a time, of either route, that may fail leave a ghost in a device's payload or in the override store, and does the payload catch up? Do components, the completed rows of devices, the rows of groups and rooms, and entities say what the device said? One in each behaviour | see below |
| `hydration_lost`, `group_unread` | deviations | as `readings` |
| `device_ghost` | deviation | 1 property |
| `entry` | Is a loaded entry whole, is what is left behind explained, is there one push feed, and are feeds used as agreed, do options take effect, does every change settle? | 2 generations, 2 changes, 4 sets of options, both modes |
| `entry_leak` | deviation | as `entry` |
| `parts` | Token writers, registries, schema cache, event routing, paging, the filter's forms, the config flow, the routing of updates: one in each behaviour | see below |
| `registry_cleanup_undone` | deviation | 1 device, 3 keys |

Why the bounds are enough. Connections: one that is current, one whose clean-up is still
at work and one being opened are all that can be referred to at a time; a state that
needs a fourth would show as no free slot, and the proofs do not depend on the number.
Reconnect tasks: one at work, one cancelled and not yet gone. Delays run from 1 to 3 (or
2), so doubling passes the cap. Commands: two are needed to overlap. Values: two tell
true from false. Properties: two, since an update touches one and a rollback the others;
commands that ask for both are in `readings`.
Generations: the present one and one that was left behind; a mishap is possible only
while another is free, so the model never blocks a setup. Changes: two, so that one can
come while the other is being dealt with; the sets of options are those in which live
updates or the gateway come and go. `parts`: two requests and a setup share the lock,
two clients are the loaded one and an older one, two tokens are issued beyond the first;
a main entity and the helper it has replaced, on one device that comes and goes (rows of
an old address are in `registry_cleanup_undone`, and the filter hides a device or not);
two refreshes and two versions on the server; three messages (one with an alias, one
that cannot be normalized) for two remembered keys and frames of up to two, so that
eviction and a raise in mid-frame happen; a private entry that starts with a token that
lasts; four rows in pages of two, so that a list has none, one, two or three requests;
two devices, one with values in two rooms, three dimensions of which one has no page,
and any filter with one rule on a side, or two that must both match; two accounts that
share a house, codes that live two ticks, clocks that agree or do not, two tokens; eight
nodes, of which a device and a group, and a room and a house, have the same number,
eleven updates (with relations, with row numbers, of which one is nobody's and two
another node's, and without a type), two updates or commands between reloads, each of
which leaves out at most one node. A mix-up needs an update and a reload, a lost report
two updates; `NodeRouting`'s two properties are proved for any number. `readings`: one
change, two commands that do not overlap, one report on its way and one poll of a device
whose type has a default for one of its two properties, and a topology that carries none
of them or the first; seven devices of one and two components, with and without schema,
index, scale and zoom, of which `FleetAgrees` holds, and the numbers 1, 2, 4 in halves,
so that a division is seen; two devices in two groups, one with two sub-devices, and one
change during the poll; a node of two attributes and two levels, of which a topology
states none, two refreshes, one change or command, one failure and one message on its
way; only one attribute ever changes, and while two refreshes overlap there is one
change or one failure, no command, and no third refresh until both are done (`FewAtATime`: the other attribute is there for
rows that have some of their values); eighteen entities of seven kinds, with the ranges
of real products, and in the stored state every brightness, position, angle and speed
there is (of colours and temperatures a few). The bounds `MaxChanges`, `MaxCommands`,
`MaxReports`, `MaxTokens`, `MaxVersion`, `MaxFrame`, `MaxPages`, `MaxUpdates`,
`MaxMissing`, `MaxDrift`, `MaxMoves`, `MaxWrites`, `MaxFaults` and `MaxWaiting` cap the
environment only.

What the passing runs show, beyond types:

- **Tasks never overlap** (`OneConnection`, `OneWorker`), in spite of late clean-ups.
- **Somebody always brings the connection back**, if closing does not raise
  (`ServedIfClosed`) and no connection is reset (`ServedUnlessReset`): at every moment
  some task is about to, and through the fairness of `LiveFeed` it does.
- **Stop is final** (`QuietAfterStop`, `NoSocketLeak`), and ends.
- **The health flags can be relied on** (`HealthIsHonest`), which the choice between LAN
  and cloud does.
- **No command hangs** (`NoAckAwaitedInVain`, `LostCommandEnds`).
- **Both transports implement `LiveFeed`** (`ImplementsFeedIfClosed`,
  `ImplementsFeedUnlessReset`): the refinement mapping is `FeedPhase`, `FeedLink` in
  each module.
- **Device state**: `NoGhost`, `OverridesWereReal`, `CatchesUp`, each in the setting in
  which the code has it; and `CaughtUp` in any (`device` and `readings`): whatever order
  polls, topologies, reports and commands come in, and whatever fails, what was reported
  last of a property is shown, but for the four losses that `untold`, `outdated` and
  `misshown` (a command's leftovers, a topology's defaults) name. `NoGhost`: what is
  shown is, or was, true or asked for, but for a default of a property that no one had
  told (`Guessed`). `CatchesUp` says two things of a device that is left alone: in the
  end it is shown as it is, but for defaults of what nobody has told, and these, too,
  are put right again and again, by each poll; `NodeCatchesUp` says the same of a row
  and of what a topology leaves without a value. That payload, overrides and Home
  Assistant agree (`PayloadShowsOverrides`, `HaShowsPayload`) is proved for devices on
  the LAN, and the former as long as no cloud command fails; no run checks them.
- **From the device to its entities**: `ComponentsAgree` (a value is shown by the entity
  of its component, and a command reaches the component it was meant for), `RowSound` (a
  row has nothing that the device did not have, and lacks nothing that was answered, but
  for what `hydration_lost` shows), `RowIsCurrent` (the row of a group has what was said
  of it, but for what `missed` names), `SceneRestored` (what is shown is enough to bring
  the device back, through every rounding, but for `OutOfReach`).
- **No node speaks for another** (`NoCrossTalk`), but for the mix-ups that a shared
  number makes and `Confused` names; a device never shows a typed update of a group, a
  room, an area or a house, reloads or not. A node that cannot be mistaken shows its own
  last report (`OwnReportShown`).
- **An entry is loaded with all it asked for, or leaves nothing** but what a named
  mishap explains (`LoadedIsWhole`, `LeftoversExplained`), never runs two push feeds
  (`OnePushFeed`) and starts and stops its feeds as `LiveFeed` asks of an owner
  (`FeedsUsedAsAgreed`, which includes it), works with the present options and data
  (`OptionsInEffect`), and deals with every change (`ChangesSettle`).
- **Tokens**: none is spent twice (`NoTokenSpentTwice`), the entry's is good and the
  loaded client has the access token (`TokensInUseAreLive`), settings are not lost
  (`SettingKept`), but for the harms each of them names.
- **Registries**: wanted rows are enabled and shown (`WantedServed`), rows are disabled
  only as agreed (`DisabledOnlyAsAgreed`).
- **Forms**: what is stored is what was ticked and a form that is sent back as it came
  changes nothing it can show (`FilterSound`), an entry's token, house and unique id
  belong together through every reauthentication (`EntriesSound`), a grant is used
  however late its answer (`GrantsAreUsed`).
- **Data**: `SchemaFresh`, `EventsSound` (what was fired is remembered, what is
  remembered was fired), `EverySteadyRowRead`.

### Fairness

`TaskFairness`: asyncio runs every task that is ready, sleeps and timeouts end,
`close()`, `wait_closed()` and connect attempts end (the push transport's subscribe and
the LAN connect are bounded by `wait_for`; the WebSocket library bounds its own). Nobody
owes a start, a stop, a command, a frame from the peer or the end of `drain()`, which
has no timeout. `NetworkFairness` is strong fairness on a successful connect: the peer
is not unreachable for ever, but attempts may fail any number of times. `DeviceState`:
payloads that arrived are handled, the poll's timer runs, and a poll cannot fail for
ever. `NodeRows`: messages are handled and refreshes recur. The gateway owes neither a
topology nor a state synchronisation, though it sends the latter every ten minutes: they
are steps of the environment, so what catches up does so by reports and polls. For an
entry without polls nothing is claimed but the safety properties. `EntryLifecycle`: the
awaits of setup and of unload end (every one is bounded by a timeout of the client or of
the library), the listener's tasks run, Home Assistant retries an entry that is not
ready (all weak); a reload gets the setup lock though others take it too (strong, since
asyncio's locks are first come, first served).

## 4. Deviations: where the code does other than it says

Each of the first six is a run that TLC ends with a counterexample.

1. **The LAN reconnect loop can die** (`lan_stranded`). `wait_closed()` of the old
   writer is awaited outside the loop's `try`; after a reset it raises and nothing
   reconnects, though `running` stays true.
2. **A running LAN runtime can lose its owner** (`entry_leak`). If the topology
   request after the start raises, the started runtime is dropped without a stop:
   the clean-up finds a failure record where it looks for the runtime.
3. **Rollback restores too much** (`device_ghost`). The snapshot is the whole of
   `params`: with two failing commands the second restores the optimistic value
   of the first. For the same reason a rollback drops reports of other properties
   that came in while it waited; `PayloadShowsOverrides` fails when commands take the
   cloud and may fail.
4. **A confirmed clean-up is undone** (`registry_cleanup_undone`). The scan of a
   platform enables rows again that the integration has disabled, without asking
   the import filter, though such rows are to come back when their candidates are
   active again.
5. **A sub-device's answer is lost** (`hydration_lost`). A sub-device that answers
   without values takes the device's dict out of the results; the loop goes on writing
   into it, and what the next sub-device answers never reaches the row.
6. **The light of a group is off after every cloud refresh** (`group_unread`). It reads
   `params` only; the rows of the Open API carry `properties`, which the lights of rooms,
   areas and houses read as well.

Met while modelling, and part of the models without a run of their own:

- A heartbeat can be cancelled by the wrong reader: the late clean-up of a failed reader
  cancels whatever `_heartbeat_task` holds (`push_transport_runtime.py:317`).
- A LAN topology shows the defaults of the type (0 for a position, off for a lamp) of
  every property that the override store does not have, even where a poll had read the
  true value before (`core/lan_topology_payload.py:139`;
  `tests/test_lan_topology_payload.py` asserts it). It lasts until the property is told
  or polled; `Guessed`, and `misshown` in `CaughtUp`, name it.
- After a LAN topology the row of a group, room, area or house has no value unless the
  topology states one (`core/lan_topology_payload.py:298`), so that its light has no
  state until it is told or fetched; `missed` names it.
- Overrides are never removed, so that without reports a change made elsewhere stays
  invisible, polls or not (`core/runtime_state.py:34`).
- In LAN mode setup asks for the gateway whatever the option says (`entry_setup.py:98`);
  `WantsLan` states it.
- After an event that raises, the rest of its frame is remembered as delivered and never
  fired; `NoEventLost` names that exception (`swept`).
- Two manual refreshes that overlap share one force flag, and the first to end takes it
  from the other (`core/coordinator.py:281`); `promised` counts only refreshes that
  nothing overlapped.
- After a partial report the light of a room shows only what was reported, since
  `params`, once there, hide the `properties` (`node_metadata.py:73`); it heals with the
  next refresh, which is what `NodeCatchesUp` asks.
- A fetch that fails puts back the list that its refresh began with, even over a newer
  one (`core/auxiliary_data.py:115`); it heals likewise.
- A command is sent as the user gives it, unscaled, and an inferred state takes raw
  numbers (`NumbersAgree` leaves out devices where that shows). A device with the
  official schema, an index and one component alone is commanded without the index
  (`KeysAgree`).
- A lamp that has both colours and colour temperatures is always shown in the mode of
  the temperature: a numeric `m` is not read (`projector/light_helpers.py:333`),
  although `capabilities/models.py:231` writes down what its values mean and the lights
  of rooms read it. A scene cannot bring such a lamp's colour back. Neither can it bring
  back a temperature outside the range that the lamp's entity has, a fan that is on at
  speed 0, or the value of a select that is not among its options; `OutOfReach` names
  the four.
- Overrides are kept by number alone (`core/runtime_state.py:56`). An update without a
  type for a node that is not loaded is kept as a device's, and a device of that number
  that is loaded later starts with it. An update of a device reaches the group with the
  device's number as well, and if the device is not loaded (for the import filter, say)
  the group, room, area or house that alone has the number shows the device's report
  (`core/runtime_bridge_properties.py:299`), unless a relation leads it back. `Confused`
  names these; TLC finds a behaviour for each of its disjuncts.
- A cloud command that is cancelled keeps its optimistic value.
- A gateway's payload is rebuilt without the overrides (`core/device_payload.py:133`).
- A cloud entry made with a typed-in token cannot be reauthenticated: its identity is
  the token's fingerprint (`config_flow_account.py:40`), so that every new token counts
  as another account's and is refused (`config_flow_reauth.py:168`). The README and
  `docs/TROUBLESHOOTING.md` send users with an expired token to reauthentication;
  `tests/test_config_flow_reauth_identity.py` refuses such a token on purpose.
  `GrantsAreUsed` excepts it (`named`).
- A code is judged by Home Assistant's clock (`scan_login_contract.py:117`); with a
  clock that is ahead the code is given up early, though not if its grant has been told.
- When the list of houses fails to load, the form has nothing to choose from
  (`config_flow.py:222`); the user has to begin again.
- When the picker's list fails to load, sending the empty form removes the stored filter
  (`options_flow.py:173`); `UntouchedFormKeepsFilter`, a part of `FilterSound`, excepts
  it (`blind`).
- A value that the wizard found when it began and did not offer on its page is excluded
  though nothing was unticked (`options_flow.py:198`); `FilterAsChosen` names that
  exception (`gone`).
- Neither form can show every filter (`Expressible`): the wizard overwrites rules of
  dimensions without a page, `and` filters and most include rules, the picker overwrites
  whatever excludes.
- The options flow writes back a copy of the entry's data, tokens included, that may be
  older than a refresh (`"stale_options"`), and a refresh writes back settings that may
  be older than the options flow (`"raced"`).

Some properties hold only in a setting that a passing run or a theorem states;
these are the limits, each of which a change of one constant exhibits:
`NeverStranded` and `NoSocketLeak` of the push transport need `close()` not to raise
(`closeRaises` false); `OverridesWereReal` needs LAN commands to be answered (no
`"timeout"` in `Troubles`), since a missing ACK counts as success;
`HaShowsPayload` needs `"cloud"` to be absent from `Routes`,
since a cloud command's success is stored without telling the entities;
`CatchesUp` needs every change to be reported (`Reported` is `{TRUE}`), since an override
hides what polls read, and excepts answers that a change has overtaken (`outdated`), for the
same reason;
`OptionsInEffect` needs changes not to come before the entry's listener is
registered (`"early_change"` absent from `Troubles`), a window that reaches from the start of
the setup to `__init__.py:209`.

## 5. Proofs

All theorems are of the form *assumptions on the constants* `=> (Spec => []P)`, for
any set of slots, properties, values, commands and polls; a few are of an action
property or of a refinement. TLC checked each inductive invariant on the runs'
instances before it was proved.

**PushTransport.** `IndInv` is `TypeOK`, `TaskInv` and, if `close()` cannot raise,
`ServedInv`. `TaskInv` has one part per actor: `HandlesInv` (each handle holds the
one task that works, and only while running: this is what makes "cancel the
handle" mean "cancel the task"), `StartInv`, `ConnectInv` (who connects holds
`_websocket`), `HeartbeatInv` (a failing heartbeat closes its own websocket), and
`StopInv` (what is still at work while not running is what `async_stop` is about to
await). `OneConnection` and `QuietAfterStop` follow from `TaskInv`
alone, so they hold whether or not `close()` raises; `ServedIfClosed` (`NeverStranded`
and `NoSocketLeak` unless `closeRaises`) needs `ServedInv`.
`ImplementsFeedSafely`, `Spec => Feed!Spec`: under `FeedPhase` and `FeedLink` the first
states are `LiveFeed`'s and every step of a task is one of its steps or a stutter. The
invariant is needed for it, since it is what says that a connection given up was the
one that is current, and that a stop finds nothing left to change.

**LanRuntime.** The same shape: `WorkersInv` (at most one task works), `LinkInv`
(a live read loop is what makes the runtime connected), `StartInv`,
`CommandsInv`, `StopInv`, and `ServedInv` if there are no resets. From it
`OneWorker`, `HealthIsHonest`, `NoAckAwaitedInVain`, `NoSocketLeak`,
`QuietAfterStop` whether or not there are resets, and `ServedUnlessReset`
(`NeverStranded` unless `resets`). `ImplementsFeedSafely` as above, resets or not.

**DeviceState.** A lemma says what `Merge` does, another what a queue's tail and append
hold. `OverridesWereReal`: reports on their way, parameters of applied commands and
overrides are all in the history. `PayloadShowsOverrides` (no failing cloud commands):
every way a payload is written ends with the overrides laid over it. `HaShowsPayload`
(no cloud). `NoGhost` (one command at a time, answered and not cancelled): the invariant
adds that the snapshot holds only values the device had or the defaults of its type, and
that what the command asks for is accounted for as long as it is under way; a payload
made of a topology holds what was carried, an override or a default that is `Guessed`,
and a guess ends with the first news of its property unless a rollback puts it back; and
without rollbacks (`NoGhostWhenReliable`) with any number of commands. `CaughtUp` (no
assumption: both routes, any number of commands, any trouble): of a property whose last
change was reported, `LastReport` says that the last report on its way carries the
device's value and, with none on its way, the override does, unless it is an answer that
was not true, or there is no override and the property has never changed. `Current` says
that the payload then shows the value, too, or what a command asks for that can still
roll back, unless an earlier one, or a topology's default, left something else: what a
topology carries is true unless a report comes after it, and what it does not carry is
an override, or a default that is either true or `misshown`. So a poll may be as old as
it likes: what it read is covered by the override, or is the only value the property
ever had.

**NodeRows.** `NodeInv` is `NodeTypeOK`, `RowsHeld` (the loaded list and every list that
a refresh may put back has the row, with whatever values; a fetched row has no params)
and `Knowledge`, for each property the part of `DeviceState`'s argument that a row has:
the last message that speaks of it carries the node's value (`LastNews`); with none on
its way the loaded row says it unless it is `missed`, and a row that was fetched says it
unless it is among the `news` since. Three lemmas carry the proof: what a merge, a new
list and a list that is put back do to what the loaded row says. From it `RowIsCurrent`,
for any number of refreshes that overlap. A topology's row says only what was stated, so
the rest is `missed`. Assumed are the bounds, `ListsAssumption`, `StatedAssumption` (a
topology states properties of the node, any or none) and `NodeAssumption` (a missing key
is neither a level nor a row).

**ComponentState.** Assumed is `FleetAgrees`, without which the property is false. The
invariant adds to `ComponentsTypeOK`: every key that params or overrides hold is the key
of one component (`Named` is a singleton, and what the device calls the key is what a
command calls it); the number held is that component's; the state, whether rebuilt or
updated in place, is the actual value of it or unknown. Lemmas say what `Updated`, `Row`
and `Hydrated` do to a dict for every dict; since every held number is right, the order
in which the keys came turns out not to matter. `ShownIsActual` and `WantedIsTaken`
follow, together `ComponentsAgree`.

**NodeRouting.** Assumed are that numbers are unique per type and that an update names its
node. `NoCrossTalk`: an update is always resolved to one of its own numbers, since a relation
fits only if it points to a node of the update's type, which is the node itself; a typed
update of a list's node is never kept, so that what a reload lays over a device is a device's
or has no type. The invariant says this of what is shown and of what is kept.
`OwnReportShown`: if nobody else has or names a node's number, each update about it is resolved to
that number, whatever is loaded, and no other update is; so the row, or for a device
the store, is what was told last. Both hold for any nodes, updates and reloads.

**PropertyHydration.** `HydrationInv` is `HydrationTypeOK` and `AnswersInv`: from the list
to the row, whatever is held of a property is a value the property has had since the list
was read, and a dict that is dropped belongs to a device one of whose sub-devices answered
nothing. A row that is done is `RowOf` of these, whence `RowSound`: nothing is shown
that the device did not have, and what is missing is named by `empty`.

**EntryLifecycle.** `IndInv` is `TypeOK`, `StepInv` (what is known at each await of
the one call that holds the lock), `FeedInv` (a feed that is not off belongs to the
present generation or was left by a mishap), `PlatformInv`, and, if no change comes
before the listener is registered, `CurrentInv` and `MatchInv` (the coordinator has
the entry's options and data, or a notice or a reload is on its way). From it
`LoadedIsWhole`, `LeftoversExplained`, `OnePushFeed`, `OptionsInEffect`, `FeedsUsedAsAgreed`
(which needs `StopInv` besides: only a manager that the runtime data names is stopped), and
`CleanWithoutTroubles`: without troubles an entry that is not loaded leaves nothing
running, the property that `entry_leak` refutes when there are some.

**TokenRefresh.** `IndInv` is `TypeOK`, `LockInv` (who refreshes holds the lock and has
read the entry; a setup's client is the current one), `ReadInv` (what a refresh will
write back keeps the setting) and the four properties, each of which is needed for
the others: a token is spent once because the entry's token is good when it is
read, and the entry's token is good because nobody else spends it meanwhile.

**SetupFlow.** `SetupInv` is `TokensInv` (a token was issued once, to one account),
`EntriesInv` (an entry's unique id is made of what the entry holds, and no two
entries share one), `FlowInv` (at each step of the flow, what it will store fits) and
`CodeInv`. From it `EntriesSound`, with no assumption on the constants: a
reauthentication keeps the unique id and the house, so it is sound only because one
identity means one account; and the action property `GrantsAreUsed`.

**RegistrySync.** `RegistryInv` is `RegistryTypeOK`, `CandidatesEnabled` and
`WantedShown`, which need nothing more: every handler that can make an entity wanted
also scans the rows, so each of its steps re-establishes both. `DisabledOnlyAsAgreed`
is an action property from the same invariant. Assumed is that every key has a
device and that a key is no device (`KeysAssumption`).

**ImportFilter.** `FilterInv` is `FilterTypeOK`, `WizardInv`, `PickerInv` and
`FilterSound` itself. `WizardInv`: of what is on offer still, the selections hold for
each page that was answered what was left ticked on it, and, as long as every page was
left as it came, what the stored filter ticks. The confirm page holds the filter built
of these, so an answer is excluded when it was unticked, whatever came and went
meanwhile. `PickerInv` is the same of the other form. Assumed is that every page is a
dimension (`WizardAssumption`), that finitely many dimensions are hidden, that the
dimension of the devices has a device's own id and no other (`DevicesAssumption`), and
that every listed device can be chosen on its page (`OfferAssumption`). The last is a
fact about a fold over the list of devices, which would take induction over data; TLC
evaluates it for every list of the run's devices.

**EntityControls.** `ControlInvariant` says that what a scene holds is what was shown
when it was stored; the work is `Restores`, which has one lemma for each kind of entity
and under them the arithmetic: a rounded quotient is within half of the divisor
(`RoundedNear`), so a level goes to Home Assistant's 0 to 255 and back unchanged
(`LevelReturns`, `PercentReturns`), two speeds never share a percentage (`SameSpeed`),
an angle comes back to a degree and is shown as before (`TiltReturns`), and two options
of a select never share a label unless they share a code (`OneCode`). Assumed is
`UnitsAssumption`: a lamp has a range of 2 to 128 levels and a fan of at most 100
speeds, that starts at 0 only if there is a switch besides; a mode goes with both
colours. The code takes ranges from the product schema as they are, and falls back to 1
to 100; for a wider one the property is false, since a lamp at its lowest is shown at 1
of 255 and comes back brighter, and two speeds share a percentage. `NotShownAssumption`
tells what is unknown from numbers and labels.

**SchemaCache.** `CacheInv` is `CacheTypeOK`, `AloneInv` (a refresh that nothing has overlapped
knows that nobody else is at work; if it is forced, what it was answered and what is cached
are no older than what the server had when it began) and `PromiseInv` (whatever is still on its way
into the cache, an answer or the store's file, is no older than what was promised: once
something was promised the store has been read and no answer is of an earlier version).

**EventRouting.** `RemembersRecent` by the form of each step: a key that is remembered
is moved to the end of both sequences, one that is not is put there, and the oldest goes
only when there are more than `MaxKeys`. Lemmas say what removing, appending and cutting
do to a sequence without repetitions. `NoEventLost`: a remembered key was fired, is
about to be, or was lost with its frame.

**Paging.** `PageInv` adds to `EverySteadyRowRead` what has been read so far
(`ReadSoFar`): every row that was there all the time and stands before the page that is
asked for next has been read, as long as no row that had been read was taken out; and
`count` is no more than the pages read hold, so that a `count` that reaches `total`
means that the pages read reach the end of the list.

Only model-checked: the liveness properties and everything that uses fairness or
ENABLED, which this prover does not have: that the transports implement
`LiveFeed!FairSpec`, `CatchesUp`, `NodeCatchesUp`, `ChangesSettle`, `LostCommandEnds`.
That `OfferAssumption` holds is evaluated by TLC alone.

## 6. Not modelled

Contents of frames and messages and their parsing, counters of the diagnostics, names,
translations and most of the projection pipeline: pure functions without order or
failure, many of them tables. A frame is a choice between payload, control frame and
error. UDP discovery happens once before the LAN runtime starts. Scenes, which have no
state, and the merging of a gateway's payload, which is a device's but rebuilt without
the overrides (`core/device_payload.py:133`; `NodeRouting` has that). How a node's id is
found in an event. How values and keys of the LAN become those of the Open API
(`normalize_lan_device_params`, the channel keys of switches and air conditioners), and
which type has which defaults: tables, of which `DeviceState` takes a type's row as a
constant. `heartbeat_is_stale` is defined but no code asks it. The `scripts/` directory
checks releases and installations and is no part of the running system; it and the tests
are more than half of the repository's lines.

## 7. Plan

What is left: config entry migration, a pure mapping of one dictionary to another.

## 8. Running

    tlc -config MCLanRuntime.cfg MCLanRuntime.tla
    tlapm LanRuntimeProofs.tla

`push` and `parts` take two to three minutes, `device` and `readings` one to two, `entry` about one, the others less; each proof module one or two minutes.
