--------------------------- MODULE EntryLifecycle ---------------------------
(***************************************************************************)
(* The life of one config entry: async_setup_entry, async_setup_lan_entry, *)
(* async_unload_entry, the clean-up of a failed setup and the listener for *)
(* changed options (__init__.py, entry_setup.py, runtime_options.py), with *)
(* PushManager and the LAN runtime reduced to what LiveFeed promises.      *)
(*                                                                         *)
(* Every action is the code between two awaits of the one call that holds  *)
(* the entry's setup lock; the listener's tasks and the user come in       *)
(* between.  A generation g is what one setup builds: coordinator, push    *)
(* manager and LAN runtime.  A generation is used again when nothing of it *)
(* is left; `mishaps` remembers what went wrong on the way, so that the    *)
(* invariants can say exactly when something is left behind.               *)
(***************************************************************************)
EXTENDS Naturals

CONSTANTS
    Gens,        \* generations
    None,        \* Python's None
    Modes,       \* connection modes of the entry: "cloud" (or private), "lan"
    Options,     \* what the user may choose, see AllOptions
    Troubles,    \* what may go wrong that the code does not tidy up
    MaxChanges   \* bounds the changes made to the entry

(* hass.data[DOMAIN][entry_id]: is the push manager there, and what of the LAN? *)
RuntimeData == [push : {"none", "runtime"}, lan : {"none", "runtime", "failure"}]

ASSUME NoneAssumption == None \notin Gens \cup RuntimeData
ASSUME ModesAssumption == Modes # {} /\ Modes \subseteq {"cloud", "lan"}

TroubleKinds == {"push_stop", "lan_stop", "topology", "maintenance", "early_change"}

ASSUME TroublesAssumption == Troubles \subseteq TroubleKinds
ASSUME BoundAssumption == MaxChanges \in Nat

(* live: CONF_LIVE_UPDATES, lan: a local gateway is configured, scan: an option *)
(* that is applied in place.  data: what the private domains are.              *)
AllOptions == SUBSET {"live", "lan", "scan"}
Data       == {0, 1}

ASSUME OptionsAssumption == Options # {} /\ Options \subseteq AllOptions

VARIABLES
    mode,         \* CONF_CONNECTION_MODE of the entry, which no flow changes
    state,        \* Home Assistant's state of the entry
    step,         \* the await at which the call that holds the setup lock stands
    again,        \* is that call a reload that has yet to set the entry up?
    gen,          \* the generation being set up, loaded or unloaded
    runtime,      \* hass.data[DOMAIN][entry_id]: what it says of push and LAN
    push, lan,    \* the transports of each generation
    listening,    \* the generation whose listeners are registered
    platforms,    \* the generation whose entities Home Assistant has
    options, data,\* of the entry
    coordinator,  \* the options and entry data the coordinator works with
    notices,      \* calls of async_options_updated that have not run yet
    reloads,      \* async_reload calls that wait for the setup lock
    changes,      \* changes made to the entry
    mishaps       \* history: what went wrong with each generation

feeds == <<push, lan>>
entry == <<options, data, changes>>
owned == <<gen, runtime, listening, platforms, coordinator>>
vars  == <<mode, state, step, again, gen, runtime, push, lan, listening, platforms, options,
           data, coordinator, notices, reloads, changes, mishaps>>

OptGen == Gens \cup {None}

Runtimes == RuntimeData \cup {None}
Feeds    == {"off", "on", "raised"}
Idle     == {"not_loaded", "retry", "error"}
States   == Idle \cup {"setup", "loaded", "unloading", "failed_unload"}
Steps    == {"idle", "connect", "first_refresh", "maintain", "push", "lan", "topology", "forward",
             "maintain_again", "platforms", "stop_push", "stop_lan", "stop_rest"}

TypeOK ==
    /\ mode \in Modes
    /\ state \in States
    /\ step \in Steps
    /\ again \in BOOLEAN
    /\ gen \in OptGen /\ listening \in OptGen /\ platforms \in OptGen
    /\ runtime \in Runtimes
    /\ push \in [Gens -> Feeds] /\ lan \in [Gens -> Feeds]
    /\ options \in Options /\ data \in Data
    /\ coordinator \in [options : Options, data : Data]
    /\ notices \in Nat /\ reloads \in Nat /\ changes \in 0 .. MaxChanges
    /\ mishaps \in [Gens -> SUBSET Troubles]

Init ==
    /\ mode \in Modes
    /\ state = "not_loaded" /\ step = "idle" /\ again = FALSE
    /\ gen = None /\ runtime = None /\ listening = None /\ platforms = None
    /\ push = [g \in Gens |-> "off"] /\ lan = [g \in Gens |-> "off"]
    /\ options \in Options /\ data = 0
    /\ mode = "lan" => "lan" \in options
    /\ coordinator = [options |-> options, data |-> data]
    /\ notices = 0 /\ reloads = 0 /\ changes = 0
    /\ mishaps = [g \in Gens |-> {}]

-----------------------------------------------------------------------------
(* Setting up.                                                               *)

Free(g) == g \notin {gen, listening, platforms} /\ push[g] = "off" /\ lan[g] = "off"

(* Something goes wrong that leaves gen in use: only while another is free. *)
Mishap(kind) ==
    /\ kind \in Troubles
    /\ \E g \in Gens \ {gen} : Free(g)
    /\ mishaps' = [mishaps EXCEPT ![gen] = @ \cup {kind}]

(* Entry data is read at the beginning of async_setup_entry.                  *)
BeginSetup ==
    /\ step = "idle" /\ state \in Idle
    /\ \E g \in Gens :
        /\ Free(g)
        /\ gen' = g
        /\ mishaps' = [mishaps EXCEPT ![g] = {}]
    /\ state' = "setup" /\ again' = FALSE
    /\ step' = IF mode = "cloud" THEN "connect" ELSE "first_refresh"
    /\ coordinator' = [options |-> options, data |-> data]
    /\ UNCHANGED <<mode, runtime, feeds, listening, platforms, entry, notices, reloads>>

(* async_setup_entry raises.  Home Assistant then calls what async_on_unload    *)
(* registered, which removes the listeners.                                   *)
SetupFails(outcomes) ==
    /\ state' \in outcomes
    /\ step' = "idle" /\ gen' = None /\ runtime' = None /\ listening' = None
    /\ UNCHANGED <<mode, again, feeds, platforms, coordinator, entry, notices, reloads>>

(* Token refresh and health check: authentication or connection errors.      *)
ConnectFails ==
    /\ step = "connect"
    /\ SetupFails({"error", "retry"})
    /\ UNCHANGED mishaps

(* The coordinator is created with the options of that moment.               *)
Connected ==
    /\ step = "connect"
    /\ step' = "first_refresh"
    /\ coordinator' = [coordinator EXCEPT !.options = options]
    /\ UNCHANGED <<mode, state, again, gen, runtime, feeds, listening, platforms, entry, notices,
                   reloads, mishaps>>

FirstRefreshFails ==
    /\ step = "first_refresh" /\ mode = "cloud"
    /\ SetupFails({"error", "retry"})
    /\ UNCHANGED mishaps

NewRuntime == [push |-> "none", lan |-> "none"]

(* Without a client there is nothing to fetch: async_setup_lan_entry goes on to *)
(* the gateway, with the runtime data stored.                                *)
FirstRefreshed ==
    /\ step = "first_refresh"
    /\ IF mode = "cloud" THEN step' = "maintain" /\ UNCHANGED runtime
                         ELSE step' = "lan" /\ runtime' = NewRuntime
    /\ UNCHANGED <<mode, state, again, gen, feeds, listening, platforms, coordinator, entry,
                   notices, reloads, mishaps>>

MaintenanceFails ==
    /\ step = "maintain"
    /\ SetupFails({"error"})
    /\ UNCHANGED mishaps

(* async_run_registry_maintenance, then analytics, whose failure is only logged. *)
(* live_updates_enabled asks the entry, not the coordinator.                 *)
Maintained ==
    /\ step = "maintain"
    /\ runtime' = NewRuntime
    /\ step' = IF "live" \in options THEN "push" ELSE "lan"
    /\ UNCHANGED <<mode, state, again, gen, feeds, listening, platforms, coordinator, entry,
                   notices, reloads, mishaps>>

(* Mutant: with a LAN runtime to stop, the push manager is forgotten.          *)
MutFirstStop(r) ==
    IF r.lan = "runtime" THEN "stop_lan" ELSE IF r.push = "runtime" THEN "stop_push" ELSE "stop_rest"

(* The first await of async_stop_loaded_runtime for runtime data r.           *)
FirstStop(r) ==
    IF r.push = "runtime" THEN "stop_push" ELSE IF r.lan = "runtime" THEN "stop_lan" ELSE "stop_rest"
AfterPush(r) == FirstStop([r EXCEPT !.push = "none"])

(* Mutant: the manager is not kept in the runtime data.                        *)
MutPushStarts ==
    /\ step = "push"
    /\ push' = [push EXCEPT ![gen] = "on"]
    /\ step' = "lan"
    /\ UNCHANGED <<mode, state, again, owned, lan, entry, notices, reloads, mishaps>>

PushStarts ==
    /\ step = "push"
    /\ push' = [push EXCEPT ![gen] = "on"]
    /\ runtime' = [runtime EXCEPT !.push = "runtime"]
    /\ step' = "lan"
    /\ UNCHANGED <<mode, state, again, gen, lan, listening, platforms, coordinator, entry,
                   notices, reloads, mishaps>>

(* The manager is not in the runtime data yet; a feed that rejected its start *)
(* is down.                                                                  *)
PushStartFails ==
    /\ step = "push"
    /\ step' = FirstStop(runtime)
    /\ UNCHANGED <<mode, state, again, owned, feeds, entry, notices, reloads, mishaps>>

(* An entry in LAN mode has the address of its gateway in its data, and       *)
(* async_setup_lan_entry asks for nothing else.                              *)
WantsLan == mode = "lan" \/ "lan" \in options

(* setup_topology_listener, then async_forward_entry_setups.                 *)
Listen == listening' = gen /\ step' = "forward"

LanSkipped ==
    /\ step = "lan" /\ ~WantsLan
    /\ Listen
    /\ UNCHANGED <<mode, state, again, gen, runtime, feeds, platforms, coordinator, entry, notices,
                   reloads, mishaps>>

LanStarts ==
    /\ step = "lan" /\ WantsLan
    /\ lan' = [lan EXCEPT ![gen] = "on"]
    /\ step' = "topology"
    /\ UNCHANGED <<mode, state, again, owned, push, entry, notices, reloads, mishaps>>

(* OptionalRuntimeStartupFailure takes the runtime's place.  Beside the cloud  *)
(* that is all; in LAN-only mode the setup fails.                            *)
LanFailure ==
    /\ runtime' = [runtime EXCEPT !.lan = "failure"]
    /\ IF mode = "cloud" THEN Listen
                         ELSE step' = FirstStop(runtime') /\ UNCHANGED listening
    /\ UNCHANGED <<mode, state, again, gen, feeds, platforms, coordinator, entry, notices, reloads>>

LanStartFails ==
    /\ step = "lan" /\ WantsLan
    /\ LanFailure
    /\ UNCHANGED mishaps

(* async_get_topology raises after async_start has returned.                  *)
TopologyFails ==
    /\ step = "topology"
    /\ LanFailure
    /\ Mishap("topology")

(* In LAN-only mode setup waits for the first topology, or until a timeout.   *)
TopologyRequested ==
    /\ step = "topology"
    /\ runtime' = [runtime EXCEPT !.lan = "runtime"]
    /\ Listen
    /\ UNCHANGED <<mode, state, again, gen, feeds, platforms, coordinator, entry, notices, reloads,
                   mishaps>>

(* Mutant: a platform that fails is not followed by the clean-up.             *)
MutForwardFails ==
    /\ step = "forward"
    /\ SetupFails({"error"})
    /\ UNCHANGED mishaps

ForwardFails ==
    /\ step = "forward"
    /\ step' = FirstStop(runtime)
    /\ UNCHANGED <<mode, state, again, owned, feeds, entry, notices, reloads, mishaps>>

(* A platform that still has entities of this entry refuses new ones.        *)
Forwarded ==
    /\ step = "forward"
    /\ platforms' = IF platforms = None THEN gen ELSE platforms
    /\ step' = "maintain_again"
    /\ UNCHANGED <<mode, state, again, gen, runtime, feeds, listening, coordinator, entry, notices,
                   reloads, mishaps>>

MaintenanceFailsAgain ==
    /\ step = "maintain_again"
    /\ step' = FirstStop(runtime)
    /\ Mishap("maintenance")
    /\ UNCHANGED <<mode, state, again, owned, feeds, entry, notices, reloads>>

SetupDone ==
    /\ step = "maintain_again"
    /\ state' = "loaded" /\ step' = "idle"
    /\ UNCHANGED <<mode, again, owned, feeds, entry, notices, reloads, mishaps>>

-----------------------------------------------------------------------------
(* Unloading, and cleaning up: both run async_stop_loaded_runtime.  An         *)
(* exception ends an unload (Home Assistant then leaves the entry alone until  *)
(* it is restarted) and is swallowed by async_cleanup_failed_setup.          *)

BeginUnload(reload) ==
    /\ step = "idle" /\ state = "loaded"
    /\ state' = "unloading" /\ step' = "platforms" /\ again' = reload
    /\ UNCHANGED <<mode, owned, feeds, entry, notices, mishaps>>

Unload == BeginUnload(FALSE) /\ UNCHANGED reloads

UnloadFails ==
    /\ state' = "failed_unload" /\ step' = "idle" /\ again' = FALSE
    /\ UNCHANGED <<mode, owned, entry, notices, reloads>>

PlatformsStay ==
    /\ step = "platforms"
    /\ UnloadFails
    /\ UNCHANGED <<feeds, mishaps>>

PlatformsUnloaded ==
    /\ step = "platforms"
    /\ platforms' = None
    /\ step' = FirstStop(runtime)
    /\ UNCHANGED <<mode, state, again, gen, runtime, feeds, listening, coordinator, entry, notices,
                   reloads, mishaps>>

StopPush ==
    /\ step = "stop_push"
    /\ push' = [push EXCEPT ![gen] = "off"]
    /\ step' = AfterPush(runtime)
    /\ UNCHANGED <<mode, state, again, owned, lan, entry, notices, reloads, mishaps>>

StopRaises ==
    \/ state = "unloading" /\ UnloadFails
    \/ /\ state = "setup" /\ step' = "stop_rest"
       /\ UNCHANGED <<mode, state, again, owned, entry, notices, reloads>>

(* A feed whose stop raised has ended its tasks but not closed its connection. *)
StopPushRaises ==
    /\ step = "stop_push"
    /\ push' = [push EXCEPT ![gen] = "raised"]
    /\ StopRaises
    /\ Mishap("push_stop")
    /\ UNCHANGED lan

StopLan ==
    /\ step = "stop_lan"
    /\ lan' = [lan EXCEPT ![gen] = "off"]
    /\ step' = "stop_rest"
    /\ UNCHANGED <<mode, state, again, owned, push, entry, notices, reloads, mishaps>>

StopLanRaises ==
    /\ step = "stop_lan"
    /\ lan' = [lan EXCEPT ![gen] = "raised"]
    /\ StopRaises
    /\ Mishap("lan_stop")
    /\ UNCHANGED push

(* Analytics, client and coordinator, then the runtime data is forgotten.     *)
Unloaded ==
    /\ step = "stop_rest" /\ state = "unloading"
    /\ state' = "not_loaded" /\ step' = "idle"
    /\ gen' = None /\ runtime' = None /\ listening' = None
    /\ UNCHANGED <<mode, again, feeds, platforms, coordinator, entry, notices, reloads, mishaps>>

(* ConfigEntryNotReady is raised only where LAN-only mode found no gateway.   *)
CleanedUp ==
    /\ step = "stop_rest" /\ state = "setup"
    /\ SetupFails(IF mode = "lan" /\ runtime.lan = "failure" THEN {"retry"} ELSE {"error"})
    /\ UNCHANGED mishaps

-----------------------------------------------------------------------------
(* Changes of the entry, and what follows from them.                         *)

(* Home Assistant starts a task for each listener.                           *)
Notify ==
    /\ changes < MaxChanges
    /\ listening # None \/ "early_change" \in Troubles
    /\ changes' = changes + 1
    /\ notices' = IF listening = None THEN notices ELSE notices + 1
    /\ UNCHANGED <<mode, state, step, again, owned, feeds, reloads, mishaps>>

ChangeOptions == options' \in Options \ {options} /\ UNCHANGED data /\ Notify
ChangeData    == data' = 1 - data /\ UNCHANGED options /\ Notify

(* async_refresh_entry_token stores new tokens, which need no reload.         *)
TokensSaved == UNCHANGED <<options, data>> /\ Notify

(* Mutant: the LAN settings are not among those that need a reload.           *)
MutOptionsRequireReload(old, new) == "live" \in old <=> "live" \notin new

OptionsRequireReload(old, new) == \E o \in {"live", "lan"} : o \in old <=> o \notin new

AsyncOptionsUpdated ==
    /\ notices > 0
    /\ notices' = notices - 1
    /\ IF \/ runtime = None
          \/ coordinator.data # data
          \/ OptionsRequireReload(coordinator.options, options)
       THEN reloads' = reloads + 1 /\ UNCHANGED coordinator
       ELSE coordinator' = [coordinator EXCEPT !.options = options] /\ UNCHANGED reloads
    /\ UNCHANGED <<mode, state, step, again, gen, runtime, feeds, listening, platforms, entry,
                   mishaps>>

(* Mutant: an entry that failed to unload is waited for.                       *)
MutReload ==
    /\ reloads > 0 /\ ~again
    /\ step = "idle"
    /\ reloads' = reloads - 1
    /\ \/ BeginUnload(TRUE)
       \/ /\ state \in Idle
          /\ again' = TRUE
          /\ UNCHANGED <<mode, state, step, owned, feeds, entry, notices, mishaps>>

(* hass.config_entries.async_reload: an entry that is not loaded is set up; one *)
(* that failed to unload is refused.                                         *)
Reload ==
    /\ reloads > 0 /\ ~again
    /\ step = "idle"
    /\ reloads' = reloads - 1
    /\ \/ BeginUnload(TRUE)
       \/ /\ \/ state \in Idle /\ again' = TRUE
             \/ state = "failed_unload" /\ again' = FALSE
          /\ UNCHANGED <<mode, state, step, owned, feeds, entry, notices, mishaps>>

(* Home Assistant is restarted: only the entry itself survives.              *)
Restart ==
    /\ state = "failed_unload"
    /\ state' = "not_loaded" /\ step' = "idle" /\ again' = FALSE
    /\ gen' = None /\ runtime' = None /\ listening' = None /\ platforms' = None
    /\ push' = [g \in Gens |-> "off"] /\ lan' = [g \in Gens |-> "off"]
    /\ notices' = 0 /\ reloads' = 0
    /\ mishaps' = [g \in Gens |-> {}]
    /\ UNCHANGED <<mode, coordinator, entry>>

Setup ==
    \/ BeginSetup \/ ConnectFails \/ Connected \/ FirstRefreshFails \/ FirstRefreshed
    \/ MaintenanceFails \/ Maintained \/ PushStarts \/ PushStartFails \/ LanSkipped \/ LanStarts
    \/ LanStartFails \/ TopologyFails \/ TopologyRequested \/ ForwardFails \/ Forwarded
    \/ MaintenanceFailsAgain \/ SetupDone

Teardown ==
    \/ PlatformsStay \/ PlatformsUnloaded \/ StopPush \/ StopPushRaises \/ StopLan
    \/ StopLanRaises \/ Unloaded \/ CleanedUp

Next ==
    \/ Setup \/ Teardown \/ Unload
    \/ ChangeOptions \/ ChangeData \/ TokensSaved
    \/ AsyncOptionsUpdated \/ Reload
    \/ Restart

Spec == Init /\ [][Next]_vars

(* Every await of a call ends, the listener's tasks run, a reload gets the lock, *)
(* and Home Assistant retries.                                               *)
FairSpec ==
    /\ Spec
    /\ WF_vars(Setup) /\ WF_vars(Teardown)
    /\ WF_vars(AsyncOptionsUpdated) /\ SF_vars(Reload)

-----------------------------------------------------------------------------
(* Properties.                                                               *)

(* A loaded entry is whole: its listeners are registered, every feed its       *)
(* runtime data names runs, every feed that runs is named, and its entities    *)
(* are those of its own coordinator, unless a maintenance that failed late in  *)
(* an earlier setup left older ones (entry_setup.py, __init__.py).           *)
LoadedIsWhole ==
    state = "loaded" =>
        /\ runtime # None /\ listening = gen
        /\ push[gen] = (IF runtime.push = "runtime" THEN "on" ELSE "off")
        /\ lan[gen] = "on" <=> (runtime.lan = "runtime" \/ "topology" \in mishaps[gen])
        /\ platforms = gen \/ "maintenance" \in mishaps[platforms]

(* Whatever fails in a setup, and however an entry is unloaded, what is left    *)
(* is left for one of three reasons: a stop that raised (the feeds after it are *)
(* not stopped either), a topology request that failed after the LAN runtime    *)
(* had started, or a maintenance that failed when the entities were up.        *)
LeftoversExplained ==
    state \in Idle /\ step = "idle" =>
        /\ runtime = None /\ listening = None
        /\ \A g \in Gens :
            /\ push[g] # "on"
            /\ push[g] = "raised" => "push_stop" \in mishaps[g]
            /\ lan[g] = "on" => mishaps[g] \cap {"push_stop", "topology"} # {}
            /\ lan[g] = "raised" => "lan_stop" \in mishaps[g]
        /\ platforms # None => "maintenance" \in mishaps[platforms]

(* What the README and the tests of the setup promise: an entry that is not     *)
(* loaded has nothing running and no entities.                               *)
NothingLeftBehind ==
    state \in Idle /\ step = "idle" =>
        /\ platforms = None
        /\ \A g \in Gens : push[g] = "off" /\ lan[g] = "off"

(* Two generations never push into Home Assistant at the same time, across     *)
(* reloads, retries and failures.                                            *)
OnePushFeed == \A g, h \in Gens : push[g] = "on" /\ push[h] = "on" => g = h

(* The entry keeps its side of LiveFeed's contract, one push feed at a time:   *)
(* the feed it starts is off, the feed it stops has been started and not been  *)
(* stopped since, whichever step of the setup failed and whichever stop raised *)
(* before.                                                                   *)
FeedsUsedAsAgreed ==
    /\ OnePushFeed
    /\ step = "push" => push[gen] = "off"
    /\ step = "lan" => lan[gen] = "off"
    /\ step = "stop_push" => push[gen] = "on"
    /\ step = "stop_lan" => lan[gen] = "on"

(* Once every notice and reload has been dealt with, a loaded entry works with  *)
(* the entry's present options and data: its feeds are the ones they ask for    *)
(* (runtime_options.py decides between reload, in place and nothing).  With     *)
(* "early_change" in Troubles a change may also come before the setup has       *)
(* registered the listener for changes (__init__.py:163-209), and be missed.    *)
OptionsInEffect ==
    state = "loaded" /\ step = "idle" /\ notices = 0 /\ reloads = 0 =>
        /\ coordinator = [options |-> options, data |-> data]
        /\ mode = "cloud" => /\ runtime.push = "runtime" <=> "live" \in options
                             /\ runtime.lan # "none" <=> "lan" \in options

(* A change of the entry is dealt with: a reload that waits behind another call *)
(* gets its turn, and no call hangs.                                         *)
ChangesSettle ==
    (notices + reloads > 0) ~> (notices + reloads = 0 /\ step = "idle" /\ ~again)

-----------------------------------------------------------------------------
(* The inductive invariant behind them: where the call stands says what exists. *)

Up == state = "loaded" \/ step \in {"forward", "maintain_again", "platforms"}

StepInv ==
    /\ state \in Idle <=> gen = None
    /\ state \in Idle \cup {"loaded", "failed_unload"} <=> step = "idle"
    /\ state = "unloading" => step \in {"platforms", "stop_push", "stop_lan", "stop_rest"}
    /\ state = "setup" => step # "platforms"
    /\ runtime = None <=> gen = None \/ step \in {"connect", "first_refresh", "maintain"}
    /\ step \in {"push", "lan", "topology"} => runtime.lan = "none"
    /\ step = "push" => runtime.push = "none"
    /\ listening \in {None, gen}
    /\ Up => listening = gen
    /\ step \in {"connect", "first_refresh", "maintain", "push", "lan", "topology"}
         => listening = None

(* What a generation that is no longer in use may leave. *)
Left(g) ==
    /\ push[g] # "on"
    /\ push[g] = "raised" => "push_stop" \in mishaps[g]
    /\ lan[g] = "on" => mishaps[g] \cap {"push_stop", "topology"} # {}
    /\ lan[g] = "raised" => "lan_stop" \in mishaps[g]

(* What the generation in use has at each step. *)
PushInv ==
    IF step \in {"stop_lan", "stop_rest"}
    THEN push[gen] # "on" /\ (push[gen] = "raised" => "push_stop" \in mishaps[gen])
    ELSE push[gen] = IF runtime # None /\ runtime.push = "runtime" THEN "on" ELSE "off"

LanInv ==
    /\ step \in {"connect", "first_refresh", "maintain", "push", "lan"} => lan[gen] = "off"
    /\ step \in {"topology", "stop_lan"} => lan[gen] = "on"
    /\ listening = None /\ step \notin {"stop_push", "stop_lan", "stop_rest"} =>
           "topology" \notin mishaps[gen]
    /\ Up \/ step = "stop_push" =>
           lan[gen] = IF runtime.lan = "runtime" \/ "topology" \in mishaps[gen] THEN "on" ELSE "off"
    /\ step = "stop_rest" => Left(gen)

FeedInv ==
    /\ \A g \in Gens \ {gen} : Left(g)
    /\ gen # None /\ state # "failed_unload" => PushInv /\ LanInv

PlatformInv ==
    /\ platforms # None =>
           \/ "maintenance" \in mishaps[platforms]
           \/ /\ platforms = gen
              /\ state \in {"loaded", "failed_unload"} \/ step \in {"maintain_again", "platforms"}
    /\ state = "loaded" \/ step = "maintain_again" => platforms # None

(* The coordinator works with what the entry says, or somebody is about to see to *)
(* it; the feeds are those of the coordinator's options.                     *)
CurrentInv ==
    /\ state = "setup" /\ listening = None => coordinator = [options |-> options, data |-> data]
    /\ state \in {"setup", "loaded"} /\ notices = 0 /\ reloads = 0 =>
           coordinator = [options |-> options, data |-> data]

MatchInv ==
    /\ step = "push" => "live" \in coordinator.options
    /\ step \in {"lan", "topology", "forward", "maintain_again"} \/ state = "loaded" =>
           (mode = "cloud" => (runtime.push = "runtime" <=> "live" \in coordinator.options))
    /\ step = "topology" /\ mode = "cloud" => "lan" \in coordinator.options
    /\ step \in {"forward", "maintain_again"} \/ state = "loaded" =>
           (mode = "cloud" => (runtime.lan # "none" <=> "lan" \in coordinator.options))

(* Only a manager that the runtime data names is stopped. *)
StopInv == step = "stop_push" => runtime.push = "runtime"

IndInv ==
    /\ TypeOK /\ StepInv /\ FeedInv /\ PlatformInv
    /\ "early_change" \notin Troubles => CurrentInv /\ MatchInv
=============================================================================
