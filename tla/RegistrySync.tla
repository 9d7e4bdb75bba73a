---------------------------- MODULE RegistrySync ----------------------------
(***************************************************************************)
(* The entity registry beside a topology that changes: the scan of every     *)
(* platform at each coordinator update (dynamic_entities.py), the            *)
(* reconciliation after a change of topology (entity_lifecycle.py), and the  *)
(* clean-up an administrator previews and confirms                           *)
(* (entity_lifecycle_cleanup.py, registry_cleanup_service.py).               *)
(*                                                                         *)
(* A key stands for <<domain, unique_id>>, a preview for its audit id.  An      *)
(* audit that was confirmed or rejected is as good as none.                  *)
(***************************************************************************)
EXTENDS Naturals, FiniteSets

CONSTANTS
    Keys, Devices,
    DeviceOf,      \* [Keys -> Devices]
    Legacy,        \* keys of an address the private server no longer has
    Named,         \* keys the user has given a name
    Supersedes     \* <<helper, main>>: the main entity has taken the helper's place

ASSUME KeysAssumption == DeviceOf \in [Keys -> Devices] /\ Keys \cap Devices = {}

VARIABLES
    present,       \* devices of coordinator.data
    projected,     \* keys the factories of the platforms yield
    excluded,      \* devices hidden by the import filter
    registry,      \* of each key: "none", or by whom disabled
    adding,        \* handed to async_add_entities
    shown,         \* keys with a state that is not merely restored
    due,           \* a task of async_reconcile_entity_registry is to run
    audit,         \* _LAST_CLEANUP_AUDIT of the coordinator, a preview
    seen,          \* the preview the administrator holds
    enabledAgain   \* history: rows the user has enabled since the last scan

topology == <<present, projected, excluded>>
entities == <<adding, shown>>
cleanup  == <<audit, seen>>
regVars  == <<topology, registry, entities, due, cleanup, enabledAgain>>

NoAudit  == {"none"}

RegistryTypeOK ==
    /\ present \subseteq Devices /\ excluded \subseteq Devices
    /\ projected \subseteq {k \in Keys \ Legacy : DeviceOf[k] \in present}
    /\ registry \in [Keys -> {"none", "enabled", "user", "integration"}]
    /\ adding \subseteq Keys /\ shown \subseteq {k \in Keys : registry[k] = "enabled"}
    /\ due \in BOOLEAN
    /\ audit \in (SUBSET (Keys \cup Devices)) \cup {NoAudit}
    /\ seen \subseteq Keys \cup Devices
    /\ enabledAgain \subseteq Keys

-----------------------------------------------------------------------------
(* What the code computes from a topology. *)

(* iter_entity_candidates: the projected keys of devices the filter lets through. *)
Candidates(proj, excl) == {k \in proj : DeviceOf[k] \notin excl}

(* Enabled rows nothing asks for any more, which nobody has named, with a main   *)
(* entity in their place; and rows under an old address, named or not.       *)
AutoDisabled(reg, cand) ==
    {k \in Keys \ cand :
        /\ reg[k] = "enabled"
        /\ \/ k \in Legacy
           \/ k \notin Named /\ \E m \in cand : <<k, m>> \in Supersedes}

(* async_reconcile_entity_registry. *)
Reconciled(reg, cand) ==
    [k \in Keys |->
        IF k \in cand /\ reg[k] = "integration" THEN "enabled"
        ELSE IF k \in AutoDisabled(reg, cand) THEN "integration" ELSE reg[k]]

(* _should_skip_registered_entity, on its way, enables again what the integration *)
(* has disabled; the import filter is not asked.                             *)
Scanned(reg, proj) ==
    [k \in Keys |-> IF k \in proj /\ reg[k] = "integration" THEN "enabled" ELSE reg[k]]

(* Mutant: what is registered has been added already. *)
MutMissing(reg, proj, excl, states) ==
    {k \in proj \ states : reg[k] = "none" /\ DeviceOf[k] \notin excl}

(* _add_missing_entities: registered and without a state, or new and not filtered. *)
Missing(reg, proj, excl, states) ==
    {k \in proj \ states :
        reg[k] = "enabled" \/ (reg[k] = "none" /\ DeviceOf[k] \notin excl)}

(* The preview: rows that are no candidates and not disabled by the user, and      *)
(* devices that are gone.  Its hash is the audit id.                         *)
Stale ==
    {k \in Keys \ Candidates(projected, excluded) : registry[k] \in {"enabled", "integration"}}
        \cup {DeviceOf[k] : k \in {j \in Keys : registry[j] # "none"
                                               /\ DeviceOf[j] \notin present}}

-----------------------------------------------------------------------------
InitRegistry ==
    /\ present = {} /\ projected = {}
    /\ excluded \in SUBSET Devices
    /\ registry \in [Keys -> {"none", "enabled"}]
    /\ \A k \in Keys : registry[k] # "none" => k \in Legacy
    /\ adding = {} /\ shown = {}
    /\ due = FALSE
    /\ audit = NoAudit /\ seen = {}
    /\ enabledAgain = {}

(* async_update_listeners after a poll or a LAN report: every platform scans.      *)
(* A change of devices also makes a new topology generation, whose listener    *)
(* starts the reconciliation; so may a change of metadata that shows nowhere  *)
(* here.  Polls under way at once may end in any order, so any topology may   *)
(* follow any other.                                                         *)
TopologyUpdated ==
    /\ present' \in SUBSET Devices
    /\ projected' \in SUBSET {k \in Keys \ Legacy : DeviceOf[k] \in present'}
    /\ registry' = Scanned(registry, projected')
    /\ adding' = adding \cup Missing(registry', projected', excluded, shown)
    /\ due' \in {due \/ present' # present, TRUE}
    /\ enabledAgain' = {}
    /\ UNCHANGED <<excluded, shown, cleanup>>

Reconcile ==
    /\ due
    /\ due' = FALSE
    /\ registry' = Reconciled(registry, Candidates(projected, excluded))
    /\ shown' = {k \in shown : registry'[k] = "enabled"}
    /\ UNCHANGED <<topology, adding, cleanup, enabledAgain>>

(* Home Assistant adds an entity, unless its row has been disabled meanwhile. *)
Register(k) ==
    /\ k \in adding
    /\ adding' = adding \ {k}
    /\ registry' = [registry EXCEPT ![k] = IF @ = "none" THEN "enabled" ELSE @]
    /\ shown' = IF registry'[k] = "enabled" THEN shown \cup {k} ELSE shown
    /\ UNCHANGED <<topology, due, cleanup, enabledAgain>>

UserDisables(k) ==
    /\ registry[k] \in {"enabled", "integration"}
    /\ registry' = [registry EXCEPT ![k] = "user"]
    /\ shown' = shown \ {k}
    /\ UNCHANGED <<topology, adding, due, cleanup, enabledAgain>>

UserEnables(k) ==
    /\ registry[k] \in {"user", "integration"}
    /\ registry' = [registry EXCEPT ![k] = "enabled"]
    /\ enabledAgain' = enabledAgain \cup {k}
    /\ UNCHANGED <<topology, entities, due, cleanup>>

(* async_remove_config_entry_device refuses a device that is still there. *)
RemoveDevice(d) ==
    /\ d \notin present
    /\ \E k \in Keys : DeviceOf[k] = d /\ registry[k] # "none"
    /\ registry' = [k \in Keys |-> IF DeviceOf[k] = d THEN "none" ELSE registry[k]]
    /\ shown' = {k \in shown : DeviceOf[k] # d}
    /\ UNCHANGED <<topology, adding, due, cleanup, enabledAgain>>

(* The service without confirm; the answer may be somebody else's. *)
DryRun ==
    /\ audit' = Stale
    /\ seen' \in {Stale, seen}
    /\ UNCHANGED <<topology, registry, entities, due, enabledAgain>>

(* Mutant: only the previous preview is compared with what was confirmed. *)
MutAuditMatches == audit = seen

(* _audit_matches. *)
AuditMatches == audit = seen /\ seen = Stale

(* The service with confirm: a new preview, and what it holds is disabled if it   *)
(* is what the administrator has seen in the last one.                       *)
Confirm ==
    /\ audit' = NoAudit
    /\ registry' = [k \in Keys |-> IF AuditMatches /\ k \in Stale THEN "integration"
                                    ELSE registry[k]]
    /\ shown' = {k \in shown : registry'[k] = "enabled"}
    /\ UNCHANGED <<topology, adding, due, seen, enabledAgain>>

(* The entry is set up again, perhaps with another filter: a new coordinator,      *)
(* reconciliation, then the first scan of each platform.                     *)
ReloadEntry ==
    /\ ~due
    /\ excluded' \in SUBSET Devices
    /\ registry' = Scanned(Reconciled(registry, Candidates(projected, excluded')), projected)
    /\ shown' = {}
    /\ adding' = Missing(registry', projected, excluded', {})
    /\ audit' = NoAudit
    /\ enabledAgain' = {}
    /\ UNCHANGED <<present, projected, due, seen>>

NextRegistry ==
    \/ TopologyUpdated \/ Reconcile
    \/ \E k \in Keys : Register(k) \/ UserDisables(k) \/ UserEnables(k)
    \/ \E d \in Devices : RemoveDevice(d)
    \/ DryRun \/ Confirm
    \/ ReloadEntry

SpecRegistry == InitRegistry /\ [][NextRegistry]_regVars

-----------------------------------------------------------------------------
(* Properties.                                                               *)

(* No row the integration has disabled stays disabled once its entity is wanted     *)
(* again, whatever the order of updates, reconciliations and clean-ups.      *)
CandidatesEnabled == \A k \in Candidates(projected, excluded) : registry[k] # "integration"

(* Every entity that is wanted, and that nobody has disabled, has a state or is on  *)
(* its way; what the user has just enabled waits for the next scan.          *)
WantedShown ==
    \A k \in Candidates(projected, excluded) :
        registry[k] \in {"none", "enabled"} => k \in adding \cup shown \cup enabledAgain

(* In whatever order updates, reconciliations, clean-ups and users write the rows,   *)
(* a wanted entity is served, but for the user's own choice not to have it.       *)
WantedServed == CandidatesEnabled /\ WantedShown

(* The integration disables a row on its own only if something else has taken the  *)
(* row's place, and by confirmation only what the administrator has been shown. *)
DisabledOnlyAsAgreed ==
    [][\A k \in Keys :
        registry[k] = "enabled" /\ registry'[k] = "integration" =>
            \/ k \in AutoDisabled(registry, Candidates(projected', excluded'))
            \/ Confirm /\ k \in seen]_regVars

(* Rows the integration has disabled come back when their "candidates are active   *)
(* again" (entity_lifecycle_metadata.py:26) or the user enables them.        *)
CleanupLasts ==
    [][\A k \in Keys :
        registry[k] = "integration" /\ registry'[k] = "enabled" =>
            UserEnables(k) \/ k \in Candidates(projected', excluded')]_regVars

(* The inductive invariant behind the first two. *)
RegistryInv == RegistryTypeOK /\ CandidatesEnabled /\ WantedShown
=============================================================================
