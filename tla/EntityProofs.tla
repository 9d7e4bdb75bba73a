---------------------------- MODULE EntityProofs ----------------------------
(***************************************************************************)
(* Theorems about the registries (RegistrySync), the import filter           *)
(* (ImportFilter) and what entities show and send (EntityControls), for any   *)
(* keys, devices, names and filters, and for the products of UnitsAssumption. *)
(***************************************************************************)
EXTENDS RegistrySync, ImportFilter, EntityControls, FiniteSetTheorems, TLAPS

USE KeysAssumption

States == {"none", "enabled", "user", "integration"}

(* What reconciling and scanning make of the rows.                            *)
LEMMA ScannedRows ==
    ASSUME NEW reg \in [Keys -> States], NEW proj \in SUBSET Keys
    PROVE  /\ Scanned(reg, proj) \in [Keys -> States]
           /\ \A k \in proj : Scanned(reg, proj)[k] # "integration"
           /\ \A k \in Keys :
                /\ Scanned(reg, proj)[k] = "none" <=> reg[k] = "none"
                /\ reg[k] = "enabled" => Scanned(reg, proj)[k] = "enabled"
                /\ Scanned(reg, proj)[k] = "integration" => reg[k] = "integration"
BY DEF Scanned, States

LEMMA ReconciledRows ==
    ASSUME NEW reg \in [Keys -> States], NEW cand \in SUBSET Keys
    PROVE  /\ Reconciled(reg, cand) \in [Keys -> States]
           /\ \A k \in cand : /\ Reconciled(reg, cand)[k] # "integration"
                              /\ reg[k] # "integration" => Reconciled(reg, cand)[k] = reg[k]
           /\ \A k \in Keys :
                /\ Reconciled(reg, cand)[k] = "none" <=> reg[k] = "none"
                /\ reg[k] = "enabled" /\ Reconciled(reg, cand)[k] = "integration" =>
                      k \in AutoDisabled(reg, cand)
<1>1. AutoDisabled(reg, cand) \subseteq {k \in Keys \ cand : reg[k] = "enabled"}
  BY DEF AutoDisabled
<1>2. Reconciled(reg, cand) \in [Keys -> States]
  BY DEF Reconciled, States
<1>3. \A k \in Keys : Reconciled(reg, cand)[k] =
          IF k \in cand /\ reg[k] = "integration" THEN "enabled"
          ELSE IF k \in AutoDisabled(reg, cand) THEN "integration" ELSE reg[k]
  BY DEF Reconciled
<1> QED
  BY <1>1, <1>2, <1>3

LEMMA CandidatesAreProjected ==
    ASSUME NEW proj \in SUBSET Keys, NEW excl
    PROVE  Candidates(proj, excl) \subseteq proj /\ Candidates(proj, excl) \subseteq Keys
BY DEF Candidates

LEMMA StaleTyped ==
    RegistryTypeOK => Stale \in SUBSET (Keys \cup Devices)
BY DEF Stale, RegistryTypeOK

(* A key is stale only if it is no candidate.                                  *)
LEMMA StaleKeys ==
    ASSUME RegistryTypeOK, NEW k \in Keys, k \in Stale
    PROVE  k \notin Candidates(projected, excluded)
BY DEF Stale, RegistryTypeOK

LEMMA RegistryInit == InitRegistry => RegistryInv
<1> SUFFICES ASSUME InitRegistry PROVE RegistryInv
  OBVIOUS
<1>1. audit \in (SUBSET (Keys \cup Devices)) \cup {NoAudit}
  BY DEF InitRegistry
<1>2. RegistryTypeOK
  BY <1>1 DEF InitRegistry, RegistryTypeOK
<1>3. CandidatesEnabled /\ WantedShown
  BY DEF InitRegistry, CandidatesEnabled, WantedShown, Candidates
<1> QED
  BY <1>2, <1>3 DEF RegistryInv

LEMMA RegistryStep == RegistryInv /\ [NextRegistry]_regVars => RegistryInv'
<1> SUFFICES ASSUME RegistryInv, [NextRegistry]_regVars PROVE RegistryInv'
  OBVIOUS
<1> DEFINE cand == Candidates(projected, excluded)
<1>0. /\ RegistryTypeOK /\ CandidatesEnabled /\ WantedShown
      /\ registry \in [Keys -> States] /\ projected \subseteq Keys
  BY DEF RegistryInv, RegistryTypeOK, States
<1>1. CASE TopologyUpdated
  <2>1. /\ present' \in SUBSET Devices
        /\ projected' \in SUBSET {k \in Keys \ Legacy : DeviceOf[k] \in present'}
        /\ registry' = Scanned(registry, projected')
        /\ adding' = adding \cup Missing(registry', projected', excluded, shown)
        /\ due' \in BOOLEAN /\ enabledAgain' = {}
        /\ UNCHANGED <<excluded, shown, audit, seen>>
    BY <1>0, <1>1 DEF TopologyUpdated, cleanup, RegistryTypeOK
  <2>2. /\ registry' \in [Keys -> States]
        /\ \A k \in projected' : registry'[k] # "integration"
        /\ \A k \in Keys : registry[k] = "enabled" => registry'[k] = "enabled"
    BY <1>0, <2>1, ScannedRows
  <2>3. RegistryTypeOK'
    BY <1>0, <2>1, <2>2 DEF RegistryTypeOK, States, Missing
  <2>4. CandidatesEnabled'
    BY <2>2 DEF CandidatesEnabled, Candidates
  <2>5. WantedShown'
    BY <2>1 DEF WantedShown, Candidates, Missing
  <2> QED
    BY <2>3, <2>4, <2>5 DEF RegistryInv
<1>2. CASE Reconcile
  <2>1. /\ due' = FALSE /\ registry' = Reconciled(registry, cand)
        /\ shown' = {k \in shown : registry'[k] = "enabled"}
        /\ UNCHANGED <<present, projected, excluded, adding, audit, seen, enabledAgain>>
    BY <1>2 DEF Reconcile, topology, cleanup
  <2>2. /\ registry' \in [Keys -> States]
        /\ \A k \in cand : registry'[k] = registry[k]
    BY <1>0, <2>1, CandidatesAreProjected, ReconciledRows DEF CandidatesEnabled
  <2>3. RegistryTypeOK'
    BY <1>0, <2>1, <2>2 DEF RegistryTypeOK, States
  <2>4. CandidatesEnabled'
    BY <1>0, <2>1, <2>2 DEF CandidatesEnabled
  <2>5. WantedShown'
    BY <1>0, <2>1, <2>2 DEF WantedShown, RegistryTypeOK
  <2> QED
    BY <2>3, <2>4, <2>5 DEF RegistryInv
<1>3. ASSUME NEW k \in Keys, Register(k) PROVE RegistryInv'
  <2>1. /\ registry' = [registry EXCEPT ![k] = IF @ = "none" THEN "enabled" ELSE @]
        /\ adding' = adding \ {k}
        /\ shown' = IF registry'[k] = "enabled" THEN shown \cup {k} ELSE shown
        /\ UNCHANGED <<present, projected, excluded, due, audit, seen, enabledAgain>>
    BY <1>3 DEF Register, topology, cleanup
  <2>2. registry' \in [Keys -> States]
    BY <1>0, <2>1 DEF States
  <2>3. RegistryTypeOK'
    BY <1>0, <2>1, <2>2 DEF RegistryTypeOK, States
  <2>4. CandidatesEnabled'
    BY <1>0, <2>1 DEF CandidatesEnabled, Candidates
  <2>5. WantedShown'
    BY <1>0, <2>1 DEF WantedShown, Candidates
  <2> QED
    BY <2>3, <2>4, <2>5 DEF RegistryInv
<1>4. ASSUME NEW k \in Keys, UserDisables(k) \/ UserEnables(k) PROVE RegistryInv'
  <2>1. /\ registry' \in [Keys -> States]
        /\ \A j \in Keys \ {k} : registry'[j] = registry[j]
        /\ UNCHANGED <<present, projected, excluded, adding, due, audit, seen>>
        /\ \/ registry'[k] = "user" /\ shown' = shown \ {k} /\ enabledAgain' = enabledAgain
           \/ /\ registry[k] # "enabled" /\ registry'[k] = "enabled" /\ shown' = shown
              /\ enabledAgain' = enabledAgain \cup {k}
    BY <1>0, <1>4 DEF UserDisables, UserEnables, topology, entities, cleanup, States
  <2>2. RegistryTypeOK'
    BY <1>0, <2>1 DEF RegistryTypeOK, States
  <2>3. CandidatesEnabled'
    BY <1>0, <2>1 DEF CandidatesEnabled, Candidates
  <2>4. WantedShown'
    BY <1>0, <2>1 DEF WantedShown, Candidates
  <2> QED
    BY <2>2, <2>3, <2>4 DEF RegistryInv
<1>5. ASSUME NEW d \in Devices, RemoveDevice(d) PROVE RegistryInv'
  <2>1. /\ d \notin present
        /\ registry' = [k \in Keys |-> IF DeviceOf[k] = d THEN "none" ELSE registry[k]]
        /\ shown' = {k \in shown : DeviceOf[k] # d}
        /\ UNCHANGED <<present, projected, excluded, adding, due, audit, seen, enabledAgain>>
    BY <1>5 DEF RemoveDevice, topology, cleanup
  <2>2. \A k \in cand : k \in Keys /\ DeviceOf[k] # d
    BY <1>0, <2>1 DEF Candidates, RegistryTypeOK
  <2>3. RegistryTypeOK'
    BY <1>0, <2>1 DEF RegistryTypeOK, States
  <2>4. CandidatesEnabled'
    BY <1>0, <2>1, <2>2 DEF CandidatesEnabled
  <2>5. WantedShown'
    BY <1>0, <2>1, <2>2 DEF WantedShown
  <2> QED
    BY <2>3, <2>4, <2>5 DEF RegistryInv
<1>6. CASE DryRun
  <2>1. /\ audit' = Stale /\ seen' \in {Stale, seen}
        /\ UNCHANGED <<present, projected, excluded, registry, adding, shown, due, enabledAgain>>
    BY <1>6 DEF DryRun, topology, entities
  <2>2. RegistryTypeOK'
    BY <1>0, <2>1, StaleTyped DEF RegistryTypeOK
  <2> QED
    BY <1>0, <2>1, <2>2 DEF RegistryInv, CandidatesEnabled, WantedShown
<1>7. CASE Confirm
  <2>1. /\ audit' = NoAudit
        /\ registry' = [k \in Keys |-> IF AuditMatches /\ k \in Stale THEN "integration"
                                        ELSE registry[k]]
        /\ shown' = {k \in shown : registry'[k] = "enabled"}
        /\ UNCHANGED <<present, projected, excluded, adding, due, seen, enabledAgain>>
    BY <1>7 DEF Confirm, topology
  <2>2. /\ registry' \in [Keys -> States]
        /\ \A k \in cand : registry'[k] = registry[k]
    BY <1>0, <2>1, CandidatesAreProjected, StaleKeys DEF States
  <2>3. RegistryTypeOK'
    <3>1. audit' \in (SUBSET (Keys \cup Devices)) \cup {NoAudit}
      BY <2>1
    <3> QED
      BY <1>0, <2>1, <2>2, <3>1 DEF RegistryTypeOK, States
  <2>4. CandidatesEnabled'
    BY <1>0, <2>1, <2>2 DEF CandidatesEnabled
  <2>5. WantedShown'
    BY <1>0, <2>1, <2>2 DEF WantedShown, RegistryTypeOK
  <2> QED
    BY <2>3, <2>4, <2>5 DEF RegistryInv
<1>8. CASE ReloadEntry
  <2> DEFINE rec == Reconciled(registry, Candidates(projected, excluded'))
  <2>1. /\ excluded' \in SUBSET Devices /\ registry' = Scanned(rec, projected)
        /\ shown' = {} /\ adding' = Missing(registry', projected, excluded', {})
        /\ audit' = NoAudit /\ enabledAgain' = {}
        /\ UNCHANGED <<present, projected, due, seen>>
    BY <1>8 DEF ReloadEntry
  <2>2. rec \in [Keys -> States]
    BY <1>0, CandidatesAreProjected, ReconciledRows
  <2>3. registry' \in [Keys -> States] /\ \A k \in projected : registry'[k] # "integration"
    BY <1>0, <2>1, <2>2, ScannedRows
  <2>4. RegistryTypeOK'
    <3>1. audit' \in (SUBSET (Keys \cup Devices)) \cup {NoAudit}
      BY <2>1
    <3>2. adding' \subseteq Keys
      BY <1>0, <2>1 DEF Missing
    <3> QED
      BY <1>0, <2>1, <2>3, <3>1, <3>2 DEF RegistryTypeOK, States
  <2>5. CandidatesEnabled'
    BY <2>1, <2>3 DEF CandidatesEnabled, Candidates
  <2>6. WantedShown'
    BY <2>1 DEF WantedShown, Candidates, Missing
  <2> QED
    BY <2>4, <2>5, <2>6 DEF RegistryInv
<1>9. CASE UNCHANGED regVars
  BY <1>0, <1>9 DEF RegistryInv, RegistryTypeOK, CandidatesEnabled, WantedShown, regVars,
                    topology, entities, cleanup
<1> QED
  BY <1>1, <1>2, <1>3, <1>4, <1>5, <1>6, <1>7, <1>8, <1>9 DEF NextRegistry

(* The inductive invariant.                                                    *)
THEOREM RegistryInvariant == SpecRegistry => []RegistryInv
<1> QED
  BY RegistryInit, RegistryStep, PTL DEF SpecRegistry

(* Rows of wanted entities are not left disabled by the integration.           *)
THEOREM CandidatesStayEnabled == SpecRegistry => []CandidatesEnabled
<1>1. RegistryInv => CandidatesEnabled
  BY DEF RegistryInv
<1> QED
  BY <1>1, RegistryInvariant, PTL

(* Wanted entities have a state or are on their way.                           *)
THEOREM WantedStayShown == SpecRegistry => []WantedShown
<1>1. RegistryInv => WantedShown
  BY DEF RegistryInv
<1> QED
  BY <1>1, RegistryInvariant, PTL

(* Wanted entities are enabled, and shown unless the user has disabled them.        *)
THEOREM WantedStayServed == SpecRegistry => []WantedServed
<1>1. RegistryInv => WantedServed
  BY DEF RegistryInv, WantedServed
<1> QED
  BY <1>1, RegistryInvariant, PTL

(* The integration disables a row because something has taken its place, or because *)
(* an administrator who was shown it has agreed.                              *)
THEOREM DisabledAsAgreed == SpecRegistry => DisabledOnlyAsAgreed
<1> DEFINE Agreed ==
        \A k \in Keys :
            registry[k] = "enabled" /\ registry'[k] = "integration" =>
                \/ k \in AutoDisabled(registry, Candidates(projected', excluded'))
                \/ Confirm /\ k \in seen
<1>1. RegistryInv /\ [NextRegistry]_regVars => [Agreed]_regVars
  <2> SUFFICES ASSUME RegistryInv, NextRegistry, NEW k \in Keys, registry[k] = "enabled",
                      registry'[k] = "integration"
               PROVE  \/ k \in AutoDisabled(registry, Candidates(projected', excluded'))
                      \/ Confirm /\ k \in seen
    OBVIOUS
  <2>0. registry \in [Keys -> States] /\ projected \subseteq Keys
    BY DEF RegistryInv, RegistryTypeOK, States
  <2>1. CASE TopologyUpdated
    <3>1. projected' \subseteq Keys /\ registry' = Scanned(registry, projected')
      BY <2>1 DEF TopologyUpdated
    <3> QED
      BY <2>0, <3>1, ScannedRows
  <2>2. CASE Reconcile
    <3>1. /\ registry' = Reconciled(registry, Candidates(projected, excluded))
          /\ projected' = projected /\ excluded' = excluded
      BY <2>2 DEF Reconcile, topology
    <3> QED
      BY <2>0, <3>1, CandidatesAreProjected, ReconciledRows
  <2>3. CASE \E j \in Keys : Register(j) \/ UserDisables(j) \/ UserEnables(j)
    BY <2>0, <2>3 DEF Register, UserDisables, UserEnables
  <2>4. CASE \E d \in Devices : RemoveDevice(d)
    BY <2>0, <2>4 DEF RemoveDevice
  <2>5. CASE DryRun
    BY <2>5 DEF DryRun
  <2>6. CASE Confirm
    BY <2>0, <2>6 DEF Confirm, AuditMatches
  <2>7. CASE ReloadEntry
    <3> DEFINE rec == Reconciled(registry, Candidates(projected, excluded'))
    <3>1. registry' = Scanned(rec, projected) /\ projected' = projected
      BY <2>7 DEF ReloadEntry
    <3>2. /\ rec \in [Keys -> States]
          /\ registry[k] = "enabled" /\ rec[k] = "integration" =>
                k \in AutoDisabled(registry, Candidates(projected, excluded'))
      BY <2>0, CandidatesAreProjected, ReconciledRows
    <3>3. rec[k] = "integration"
      <4> HIDE DEF rec
      <4> QED
        BY <2>0, <3>1, <3>2, ScannedRows
    <3> QED
      BY <3>1, <3>2, <3>3
  <2> QED
    BY <2>1, <2>2, <2>3, <2>4, <2>5, <2>6, <2>7 DEF NextRegistry
<1> QED
  BY <1>1, RegistryInvariant, PTL DEF SpecRegistry, DisabledOnlyAsAgreed

-----------------------------------------------------------------------------
(* ImportFilter *)

(* What the constants are: pages that are dimensions, of which there are finitely many. *)
LEMMA FilterConstants ==
    /\ DOMAIN Wizard = 1 .. Len(Wizard) /\ Len(Wizard) \in Nat \ {0}
    /\ \A j \in 1 .. Len(Wizard) : Wizard[j] \in Range(Wizard)
    /\ Range(Wizard) = {Wizard[j] : j \in 1 .. Len(Wizard)}
    /\ "devices" \in Range(Wizard) /\ "devices" \in Dimensions
    /\ Range(Wizard) \subseteq Dimensions
    /\ \A k \in Range(Wizard) : k \notin Hidden
    /\ IsFiniteSet(Dimensions)
<1>1. Wizard \in Seq(Range(Wizard)) /\ Wizard # <<>>
  BY WizardAssumption
<1>2. DOMAIN Wizard = 1 .. Len(Wizard) /\ Len(Wizard) \in Nat \ {0}
  BY <1>1
<1>3. Range(Wizard) = {Wizard[j] : j \in 1 .. Len(Wizard)}
  BY <1>2 DEF Range
<1>4. IsFiniteSet(1 .. Len(Wizard))
  BY <1>2, FS_Interval
<1>5. IsFiniteSet(Range(Wizard))
  <2> DEFINE f == [j \in 1 .. Len(Wizard) |-> Wizard[j]]
  <2>1. f \in Surjection(1 .. Len(Wizard), Range(Wizard))
    BY <1>3 DEF Surjection
  <2> QED
    BY <2>1, <1>4, FS_Surjection
<1>6. IsFiniteSet(Dimensions)
  BY <1>5, HiddenAssumption, FS_Union DEF Dimensions
<1> QED
  BY <1>2, <1>3, <1>6, WizardAssumption, HiddenAssumption DEF Dimensions

(* Of rules on fewer than two dimensions "and" and "or" say the same.               *)
LEMMA FewDims ==
    ASSUME NEW rules, Cardinality(Dims(rules)) < 2, NEW k \in Dims(rules), NEW j \in Dims(rules)
    PROVE  k = j
<1>1. Dims(rules) \subseteq Dimensions
  BY DEF Dims
<1>2. IsFiniteSet(Dims(rules))
  BY <1>1, FilterConstants, FS_Subset
<1>3. SUFFICES ASSUME k # j PROVE FALSE
  OBVIOUS
<1>4. {k, j} \subseteq Dims(rules)
  OBVIOUS
<1>5. Cardinality({k, j}) <= Cardinality(Dims(rules))
  BY <1>2, <1>4, FS_Subset
<1>6. IsFiniteSet({k}) /\ Cardinality({k}) = 1
  BY FS_Singleton
<1>7. Cardinality({k} \cup {j}) = Cardinality({k}) + 1
  BY <1>3, <1>6, FS_AddElement
<1>8. {k} \cup {j} = {k, j}
  OBVIOUS
<1>9. Cardinality(Dims(rules)) \in Nat
  BY <1>2, FS_CardinalityType
<1> QED
  BY <1>5, <1>6, <1>7, <1>8, <1>9

(* Rules that exclude, of which any must match.                                     *)
LEMMA ExcludesIf ==
    ASSUME NEW d, NEW rules
    PROVE  ~MatchesRules(d, rules, "or") <=>
             \A k \in Dimensions : rules[k] # {} => Match[d][k] \cap rules[k] = {}
BY DEF MatchesRules, Dims

(* ... or all, when there are fewer than two. *)
LEMMA ExcludesIfFew ==
    ASSUME NEW d, NEW rules, NEW mode, mode = "or" \/ Cardinality(Dims(rules)) < 2
    PROVE  ~MatchesRules(d, rules, mode) <=>
             \A k \in Dimensions : rules[k] # {} => Match[d][k] \cap rules[k] = {}
<1>1. CASE mode = "or"
  BY <1>1, ExcludesIf
<1>2. CASE Cardinality(Dims(rules)) < 2
  <2>1. \A k, j \in Dims(rules) : k = j
    BY <1>2, FewDims
  <2> QED
    BY <2>1 DEF MatchesRules, Dims
<1> QED
  BY <1>1, <1>2

(* Rules that include devices only. *)
LEMMA IncludesDevices ==
    ASSUME NEW d \in AllDevices, NEW rules, NEW mode, Dims(rules) = {"devices"}
    PROVE  MatchesRules(d, rules, mode) <=> d \in rules["devices"]
<1>1. Match[d]["devices"] = {d}
  BY DevicesAssumption
<1> QED
  BY <1>1 DEF MatchesRules

LEMMA NoDims == Dims(NoRules) = {}
BY DEF Dims, NoRules

(* What the wizard's filter hides: whatever was offered and is not selected. *)
LEMMA WizardHides ==
    ASSUME NEW d, NEW selected, NEW all
    PROVE  Visible(d, BuildFilter(selected, all)) <=>
             \A k \in Range(Wizard) : Match[d][k] \cap all[k] \subseteq selected[k]
<1> DEFINE out == [k \in Dimensions |-> IF k \in Hidden THEN {} ELSE all[k] \ selected[k]]
           f == BuildFilter(selected, all)
<1>1. /\ f.enabled <=> Dims(NoRules) \cup Dims(out) # {}
      /\ f.include = NoRules /\ f.exclude = out /\ f.mode = "or"
  BY DEF BuildFilter, Canonical, Disabled
<1>2. ~MatchesRules(d, out, "or") <=>
        \A k \in Dimensions : out[k] # {} => Match[d][k] \cap out[k] = {}
  BY ExcludesIf
<1>3. ~MatchesRules(d, out, "or") <=>
        \A k \in Range(Wizard) : Match[d][k] \cap all[k] \subseteq selected[k]
  <2>1. \A k \in Range(Wizard) : k \in Dimensions /\ out[k] = all[k] \ selected[k]
    BY FilterConstants
  <2>2. \A k \in Dimensions : k \in Range(Wizard) \/ out[k] = {}
    BY DEF Dimensions
  <2> HIDE DEF out
  <2> QED
    BY <1>2, <2>1, <2>2
<1>4. Dims(out) = {} => ~MatchesRules(d, out, "or")
  BY DEF MatchesRules
<1> QED
  BY <1>1, <1>3, <1>4, NoDims DEF Visible

(* What the picker's filter hides: whatever is not selected.                        *)
LEMMA PickerHides ==
    ASSUME NEW devices, NEW selected \in SUBSET devices, NEW d \in AllDevices, d \in devices
    PROVE  Visible(d, PickedFilter(selected, devices)) <=> d \in selected
<1>1. CASE selected = devices
  BY <1>1 DEF PickedFilter, Visible, Disabled
<1>2. CASE selected # devices
  <2> DEFINE in == [NoRules EXCEPT !["devices"] = IF selected = {} THEN {NoDevice} ELSE selected]
             f  == PickedFilter(selected, devices)
  <2>1. f.enabled /\ f.include = in /\ f.exclude = NoRules /\ f.mode = "or"
    BY <1>2 DEF PickedFilter, Disabled
  <2>2. in["devices"] # {} /\ (d \in in["devices"] <=> d \in selected)
    BY FilterConstants, DevicesAssumption DEF NoRules
  <2>3. Dims(in) = {"devices"}
    BY <2>2, FilterConstants DEF Dims, NoRules
  <2>4. MatchesRules(d, in, "or") <=> d \in in["devices"]
    BY <2>3, IncludesDevices
  <2>5. ~MatchesRules(d, NoRules, "or")
    BY NoDims DEF MatchesRules
  <2> HIDE DEF in
  <2> QED
    BY <2>1, <2>2, <2>3, <2>4, <2>5 DEF Visible
<1> QED
  BY <1>1, <1>2

(* What the form in use offers of a device, page by page. *)
LEMMA OfferedByPage ==
    ASSUME NEW d
    PROVE  \A kv : kv \in OfferedOf(d) <=>
             \E k \in Range(Wizard) : \E v \in Match[d][k] : v \in offered[k] /\ kv = <<k, v>>
BY DEF OfferedOf

-----------------------------------------------------------------------------
(* The safety properties follow from the state of the forms.                        *)

LEMMA WizardSound ==
    ASSUME FilterTypeOK, WizardInv, formPage = "confirm", form = "wizard"
    PROVE  FilterSound
<1>1. /\ lasting \subseteq offered["devices"]
      /\ unsaved = BuildFilter(chosen, offered)
      /\ \A k \in Range(Wizard) : \A v \in offered[k] :
           <<k, v>> \notin gone =>
              /\ v \in chosen[k] <=> v \in ticked[k]
              /\ asShown => (v \in chosen[k] <=> v \in Selections(filter, offered)[k])
  BY DEF WizardInv, Answered
<1>2. SUFFICES ASSUME NEW d \in lasting, OfferedOf(d) \cap gone = {}
               PROVE  /\ Visible(d, unsaved) <=> \A kv \in OfferedOf(d) : kv[2] \in ticked[kv[1]]
                      /\ asShown /\ Expressible(d) => (Visible(d, unsaved) <=> Visible(d, filter))
  BY DEF FilterSound, FilterAsChosen, UntouchedFormKeepsFilter
<1>3. d \in AllDevices /\ d \in offered["devices"]
  BY <1>1, <1>2 DEF FilterTypeOK
<1>4. \A k \in Range(Wizard) : \A v \in Match[d][k] \cap offered[k] : <<k, v>> \notin gone
  BY <1>2, OfferedByPage
<1>5. Visible(d, unsaved) <=>
        \A k \in Range(Wizard) : Match[d][k] \cap offered[k] \subseteq chosen[k]
  BY <1>1, WizardHides
<1>6. Visible(d, unsaved) <=> \A kv \in OfferedOf(d) : kv[2] \in ticked[kv[1]]
  <2>1. (\A kv \in OfferedOf(d) : kv[2] \in ticked[kv[1]]) <=>
          \A k \in Range(Wizard) : \A v \in Match[d][k] \cap offered[k] : v \in ticked[k]
    <3>1. ASSUME NEW k \in Range(Wizard), NEW v \in Match[d][k] \cap offered[k],
                 \A kv \in OfferedOf(d) : kv[2] \in ticked[kv[1]]
          PROVE  v \in ticked[k]
      <4>1. <<k, v>> \in OfferedOf(d)
        BY OfferedByPage
      <4> QED
        BY <3>1, <4>1
    <3>2. ASSUME \A k \in Range(Wizard) : \A v \in Match[d][k] \cap offered[k] : v \in ticked[k],
                 NEW kv \in OfferedOf(d)
          PROVE  kv[2] \in ticked[kv[1]]
      <4>1. PICK k \in Range(Wizard) : \E v \in Match[d][k] : v \in offered[k] /\ kv = <<k, v>>
        BY OfferedByPage
      <4> QED
        BY <3>2, <4>1
    <3> QED
      BY <3>1, <3>2
  <2> QED
    BY <1>1, <1>4, <1>5, <2>1
<1>7. ASSUME asShown, Expressible(d)
      PROVE  Visible(d, unsaved) <=> Visible(d, filter)
  <2> DEFINE inc == filter.include["devices"]
  <2>1. Visible(d, unsaved) <=>
          \A k \in Range(Wizard) : Match[d][k] \cap offered[k] \subseteq Selections(filter, offered)[k]
    BY <1>1, <1>4, <1>5, <1>7
  <2>2. CASE ~filter.enabled
    BY <2>1, <2>2 DEF Selections, Visible
  <2>3. CASE filter.enabled
    <3>1. /\ Dims(filter.include) \subseteq {"devices"} /\ Dims(filter.exclude) \cap Hidden = {}
          /\ filter.mode = "or" \/ Cardinality(Dims(filter.exclude)) < 2
          /\ filter.include["devices"] = {} \/ filter.exclude["devices"] = {}
          /\ \A k \in Range(Wizard) : Match[d][k] \cap filter.exclude[k] \subseteq offered[k]
      BY <1>7, <2>3 DEF Expressible
    <3>2. ~MatchesRules(d, filter.exclude, filter.mode) <=>
            \A k \in Dimensions : filter.exclude[k] # {} => Match[d][k] \cap filter.exclude[k] = {}
      BY <3>1, ExcludesIfFew
    <3>3. ~MatchesRules(d, filter.exclude, filter.mode) <=>
            \A k \in Range(Wizard) : Match[d][k] \cap filter.exclude[k] = {}
      <4>1. \A k \in Dimensions : k \in Range(Wizard) \/ filter.exclude[k] = {}
        BY <3>1 DEF Dims, Dimensions
      <4> QED
        BY <3>2, <4>1, FilterConstants
    <3>4. \A k \in Range(Wizard) : k # "devices" => filter.include[k] = {}
      BY <3>1, FilterConstants DEF Dims
    <3>5. \A k \in Range(Wizard) : filter.include[k] = {} =>
            (Match[d][k] \cap offered[k] \subseteq Selections(filter, offered)[k]
               <=> Match[d][k] \cap filter.exclude[k] = {})
      BY <2>3, <3>1 DEF Selections
    <3>6. CASE filter.include["devices"] = {}
      <4>1. Dims(filter.include) = {}
        BY <3>1, <3>6 DEF Dims
      <4> QED
        BY <2>1, <2>3, <3>3, <3>4, <3>5, <3>6, <4>1 DEF Visible
    <3>7. CASE filter.include["devices"] # {}
      <4>1. Dims(filter.include) = {"devices"}
        BY <3>1, <3>7, FilterConstants DEF Dims
      <4>2. MatchesRules(d, filter.include, filter.mode) <=> d \in filter.include["devices"]
        BY <1>3, <4>1, IncludesDevices
      <4>3. Match[d]["devices"] = {d}
        BY <1>3, DevicesAssumption
      <4>4. Match[d]["devices"] \cap offered["devices"]
                \subseteq Selections(filter, offered)["devices"]
              <=> d \in filter.include["devices"]
        BY <1>3, <2>3, <3>7, <4>3, FilterConstants DEF Selections
      <4>5. Match[d]["devices"] \cap filter.exclude["devices"] = {}
        BY <3>1, <3>7
      <4> QED
        BY <2>1, <2>3, <3>3, <3>4, <3>5, <4>1, <4>2, <4>4, <4>5, FilterConstants DEF Visible
    <3> QED
      BY <3>6, <3>7
  <2> QED
    BY <2>2, <2>3
<1> QED
  BY <1>6, <1>7

LEMMA PickerSound ==
    ASSUME FilterTypeOK, PickerInv, formPage = "confirm", form = "picker"
    PROVE  FilterSound
<1>1. /\ offered = [NoTicks EXCEPT !["devices"] = offered["devices"]]
      /\ ticked["devices"] \subseteq offered["devices"]
      /\ unsaved = PickedFilter(ticked["devices"], offered["devices"])
      /\ asShown => ticked["devices"] = Picked(filter, offered["devices"])
  BY DEF PickerInv
<1>2. SUFFICES ASSUME NEW d \in lasting
               PROVE  /\ OfferedOf(d) # {} =>
                           (Visible(d, unsaved) <=> \A kv \in OfferedOf(d) : kv[2] \in ticked[kv[1]])
                      /\ asShown /\ Expressible(d) => (Visible(d, unsaved) <=> Visible(d, filter))
  BY DEF FilterSound, FilterAsChosen, UntouchedFormKeepsFilter
<1>3. d \in AllDevices /\ Match[d]["devices"] = {d}
  BY <1>2, DevicesAssumption DEF FilterTypeOK
<1>4. d \in offered["devices"] => (Visible(d, unsaved) <=> d \in ticked["devices"])
  BY <1>1, <1>3, PickerHides
<1>5. \A kv : kv \in OfferedOf(d) <=> d \in offered["devices"] /\ kv = <<"devices", d>>
  <2>1. \A k \in Range(Wizard) : k # "devices" => offered[k] = {}
    BY <1>1 DEF NoTicks
  <2>2. ASSUME NEW kv \in OfferedOf(d)
        PROVE  d \in offered["devices"] /\ kv = <<"devices", d>>
    <3>1. PICK k \in Range(Wizard) : \E v \in Match[d][k] : v \in offered[k] /\ kv = <<k, v>>
      BY OfferedByPage
    <3>2. k = "devices"
      BY <2>1, <3>1
    <3> QED
      BY <1>3, <3>1, <3>2
  <2>3. d \in offered["devices"] => <<"devices", d>> \in OfferedOf(d)
    BY <1>3, OfferedByPage, FilterConstants
  <2> QED
    BY <2>2, <2>3
<1>6. OfferedOf(d) # {} =>
        (Visible(d, unsaved) <=> \A kv \in OfferedOf(d) : kv[2] \in ticked[kv[1]])
  <2>1. SUFFICES ASSUME NEW kv \in OfferedOf(d)
                 PROVE  Visible(d, unsaved) <=> \A x \in OfferedOf(d) : x[2] \in ticked[x[1]]
    OBVIOUS
  <2>2. d \in offered["devices"] /\ <<"devices", d>> \in OfferedOf(d)
    BY <1>5, <2>1
  <2>3. (\A x \in OfferedOf(d) : x[2] \in ticked[x[1]]) <=> d \in ticked["devices"]
    BY <1>5, <2>2
  <2> QED
    BY <1>4, <2>2, <2>3
<1>7. ASSUME asShown, Expressible(d)
      PROVE  Visible(d, unsaved) <=> Visible(d, filter)
  <2>1. /\ d \in offered["devices"]
        /\ Dims(filter.include) \subseteq {"devices"} /\ Dims(filter.exclude) = {}
        /\ filter.include["devices"] # {} => filter.enabled
        /\ filter.enabled => filter.include["devices"] \cap offered["devices"] # {}
    BY <1>7 DEF Expressible
  <2>2. ticked["devices"] = Picked(filter, offered["devices"])
    BY <1>1, <1>7
  <2>3. ~MatchesRules(d, filter.exclude, filter.mode)
    BY <2>1 DEF MatchesRules
  <2>4. CASE ~filter.enabled
    BY <1>4, <2>1, <2>2, <2>4 DEF Picked, Visible
  <2>5. CASE filter.enabled
    <3>1. Dims(filter.include) = {"devices"}
      BY <2>1, <2>5, FilterConstants DEF Dims
    <3>2. MatchesRules(d, filter.include, filter.mode) <=> d \in filter.include["devices"]
      BY <1>3, <3>1, IncludesDevices
    <3>3. d \in ticked["devices"] <=> d \in filter.include["devices"]
      BY <2>1, <2>2, <2>5 DEF Picked
    <3> QED
      BY <1>4, <2>1, <2>3, <2>5, <3>1, <3>2, <3>3 DEF Visible
  <2> QED
    BY <2>4, <2>5
<1> QED
  BY <1>6, <1>7

LEMMA FormsSound == FilterTypeOK /\ WizardInv /\ PickerInv => FilterSound
<1>1. FilterTypeOK /\ formPage # "confirm" => FilterSound
  BY DEF FilterSound, FilterAsChosen, UntouchedFormKeepsFilter
<1> QED
  BY <1>1, WizardSound, PickerSound DEF FilterTypeOK

-----------------------------------------------------------------------------
(* Each action keeps the state of the forms.                                        *)

LEMMA MadeFilters ==
    /\ IsFilter(Disabled)
    /\ \A selected, all : IsFilter(BuildFilter(selected, all))
    /\ \A selected, devices : IsFilter(PickedFilter(selected, devices))
<1>1. IsFilter(Disabled)
  BY DEF IsFilter, IsOn, Disabled, NoRules
<1>2. ASSUME NEW selected, NEW all PROVE IsFilter(BuildFilter(selected, all))
  <2> DEFINE out == [k \in Dimensions |-> IF k \in Hidden THEN {} ELSE all[k] \ selected[k]]
             f   == [enabled |-> TRUE, mode |-> "or", include |-> NoRules, exclude |-> out]
  <2>1. BuildFilter(selected, all) = Canonical(f)
    BY DEF BuildFilter
  <2>2. IsOn(out, Dimensions) /\ IsOn(NoRules, Dimensions)
    BY DEF IsOn, NoRules
  <2> HIDE DEF out
  <2>3. IsFilter(f)
    BY <2>2 DEF IsFilter
  <2> HIDE DEF f
  <2>4. Canonical(f).enabled \in BOOLEAN
    BY Zenon, <2>3 DEF Canonical, IsFilter
  <2> QED
    BY <2>1, <2>3, <2>4 DEF IsFilter, Canonical
<1>3. ASSUME NEW selected, NEW devices PROVE IsFilter(PickedFilter(selected, devices))
  <2> DEFINE in == [NoRules EXCEPT !["devices"] = IF selected = {} THEN {NoDevice} ELSE selected]
  <2>1. CASE selected = devices
    BY <1>1, <2>1 DEF PickedFilter
  <2>2. CASE selected # devices
    <3>1. PickedFilter(selected, devices) =
            [enabled |-> TRUE, mode |-> "or", include |-> in, exclude |-> NoRules]
      BY <2>2 DEF PickedFilter, Disabled
    <3>2. IsOn(in, Dimensions) /\ IsOn(NoRules, Dimensions)
      BY DEF IsOn, NoRules
    <3> HIDE DEF in
    <3> QED
      BY <3>1, <3>2 DEF IsFilter
  <2> QED
    BY <2>1, <2>2
<1> QED
  BY <1>1, <1>2, <1>3

LEMMA InitFilterState == InitFilter => FilterTypeOK /\ WizardInv /\ PickerInv
<1> SUFFICES ASSUME InitFilter PROVE FilterTypeOK /\ WizardInv /\ PickerInv
  OBVIOUS
<1>1. IsFilter(filter)
  <2> DEFINE Made(on, m, i, e) ==
               IsOn(i, Dimensions) /\ IsOn(e, Dimensions)
               /\ filter = Canonical([enabled |-> on, mode |-> m, include |-> i, exclude |-> e])
  <2>1. IsOn(NoRules, Dimensions)
    BY DEF IsOn, NoRules
  <2>2. \A S : \A r \in [Dimensions -> S] : IsOn(r, Dimensions)
    BY DEF IsOn
  <2>3. \E on \in BOOLEAN : \E m \in {"or", "and"} : \E i, e : Made(on, m, i, e)
    BY <2>1, <2>2 DEF InitFilter
  <2>4. PICK on \in BOOLEAN : \E m \in {"or", "and"} : \E i, e : Made(on, m, i, e)
    BY <2>3
  <2>5. PICK m \in {"or", "and"} : \E i, e : Made(on, m, i, e)
    BY <2>4
  <2>6. PICK i, e : Made(on, m, i, e)
    BY <2>5
  <2> QED
    BY <2>6 DEF IsFilter, Canonical
<1>2. IsFilter(unsaved)
  BY MadeFilters DEF InitFilter
<1>3. /\ listed \subseteq AllDevices /\ lasting = {} /\ formPage = "closed" /\ at = 1
      /\ form = "wizard" /\ offered = NoTicks /\ chosen = NoTicks /\ ticked = NoTicks
      /\ asShown = TRUE
  BY DEF InitFilter
<1>4. IsOn(NoTicks, Range(Wizard)) /\ 1 \in 1 .. Len(Wizard)
  BY FilterConstants DEF IsOn, NoTicks
<1>5. FilterTypeOK
  BY <1>1, <1>2, <1>3, <1>4 DEF FilterTypeOK
<1> QED
  BY <1>3, <1>5 DEF WizardInv, PickerInv

LEMMA DevicesChangeKeeps ==
    ASSUME FilterTypeOK, WizardInv, PickerInv, DevicesChange
    PROVE  FilterTypeOK' /\ WizardInv' /\ PickerInv'
<1>1. listed' \subseteq AllDevices /\ lasting' \subseteq listed' /\ lasting' \subseteq lasting
  BY DEF DevicesChange
<1>2. UNCHANGED <<filter, flow, ticked, gone, asShown, blind>>
  BY DEF DevicesChange
<1>3. FilterTypeOK'
  BY <1>1, <1>2 DEF FilterTypeOK, flow
<1>4. WizardInv'
  BY <1>1, <1>2 DEF WizardInv, Answered, flow
<1>5. PickerInv'
  BY <1>2 DEF PickerInv, flow
<1> QED
  BY <1>3, <1>4, <1>5

LEMMA OpenWizardKeeps ==
    ASSUME FilterTypeOK, WizardInv, PickerInv, OpenWizard
    PROVE  FilterTypeOK' /\ WizardInv' /\ PickerInv'
<1>1. /\ formPage' = "wizard" /\ form' = "wizard" /\ at' = 1
      /\ offered' = [k \in Range(Wizard) |-> DimensionChoices(listed, k)]
      /\ chosen' = Selections(filter, offered')
      /\ lasting' = listed
      /\ UNCHANGED <<listed, filter, unsaved, ticked, gone, asShown, blind>>
  BY DEF OpenWizard
<1>2. listed \subseteq DimensionChoices(listed, "devices")
  BY OfferAssumption DEF FilterTypeOK
<1>3. IsOn(offered', Range(Wizard)) /\ IsOn(chosen', Range(Wizard))
  BY <1>1 DEF IsOn, Selections
<1>4. FilterTypeOK'
  BY <1>1, <1>3, FilterConstants DEF FilterTypeOK
<1>5. Answered' = {}
  BY <1>1 DEF Answered
<1>6. WizardInv'
  BY <1>1, <1>2, <1>5, FilterConstants DEF WizardInv
<1> QED
  BY <1>1, <1>4, <1>6 DEF PickerInv

LEMMA SubmitPageKeeps ==
    ASSUME FilterTypeOK, WizardInv, PickerInv, SubmitPage
    PROVE  FilterTypeOK' /\ WizardInv' /\ PickerInv'
<1> DEFINE k == Wizard[at]
<1>1. formPage = "wizard" /\ form = "wizard"
  BY DEF SubmitPage, WizardInv
<1>2. PICK selection \in SUBSET options :
        /\ chosen' = [chosen EXCEPT ![k] = selection \cap DimensionChoices(listed, k)]
        /\ ticked' = [ticked EXCEPT ![k] = selection]
        /\ gone' = gone \cup ({k} \X (offered[k] \ (options \cap DimensionChoices(listed, k))))
        /\ asShown' = (asShown /\ selection = chosen[k])
  BY DEF SubmitPage
<1>3. UNCHANGED <<listed, filter, form, offered, lasting, blind>>
  BY DEF SubmitPage
<1>4. /\ at < Len(Wizard) => at' = at + 1 /\ UNCHANGED <<formPage, unsaved>>
      /\ ~(at < Len(Wizard)) =>
           formPage' = "confirm" /\ unsaved' = BuildFilter(chosen', offered) /\ at' = at
  BY DEF SubmitPage
<1>5. k \in Range(Wizard) /\ at \in 1 .. Len(Wizard)
  BY FilterConstants DEF FilterTypeOK
<1>6. IsOn(chosen', Range(Wizard)) /\ IsOn(ticked', Range(Wizard))
  BY <1>2 DEF FilterTypeOK, IsOn
<1>7. FilterTypeOK'
  <2>1. IsFilter(unsaved)' /\ formPage' \in {"wizard", "confirm"}
    BY <1>1, <1>4, MadeFilters DEF FilterTypeOK
  <2>2. at' \in 1 .. Len(Wizard)
    <3>1. CASE at < Len(Wizard)
      BY <1>4, <1>5, <3>1, FilterConstants
    <3>2. CASE ~(at < Len(Wizard))
      BY <1>4, <1>5, <3>2
    <3> QED
      BY <3>1, <3>2
  <2>3. asShown' \in BOOLEAN
    BY <1>2
  <2> QED
    BY <1>3, <1>6, <2>1, <2>2, <2>3 DEF FilterTypeOK
<1>8. Answered' \subseteq Answered \cup {k}
  <2>1. CASE at < Len(Wizard)
    <3>1. Answered = {Wizard[j] : j \in 1 .. at - 1} /\ Answered' = {Wizard[j] : j \in 1 .. at' - 1}
      BY <1>1, <1>4, <2>1 DEF Answered
    <3>2. \A j \in 1 .. at' - 1 : j \in 1 .. at - 1 \/ j = at
      BY <1>4, <1>5, <2>1, FilterConstants
    <3> QED
      BY <3>1, <3>2
  <2>2. CASE ~(at < Len(Wizard))
    <3>1. Answered = {Wizard[j] : j \in 1 .. at - 1} /\ Answered' = Range(Wizard)
      BY <1>1, <1>4, <2>2 DEF Answered
    <3>2. \A j \in 1 .. Len(Wizard) : j \in 1 .. at - 1 \/ j = at
      BY <1>5, <2>2, FilterConstants
    <3> QED
      BY <3>1, <3>2, FilterConstants
  <2> QED
    BY <2>1, <2>2
<1>9. ASSUME NEW i \in Range(Wizard), NEW v \in offered[i], <<i, v>> \notin gone'
      PROVE  /\ i \in Answered' => (v \in chosen'[i] <=> v \in ticked'[i])
             /\ asShown' => (v \in chosen'[i] <=> v \in Selections(filter, offered)[i])
  <2>1. /\ i \in Answered => (v \in chosen[i] <=> v \in ticked[i])
        /\ asShown => (v \in chosen[i] <=> v \in Selections(filter, offered)[i])
    BY <1>1, <1>2, <1>9 DEF WizardInv
  <2>2. CASE i = k
    <3>1. v \in DimensionChoices(listed, k)
      BY <1>2, <1>9, <2>2
    <3>2. chosen'[k] = selection \cap DimensionChoices(listed, k) /\ ticked'[k] = selection
      BY <1>2, <1>5 DEF FilterTypeOK, IsOn
    <3> QED
      BY <1>2, <2>1, <2>2, <3>1, <3>2
  <2>3. CASE i # k
    <3>1. chosen'[i] = chosen[i] /\ ticked'[i] = ticked[i]
      BY <1>2, <1>9, <2>3 DEF FilterTypeOK, IsOn
    <3> QED
      BY <1>2, <1>8, <2>1, <2>3, <3>1
  <2> QED
    BY <2>2, <2>3
<1>10. lasting' \subseteq offered'["devices"] /\ form' = "wizard"
  BY <1>1, <1>3 DEF WizardInv
<1>11. formPage' = "confirm" => unsaved' = BuildFilter(chosen', offered')
  BY <1>1, <1>3, <1>4
<1>12. WizardInv'
  BY <1>3, <1>9, <1>10, <1>11 DEF WizardInv
<1>13. PickerInv'
  BY <1>1, <1>3, <1>4 DEF PickerInv
<1> QED
  BY <1>7, <1>12, <1>13

LEMMA OpenPickerKeeps ==
    ASSUME FilterTypeOK, WizardInv, PickerInv, OpenPicker
    PROVE  FilterTypeOK' /\ WizardInv' /\ PickerInv'
<1>1. /\ formPage = "closed" /\ formPage' = "picker" /\ form' = "picker"
      /\ chosen' = [chosen EXCEPT !["devices"] = Picked(filter, options')]
      /\ lasting' = listed
      /\ UNCHANGED <<listed, filter, at, offered, unsaved, ticked, gone, asShown>>
  BY DEF OpenPicker
<1>2. IsOn(chosen', Range(Wizard)) /\ chosen'["devices"] = Picked(filter, options')
  BY <1>1, FilterConstants DEF FilterTypeOK, IsOn
<1>3. FilterTypeOK'
  BY <1>1, <1>2 DEF FilterTypeOK
<1> QED
  BY <1>1, <1>2, <1>3 DEF WizardInv, PickerInv

LEMMA SubmitPickerKeeps ==
    ASSUME FilterTypeOK, WizardInv, PickerInv, SubmitPicker
    PROVE  FilterTypeOK' /\ WizardInv' /\ PickerInv'
<1>1. /\ form = "picker" /\ offered = NoTicks /\ chosen["devices"] = Picked(filter, options)
  BY DEF SubmitPicker, PickerInv
<1>2. PICK selection \in SUBSET options :
        /\ ticked' = [ticked EXCEPT !["devices"] = selection]
        /\ asShown' = (selection = chosen["devices"])
        /\ unsaved' = PickedFilter(selection, options)
  BY DEF SubmitPicker
<1>3. /\ formPage' = "confirm" /\ offered' = [offered EXCEPT !["devices"] = options]
      /\ UNCHANGED <<listed, filter, at, form, chosen, lasting, gone, blind>>
  BY DEF SubmitPicker
<1>4. /\ IsOn(ticked', Range(Wizard)) /\ ticked'["devices"] = selection
      /\ IsOn(offered', Range(Wizard)) /\ offered'["devices"] = options
  BY <1>2, <1>3, FilterConstants DEF FilterTypeOK, IsOn
<1>5. FilterTypeOK'
  BY <1>2, <1>3, <1>4, MadeFilters DEF FilterTypeOK
<1>6. PickerInv'
  BY <1>1, <1>2, <1>3, <1>4 DEF PickerInv
<1> QED
  BY <1>1, <1>3, <1>5, <1>6 DEF WizardInv

LEMMA CloseFormKeeps ==
    ASSUME FilterTypeOK, CloseForm, filter' = filter \/ filter' = unsaved
    PROVE  FilterTypeOK' /\ WizardInv' /\ PickerInv'
<1>1. /\ formPage' = "closed" /\ at' = 1 /\ form' = "wizard"
      /\ offered' = NoTicks /\ chosen' = NoTicks /\ unsaved' = Disabled
      /\ lasting' = {} /\ ticked' = NoTicks /\ asShown' = TRUE /\ listed' = listed
  BY DEF CloseForm
<1>2. IsFilter(filter)' /\ IsFilter(unsaved)'
  BY <1>1, MadeFilters DEF FilterTypeOK
<1>3. IsOn(NoTicks, Range(Wizard)) /\ 1 \in 1 .. Len(Wizard)
  BY FilterConstants DEF IsOn, NoTicks
<1>4. FilterTypeOK'
  BY <1>1, <1>2, <1>3 DEF FilterTypeOK
<1> QED
  BY <1>1, <1>4 DEF WizardInv, PickerInv

(* The inductive invariant, for any devices, dimensions and rules. *)
THEOREM FilterInvariant == SpecFilter => []FilterInv
<1> DEFINE I == FilterTypeOK /\ WizardInv /\ PickerInv
<1>1. InitFilter => I
  BY InitFilterState
<1>2. I /\ [NextFilter]_filterVars => I'
  <2> SUFFICES ASSUME I, [NextFilter]_filterVars PROVE I'
    OBVIOUS
  <2>1. CASE DevicesChange
    BY <2>1, DevicesChangeKeeps
  <2>2. CASE OpenWizard
    BY <2>2, OpenWizardKeeps
  <2>3. CASE SubmitPage
    BY <2>3, SubmitPageKeeps
  <2>4. CASE OpenPicker
    BY <2>4, OpenPickerKeeps
  <2>5. CASE SubmitPicker
    BY <2>5, SubmitPickerKeeps
  <2>6. CASE ConfirmFilter
    BY <2>6, CloseFormKeeps DEF ConfirmFilter
  <2>7. CASE AbandonForm
    BY <2>7, CloseFormKeeps DEF AbandonForm
  <2>8. CASE UNCHANGED filterVars
    BY <2>8 DEF filterVars, flow, filterPast, FilterTypeOK, WizardInv, PickerInv, Answered
  <2> QED
    BY <2>1, <2>2, <2>3, <2>4, <2>5, <2>6, <2>7, <2>8 DEF NextFilter
<1>3. I => FilterInv
  BY FormsSound DEF FilterInv
<1> QED
  BY <1>1, <1>2, <1>3, PTL DEF SpecFilter

(* What a form stores is what the user chose in it, or left as it was: for any      *)
(* devices that come and go while it is open, and any filter stored before.         *)
THEOREM FilterSoundAlways == SpecFilter => []FilterSound
<1>1. FilterInv => FilterSound
  BY DEF FilterInv
<1> QED
  BY <1>1, FilterInvariant, PTL

-----------------------------------------------------------------------------
(* EntityControls: Home Assistant's scales and the devices' own, and back.      *)

(* Python's integer division. *)
LEMMA Division ==
    ASSUME NEW n \in Int, NEW d \in Nat \ {0}
    PROVE  /\ n \div d \in Int /\ n % d \in 0 .. d - 1
           /\ n = d * (n \div d) + (n % d)
  BY Z3

(* A rounded quotient is within half of the divisor.                         *)
LEMMA RoundedNear ==
    ASSUME NEW n \in Int, NEW d \in Nat \ {0}
    PROVE  /\ Rounded(n, d) \in Int
           /\ 2 * n - d <= 2 * (d * Rounded(n, d)) /\ 2 * (d * Rounded(n, d)) <= 2 * n + d
<1> DEFINE q == n \div d
           r == n % d
<1>1. q \in Int /\ r \in 0 .. d - 1 /\ n = d * q + r
  BY Division
<1>2. \/ Rounded(n, d) = q /\ 2 * r <= d
      \/ Rounded(n, d) = q + 1 /\ 2 * r >= d
  BY <1>1 DEF Rounded
<1>3. q % 2 \in 0 .. 1
  BY <1>1, Division
<1> HIDE DEF q, r
<1>4. CASE Rounded(n, d) = q /\ 2 * r <= d
  BY <1>1, <1>4
<1>5. CASE Rounded(n, d) = q + 1 /\ 2 * r >= d
  <2>1. d * (q + 1) = d * q + d
    BY <1>1
  <2> QED
    BY <1>1, <1>5, <2>1
<1> QED
  BY <1>2, <1>4, <1>5

(* So it is on the scales of percentages, degrees and brightness. *)
LEMMA RoundedScales ==
    ASSUME NEW n \in Int
    PROVE  /\ Rounded(n, 100) \in Int
           /\ 2 * n - 100 <= 200 * Rounded(n, 100) /\ 200 * Rounded(n, 100) <= 2 * n + 100
           /\ Rounded(n, 180) \in Int
           /\ 2 * n - 180 <= 360 * Rounded(n, 180) /\ 360 * Rounded(n, 180) <= 2 * n + 180
           /\ Rounded(n, 255) \in Int
           /\ 2 * n - 255 <= 510 * Rounded(n, 255) /\ 510 * Rounded(n, 255) <= 2 * n + 255
<1>1. /\ Rounded(n, 100) \in Int
      /\ 2 * n - 100 <= 2 * (100 * Rounded(n, 100))
      /\ 2 * (100 * Rounded(n, 100)) <= 2 * n + 100
  BY RoundedNear
<1>2. /\ Rounded(n, 180) \in Int
      /\ 2 * n - 180 <= 2 * (180 * Rounded(n, 180))
      /\ 2 * (180 * Rounded(n, 180)) <= 2 * n + 180
  BY RoundedNear
<1>3. /\ Rounded(n, 255) \in Int
      /\ 2 * n - 255 <= 2 * (255 * Rounded(n, 255))
      /\ 2 * (255 * Rounded(n, 255)) <= 2 * n + 255
  BY RoundedNear
<1> QED
  BY <1>1, <1>2, <1>3

(* What is within half of a step rounds to it. *)
LEMMA RoundedTo ==
    ASSUME NEW n \in Int, NEW x \in Int, n - 255 * x \in -127 .. 127
    PROVE  Rounded(n, 255) = x
<1>1. /\ Rounded(n, 255) \in Int
      /\ 2 * n - 255 <= 510 * Rounded(n, 255) /\ 510 * Rounded(n, 255) <= 2 * n + 255
  BY RoundedScales
<1> QED
  BY <1>1

(* A level comes back from Home Assistant's 0 to 255 as it was.                 *)
LEMMA LevelReturns ==
    ASSUME NEW u, LightUnit(u), NEW s, "l" \in DOMAIN s, s["l"] \in u.lo .. u.hi, s["p"]
    PROVE  /\ DeviceBrightness(u, s) \in Int
           /\ BrightnessSent(u, DeviceBrightness(u, s)) = s["l"]
<1> DEFINE lo == u.lo
           d == u.hi - lo
           x == s["l"]
           y == x - lo
           part == Rounded(255 * y, d)
           p == d * part
           b == DeviceBrightness(u, s)
<1>1. d \in 1 .. 127 /\ y \in 0 .. d /\ lo \in Nat /\ x = lo + y
  BY DEF LightUnit
<1>2. b = AtLeast(1, part)
  BY <1>1 DEF DeviceBrightness, Clamp, LightUnit
<1>3. BrightnessSent(u, b) = Rounded(255 * lo + b * d, 255)
  BY DEF BrightnessSent
<1> HIDE DEF lo, d, x, y, part, b
<1>4. /\ part \in Int /\ p \in Int
      /\ 2 * (255 * y) - d <= 2 * p /\ 2 * p <= 2 * (255 * y) + d
  <2>1. 255 * y \in Int /\ d \in Nat \ {0}
    BY <1>1
  <2>2. /\ part \in Int
        /\ 2 * (255 * y) - d <= 2 * (d * part) /\ 2 * (d * part) <= 2 * (255 * y) + d
    BY <2>1, RoundedNear DEF part
  <2> QED
    BY <2>1, <2>2
<1>5. CASE part >= 1
  <2>1. b = part /\ b * d = p
    BY <1>1, <1>2, <1>4, <1>5 DEF AtLeast
  <2> HIDE DEF p
  <2>2. 255 * lo + p \in Int /\ (255 * lo + p) - 255 * x \in -127 .. 127 /\ x \in Int
    BY <1>1, <1>4
  <2>3. Rounded(255 * lo + p, 255) = x
    BY <2>2, RoundedTo
  <2> QED
    BY <1>3, <1>4, <2>1, <2>3 DEF b, x
<1>6. CASE part < 1
  <2>1. p <= 0
    BY <1>1, <1>4, <1>6
  <2> HIDE DEF p
  <2>2. y = 0
    BY <1>1, <1>4, <2>1
  <2>3. b = 1 /\ b * d = d
    BY <1>1, <1>2, <1>4, <1>6 DEF AtLeast
  <2>4. 255 * lo + d \in Int /\ (255 * lo + d) - 255 * x \in -127 .. 127 /\ x \in Int
    BY <1>1, <2>2
  <2>5. Rounded(255 * lo + d, 255) = x
    BY <2>4, RoundedTo
  <2> QED
    BY <1>3, <2>3, <2>5 DEF b, x
<1> QED
  BY <1>4, <1>5, <1>6

(* A percentage comes back from 0 to 255 as it was. *)
LEMMA PercentReturns ==
    ASSUME NEW x \in 0 .. 100
    PROVE  /\ Rounded(255 * x, 100) \in Int
           /\ Rounded(100 * Rounded(255 * x, 100), 255) = x
<1> DEFINE b == Rounded(255 * x, 100)
<1>1. b \in Int /\ 510 * x - 100 <= 200 * b /\ 200 * b <= 510 * x + 100
  BY RoundedScales
<1> HIDE DEF b
<1>2. /\ Rounded(100 * b, 255) \in Int
      /\ 200 * b - 255 <= 510 * Rounded(100 * b, 255)
      /\ 510 * Rounded(100 * b, 255) <= 200 * b + 255
  BY <1>1, RoundedScales
<1>3. Rounded(100 * b, 255) = x
  BY <1>1, <1>2
<1> QED
  BY <1>1, <1>3 DEF b

(* A tilt comes back to a degree, and is shown as it was.                       *)
LEMMA TiltReturns ==
    ASSUME NEW a \in 0 .. 180
    PROVE  /\ TiltShown(a) \in 0 .. 100
           /\ TiltSent(TiltShown(a)) \in 0 .. 180
           /\ Near(TiltSent(TiltShown(a)), a, 1)
           /\ TiltShown(TiltSent(TiltShown(a))) = TiltShown(a)
<1> DEFINE t == TiltShown(a)
           b == TiltSent(t)
<1>1. /\ t \in 0 .. 100
      /\ 200 * a - 180 <= 360 * t /\ 360 * t <= 200 * a + 180
  <2>1. t = Rounded(100 * a, 180)
    BY DEF TiltShown, Clamp
  <2>2. 100 * a \in Int
    OBVIOUS
  <2> HIDE DEF t
  <2>3. /\ t \in Int
        /\ 200 * a - 180 <= 360 * t /\ 360 * t <= 200 * a + 180
    BY <2>1, <2>2, RoundedScales
  <2> QED
    BY <2>3
<1> HIDE DEF t
<1>2. /\ b \in 0 .. 180
      /\ 360 * t - 100 <= 200 * b /\ 200 * b <= 360 * t + 100
  <2>1. b = Rounded(180 * t, 100)
    BY <1>1 DEF TiltSent, Clamp
  <2>2. 180 * t \in Int
    BY <1>1
  <2> HIDE DEF b
  <2>3. /\ b \in Int
        /\ 360 * t - 100 <= 200 * b /\ 200 * b <= 360 * t + 100
    BY <1>1, <2>1, <2>2, RoundedScales
  <2> QED
    BY <1>1, <2>3
<1> HIDE DEF b
<1>3. TiltShown(b) = t
  <2>1. TiltShown(b) = Rounded(100 * b, 180)
    BY <1>2 DEF TiltShown, Clamp
  <2>2. 100 * b \in Int
    BY <1>2
  <2>3. /\ TiltShown(b) \in Int
        /\ 200 * b - 180 <= 360 * TiltShown(b)
        /\ 360 * TiltShown(b) <= 200 * b + 180
    BY <1>2, <2>1, <2>2, RoundedScales
  <2> QED
    BY <1>1, <1>2, <2>3
<1>4. Near(b, a, 1)
  BY <1>1, <1>2 DEF Near
<1> QED
  BY <1>1, <1>2, <1>3, <1>4 DEF t, b

(* Angles that are shown the same are a degree apart at most.                   *)
LEMMA SameTilt ==
    ASSUME NEW a \in 0 .. 180, NEW b \in 0 .. 180, TiltShown(a) = TiltShown(b)
    PROVE  Near(a, b, 1)
<1>1. \A c \in 0 .. 180 :
        /\ TiltShown(c) \in Int
        /\ 200 * c - 180 <= 360 * TiltShown(c)
        /\ 360 * TiltShown(c) <= 200 * c + 180
  <2> TAKE c \in 0 .. 180
  <2>1. TiltShown(c) = Rounded(100 * c, 180)
    BY DEF TiltShown, Clamp
  <2>2. 100 * c \in Int
    OBVIOUS
  <2> QED
    BY <2>1, <2>2, RoundedScales
<1>2. /\ TiltShown(a) \in Int /\ 200 * a - 180 <= 360 * TiltShown(a)
      /\ 360 * TiltShown(a) <= 200 * b + 180 /\ 200 * b - 180 <= 360 * TiltShown(a)
      /\ 360 * TiltShown(a) <= 200 * a + 180
  BY <1>1
<1> QED
  BY <1>2 DEF Near

(* A speed is shown above 0 %, and by a percentage of its own; it comes back, or    *)
(* the next one does where there are more than 50 and fewer than 100.          *)
LEMMA SpeedReturns ==
    ASSUME NEW u, FanUnit(u), NEW s, s["vmcf"] \in {0} \cup (u.lo .. u.hi), s["vmcf"] > 0
    PROVE  /\ FanPercentage(u, s) \in Int /\ FanPercentage(u, s) > 0
           /\ SpeedSent(u, FanPercentage(u, s)) \in Int
           /\ Near(SpeedSent(u, FanPercentage(u, s)), s["vmcf"],
                   IF Speeds(u) \in 51 .. 99 THEN 1 ELSE 0)
           /\ u.lo > 0 => SpeedSent(u, FanPercentage(u, s)) > 0
<1> DEFINE n == Speeds(u)
           f == s["vmcf"]
           k == f - u.lo + 1
           q == FanPercentage(u, s)
           m == n * q
           r == SpeedSent(u, q)
<1>1. n \in 1 .. 100 /\ k \in 1 .. n /\ f = k + u.lo - 1 /\ u.lo \in Nat
  BY DEF FanUnit, Speeds
<1>2. q = (100 * k) \div n
  BY <1>1 DEF FanPercentage
<1> HIDE DEF n, k, q
<1>3. q \in Int /\ m \in Int /\ 100 * k - n < m /\ m <= 100 * k
  <2> DEFINE x == 100 * k
  <2>1. x \in Int /\ n \in Nat \ {0} /\ q = x \div n
    BY <1>1, <1>2
  <2> HIDE DEF x
  <2>2. q \in Int /\ x % n \in 0 .. n - 1 /\ x = n * q + (x % n)
    BY <2>1, Division
  <2>3. m \in Int
    BY <1>1, <2>2
  <2>4. x - n < m /\ m <= x
    <3> HIDE DEF m
    <3> QED
      BY <2>1, <2>2, <2>3 DEF m
  <2> QED
    BY <2>2, <2>3, <2>4 DEF x
<1>4. q > 0
  <2>1. CASE q <= 0
    <3>1. m <= 0
      BY <1>1, <1>3, <2>1
    <3> HIDE DEF m
    <3> QED
      BY <1>1, <1>3, <3>1
  <2> QED
    BY <1>3, <2>1
<1>5. m \in Int /\ m >= n
  BY <1>1, <1>3, <1>4
<1>6. q * n = m
  BY <1>1, <1>3
<1>7. n = 100 => m = 100 * k
  BY <1>1, <1>3
<1> DEFINE y == m + 100 * (u.lo - 1)
<1>8. r = Rounded(y, 100)
  BY <1>6 DEF SpeedSent, n
<1> HIDE DEF m, r, f
<1>9. y \in Int
  BY <1>1, <1>5
<1>10. r \in Int /\ 2 * y - 100 <= 200 * r /\ 200 * r <= 2 * y + 100
  <2> HIDE DEF y
  <2> QED
    BY <1>8, <1>9, RoundedScales
<1>11. Near(r, f, IF n \in 51 .. 99 THEN 1 ELSE 0)
  BY <1>1, <1>3, <1>5, <1>7, <1>9, <1>10 DEF Near
<1>12. u.lo > 0 => r > 0
  BY <1>1, <1>3, <1>5, <1>7, <1>9, <1>10
<1> QED
  BY <1>3, <1>4, <1>11, <1>12, <1>10 DEF n, f, q, r

(* Speeds that are shown by the same percentage are the same. *)
LEMMA SameSpeed ==
    ASSUME NEW u, FanUnit(u),
           NEW s, s["vmcf"] \in u.lo .. u.hi, s["vmcf"] > 0,
           NEW t, t["vmcf"] \in u.lo .. u.hi, t["vmcf"] > 0,
           FanPercentage(u, s) = FanPercentage(u, t)
    PROVE  s["vmcf"] = t["vmcf"]
<1> DEFINE n == Speeds(u)
           q == FanPercentage(u, s)
           m == n * q
<1>1. n \in 1 .. 100 /\ u.lo \in Nat
  BY DEF FanUnit, Speeds
<1>2. ASSUME NEW x, x["vmcf"] \in u.lo .. u.hi, x["vmcf"] > 0, FanPercentage(u, x) = q
      PROVE  LET k == x["vmcf"] - u.lo + 1
             IN  q \in Int /\ k \in Int /\ 100 * k - n < m /\ m <= 100 * k
  <2> DEFINE k == x["vmcf"] - u.lo + 1
             y == 100 * k
  <2>1. q = y \div n
    BY <1>1, <1>2 DEF FanPercentage
  <2>2. k \in Int /\ y \in Int /\ n \in Nat \ {0}
    BY <1>1, <1>2 DEF FanUnit
  <2> HIDE DEF q, n, y, k
  <2>3. q \in Int /\ y % n \in 0 .. n - 1 /\ y = n * q + (y % n)
    BY <2>1, <2>2, Division
  <2>4. m \in Int
    BY <2>2, <2>3
  <2>5. y - n < m /\ m <= y
    <3> HIDE DEF m
    <3> QED
      BY <2>2, <2>3, <2>4 DEF m
  <2> QED
    BY <2>2, <2>3, <2>5 DEF y, k
<1>3. q \in Int /\ m \in Int
  BY <1>1, <1>2
<1> HIDE DEF m, n
<1>4. LET k == s["vmcf"] - u.lo + 1
      IN  k \in Int /\ 100 * k - n < m /\ m <= 100 * k
  BY <1>2 DEF q
<1>5. LET k == t["vmcf"] - u.lo + 1
      IN  k \in Int /\ 100 * k - n < m /\ m <= 100 * k
  BY <1>2 DEF q
<1> QED
  BY <1>1, <1>3, <1>4, <1>5 DEF FanUnit

-----------------------------------------------------------------------------
(* Two lights do the same if they are in the same mode and agree on what counts.  *)
LEMMA SameLight ==
    ASSUME NEW s, NEW t, DOMAIN s = DOMAIN t, s["p"], t["p"],
           Value(s, "m") = Value(t, "m"),
           "l" \in DOMAIN t => s["l"] = t["l"],
           "ct" \in DOMAIN t /\ Value(t, "m") # 1 => s["ct"] = t["ct"],
           "c" \in DOMAIN t /\ Value(t, "m") # 2 => s["c"] = t["c"]
    PROVE  Lit(s) = Lit(t)
<1> DEFINE used(x) == {k \in DOMAIN x : \/ k = "l"
                                        \/ k = "ct" /\ Value(x, "m") # 1
                                        \/ k = "c" /\ Value(x, "m") # 2}
<1>1. used(s) = used(t)
  OBVIOUS
<1>2. \A k \in used(t) : s[k] = t[k]
  OBVIOUS
<1>3. Lit(s) = [k \in used(s) |-> s[k]] /\ Lit(t) = [k \in used(t) |-> t[k]]
  BY DEF Lit
<1> HIDE DEF used
<1> QED
  BY <1>1, <1>2, <1>3

(* Lights that are off do the same. *)
LEMMA Dark == ASSUME NEW s, NEW t, ~s["p"], ~t["p"] PROVE Lit(s) = Lit(t)
  BY DEF Lit

(* A lamp is restored, unless it has both colours and colour temperatures.     *)
LEMMA LampRestored ==
    ASSUME NEW u, u.kind = "light", LightUnit(u), u.warm \in Int, u.cool \in Int,
           NEW s, IsSetting(u, s), NEW t, IsSetting(u, t), ~OutOfReach(u, t)
    PROVE  Lit(Restored(u, s, LightShown(u, t))) = Lit(t)
<1> DEFINE want == LightShown(u, t)
           r    == Restored(u, s, want)
           call == LightCall(u, s, want)
           on   == TRUE
           off  == FALSE
<1> SUFFICES Lit(r) = Lit(t)
  OBVIOUS
<1>1. /\ DOMAIN s = u.keys /\ DOMAIN t = u.keys /\ "p" \in u.keys
      /\ s["p"] \in BOOLEAN /\ t["p"] \in BOOLEAN
  BY DEF IsSetting, LightUnit
<1>2. /\ want.on = t["p"] /\ want.brightness = DeviceBrightness(u, t)
      /\ want.mode = DeviceMode(t) /\ want.ct = Value(t, "ct") /\ want.c = Value(t, "c")
  BY DEF LightShown
<1>3. StateShown(u, s) = LightShown(u, s) /\ Call(u, s, want) = call
  BY DEF StateShown, Call
<1>4. (r = s /\ LightShown(u, s) = want) \/ r = Obeyed(s, call)
  BY <1>3 DEF Restored
<1> HIDE DEF want, r, call, on, off
<1>5. DOMAIN r = u.keys
  BY <1>1, <1>4 DEF Obeyed
<1>6. /\ LightShown(u, s).on = s["p"] /\ LightShown(u, s).mode = DeviceMode(s)
      /\ LightShown(u, s).brightness = DeviceBrightness(u, s)
      /\ LightShown(u, s).ct = Value(s, "ct") /\ LightShown(u, s).c = Value(s, "c")
  BY DEF LightShown
<1>7. CASE ~t["p"]
  <2>1. call = Sends("p", off)
    BY <1>2, <1>7, Zenon DEF LightCall, call, off
  <2>2. ~r["p"]
    <3>1. CASE r = s /\ LightShown(u, s) = want
      <4>1. t["p"] = s["p"]
        BY <1>2, <1>6, <3>1, Zenon
      <4> QED
        BY <1>7, <3>1, <4>1, Zenon
    <3>2. CASE r = Obeyed(s, call)
      <4>1. r["p"] = off
        BY <1>1, <2>1, <3>2 DEF Obeyed, Sends
      <4> QED
        BY <4>1, Zenon DEF off
    <3> QED
      BY <1>4, <3>1, <3>2
  <2> QED
    BY <1>7, <2>2, Dark
<1>8. CASE t["p"]
  <2>1. "m" \notin u.keys
    BY <1>1 DEF LightUnit, OutOfReach, ColorModes
  <2>2. /\ ColorModes(s) = ColorModes(t)
        /\ ColorModes(t) = {"ct"} <=> "ct" \in u.keys
        /\ ColorModes(t) = {"c"} <=> "c" \in u.keys
        /\ ~("ct" \in u.keys /\ "c" \in u.keys)
    BY <1>1 DEF OutOfReach, ColorModes
  <2>3. /\ want.mode = "ct" <=> "ct" \in u.keys
        /\ want.mode = "c" <=> "c" \in u.keys
    BY <1>1, <1>2, <2>2 DEF DeviceMode, ColorModes
  <2>4. "ct" \in u.keys => Clamp(want.ct, u.warm, u.cool) = t["ct"]
    BY <1>1, <1>2 DEF OutOfReach, Clamp, Value, IsSetting
  <2>5. ASSUME "l" \in u.keys, NEW x, IsSetting(u, x), x["p"]
        PROVE  /\ DeviceBrightness(u, x) \in Int
               /\ BrightnessSent(u, DeviceBrightness(u, x)) = x["l"]
    <3>1. x["l"] \in u.lo .. u.hi /\ "l" \in DOMAIN x
      BY <2>5 DEF IsSetting
    <3> QED
      BY <2>5, <3>1, LevelReturns
  <2>6. r["p"] /\ ("l" \in u.keys => r["l"] = t["l"])
               /\ ("ct" \in u.keys => r["ct"] = t["ct"])
               /\ ("c" \in u.keys => r["c"] = t["c"])
    <3>1. CASE r = s /\ LightShown(u, s) = want
      <4>1. s["p"] /\ DeviceBrightness(u, s) = DeviceBrightness(u, t)
            /\ Value(s, "ct") = Value(t, "ct") /\ Value(s, "c") = Value(t, "c")
        BY <1>2, <1>6, <1>8, <3>1
      <4>2. "l" \in u.keys => s["l"] = t["l"]
        BY <1>8, <2>5, <4>1
      <4> QED
        BY <1>1, <3>1, <4>1, <4>2 DEF Value
    <3>2. CASE r = Obeyed(s, call)
      <4> DEFINE light == IF want.brightness = NotShown THEN Sends("p", on)
                          ELSE Joined(Sends("p", on),
                                      Sends("l", BrightnessSent(u, want.brightness)))
                 colour == IF want.mode = "ct" /\ "ct" \in ColorModes(s)
                           THEN Sends("ct", Clamp(want.ct, u.warm, u.cool))
                           ELSE IF want.mode = "c" THEN Sends("c", want.c) ELSE NoCall
      <4>1. call = Joined(light, colour)
        BY <1>2, <1>8, Zenon DEF LightCall, call, on
      <4>2. "l" \in u.keys =>
              want.brightness # NotShown /\ BrightnessSent(u, want.brightness) = t["l"]
        BY <1>2, <1>8, <2>5, NotShownAssumption
      <4>3. /\ "p" \in DOMAIN light /\ light["p"] = on /\ DOMAIN light \subseteq {"p", "l"}
            /\ "l" \in u.keys => "l" \in DOMAIN light /\ light["l"] = t["l"]
        BY <4>2 DEF Joined, Sends
      <4>4. /\ "ct" \in u.keys => "ct" \in DOMAIN colour /\ colour["ct"] = t["ct"]
            /\ "c" \in u.keys => "c" \in DOMAIN colour /\ colour["c"] = t["c"]
        BY <1>1, <1>2, <2>2, <2>3, <2>4 DEF Value, Sends
      <4> HIDE DEF light, colour
      <4>5. /\ r["p"] = on
            /\ "l" \in u.keys => r["l"] = t["l"]
            /\ "ct" \in u.keys => r["ct"] = t["ct"]
            /\ "c" \in u.keys => r["c"] = t["c"]
        BY <1>1, <3>2, <4>1, <4>3, <4>4 DEF Obeyed, Joined
      <4> QED
        BY <4>5, Zenon DEF on
    <3> QED
      BY <1>4, <3>1, <3>2
  <2>7. Value(r, "m") = Value(t, "m")
    BY <1>1, <1>5, <2>1 DEF Value
  <2> QED
    BY <1>1, <1>5, <1>8, <2>6, <2>7, SameLight
<1> QED
  BY <1>1, <1>7, <1>8

(* The light of a group, room, area or house is restored. *)
LEMMA NodeRestored ==
    ASSUME NEW u, u.kind = "node", LightUnit(u), u.lo = 0, u.hi = 100,
           {"ct", "c"} \subseteq u.keys => "m" \in u.keys,
           NEW s, IsSetting(u, s), NEW t, IsSetting(u, t)
    PROVE  Lit(Restored(u, s, NodeShown(t))) = Lit(t)
<1> DEFINE want == NodeShown(t)
           r    == Restored(u, s, want)
           call == NodeLightCall(s, want)
           on   == TRUE
           off  == FALSE
<1> SUFFICES Lit(r) = Lit(t)
  OBVIOUS
<1>1. /\ DOMAIN s = u.keys /\ DOMAIN t = u.keys /\ "p" \in u.keys
      /\ s["p"] \in BOOLEAN /\ t["p"] \in BOOLEAN
      /\ "m" \in u.keys => s["m"] \in {1, 2} /\ t["m"] \in {1, 2}
  BY DEF IsSetting, LightUnit
<1>2. /\ want.on = t["p"] /\ want.brightness = NodeBrightness(t)
      /\ want.mode = NodeMode(t) /\ want.ct = Value(t, "ct") /\ want.c = Value(t, "c")
  BY DEF NodeShown
<1>3. StateShown(u, s) = NodeShown(s) /\ Call(u, s, want) = call
  BY DEF StateShown, Call
<1>4. (r = s /\ NodeShown(s) = want) \/ r = Obeyed(s, call)
  BY <1>3 DEF Restored
<1> HIDE DEF want, r, call, on, off
<1>5. DOMAIN r = u.keys
  BY <1>1, <1>4 DEF Obeyed
<1>6. /\ NodeShown(s).on = s["p"] /\ NodeShown(s).mode = NodeMode(s)
      /\ NodeShown(s).brightness = NodeBrightness(s)
      /\ NodeShown(s).ct = Value(s, "ct") /\ NodeShown(s).c = Value(s, "c")
  BY DEF NodeShown
<1>7. CASE ~t["p"]
  <2>1. call = Sends("p", off)
    BY <1>2, <1>7, Zenon DEF NodeLightCall, call, off
  <2>2. ~r["p"]
    <3>1. CASE r = s /\ NodeShown(s) = want
      <4>1. t["p"] = s["p"]
        BY <1>2, <1>6, <3>1, Zenon
      <4> QED
        BY <1>7, <3>1, <4>1, Zenon
    <3>2. CASE r = Obeyed(s, call)
      <4>1. r["p"] = off
        BY <1>1, <2>1, <3>2 DEF Obeyed, Sends
      <4> QED
        BY <4>1, Zenon DEF off
    <3> QED
      BY <1>4, <3>1, <3>2
  <2> QED
    BY <1>7, <2>2, Dark
<1>8. CASE t["p"]
  <2>1. ASSUME NEW x, DOMAIN x = u.keys, "m" \in u.keys => x["m"] \in {1, 2}
        PROVE  /\ NodeMode(x) = "ct" <=> "ct" \in u.keys /\ ~("c" \in u.keys /\ x["m"] = 1)
               /\ NodeMode(x) = "c" <=> "c" \in u.keys /\ ("ct" \in u.keys => x["m"] = 1)
    BY <2>1 DEF NodeMode, ColorModes, Value, LightUnit
  <2>6. /\ want.mode = "ct" <=> "ct" \in u.keys /\ ~("c" \in u.keys /\ t["m"] = 1)
        /\ want.mode = "c" <=> "c" \in u.keys /\ ("ct" \in u.keys => t["m"] = 1)
    BY <1>1, <1>2, <2>1
  <2>2. ASSUME "l" \in u.keys, NEW x, IsSetting(u, x)
        PROVE  /\ NodeBrightness(x) \in Int
               /\ NodeBrightnessSent(NodeBrightness(x)) = x["l"]
    <3>1. x["l"] \in 0 .. 100 /\ "l" \in DOMAIN x
      BY <2>2 DEF IsSetting
    <3>2. NodeBrightness(x) = Rounded(255 * x["l"], 100)
      BY <3>1 DEF NodeBrightness, Clamp
    <3> QED
      BY <3>1, <3>2, PercentReturns DEF NodeBrightnessSent
  <2>3. /\ r["p"]
        /\ "l" \in u.keys => r["l"] = t["l"]
        /\ want.mode = "ct" => r["ct"] = t["ct"]
        /\ want.mode = "c" => r["c"] = t["c"]
        /\ "m" \in u.keys => r["m"] = t["m"]
    <3>1. CASE r = s /\ NodeShown(s) = want
      <4>1. s["p"] = t["p"]
        BY <1>2, <1>6, <3>1, Zenon
      <4>2. /\ NodeBrightness(s) = NodeBrightness(t) /\ NodeMode(s) = NodeMode(t)
            /\ Value(s, "ct") = Value(t, "ct") /\ Value(s, "c") = Value(t, "c")
        BY <1>2, <1>6, <3>1
      <4>3. "l" \in u.keys => s["l"] = t["l"]
        BY <2>2, <4>2
      <4>4. "m" \in u.keys => s["m"] = t["m"]
        BY <1>1, <2>1, <4>2 DEF LightUnit
      <4>5. /\ want.mode = "ct" => s["ct"] = t["ct"]
            /\ want.mode = "c" => s["c"] = t["c"]
        BY <1>1, <1>2, <2>1, <4>2 DEF Value
      <4>6. s["p"]
        BY <1>8, <4>1, Zenon
      <4> QED
        BY <3>1, <4>3, <4>4, <4>5, <4>6
    <3>2. CASE r = Obeyed(s, call)
      <4> DEFINE light == IF want.brightness = NotShown THEN Sends("p", on)
                          ELSE Joined(Sends("p", on),
                                      Sends("l", NodeBrightnessSent(want.brightness)))
                 colour == IF want.mode = "ct" THEN Sends("ct", want.ct)
                           ELSE IF want.mode = "c" /\ "c" \in DOMAIN s
                           THEN Sends("c", want.c) ELSE NoCall
      <4>1. call = Joined(light, colour)
        BY <1>2, <1>8, Zenon DEF NodeLightCall, call, on
      <4>2. "l" \in u.keys =>
              want.brightness # NotShown /\ NodeBrightnessSent(want.brightness) = t["l"]
        BY <1>2, <2>2, NotShownAssumption
      <4>3. /\ "p" \in DOMAIN light /\ light["p"] = on /\ DOMAIN light \subseteq {"p", "l"}
            /\ "l" \in u.keys => "l" \in DOMAIN light /\ light["l"] = t["l"]
        BY <4>2 DEF Joined, Sends
      <4>4. /\ want.mode = "ct" => DOMAIN colour = {"ct"} /\ colour["ct"] = t["ct"]
            /\ want.mode = "c" => DOMAIN colour = {"c"} /\ colour["c"] = t["c"]
            /\ DOMAIN colour \subseteq {"ct", "c"}
        BY <1>1, <1>2, <2>1 DEF Value, Sends, NoCall
      <4> HIDE DEF light, colour
      <4>5. /\ r["p"] = on
            /\ "l" \in u.keys => r["l"] = t["l"]
        BY <1>1, <3>2, <4>1, <4>3, <4>4 DEF Obeyed, Joined
      <4>6. DOMAIN call = DOMAIN light \cup DOMAIN colour
            /\ \A k \in DOMAIN colour : k \notin DOMAIN light => call[k] = colour[k]
        BY <4>1 DEF Joined
      <4>7. ASSUME want.mode = "ct"
            PROVE  r["ct"] = t["ct"] /\ ("m" \in u.keys => r["m"] = t["m"])
        <5>1. "ct" \in u.keys /\ "m" \in u.keys => t["m"] = 2
          BY <1>1, <2>6, <4>7 DEF LightUnit
        <5>2. "ct" \in u.keys
          BY <2>6, <4>7
        <5>3. "ct" \in DOMAIN call /\ "c" \notin DOMAIN call /\ call["ct"] = t["ct"]
          BY <4>3, <4>4, <4>6, <4>7
        <5>4. r["ct"] = t["ct"] /\ ("m" \in u.keys => r["m"] = 2)
          BY <1>1, <3>2, <5>2, <5>3 DEF Obeyed
        <5> QED
          BY <5>1, <5>2, <5>4
      <4>8. ASSUME want.mode = "c"
            PROVE  r["c"] = t["c"] /\ ("m" \in u.keys => r["m"] = t["m"])
        <5>1. "c" \in u.keys /\ "m" \in u.keys => t["m"] = 1
          BY <1>1, <2>6, <4>8 DEF LightUnit
        <5>2. "c" \in u.keys
          BY <2>6, <4>8
        <5>3. "c" \in DOMAIN call /\ "ct" \notin DOMAIN call /\ call["c"] = t["c"]
          BY <4>3, <4>4, <4>6, <4>8
        <5>4. r["c"] = t["c"] /\ ("m" \in u.keys => r["m"] = 1)
          BY <1>1, <3>2, <5>2, <5>3 DEF Obeyed
        <5> QED
          BY <5>1, <5>2, <5>4
      <4>9. "m" \in u.keys => want.mode \in {"ct", "c"}
        BY <1>1, <2>6 DEF LightUnit
      <4>10. /\ want.mode = "ct" => r["ct"] = t["ct"]
             /\ want.mode = "c" => r["c"] = t["c"]
             /\ "m" \in u.keys => r["m"] = t["m"]
        BY <4>7, <4>8, <4>9
      <4> QED
        BY <4>5, <4>10, Zenon DEF on
    <3> QED
      BY <1>4, <3>1, <3>2
  <2>4. Value(r, "m") = Value(t, "m")
    BY <1>1, <1>5, <2>3 DEF Value
  <2>5. /\ "ct" \in u.keys /\ Value(t, "m") # 1 => r["ct"] = t["ct"]
        /\ "c" \in u.keys /\ Value(t, "m") # 2 => r["c"] = t["c"]
    BY <1>1, <1>2, <2>1, <2>3 DEF Value
  <2> QED
    BY <1>1, <1>5, <1>8, <2>3, <2>4, <2>5, SameLight
<1> QED
  BY <1>1, <1>7, <1>8

(* A cover is restored, its tilt to a degree, and shows the tilt it had.        *)
LEMMA CoverRestored ==
    ASSUME NEW u, u.kind = "cover", u.keys \in {{"cp", "tp"}, {"cp", "tp", "cra", "tra"}},
           NEW s, IsSetting(u, s), NEW t, IsSetting(u, t)
    PROVE  LET r == Restored(u, s, CoverShown(t))
           IN  /\ r["cp"] = t["cp"]
               /\ "cra" \in DOMAIN r => Near(r["cra"], t["cra"], 1)
               /\ CoverShown(r).tilt = CoverShown(t).tilt
<1> DEFINE want == CoverShown(t)
           r    == Restored(u, s, want)
           call == CoverCall(s, want)
<1>1. /\ DOMAIN s = u.keys /\ DOMAIN t = u.keys /\ {"cp", "tp"} \subseteq u.keys
      /\ s["cp"] \in 0 .. 100 /\ t["cp"] \in 0 .. 100
      /\ "cra" \in u.keys <=> "tra" \in u.keys
      /\ "cra" \in u.keys => s["cra"] \in 0 .. 180 /\ t["cra"] \in 0 .. 180
  BY DEF IsSetting
<1>2. /\ want.position = t["cp"]
      /\ want.tilt = IF "cra" \in u.keys THEN TiltShown(t["cra"]) ELSE NotShown
  BY <1>1 DEF CoverShown, Clamp
<1>3. StateShown(u, s) = CoverShown(s) /\ Call(u, s, want) = call
  BY DEF StateShown, Call
<1>4. (r = s /\ CoverShown(s) = want) \/ r = Obeyed(s, call)
  BY <1>3 DEF Restored
<1>5. ASSUME NEW x, DOMAIN x = u.keys
      PROVE  CoverShown(x).tilt = IF "cra" \in u.keys THEN TiltShown(x["cra"]) ELSE NotShown
  BY <1>5 DEF CoverShown
<1>6. CoverShown(s).position = s["cp"]
  BY <1>1 DEF CoverShown, Clamp
<1> HIDE DEF want, r, call
<1>7. DOMAIN r = u.keys
  BY <1>1, <1>4 DEF Obeyed
<1>8. CASE r = s /\ CoverShown(s) = want
  <2>1. r["cp"] = t["cp"]
    BY <1>2, <1>6, <1>8
  <2>2. "cra" \in u.keys => TiltShown(r["cra"]) = TiltShown(t["cra"])
    BY <1>1, <1>2, <1>5, <1>8
  <2>3. "cra" \in u.keys => Near(r["cra"], t["cra"], 1)
    BY <1>1, <1>8, <2>2, SameTilt
  <2> QED
    BY <1>1, <1>5, <1>7, <2>1, <2>2, <2>3 DEF r, want
<1>9. CASE r = Obeyed(s, call)
  <2>1. call = Joined(Sends("tp", t["cp"]),
                      IF want.tilt # NotShown /\ "tra" \in DOMAIN s
                      THEN Sends("tra", TiltSent(want.tilt)) ELSE NoCall)
    BY <1>1, <1>2 DEF CoverCall, Clamp, call
  <2>2. r["cp"] = t["cp"]
    BY <1>1, <1>9, <2>1 DEF Obeyed, Joined, Sends
  <2>3. ASSUME "cra" \in u.keys
        PROVE  r["cra"] = TiltSent(TiltShown(t["cra"]))
    <3>1. want.tilt = TiltShown(t["cra"]) /\ want.tilt # NotShown
      <4>1. t["cra"] \in 0 .. 180
        BY <1>1, <2>3
      <4>2. TiltShown(t["cra"]) \in 0 .. 100
        BY <4>1, TiltReturns
      <4>3. want.tilt = TiltShown(t["cra"])
        BY <1>2, <2>3
      <4> QED
        BY <4>2, <4>3, NotShownAssumption
    <3>2. call = Joined(Sends("tp", t["cp"]), Sends("tra", TiltSent(want.tilt)))
      BY <1>1, <2>1, <2>3, <3>1
    <3> QED
      BY <1>1, <1>9, <2>3, <3>1, <3>2 DEF Obeyed, Joined, Sends
  <2>4. "cra" \in u.keys =>
          Near(r["cra"], t["cra"], 1) /\ TiltShown(r["cra"]) = TiltShown(t["cra"])
    BY <1>1, <2>3, TiltReturns
  <2> QED
    BY <1>1, <1>5, <1>7, <2>2, <2>4 DEF r, want
<1> QED
  BY <1>4, <1>8, <1>9

(* A fan is restored, its speed to the next one if there are more than 50.      *)
LEMMA FanRestored ==
    ASSUME NEW u, u.kind = "fan", FanUnit(u),
           NEW s, IsSetting(u, s), NEW t, IsSetting(u, t), ~OutOfReach(u, t)
    PROVE  Alike(u, Restored(u, s, FanShown(u, t)), t)
<1> DEFINE want == FanShown(u, t)
           r    == Restored(u, s, want)
           call == FanCall(u, s, want)
           on   == TRUE
           off  == FALSE
           near == IF Speeds(u) \in 51 .. 99 THEN 1 ELSE 0
           On(x) == FanShown(u, x).on
           Sped(x) == FanPercentage(u, x)
<1> SUFFICES Alike(u, r, t)
  OBVIOUS
<1>1. /\ DOMAIN s = u.keys /\ DOMAIN t = u.keys
      /\ "vmcf" \in u.keys /\ u.keys \subseteq {"vmcf", "vmcp"}
      /\ u.lo \in Nat /\ u.hi \in Nat /\ (u.lo = 0 => "vmcp" \in u.keys)
      /\ s["vmcf"] \in {0} \cup (u.lo .. u.hi) /\ t["vmcf"] \in {0} \cup (u.lo .. u.hi)
      /\ "vmcp" \in u.keys => s["vmcp"] \in BOOLEAN /\ t["vmcp"] \in BOOLEAN
  BY DEF IsSetting, FanUnit
<1>2. ASSUME NEW x
      PROVE  FanShown(u, x).percentage = Sped(x)
  BY DEF FanShown
<1>3. ASSUME NEW x, DOMAIN x = u.keys
      PROVE  /\ "vmcp" \in u.keys => On(x) = x["vmcp"]
             /\ "vmcp" \notin u.keys => On(x) = (x["vmcf"] > 0)
  BY <1>3, Zenon DEF FanShown
<1>20. \A x : (x["vmcf"] > 0) \in BOOLEAN
  OBVIOUS
<1>4. Alike(u, r, t) <=> On(r) = On(t) /\ (On(t) => Near(r["vmcf"], t["vmcf"], near))
  BY Zenon DEF Alike
<1>5. (r = s /\ FanShown(u, s) = want) \/ r = Obeyed(s, call)
  BY DEF Restored, StateShown, Call
<1>6. ~(On(t) /\ Sped(t) = 0)
  BY DEF OutOfReach
<1>7. DOMAIN r = u.keys
  <2> HIDE DEF r, want, call
  <2> QED
    BY <1>1, <1>5 DEF Obeyed
<1>8. call = IF ~On(t) THEN FanOff(s)
             ELSE Joined(IF Sped(t) # Sped(s) THEN SetPercentage(u, s, Sped(t)) ELSE NoCall,
                         IF On(s) THEN NoCall ELSE FanDefaultOn(u, s))
  BY <1>2, Zenon DEF FanCall
<1>9. FanShown(u, s) = want => On(s) = On(t) /\ Sped(s) = Sped(t)
  BY <1>2, Zenon
<1>10. On(s) \in BOOLEAN /\ On(t) \in BOOLEAN
  BY <1>1, <1>3, <1>20, Zenon
<1>11. ASSUME NEW x, IsSetting(u, x)
       PROVE  Sped(x) \in Int /\ (x["vmcf"] > 0 <=> Sped(x) > 0)
  <2>1. x["vmcf"] \in {0} \cup (u.lo .. u.hi)
    BY <1>11 DEF IsSetting
  <2>2. CASE x["vmcf"] > 0
    BY <2>1, <2>2, SpeedReturns
  <2>3. CASE ~(x["vmcf"] > 0)
    <3>1. Sped(x) = 0
      BY <1>1, <2>1, <2>3 DEF FanPercentage
    <3> QED
      BY <2>3, <3>1
  <2> QED
    BY <2>2, <2>3
<1>12. Sped(s) \in Int /\ Sped(t) \in Int
       /\ (s["vmcf"] > 0 <=> Sped(s) > 0) /\ (t["vmcf"] > 0 <=> Sped(t) > 0)
  BY <1>11
<1>13. Near(t["vmcf"], t["vmcf"], near)
  BY <1>1 DEF Near
<1>14. t["vmcf"] > 0 =>
         /\ SpeedSent(u, Sped(t)) \in Int
         /\ Near(SpeedSent(u, Sped(t)), t["vmcf"], near)
         /\ u.lo > 0 => SpeedSent(u, Sped(t)) > 0
  BY <1>1, SpeedReturns
<1>15. Sped(s) = Sped(t) /\ t["vmcf"] > 0 => s["vmcf"] = t["vmcf"]
  BY <1>1, <1>12, SameSpeed
<1> HIDE DEF want, r, call, On, Sped, near, on, off
<1>16. CASE ~On(t)
  <2>1. call = FanOff(s)
    BY <1>8, <1>16, Zenon
  <2>2. ~On(r)
    <3>1. CASE r = s /\ FanShown(u, s) = want
      BY <1>9, <1>16, <3>1, Zenon
    <3>2. CASE r = Obeyed(s, call)
      <4>1. CASE "vmcp" \in u.keys
        <5>1. call = Sends("vmcp", off)
          BY <1>1, <2>1, <4>1, Zenon DEF FanOff, off
        <5>2. r["vmcp"] = off
          BY <1>1, <3>2, <4>1, <5>1 DEF Obeyed, Sends
        <5> QED
          BY <1>3, <1>7, <4>1, <5>2, Zenon DEF off
      <4>2. CASE "vmcp" \notin u.keys
        <5>1. call = Sends("vmcf", 0)
          BY <1>1, <2>1, <4>2, Zenon DEF FanOff
        <5>2. r["vmcf"] = 0
          BY <1>1, <3>2, <5>1 DEF Obeyed, Sends
        <5>3. ~(r["vmcf"] > 0)
          BY <5>2
        <5> QED
          BY <1>3, <1>7, <4>2, <5>3, Zenon
      <4> QED
        BY <4>1, <4>2
    <3> QED
      BY <1>5, <3>1, <3>2
  <2>3. On(r) \in BOOLEAN
    <3>1. "vmcp" \in u.keys => r["vmcp"] \in BOOLEAN
      <4>1. CASE r = s
        BY <1>1, <4>1
      <4>2. CASE r = Obeyed(s, call) /\ "vmcp" \in u.keys
        <5>1. call = Sends("vmcp", off)
          BY <1>1, <2>1, <4>2, Zenon DEF FanOff, off
        <5>2. r["vmcp"] = off
          BY <1>1, <4>2, <5>1 DEF Obeyed, Sends
        <5> QED
          BY <5>2, Zenon DEF off
      <4> QED
        BY <1>5, <4>1, <4>2
    <3> QED
      BY <1>3, <1>7, <1>20, <3>1, Zenon
  <2>4. On(r) = On(t)
    BY <1>10, <1>16, <2>2, <2>3, Zenon
  <2> QED
    BY <1>4, <1>16, <2>4, Zenon
<1>17. CASE On(t)
  <2>1. t["vmcf"] > 0
    <3>1. Sped(t) # 0
      BY <1>6, <1>17, Zenon
    <3>2. CASE ~(t["vmcf"] > 0)
      <4>1. Sped(t) = 0
        BY <1>1, <3>2 DEF FanPercentage, Sped
      <4> QED
        BY <3>1, <4>1
    <3> QED
      BY <3>2
  <2>2. On(t) = on
    BY <1>10, <1>17, Zenon DEF on
  <2>3. On(r) = on /\ Near(r["vmcf"], t["vmcf"], near)
    <3>1. CASE r = s /\ FanShown(u, s) = want
      <4>1. On(s) = On(t) /\ Sped(s) = Sped(t)
        BY <1>9, <3>1, Zenon
      <4>2. s["vmcf"] = t["vmcf"]
        BY <1>15, <2>1, <4>1
      <4> QED
        BY <1>13, <2>2, <3>1, <4>1, <4>2
    <3>2. CASE r = Obeyed(s, call)
      <4> DEFINE first == IF Sped(t) # Sped(s) THEN SetPercentage(u, s, Sped(t)) ELSE NoCall
                 then  == IF On(s) THEN NoCall ELSE FanDefaultOn(u, s)
      <4>1. call = Joined(first, then)
        BY <1>8, <1>17, Zenon
      <4>2. Sped(t) > 0
        BY <1>12, <2>1
      <4>3. CASE Sped(t) # Sped(s)
        <5>1. first = Joined(Sends("vmcf", SpeedSent(u, Sped(t))),
                             IF "vmcp" \in u.keys THEN Sends("vmcp", on) ELSE NoCall)
          <6>1. first = SetPercentage(u, s, Sped(t)) /\ ~(Sped(t) <= 0)
            BY <1>12, <4>2, <4>3
          <6> HIDE DEF first
          <6> QED
            BY <1>1, <6>1, Zenon DEF SetPercentage, on
        <5> HIDE DEF first, then
        <5>2. r["vmcf"] = SpeedSent(u, Sped(t)) /\ ("vmcp" \in u.keys => r["vmcp"] = on)
          BY <1>1, <3>2, <4>1, <5>1 DEF Obeyed, Joined, Sends, NoCall
        <5>3. Near(r["vmcf"], t["vmcf"], near)
          BY <1>14, <2>1, <5>2
        <5>4. "vmcp" \notin u.keys => r["vmcf"] > 0
          BY <1>1, <1>14, <2>1, <5>2
        <5>5. On(r) = on
          BY <1>3, <1>7, <5>2, <5>4, Zenon DEF on
        <5> QED
          BY <5>3, <5>5
      <4>4. CASE Sped(t) = Sped(s)
        <5>1. s["vmcf"] = t["vmcf"]
          BY <1>15, <2>1, <4>4
        <5>2. first = NoCall
          BY <4>4
        <5>3. CASE On(s) = on
          <6>1. then = NoCall
            BY <5>3, Zenon DEF on
          <6> HIDE DEF first, then
          <6>2. r = s
            <7>1. \A k \in u.keys : r[k] = s[k]
              BY <1>1, <3>2, <4>1, <5>2, <6>1 DEF Obeyed, Joined, NoCall
            <7>2. r = [k \in u.keys |-> r[k]] /\ s = [k \in u.keys |-> s[k]]
              BY <1>1, <1>7, <3>2 DEF Obeyed, IsSetting
            <7> QED
              BY <7>1, <7>2
          <6> QED
            BY <1>13, <5>1, <5>3, <6>2
        <5>4. CASE On(s) # on
          <6>1. "vmcp" \in u.keys
            <7>1. s["vmcf"] > 0
              BY <2>1, <5>1
            <7> QED
              BY <1>1, <1>3, <5>4, <7>1, Zenon DEF on
          <6>2. then = Sends("vmcp", on)
            BY <1>1, <1>10, <5>4, <6>1, Zenon DEF FanDefaultOn, on
          <6> HIDE DEF first, then
          <6>3. r["vmcp"] = on /\ r["vmcf"] = s["vmcf"]
            BY <1>1, <3>2, <4>1, <5>2, <6>1, <6>2 DEF Obeyed, Joined, Sends, NoCall
          <6>4. On(r) = on
            BY <1>3, <1>7, <6>1, <6>3, Zenon
          <6> QED
            BY <1>13, <5>1, <6>3, <6>4
        <5> QED
          BY <5>3, <5>4
      <4> QED
        BY <4>3, <4>4
    <3> QED
      BY <1>5, <3>1, <3>2
  <2> QED
    BY <1>4, <2>2, <2>3, Zenon
<1> QED
  BY <1>10, <1>16, <1>17, Zenon

(* A mode that Home Assistant has comes from one value of acm only. *)
LEMMA OneRawMode ==
    /\ \A raw \in DOMAIN HvacOf :
         /\ HvacOf[raw] \in {"cool", "fan_only", "heat"}
         /\ RawModeOf(HvacOf[raw]) = {raw}
    /\ RawModeOf("auto") = {}
  BY DEF HvacOf, RawModeOf

(* A climate is restored: its mode, its temperature and its fan.               *)
LEMMA ClimateRestored ==
    ASSUME NEW u, u.kind = "climate",
           {"acp", "actt", "acf"} \subseteq u.keys,
           u.keys \subseteq {"acp", "actt", "acf", "acm"},
           NEW s, IsSetting(u, s), NEW t, IsSetting(u, t)
    PROVE  Alike(u, Restored(u, s, ClimateShown(t)), t)
<1> DEFINE want == ClimateShown(t)
           r    == Restored(u, s, want)
           call == ClimateCall(u, s, want)
           on   == TRUE
           off  == FALSE
           known(x) == Value(x, "acm") \in DOMAIN HvacOf
<1> SUFFICES Alike(u, r, t)
  OBVIOUS
<1>1. /\ DOMAIN s = u.keys /\ DOMAIN t = u.keys
      /\ s["acp"] \in BOOLEAN /\ t["acp"] \in BOOLEAN
      /\ t["actt"] \in Int /\ t["acf"] \in Int
  BY DEF IsSetting
<1>2. /\ want.mode = HvacMode(t) /\ want.target = t["actt"] /\ want.fan = t["acf"]
  BY <1>1 DEF ClimateShown, Value
<1>3. /\ ClimateShown(s).mode = HvacMode(s) /\ ClimateShown(s).target = s["actt"]
      /\ ClimateShown(s).fan = s["acf"]
  BY <1>1 DEF ClimateShown, Value
<1>4. (r = s /\ ClimateShown(s) = want) \/ r = Obeyed(s, call)
  BY DEF Restored, StateShown, Call
<1>5. ASSUME r["acp"] = t["acp"], r["actt"] = t["actt"],
             t["acf"] \in u.fans => r["acf"] = t["acf"],
             t["acp"] /\ known(t) => r["acm"] = t["acm"]
      PROVE  Alike(u, r, t)
  BY <1>5, Zenon DEF Alike
<1>6. ASSUME NEW x
      PROVE  /\ ~x["acp"] => HvacMode(x) = "off"
             /\ x["acp"] /\ known(x) =>
                  HvacMode(x) = HvacOf[x["acm"]] /\ x["acm"] \in DOMAIN HvacOf
             /\ x["acp"] /\ ~known(x) => HvacMode(x) = "auto"
  <2>1. known(x) => Value(x, "acm") = x["acm"]
    <3>1. NotShown \notin DOMAIN HvacOf
      BY NotShownAssumption DEF HvacOf
    <3> QED
      BY <3>1 DEF Value
  <2>2. /\ ~x["acp"] => HvacMode(x) = "off"
        /\ x["acp"] /\ known(x) => HvacMode(x) = HvacOf[x["acm"]]
        /\ x["acp"] /\ ~known(x) => HvacMode(x) = "auto"
    BY Zenon DEF HvacMode
  <2> QED
    BY <2>1, <2>2
<1>7. known(t) => "acm" \in u.keys
  <2>1. NotShown \notin DOMAIN HvacOf
    BY NotShownAssumption DEF HvacOf
  <2> QED
    BY <1>1, <2>1 DEF Value
<1> HIDE DEF want, r, call, on, off, known
<1>8. CASE r = s /\ ClimateShown(s) = want
  <2>1. HvacMode(s) = HvacMode(t) /\ s["actt"] = t["actt"] /\ s["acf"] = t["acf"]
    BY <1>2, <1>3, <1>8
  <2>2. s["acp"] = t["acp"]
    <3>1. ~s["acp"] <=> HvacMode(s) = "off"
      BY <1>6, OneRawMode
    <3>2. ~t["acp"] <=> HvacMode(t) = "off"
      BY <1>6, OneRawMode
    <3> QED
      BY <1>1, <2>1, <3>1, <3>2, Zenon
  <2>3. ASSUME t["acp"], known(t)
        PROVE  s["acm"] = t["acm"]
    <3>1. s["acp"]
      BY <2>2, <2>3, Zenon
    <3>2. HvacMode(t) = HvacOf[t["acm"]] /\ t["acm"] \in DOMAIN HvacOf
      BY <1>6, <2>3
    <3>3. HvacMode(s) = HvacOf[s["acm"]] /\ s["acm"] \in DOMAIN HvacOf
      BY <1>6, <2>1, <3>1, <3>2, OneRawMode
    <3> QED
      BY <2>1, <3>2, <3>3, OneRawMode
  <2> QED
    BY <1>5, <1>8, <2>1, <2>2, <2>3
<1>9. CASE r = Obeyed(s, call)
  <2> DEFINE hvac == HvacCall(s, HvacMode(t))
             fan  == IF t["acf"] \in u.fans THEN Sends("acf", t["acf"]) ELSE NoCall
  <2>1. call = Joined(hvac, Joined(Sends("actt", t["actt"]), fan))
    BY <1>1, <1>2, NotShownAssumption DEF ClimateCall, call
  <2>2. /\ DOMAIN hvac \subseteq {"acp", "acm"} /\ "acp" \in DOMAIN hvac
        /\ hvac["acp"] = IF t["acp"] THEN on ELSE off
        /\ t["acp"] /\ known(t) => "acm" \in DOMAIN hvac /\ hvac["acm"] = t["acm"]
    <3>1. CASE ~t["acp"]
      <4>1. hvac = Sends("acp", off)
        BY <1>6, <3>1, Zenon DEF HvacCall, off
      <4> HIDE DEF hvac
      <4> QED
        BY <3>1, <4>1 DEF Sends
    <3>2. CASE t["acp"] /\ known(t)
      <4>1. /\ HvacMode(t) # "off" /\ RawModeOf(HvacMode(t)) = {t["acm"]}
            /\ "acm" \in DOMAIN s
        BY <1>1, <1>6, <1>7, <3>2, OneRawMode
      <4>2. (CHOOSE raw \in RawModeOf(HvacMode(t)) : TRUE) = t["acm"]
        BY <4>1
      <4>3. hvac = Joined(Sends("acp", on), Sends("acm", t["acm"]))
        BY <4>1, <4>2 DEF HvacCall, on
      <4> HIDE DEF hvac
      <4> QED
        BY <3>2, <4>3 DEF Joined, Sends
    <3>3. CASE t["acp"] /\ ~known(t)
      <4>1. HvacMode(t) # "off" /\ RawModeOf(HvacMode(t)) = {}
        BY <1>6, <3>3, OneRawMode
      <4>2. hvac = Joined(Sends("acp", on), NoCall)
        BY <4>1 DEF HvacCall, on
      <4> HIDE DEF hvac
      <4> QED
        BY <3>3, <4>2 DEF Joined, Sends, NoCall
    <3> QED
      BY <1>1, <3>1, <3>2, <3>3
  <2>3. /\ DOMAIN fan \subseteq {"acf"}
        /\ t["acf"] \in u.fans => "acf" \in DOMAIN fan /\ fan["acf"] = t["acf"]
    BY DEF Sends, NoCall
  <2> HIDE DEF hvac, fan
  <2>4. /\ DOMAIN call = DOMAIN hvac \cup {"actt"} \cup DOMAIN fan
        /\ \A k \in DOMAIN hvac : call[k] = hvac[k]
        /\ call["actt"] = t["actt"]
        /\ "acf" \in DOMAIN fan => call["acf"] = fan["acf"]
    BY <2>1, <2>2, <2>3 DEF Joined, Sends
  <2>5. ASSUME NEW k \in u.keys
        PROVE  r[k] = IF k \in DOMAIN call THEN call[k] ELSE s[k]
    <3>1. k \in {"acp", "actt", "acf", "acm"}
      BY <2>5
    <3> QED
      BY <1>1, <1>9, <3>1 DEF Obeyed
  <2>6. /\ r["actt"] = t["actt"] /\ (t["acf"] \in u.fans => r["acf"] = t["acf"])
        /\ t["acp"] /\ known(t) => r["acm"] = t["acm"]
        /\ r["acp"] = IF t["acp"] THEN on ELSE off
    BY <1>7, <2>2, <2>3, <2>4, <2>5
  <2>7. r["acp"] = t["acp"]
    BY <1>1, <2>6, Zenon DEF on, off
  <2> QED
    BY <1>5, <2>6, <2>7
<1> QED
  BY <1>4, <1>8, <1>9

(* The labels of two options are the same only if their codes are. *)
LEMMA OneCode ==
    ASSUME NEW u, SelectUnit(u), NEW i \in DOMAIN u.options, NEW j \in DOMAIN u.options,
           OptionLabel(u, i) = OptionLabel(u, j)
    PROVE  u.options[i].code = u.options[j].code
<1> DEFINE desc(k) == u.options[k].desc
           code(k) == u.options[k].code
           twin(k) == \E x \in 1 .. k - 1 : desc(x) = desc(k)
<1>1. i \in Nat \ {0} /\ j \in Nat \ {0}
  BY DEF SelectUnit
<1>2. ASSUME NEW k
      PROVE  /\ twin(k) => OptionLabel(u, k) = <<desc(k), code(k)>>
             /\ ~twin(k) => OptionLabel(u, k) = <<desc(k)>>
  BY DEF OptionLabel
<1>3. desc(i) = desc(j) => i = j \/ twin(i) \/ twin(j)
  BY <1>1
<1> HIDE DEF desc, code, twin
<1>4. desc(i) = desc(j) /\ (twin(i) <=> twin(j)) /\ (twin(i) => code(i) = code(j))
  BY <1>2
<1>5. code(i) = code(j)
  BY <1>3, <1>4
<1> QED
  BY <1>5 DEF code

(* A select is restored, unless its value is no option. *)
LEMMA SelectRestored ==
    ASSUME NEW u \in Units, u.kind = "select", SelectUnit(u),
           NEW s, IsSetting(u, s), NEW t, IsSetting(u, t), ~OutOfReach(u, t)
    PROVE  Alike(u, Restored(u, s, SelectShown(u, t)), t)
<1> DEFINE want == SelectShown(u, t)
           r    == Restored(u, s, want)
           call == SelectCall(u, want)
           code(i) == u.options[i].code
           found(x) == {i \in Offered(u) : code(i) = x[u.key]}
<1> SUFFICES Alike(u, r, t)
  OBVIOUS
<1>1. /\ s = [k \in {u.key} |-> s[k]] /\ t = [k \in {u.key} |-> t[k]]
      /\ u.key \notin {"m", "cp", "cra"}
      /\ \E i \in DOMAIN u.options : t[u.key] = code(i)
      /\ t[u.key] \notin u.readOnly
  BY DEF IsSetting, SelectUnit, OutOfReach
<1>2. (r = s /\ SelectShown(u, s) = want) \/ r = Obeyed(s, call)
  BY DEF Restored, StateShown, Call
<1>3. Alike(u, r, t) <=> r = t
  BY DEF Alike
<1>4. PICK i \in found(t) : want.option = OptionLabel(u, i)
  <2>1. found(t) # {}
    BY <1>1 DEF Offered
  <2>2. want.option = OptionLabel(u, CHOOSE i \in found(t) : TRUE)
    BY <2>1 DEF SelectShown
  <2> QED
    BY <2>1, <2>2
<1>5. i \in DOMAIN u.options /\ i \in Offered(u) /\ code(i) = t[u.key]
  BY <1>4 DEF Offered
<1>6. want.option # NotShown
  BY <1>4, <1>5, NotShownAssumption DEF OptionLabel
<1>7. CASE r = s /\ SelectShown(u, s) = want
  <2>1. found(s) # {}
    BY <1>6, <1>7 DEF SelectShown
  <2>2. SelectShown(u, s).option = OptionLabel(u, CHOOSE j \in found(s) : TRUE)
    BY <2>1 DEF SelectShown
  <2>3. PICK j \in found(s) : OptionLabel(u, j) = OptionLabel(u, i)
    BY <1>4, <1>7, <2>1, <2>2
  <2>4. j \in DOMAIN u.options /\ code(j) = s[u.key]
    BY <2>3 DEF Offered
  <2>5. s[u.key] = t[u.key]
    BY <1>5, <2>3, <2>4, OneCode
  <2> QED
    BY <1>1, <1>3, <1>7, <2>5
<1>8. CASE r = Obeyed(s, call)
  <2> DEFINE same == {j \in Offered(u) : OptionLabel(u, j) = want.option}
  <2>1. i \in same
    BY <1>4, <1>5
  <2>2. call = Sends(u.key, code(CHOOSE j \in same : TRUE))
    BY <2>1 DEF SelectCall
  <2>3. PICK j \in same : call = Sends(u.key, code(j))
    BY <2>1, <2>2
  <2>4. code(j) = t[u.key]
    <3>1. j \in DOMAIN u.options /\ OptionLabel(u, j) = OptionLabel(u, i)
      BY <1>4, <2>3 DEF Offered
    <3> QED
      BY <1>5, <3>1, OneCode
  <2> HIDE DEF call, r
  <2>5. DOMAIN call = {u.key} /\ call[u.key] = t[u.key]
    BY <2>3, <2>4 DEF Sends
  <2>6. r = [k \in {u.key} |-> call[k]]
    BY <1>1, <1>8, <2>5 DEF Obeyed
  <2> QED
    BY <1>1, <1>3, <2>5, <2>6
<1> QED
  BY <1>2, <1>7, <1>8

(* A switch is restored. *)
LEMMA SwitchRestored ==
    ASSUME NEW u, u.kind = "switch", u.keys = {u.key}, u.key \notin {"m", "cp", "cra"},
           u.int \in BOOLEAN,
           NEW s, IsSetting(u, s), NEW t, IsSetting(u, t)
    PROVE  Alike(u, Restored(u, s, SwitchShown(u, t)), t)
<1> DEFINE want == SwitchShown(u, t)
           r    == Restored(u, s, want)
           call == SwitchCall(u, want)
           most == CommandValue(u, TRUE)
           least == CommandValue(u, FALSE)
<1> SUFFICES Alike(u, r, t)
  OBVIOUS
<1>1. /\ s = [k \in {u.key} |-> s[k]] /\ t = [k \in {u.key} |-> t[k]]
      /\ s[u.key] \in {least, most} /\ t[u.key] \in {least, most}
  <2>1. {least, most} = IF u.int THEN {0, 1} ELSE BOOLEAN
    BY Zenon DEF CommandValue
  <2>2. /\ s[u.key] \in (IF u.int THEN {0, 1} ELSE BOOLEAN)
        /\ t[u.key] \in (IF u.int THEN {0, 1} ELSE BOOLEAN)
    BY DEF IsSetting
  <2>3. s = [k \in {u.key} |-> s[k]] /\ t = [k \in {u.key} |-> t[k]]
    BY DEF IsSetting
  <2> QED
    BY <2>1, <2>2, <2>3, Zenon
<1>2. (r = s /\ SwitchShown(u, s) = want) \/ r = Obeyed(s, call)
  BY DEF Restored, StateShown, Call
<1>3. Alike(u, r, t) <=> r = t
  BY DEF Alike
<1>4. SwitchShown(u, s).on <=> s[u.key] = most
  BY Zenon DEF SwitchShown
<1>5. want.on <=> t[u.key] = most
  BY Zenon DEF SwitchShown
<1>6. call = Sends(u.key, CommandValue(u, want.on))
  BY DEF SwitchCall
<1>7. want.on \in BOOLEAN
  BY DEF SwitchShown
<1>8. CommandValue(u, want.on) = t[u.key]
  BY <1>1, <1>5, <1>7, Zenon
<1> HIDE DEF call, r, want, most, least
<1>9. CASE r = s /\ SwitchShown(u, s) = want
  <2>1. s[u.key] = most <=> t[u.key] = most
    BY <1>4, <1>5, <1>9, Zenon
  <2>2. s[u.key] = t[u.key]
    BY <1>1, <2>1, Zenon
  <2> QED
    BY <1>1, <1>3, <1>9, <2>2
<1>10. CASE r = Obeyed(s, call)
  <2>1. DOMAIN call = {u.key} /\ call[u.key] = t[u.key]
    BY <1>6, <1>8 DEF Sends
  <2>2. r = [k \in {u.key} |-> call[k]]
    BY <1>1, <1>10, <2>1 DEF Obeyed
  <2> QED
    BY <1>1, <1>3, <2>1, <2>2
<1> QED
  BY <1>2, <1>9, <1>10

(* Every entity is restored, as far as the service calls reach. *)
LEMMA Restores ==
    ASSUME NEW u \in Units, NEW s, IsSetting(u, s), NEW t, IsSetting(u, t), ~OutOfReach(u, t)
    PROVE  /\ Alike(u, Restored(u, s, StateShown(u, t)), t)
           /\ u.kind = "cover" =>
                StateShown(u, Restored(u, s, StateShown(u, t))).tilt = StateShown(u, t).tilt
<1> DEFINE r == Restored(u, s, StateShown(u, t))
<1>1. IsUnit(u)
  BY UnitsAssumption
<1>2. CASE u.kind = "light"
  <2>1. LightUnit(u) /\ u.warm \in Int /\ u.cool \in Int /\ StateShown(u, t) = LightShown(u, t)
    BY <1>1, <1>2 DEF IsUnit, StateShown
  <2>2. Lit(r) = Lit(t)
    BY <1>2, <2>1, LampRestored
  <2> QED
    BY <1>2, <2>2 DEF Alike
<1>3. CASE u.kind = "node"
  <2>1. /\ LightUnit(u) /\ u.lo = 0 /\ u.hi = 100 /\ StateShown(u, t) = NodeShown(t)
        /\ {"ct", "c"} \subseteq u.keys => "m" \in u.keys
    BY <1>1, <1>3 DEF IsUnit, StateShown
  <2>2. Lit(r) = Lit(t)
    BY <1>3, <2>1, NodeRestored
  <2> QED
    BY <1>3, <2>2 DEF Alike
<1>4. CASE u.kind = "cover"
  <2>1. u.keys \in {{"cp", "tp"}, {"cp", "tp", "cra", "tra"}}
    BY <1>1, <1>4 DEF IsUnit
  <2>2. \A x : StateShown(u, x) = CoverShown(x)
    BY <1>4 DEF StateShown
  <2>3. /\ r["cp"] = t["cp"]
        /\ "cra" \in DOMAIN r => Near(r["cra"], t["cra"], 1)
        /\ CoverShown(r).tilt = CoverShown(t).tilt
    BY <1>4, <2>1, <2>2, CoverRestored
  <2> QED
    BY <1>4, <2>2, <2>3 DEF Alike
<1>5. CASE u.kind = "fan"
  <2>1. FanUnit(u) /\ StateShown(u, t) = FanShown(u, t)
    BY <1>1, <1>5 DEF IsUnit, StateShown
  <2> QED
    BY <1>5, <2>1, FanRestored
<1>6. CASE u.kind = "climate"
  <2>1. /\ {"acp", "actt", "acf"} \subseteq u.keys /\ u.keys \subseteq {"acp", "actt", "acf", "acm"}
        /\ StateShown(u, t) = ClimateShown(t)
    BY <1>1, <1>6 DEF IsUnit, StateShown
  <2> QED
    BY <1>6, <2>1, ClimateRestored
<1>7. CASE u.kind = "select"
  <2>1. SelectUnit(u) /\ StateShown(u, t) = SelectShown(u, t)
    BY <1>1, <1>7 DEF IsUnit, StateShown
  <2> QED
    BY <1>7, <2>1, SelectRestored
<1>8. CASE u.kind = "switch"
  <2>1. /\ u.keys = {u.key} /\ u.key \notin {"m", "cp", "cra"} /\ u.int \in BOOLEAN
        /\ StateShown(u, t) = SwitchShown(u, t)
    BY <1>1, <1>8 DEF IsUnit, StateShown
  <2> QED
    BY <1>8, <2>1, SwitchRestored
<1> QED
  BY <1>1, <1>2, <1>3, <1>4, <1>5, <1>6, <1>7, <1>8 DEF IsUnit

(* A scene that is restored leaves the device as it was when the scene was      *)
(* stored, for every entity and every state that the device is in in between.   *)
THEOREM SceneRestoredAlways == SpecControl => []SceneRestored
<1>1. InitControl => ControlInvariant
  BY SettingsAssumption DEF InitControl, ControlInvariant, SceneRestored
<1>2. ControlInvariant /\ [NextControl]_controlVars => ControlInvariant'
  <2> SUFFICES ASSUME ControlInvariant, [NextControl]_controlVars
               PROVE  ControlInvariant'
    OBVIOUS
  <2>1. CASE StoreScene
    BY <2>1 DEF ControlInvariant, StoreScene, SceneRestored
  <2>2. CASE ElseWhere
    BY <2>2, SettingsAssumption DEF ControlInvariant, ElseWhere, SceneRestored
  <2>3. CASE RestoreScene
    <3>1. /\ act = "stored" /\ act' = "restored" /\ UNCHANGED <<unit, kept, scene>>
          /\ own' = Restored(unit, own, StateShown(unit, kept))
          /\ unit \in Units /\ IsSetting(unit, own) /\ IsSetting(unit, kept)
          /\ scene = StateShown(unit, kept)
      BY <2>3 DEF RestoreScene, ControlInvariant
    <3>2. ~OutOfReach(unit, kept) =>
            /\ Alike(unit, own', kept)
            /\ unit.kind = "cover" => StateShown(unit, own').tilt = scene.tilt
      BY <3>1, Restores
    <3>3. SceneRestored'
      BY <3>1, <3>2 DEF SceneRestored
    <3> QED
      BY <3>1, <3>3 DEF ControlInvariant
  <2>4. CASE UNCHANGED controlVars
    BY <2>4 DEF ControlInvariant, SceneRestored, controlVars
  <2> QED
    BY <2>1, <2>2, <2>3, <2>4 DEF NextControl
<1>3. ControlInvariant => SceneRestored
  BY DEF ControlInvariant
<1> QED
  BY <1>1, <1>2, <1>3, PTL DEF SpecControl
=============================================================================
