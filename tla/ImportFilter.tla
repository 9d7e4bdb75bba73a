---------------------------- MODULE ImportFilter ----------------------------
(***************************************************************************)
(* The device import filter and the two forms of the options flow that      *)
(* write it: the wizard over categories, rooms, gateways and devices, and   *)
(* the picker of devices from the cloud's list (options_flow.py,            *)
(* device_filter*.py, config_flow_device_picker.py), while devices come     *)
(* and go.                                                                  *)
(***************************************************************************)
EXTENDS Naturals, Sequences, SequencesExt, FiniteSets

CONSTANTS
    Order,       \* the devices, in the order the server lists them
    Wizard,      \* DIMENSION_NAMES, the dimensions that have a page
    Hidden,      \* dimensions of rules without a page: types, product_ids
    Shown,       \* [device -> [Wizard's -> Seq(value)]], as filter_dimension_choices reads
    Match        \* [device -> [dimension -> SUBSET value]], as device_values reads

ASSUME WizardAssumption ==
    Wizard \in Seq(Range(Wizard)) /\ Wizard # <<>> /\ "devices" \in Range(Wizard)
ASSUME HiddenAssumption == IsFiniteSet(Hidden) /\ Hidden \cap Range(Wizard) = {}

VARIABLES
    listed,      \* devices of coordinator.data
    filter,      \* options["device_import_filter"], canonical
    formPage,    \* of the open flow: "closed", "wizard", "picker" or "confirm"
    at,          \* the wizard's page, 1 .. Len(Wizard)
    form,        \* history: the form that leads to "confirm"
    options,     \* what the present form offers
    offered,     \* _filter_all_choices, taken when the wizard begins
    chosen,      \* _filter_selections; of the picker, the devices ticked
    unsaved,     \* the filter in _pending_options
    lasting,     \* history: devices listed since the flow was opened
    ticked,      \* history: what the user has left ticked, for each dimension
    gone,        \* history: <<dimension, value>> offered, but not when its page was
    asShown,     \* history: has the user left every form as it came?
    blind        \* history: the picker's list could not be loaded

flow       == <<formPage, at, form, options, offered, chosen, unsaved>>
filterPast == <<lasting, ticked, gone, asShown, blind>>
filterVars == <<listed, filter, flow, filterPast>>

AllDevices    == Range(Order)
Dimensions == Range(Wizard) \cup Hidden
NoRules    == [k \in Dimensions |-> {}]
NoTicks    == [k \in Range(Wizard) |-> {}]

(* NO_DEVICE_SELECTED_SENTINEL *)
NoDevice == "no_device_selected"

ASSUME DevicesAssumption ==
    NoDevice \notin AllDevices /\ \A d \in AllDevices : Match[d]["devices"] = {d}

-----------------------------------------------------------------------------
(* Rules: device_filter_rules.py and device_filter.py. *)

Dims(rules) == {k \in Dimensions : rules[k] # {}}

MatchesRules(d, rules, mode) ==
    LET hit(k) == Match[d][k] \cap rules[k] # {} IN
    /\ Dims(rules) # {}
    /\ IF mode = "and" THEN \A k \in Dims(rules) : hit(k) ELSE \E k \in Dims(rules) : hit(k)

(* matches_device_import_filter *)
Visible(d, f) ==
    f.enabled =>
        /\ Dims(f.include) # {} => MatchesRules(d, f.include, f.mode)
        /\ ~MatchesRules(d, f.exclude, f.mode)

(* canonical_device_import_filter: a filter without rules is not enabled. *)
Canonical(f) == [f EXCEPT !.enabled = @ /\ Dims(f.include) \cup Dims(f.exclude) # {}]

Disabled == [enabled |-> FALSE, mode |-> "or", include |-> NoRules, exclude |-> NoRules]

-----------------------------------------------------------------------------
(* The wizard: device_filter_options.py. *)

(* Of each device the first value that no device before it has shown. *)
DimensionChoices(devices, k) ==
    LET new(d, seen) == SelectSeq(Shown[d][k], LAMBDA v : v \notin seen)
        add(seen, d) == IF d \in devices /\ new(d, seen) # <<>>
                        THEN seen \cup {Head(new(d, seen))} ELSE seen
    IN FoldLeft(add, {}, Order)

(* No two devices have one id, so that all of them can be chosen. *)
ASSUME OfferAssumption == \A S \in SUBSET AllDevices : S \subseteq DimensionChoices(S, "devices")

(* Mutant: only include rules are looked at. *)
MutSelections(f, all) ==
    [k \in Range(Wizard) |-> IF f.enabled /\ f.include[k] # {} THEN f.include[k] \cap all[k]
                             ELSE all[k]]

(* current_filter_selections: what the pages show as ticked. *)
Selections(f, all) ==
    [k \in Range(Wizard) |->
        IF ~f.enabled THEN all[k]
        ELSE IF f.include[k] # {} THEN f.include[k] \cap all[k]
        ELSE all[k] \ f.exclude[k]]

(* build_filter_config: what was offered and is not selected is excluded. *)
BuildFilter(selected, all) ==
    Canonical(
        [enabled |-> TRUE, mode |-> "or", include |-> NoRules,
         exclude |-> [k \in Dimensions |-> IF k \in Hidden THEN {} ELSE all[k] \ selected[k]]])

-----------------------------------------------------------------------------
(* The picker: config_flow_device_picker.py. *)

(* All devices are ticked unless the stored filter includes some that are there. *)
Picked(f, devices) ==
    LET stored == f.include["devices"] \cap devices
    IN IF stored = {} THEN devices ELSE stored

(* device_import_filter_for_selected_devices *)
PickedFilter(selected, devices) ==
    IF selected = devices THEN Disabled
    ELSE [Disabled EXCEPT
            !.enabled = TRUE,
            !.include["devices"] = IF selected = {} THEN {NoDevice} ELSE selected]

-----------------------------------------------------------------------------
(* A filter as it was typed in before there were any forms                  *)
(* (_legacy_device_import_filter_from_form): here with one rule on each side, or     *)
(* two on one of them of which both must match.                              *)
InitFilter ==
    LET some(k)  == {{}} \cup {{v} : v \in UNION {Match[d][k] : d \in AllDevices}}
        rules(n) == {r \in [Dimensions -> UNION {some(k) : k \in Dimensions}] :
                        Cardinality(Dims(r)) = n /\ \A k \in Dimensions : r[k] \in some(k)}
        few == {NoRules} \cup rules(1)
        two == {NoRules} \cup rules(2)
    IN
    /\ listed \in SUBSET AllDevices
    /\ \E on \in BOOLEAN :
        \/ \E i, e \in few :
            filter = Canonical([enabled |-> on, mode |-> "or", include |-> i, exclude |-> e])
        \/ \E i, e \in two :
            /\ NoRules \in {i, e}
            /\ filter = Canonical([enabled |-> on, mode |-> "and", include |-> i, exclude |-> e])
    /\ formPage = "closed" /\ at = 1 /\ form = "wizard" /\ options = {}
    /\ offered = NoTicks /\ chosen = NoTicks /\ unsaved = Disabled
    /\ lasting = {} /\ ticked = NoTicks /\ gone = {} /\ asShown = TRUE /\ blind = FALSE

(* A poll replaces coordinator.data. *)
DevicesChange ==
    /\ listed' \in SUBSET AllDevices
    /\ lasting' = lasting \cap listed'
    /\ UNCHANGED <<filter, flow, ticked, gone, asShown, blind>>

Offer(k) == options' = DimensionChoices(listed, k)

(* The menu's "filter_categories": _ensure_filter_loaded, and the first page. *)
OpenWizard ==
    /\ formPage = "closed"
    /\ formPage' = "wizard" /\ form' = "wizard" /\ at' = 1
    /\ offered' = [k \in Range(Wizard) |-> DimensionChoices(listed, k)]
    /\ chosen' = Selections(filter, offered')
    /\ Offer(Wizard[1])
    /\ lasting' = listed
    /\ UNCHANGED <<listed, filter, unsaved, ticked, gone, asShown, blind>>

(* A page is answered: what may be selected is read again, and the next page shown, *)
(* or after the last the filter is made.                                     *)
SubmitPage ==
    /\ formPage = "wizard"
    /\ \E selection \in SUBSET options :
        LET k     == Wizard[at]
            still == DimensionChoices(listed, k)
        IN
        /\ chosen' = [chosen EXCEPT ![k] = selection \cap still]
        /\ ticked' = [ticked EXCEPT ![k] = selection]
        /\ gone' = gone \cup ({k} \X (offered[k] \ (options \cap still)))
        /\ asShown' = (asShown /\ selection = chosen[k])
    /\ IF at < Len(Wizard)
       THEN /\ at' = at + 1 /\ Offer(Wizard[at'])
            /\ UNCHANGED <<formPage, unsaved>>
       ELSE /\ formPage' = "confirm"
            /\ unsaved' = BuildFilter(chosen', offered)
            /\ options' = {}
            /\ UNCHANGED at
    /\ UNCHANGED <<listed, filter, form, offered, lasting, blind>>

(* The menu's "cloud_devices": the list is fetched anew, and is empty on failure. *)
OpenPicker ==
    /\ formPage = "closed"
    /\ formPage' = "picker" /\ form' = "picker"
    /\ \E failed \in BOOLEAN :
        /\ blind' = failed
        /\ IF failed THEN options' = {} ELSE options' \in SUBSET AllDevices
    /\ chosen' = [chosen EXCEPT !["devices"] = Picked(filter, options')]
    /\ lasting' = listed
    /\ UNCHANGED <<listed, filter, at, offered, unsaved, ticked, gone, asShown>>

SubmitPicker ==
    /\ formPage = "picker"
    /\ \E selection \in SUBSET options :
        /\ ticked' = [ticked EXCEPT !["devices"] = selection]
        /\ asShown' = (selection = chosen["devices"])
        /\ unsaved' = PickedFilter(selection, options)
    /\ formPage' = "confirm"
    /\ offered' = [offered EXCEPT !["devices"] = options]
    /\ options' = {}
    /\ UNCHANGED <<listed, filter, at, form, chosen, lasting, gone, blind>>

(* A new flow object knows nothing of this one. *)
CloseForm ==
    /\ formPage' = "closed" /\ at' = 1 /\ form' = "wizard" /\ options' = {}
    /\ offered' = NoTicks /\ chosen' = NoTicks /\ unsaved' = Disabled
    /\ lasting' = {} /\ ticked' = NoTicks /\ gone' = {} /\ asShown' = TRUE /\ blind' = FALSE
    /\ UNCHANGED listed

AbandonForm == formPage # "closed" /\ CloseForm /\ UNCHANGED filter

ConfirmFilter == formPage = "confirm" /\ CloseForm /\ filter' = unsaved

NextFilter ==
    \/ DevicesChange
    \/ OpenWizard \/ SubmitPage
    \/ OpenPicker \/ SubmitPicker
    \/ ConfirmFilter \/ AbandonForm

SpecFilter == InitFilter /\ [][NextFilter]_filterVars

-----------------------------------------------------------------------------
(* Properties. *)

(* What the form in use offers of device d, and whether it went on offering that. *)
OfferedOf(d) == {kv \in UNION {{k} \X Match[d][k] : k \in Range(Wizard)} : kv[2] \in offered[kv[1]]}

(* What is about to be stored hides, of the devices that were there all along, those *)
(* with something unticked and no others ("全选 = 不过滤该维度；取消选择 = 写入       *)
(* exclude 规则", device_filter_options.py:116).  No promise is made of values that *)
(* were offered at first and not when their page was shown or answered.      *)
FilterAsChosen ==
    formPage = "confirm" =>
        \A d \in lasting :
            OfferedOf(d) \cap gone = {} /\ (form = "picker" => OfferedOf(d) # {}) =>
                (Visible(d, unsaved) <=> \A kv \in OfferedOf(d) : kv[2] \in ticked[kv[1]])

(* Can the form in use show what the stored filter says of device d? *)
Expressible(d) ==
    LET rest(rules) == Dims(rules) \ {"devices"} IN
    IF form = "picker"
    THEN /\ d \in offered["devices"]
         /\ rest(filter.include) = {} /\ Dims(filter.exclude) = {}
         /\ filter.include["devices"] # {} => filter.enabled
         /\ filter.enabled => filter.include["devices"] \cap offered["devices"] # {}
    ELSE filter.enabled =>
         /\ rest(filter.include) = {} /\ Dims(filter.exclude) \cap Hidden = {}
         /\ filter.mode = "or" \/ Cardinality(Dims(filter.exclude)) < 2
         /\ filter.include["devices"] = {} \/ filter.exclude["devices"] = {}
         /\ \A k \in Range(Wizard) : Match[d][k] \cap filter.exclude[k] \subseteq offered[k]

(* A form that is sent back as it came changes nothing for the devices that were    *)
(* there all along, if it can express the filter at all.                     *)
UntouchedFormKeepsFilter ==
    formPage = "confirm" /\ asShown =>
        \A d \in lasting :
            Expressible(d) /\ OfferedOf(d) \cap gone = {} /\ ~blind =>
                (Visible(d, unsaved) <=> Visible(d, filter))

(* What a form stores is what the user chose in it, or left as it was.              *)
FilterSound == FilterAsChosen /\ UntouchedFormKeepsFilter

-----------------------------------------------------------------------------
(* The inductive invariant behind FilterSound. *)

IsOn(f, S) == f = [k \in S |-> f[k]]

IsFilter(f) ==
    /\ f = [enabled |-> f.enabled, mode |-> f.mode, include |-> f.include,
            exclude |-> f.exclude]
    /\ f.enabled \in BOOLEAN /\ f.mode \in {"or", "and"}
    /\ IsOn(f.include, Dimensions) /\ IsOn(f.exclude, Dimensions)

FilterTypeOK ==
    /\ listed \subseteq AllDevices /\ lasting \subseteq listed
    /\ IsFilter(filter) /\ IsFilter(unsaved)
    /\ formPage \in {"closed", "wizard", "picker", "confirm"}
    /\ at \in 1 .. Len(Wizard)
    /\ form \in {"wizard", "picker"}
    /\ IsOn(offered, Range(Wizard)) /\ IsOn(chosen, Range(Wizard)) /\ IsOn(ticked, Range(Wizard))
    /\ asShown \in BOOLEAN

(* The dimensions whose pages have been answered. *)
Answered == IF formPage = "confirm" THEN Range(Wizard) ELSE {Wizard[j] : j \in 1 .. at - 1}

(* Where the wizard is: of what is on offer still, the selections hold what was left *)
(* ticked on the pages answered, and what the stored filter ticks if every one was *)
(* left as it came; every device that is there still can be chosen.          *)
WizardInv ==
    formPage = "wizard" \/ (formPage = "confirm" /\ form = "wizard") =>
        /\ form = "wizard"
        /\ lasting \subseteq offered["devices"]
        /\ \A k \in Range(Wizard) : \A v \in offered[k] :
             <<k, v>> \notin gone =>
                /\ k \in Answered => (v \in chosen[k] <=> v \in ticked[k])
                /\ asShown => (v \in chosen[k] <=> v \in Selections(filter, offered)[k])
        /\ formPage = "confirm" => unsaved = BuildFilter(chosen, offered)

(* Where the picker is: nothing but devices is on offer. *)
PickerInv ==
    /\ formPage \in {"closed", "picker"} => offered = NoTicks
    /\ formPage = "picker" =>
         form = "picker" /\ chosen["devices"] = Picked(filter, options)
    /\ formPage = "confirm" /\ form = "picker" =>
         /\ offered = [NoTicks EXCEPT !["devices"] = offered["devices"]]
         /\ ticked["devices"] \subseteq offered["devices"]
         /\ unsaved = PickedFilter(ticked["devices"], offered["devices"])
         /\ asShown => ticked["devices"] = Picked(filter, offered["devices"])

FilterInv == FilterTypeOK /\ WizardInv /\ PickerInv /\ FilterSound
=============================================================================
