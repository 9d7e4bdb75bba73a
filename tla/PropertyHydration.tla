-------------------------- MODULE PropertyHydration --------------------------
(***************************************************************************)
(* How a poll fills in the values that the device list leaves out           *)
(* (async_hydrate_device_properties).                                        *)
(*                                                                         *)
(* The list is read first.  Then the devices are read in groups, those that  *)
(* ask for the same properties together, and last, sub-device by sub-device,  *)
(* what still has no value.  A read that fails is passed over; only a refused *)
(* token ends the poll.  What was read is merged into the rows that were      *)
(* listed, and the rows are normalised into params.  The devices change, and  *)
(* each read sees them at another moment.                                    *)
(***************************************************************************)
EXTENDS Naturals, FiniteSets

CONSTANTS
    Props,       \* the properties of the house's devices
    DeviceOf,    \* the device of a property
    GroupOf,     \* the group in which a device is read
    Channels,    \* the properties that belong to a sub-device, one each
    Vals,        \* their values
    MaxDrift,    \* bound: properties that change while a poll is under way
    Nil          \* a key that is not in the dict

Null == "null"   \* a key whose value is None

ASSUME HydrationAssumption ==
    {Nil, Null} \cap Vals = {} /\ Channels \subseteq Props /\ MaxDrift \in Nat

VARIABLES
    real,        \* the devices
    since,       \* history: the values of each property since the list was read
    phase,       \* where the poll is
    listedValue, \* the values that came with the list
    unread,      \* the groups still to be read
    merged,      \* merged_values: the dict of each device, those dropped included
    dropped,     \* the devices whose dict is in values_by_device no more
    unseen,      \* the devices whose sub-devices are still to be looked at
    missing,     \* indexed_requests: what the device at hand still has no value for
    empty,       \* history: the devices of which a sub-device's answer had no entry
    row          \* the params of the row that the poll returned

hydrationVars == <<real, since, phase, listedValue, unread, merged, dropped, unseen, missing,
                   empty, row>>

Owners == {DeviceOf[k] : k \in Props}
Groups == {GroupOf[d] : d \in Owners}
Of(d)  == {k \in Props : DeviceOf[k] = d}

Nothing == [k \in Props |-> Nil]
Reads   == [Props -> Vals \cup {Nil, Null}]

Given(dict) == {k \in Props : dict[k] \in Vals}

HydrationTypeOK ==
    /\ real \in [Props -> Vals]
    /\ since \in [Props -> SUBSET Vals]
    /\ phase \in {"idle", "groups", "channels", "done"}
    /\ listedValue \in [Props -> Vals \cup {Nil}]
    /\ unread \subseteq Groups
    /\ merged \in Reads
    /\ dropped \subseteq Owners /\ unseen \subseteq Owners /\ empty \subseteq Owners
    /\ missing \subseteq Channels
    /\ row \in [Props -> Vals \cup {Nil}]

InitHydration ==
    /\ real \in [Props -> Vals]
    /\ since = [k \in Props |-> {}]
    /\ phase = "idle"
    /\ listedValue = Nothing
    /\ unread = {}
    /\ merged = Nothing
    /\ dropped = {}
    /\ unseen = {}
    /\ missing = {}
    /\ empty = {}
    /\ row = Nothing

Changes(k, v) ==
    /\ real' = [real EXCEPT ![k] = v]
    /\ since' = [since EXCEPT ![k] = @ \cup {v}]
    /\ Cardinality({j \in Props : Cardinality(since'[j]) > 1}) <= MaxDrift
    /\ UNCHANGED <<phase, listedValue, unread, merged, dropped, unseen, missing, empty, row>>

-----------------------------------------------------------------------------
(* The list, with the values of some properties. *)
ListDevices ==
    /\ phase \in {"idle", "done"}
    /\ phase' = "groups"
    /\ \E known \in SUBSET Props :
         listedValue' = [k \in Props |-> IF k \in known THEN real[k] ELSE Nil]
    /\ since' = [k \in Props |-> {real[k]}]
    /\ unread' = Groups
    /\ merged' = Nothing
    /\ dropped' = {}
    /\ empty' = {}
    /\ row' = Nothing
    /\ UNCHANGED <<real, unseen, missing>>

(* What a read of the properties of asked may answer: nothing of a device whose  *)
(* result has another code than 200, and of a property its value, null or nothing. *)
Answers(asked) ==
    {dict \in Reads : \A k \in Props : dict[k] \in IF k \in asked THEN {real[k], Nil, Null} ELSE {Nil}}

Update(dict, by) == [k \in Props |-> IF by[k] = Nil THEN dict[k] ELSE by[k]]

GroupRead(g) ==
    /\ phase = "groups"
    /\ g \in unread
    /\ unread' = unread \ {g}
    /\ \E answer \in Answers({k \in Props : GroupOf[DeviceOf[k]] = g}) : merged' = Update(merged, answer)
    /\ UNCHANGED <<real, since, phase, listedValue, dropped, unseen, missing, empty, row>>

(* Any error but a refused token: `continue`. *)
GroupFails(g) ==
    /\ phase = "groups"
    /\ g \in unread
    /\ unread' = unread \ {g}
    /\ UNCHANGED <<real, since, phase, listedValue, merged, dropped, unseen, missing, empty, row>>

GroupsDone ==
    /\ phase = "groups"
    /\ unread = {}
    /\ phase' = "channels"
    /\ unseen' = Owners
    /\ UNCHANGED <<real, since, listedValue, unread, merged, dropped, missing, empty, row>>

-----------------------------------------------------------------------------
(* The sub-devices, one device after the other. *)

(* _indexed_subdevice_missing_properties: null is a value here. *)
DeviceBegins(d) ==
    /\ phase = "channels"
    /\ missing = {}
    /\ d \in unseen
    /\ unseen' = unseen \ {d}
    /\ missing' = {k \in Of(d) \cap Channels : merged[k] = Nil /\ listedValue[k] = Nil}
    /\ UNCHANGED <<real, since, phase, listedValue, unread, merged, dropped, empty, row>>

(* What a channel answers is merged into the dict that the loop holds, ...     *)
ChannelRead(k, v) ==
    /\ k \in missing
    /\ v \in {real[k], Null}
    /\ missing' = missing \ {k}
    /\ merged' = [merged EXCEPT ![k] = v]
    /\ UNCHANGED <<real, since, phase, listedValue, unread, dropped, unseen, empty, row>>

(* ... which an answer without any value takes out of values_by_device as long  *)
(* as it holds nothing; a later answer then goes into a dict nobody reads.      *)
ChannelEmpty(k) ==
    /\ k \in missing
    /\ missing' = missing \ {k}
    /\ empty' = empty \cup {DeviceOf[k]}
    /\ dropped' = IF \A j \in Of(DeviceOf[k]) : merged[j] = Nil
                  THEN dropped \cup {DeviceOf[k]} ELSE dropped
    /\ UNCHANGED <<real, since, phase, listedValue, unread, merged, unseen, row>>

(* Mutant: a failed read takes the dict out as well. *)
MutChannelFails(k) ==
    /\ k \in missing
    /\ missing' = missing \ {k}
    /\ dropped' = IF \A j \in Of(DeviceOf[k]) : merged[j] = Nil
                  THEN dropped \cup {DeviceOf[k]} ELSE dropped
    /\ UNCHANGED <<real, since, phase, listedValue, unread, merged, unseen, empty, row>>

ChannelFails(k) ==
    /\ k \in missing
    /\ missing' = missing \ {k}
    /\ UNCHANGED <<real, since, phase, listedValue, unread, merged, dropped, unseen, empty, row>>

(* The token is refused, whatever is read. *)
TokenRefused ==
    /\ phase \in {"groups", "channels"}
    /\ phase' = "idle"
    /\ unread' = {}
    /\ unseen' = {}
    /\ missing' = {}
    /\ UNCHANGED <<real, since, listedValue, merged, dropped, empty, row>>

(* _merge_property_values and normalize: what was read goes before what was     *)
(* listed, but for a sub-device's own listed value, which is laid over it.      *)
RowOf(k) ==
    LET read == IF DeviceOf[k] \notin dropped /\ merged[k] \in Vals THEN merged[k] ELSE Nil
    IN  IF listedValue[k] # Nil /\ (k \in Channels \/ read = Nil) THEN listedValue[k] ELSE read

Return ==
    /\ phase = "channels"
    /\ unseen = {}
    /\ missing = {}
    /\ phase' = "done"
    /\ row' = [k \in Props |-> RowOf(k)]
    /\ UNCHANGED <<real, since, listedValue, unread, merged, dropped, unseen, missing, empty>>

NextHydration ==
    \/ \E k \in Props, v \in Vals : Changes(k, v)
    \/ ListDevices
    \/ \E g \in Groups : GroupRead(g) \/ GroupFails(g)
    \/ GroupsDone
    \/ \E d \in Owners : DeviceBegins(d)
    \/ \E k \in Channels :
         \/ \E v \in Vals \cup {Null} : ChannelRead(k, v)
         \/ ChannelEmpty(k)
         \/ ChannelFails(k)
    \/ TokenRefused
    \/ Return

SpecHydration == InitHydration /\ [][NextHydration]_hydrationVars

-----------------------------------------------------------------------------
(* Properties *)

(* The row is not stale and not mixed up: each of its values is one that the    *)
(* property itself has had since the list was read, through reads at different  *)
(* moments, of groups and of channels, that answer in part or not at all.       *)
RowWasReal ==
    phase = "done" => \A k \in Props : row[k] # Nil => row[k] \in since[k]

(* "merges successful results back into the rows" (property_hydration.py:133):  *)
(* no failed or empty read costs the value another read has given.             *)
AnswersKept ==
    phase = "done" => \A k \in Given(merged) : row[k] # Nil

(* The same, but for a device of which a sub-device's answer had no entry.      *)
AnswersKeptUnlessEmpty ==
    phase = "done" => \A k \in Given(merged) : DeviceOf[k] \notin empty => row[k] # Nil

(* The row that a poll returns is the device's, and complete as far as it was    *)
(* answered.                                                                 *)
RowSound == RowWasReal /\ AnswersKeptUnlessEmpty

-----------------------------------------------------------------------------
(* The inductive invariant behind RowSound. *)

(* What was read and listed is what the devices had since, and so is what they have now; *)
(* what is dropped belongs to a device one of whose answers had no entry.    *)
AnswersInv ==
    /\ phase # "idle" =>
         \A k \in Props :
            /\ real[k] \in since[k]
            /\ merged[k] \in Vals => merged[k] \in since[k]
            /\ listedValue[k] # Nil => listedValue[k] \in since[k]
    /\ missing # {} => phase = "channels"
    /\ dropped \subseteq empty
    /\ phase = "done" => \A k \in Props : row[k] = RowOf(k)

HydrationInv == HydrationTypeOK /\ AnswersInv
=============================================================================
