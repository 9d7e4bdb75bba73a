----------------------------- MODULE NodeRouting -----------------------------
(***************************************************************************)
(* Which node an update of properties reaches.                              *)
(*                                                                         *)
(* The coordinator keeps devices and gateways in dicts, groups, rooms, areas  *)
(* and houses in lists.  The number of a node is unique among the nodes of    *)
(* its type only, the node in an update may be named by several fields at     *)
(* once (a row number as `id` beside the node's `resId`, or the room a device  *)
(* is in), the type may be left out, and the node need not be loaded.  The     *)
(* override store, which outlives every reload, has nothing but the number.   *)
(*                                                                         *)
(* An update has one property here; what it says is the update itself.         *)
(***************************************************************************)
EXTENDS Naturals, FiniteSets

CONSTANTS
    Nodes,       \* the nodes of the house
    KindOf,      \* the collection of the coordinator that lists the node
    IdOf,        \* its number
    NodeUpdates,      \* the updates that may come
    Untyped,     \* the type of an update without nt
    NoFrame,     \* no update
    MaxUpdates,  \* bound: updates and commands
    MaxMissing   \* bound: nodes that a reload leaves out

NodeLists == {"groups", "rooms", "areas", "houses"}
Kinds     == NodeLists \cup {"devices", "gateways"}

(* A gateway is a node of the same type as a device. *)
TypeOf(n) == IF KindOf[n] \in NodeLists THEN KindOf[n] ELSE "devices"

Ids == {IdOf[n] : n \in Nodes} \cup UNION {DOMAIN f.fields : f \in NodeUpdates}

ASSUME NodesAssumption ==
    /\ KindOf \in [Nodes -> Kinds]
    /\ \A m, n \in Nodes : TypeOf(m) = TypeOf(n) /\ IdOf[m] = IdOf[n] => m = n

(* fields: the numbers that an update names, each with the first field that     *)
(* names it: an alias of the node's own ("id"), or the list that a relation such *)
(* as roomId points to.  id: the number that comes first.  about: the node that  *)
(* sent it, which one of the fields names; it has no relation to another node of   *)
(* its type.                                                                 *)
ASSUME UpdatesAssumption ==
    /\ NoFrame \notin NodeUpdates
    /\ Untyped \notin Kinds \cup {"id", "gateway"}
    /\ \A f \in NodeUpdates :
         /\ f.about \in Nodes
         /\ f.type \in {TypeOf(f.about), Untyped}
         /\ f.id \in DOMAIN f.fields
         /\ \A i \in DOMAIN f.fields : f.fields[i] \in NodeLists \cup {"id", "gateway"}
         /\ IdOf[f.about] \in DOMAIN f.fields
         /\ f.fields[IdOf[f.about]] \in {"id", TypeOf(f.about)}
         /\ \A i \in DOMAIN f.fields : f.fields[i] = TypeOf(f.about) => i = IdOf[f.about]

ASSUME MaxUpdatesAssumption == MaxUpdates \in Nat

VARIABLES
    placed,      \* the nodes that the coordinator has loaded
    says,        \* the update that each node's payload or row shows, if any
    kept,        \* RuntimeStateStore._overrides: the update kept for each number
    updates,     \* how many there have been
    told         \* history: the last update that should be seen of each node

routeVars == <<placed, says, kept, updates, told>>

(* A command to a device counts as an update about it. *)
CommandTo(n) ==
    [about |-> n, type |-> "devices", id |-> IdOf[n], fields |-> [i \in {IdOf[n]} |-> "id"]]

Updates == NodeUpdates \cup {CommandTo(n) : n \in {m \in Nodes : TypeOf(m) = "devices"}}

NodeRoutingTypeOK ==
    /\ placed \subseteq Nodes
    /\ says \in [Nodes -> Updates \cup {NoFrame}]
    /\ kept \in [Ids -> Updates \cup {NoFrame}]
    /\ updates \in 0 .. MaxUpdates
    /\ told \in [Nodes -> Updates \cup {NoFrame}]

InitNodes ==
    /\ placed = Nodes
    /\ says = [n \in Nodes |-> NoFrame]
    /\ kept = [i \in Ids |-> NoFrame]
    /\ updates = 0
    /\ told = [n \in Nodes |-> NoFrame]

-----------------------------------------------------------------------------
(* The node that is meant *)

At(i)       == {n \in placed : IdOf[n] = i}
Matching(i) == {KindOf[n] : n \in At(i)}

(* node_type_collections: all of them when there is no type. *)
Collections(type) ==
    CASE type = "devices" -> {"devices", "gateways"}
      [] type = Untyped   -> Kinds
      [] OTHER            -> {type}

(* Mutant: a relation is as good as a number of the node's own. *)
MutFits(f, i) ==
    \/ Matching(i) \cap Collections(f.type) # {}
    \/ f.fields[i] \in Matching(i)

(* candidate_matches_node_type: a relation counts only when it points to a node  *)
(* of the update's type.                                                     *)
Fits(f, i) ==
    IF f.fields[i] = "id" THEN Matching(i) \cap Collections(f.type) # {}
    ELSE f.fields[i] = f.type /\ f.type \in Matching(i)

(* _resolve_update_node: the number that fits, if it is the only one; else the    *)
(* first.  (That the first fits goes before another that does only where both      *)
(* do, and then there is no only one.)                                         *)
Resolved(f) ==
    IF \E i \in DOMAIN f.fields : {j \in DOMAIN f.fields : Fits(f, j)} = {i}
    THEN CHOOSE i \in DOMAIN f.fields : Fits(f, i)
    ELSE f.id

(* _is_group_update, _topology_node_collection: the list an update is for, none    *)
(* when it is for a device.                                                  *)
ListsFor(f, matched) ==
    IF f.type = "groups" \/ matched = {"groups"} THEN {"groups"}
    ELSE IF f.type \in NodeLists THEN {f.type}
    ELSE {k \in NodeLists : matched = {k}}

-----------------------------------------------------------------------------
(* Updates, commands, reloads *)

ShownBy(f, i, kinds) ==
    says' = [n \in Nodes |-> IF n \in At(i) /\ KindOf[n] \in kinds THEN f ELSE says[n]]

(* A report is to be seen when its node is loaded, and of a device also later,    *)
(* if its number comes first.                                                 *)
Heeded(f) ==
    \/ f.about \in placed
    \/ KindOf[f.about] = "devices" /\ f.id = IdOf[f.about]

(* apply_property_updates: what is for no list is kept under its number, loaded   *)
(* or not, and shown by the device, the gateway and the group of that number.    *)
Receive(f) ==
    LET i    == Resolved(f)
        list == ListsFor(f, Matching(i))
    IN  /\ updates < MaxUpdates
        /\ updates' = updates + 1
        /\ IF list # {}
           THEN ShownBy(f, i, list) /\ UNCHANGED kept
           ELSE /\ kept' = [kept EXCEPT ![i] = f]
                /\ ShownBy(f, i, {"devices", "gateways", "groups"})
        /\ told' = IF Heeded(f) THEN [told EXCEPT ![f.about] = f] ELSE told
        /\ UNCHANGED placed

(* async_control_device, answered: kept and shown as a report is, but by no group. *)
Control(n) ==
    /\ updates < MaxUpdates
    /\ n \in placed
    /\ TypeOf(n) = "devices"
    /\ updates' = updates + 1
    /\ kept' = [kept EXCEPT ![IdOf[n]] = CommandTo(n)]
    /\ ShownBy(CommandTo(n), IdOf[n], {"devices", "gateways"})
    /\ told' = [told EXCEPT ![n] = CommandTo(n)]
    /\ UNCHANGED placed

(* Mutant: nothing of what is kept is shown. *)
MutLoadDevices(ns) ==
    /\ placed' = {n \in placed : TypeOf(n) # "devices"} \cup ns
    /\ says' = [n \in Nodes |-> IF TypeOf(n) = "devices" THEN NoFrame ELSE says[n]]
    /\ told' = [n \in Nodes |-> IF KindOf[n] = "gateways" THEN NoFrame ELSE told[n]]
    /\ UNCHANGED <<kept, updates>>

(* build_runtime_payloads: new payloads, in which devices, but not gateways,      *)
(* show what is kept.                                                        *)
LoadDevices(ns) ==
    /\ placed' = {n \in placed : TypeOf(n) # "devices"} \cup ns
    /\ says' = [n \in Nodes |-> IF TypeOf(n) # "devices" THEN says[n]
                             ELSE IF n \in ns /\ KindOf[n] = "devices" THEN kept[IdOf[n]]
                             ELSE NoFrame]
    /\ told' = [n \in Nodes |-> IF KindOf[n] = "gateways" THEN NoFrame ELSE told[n]]
    /\ UNCHANGED <<kept, updates>>

(* New lists, as they were fetched. *)
LoadLists(ns) ==
    /\ placed' = {n \in placed : TypeOf(n) = "devices"} \cup ns
    /\ says' = [n \in Nodes |-> IF KindOf[n] \in NodeLists THEN NoFrame ELSE says[n]]
    /\ told' = [n \in Nodes |-> IF KindOf[n] \in NodeLists THEN NoFrame ELSE told[n]]
    /\ UNCHANGED <<kept, updates>>

(* _apply_lan_topology_to_coordinator: all lists and the devices at once; gateways  *)
(* stay as they are.                                                         *)
LoadTopology(ns) ==
    /\ placed' = {n \in placed : KindOf[n] = "gateways"} \cup ns
    /\ says' = [n \in Nodes |-> IF KindOf[n] = "gateways" THEN says[n]
                             ELSE IF n \in ns /\ KindOf[n] = "devices" THEN kept[IdOf[n]]
                             ELSE NoFrame]
    /\ told' = [n \in Nodes |-> IF KindOf[n] \in NodeLists THEN NoFrame ELSE told[n]]
    /\ UNCHANGED <<kept, updates>>

(* A reload may leave out what is filtered, gone or not there yet. *)
SomeOf(kinds) ==
    LET ns == {n \in Nodes : KindOf[n] \in kinds}
    IN  {some \in SUBSET ns : Cardinality(ns \ some) <= MaxMissing}

NextNodes ==
    \/ \E f \in NodeUpdates : Receive(f)
    \/ \E n \in Nodes : Control(n)
    \/ \E ns \in SomeOf({"devices", "gateways"}) : LoadDevices(ns)
    \/ \E ns \in SomeOf(NodeLists) : LoadLists(ns)
    \/ \E ns \in SomeOf(NodeLists \cup {"devices"}) : LoadTopology(ns)

SpecNodes == InitNodes /\ [][NextNodes]_routeVars

-----------------------------------------------------------------------------
(* Properties *)

(* The numbers of the node's own that an update has, and the one that comes first. *)
OwnIds(f) == {i \in DOMAIN f.fields : f.fields[i] = "id"} \cup {f.id, IdOf[f.about]}

(* May node n show the update f of another node?                               *)
(* It must have one of the update's own numbers: a node that is merely related   *)
(* to the sender never shows what the sender says.  If the update has a type,      *)
(* then n is a group (the store and a lone match reach groups, whatever the type);  *)
(* or n is of that type too, and has a row number; or the update is a device's.     *)
Confused(f, n) ==
    /\ IdOf[n] \in OwnIds(f)
    /\ \/ f.type = Untyped
       \/ KindOf[n] = "groups"
       \/ f.type = TypeOf(n)
       \/ f.type = "devices"

(* No node shows what another one reported, but for the mix-ups that a shared     *)
(* number makes; in particular no device ever shows a typed update of a group,     *)
(* room, area or house, not even after reloads, when the override store, which     *)
(* knows numbers only, fills its payload.                                     *)
NoCrossTalk ==
    \A n \in placed : says[n] # NoFrame => (says[n].about = n \/ Confused(says[n], n))

(* The update cannot be taken for another node's: none of its numbers but its      *)
(* node's is another node's own; and without a type, a relation is not all it has.  *)
Clear(f) ==
    /\ \A i \in OwnIds(f) \ {IdOf[f.about]} : \A m \in Nodes : IdOf[m] # i
    /\ f.type = Untyped => f.fields[IdOf[f.about]] = "id"

(* Nobody else has the number, or names it as its own. *)
Unmistakable(n) ==
    /\ \A m \in Nodes \ {n} : IdOf[m] # IdOf[n]
    /\ \A f \in NodeUpdates : IF f.about = n THEN Clear(f) ELSE IdOf[n] \notin OwnIds(f)

(* A node that cannot be mistaken shows its last report, whatever else is          *)
(* reported and loaded in between; a device also the one that came while it was    *)
(* not loaded.                                                              *)
OwnReportShown ==
    \A n \in placed : Unmistakable(n) => says[n] = told[n]
=============================================================================
