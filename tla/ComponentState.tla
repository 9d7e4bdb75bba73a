--------------------------- MODULE ComponentState ---------------------------
(***************************************************************************)
(* One property of the components of one device, on its way from the device  *)
(* to the entity and back.                                                  *)
(*                                                                         *)
(* A device of several components, a gateway of two thermostats say, names   *)
(* a property by the component's index and the property ("1-actt"); a device  *)
(* of one component by the property alone ("actt").  The payload's params is  *)
(* a Python dict of such keys.  The canonical instance, from which entities   *)
(* are projected, holds one state per component; it is rebuilt from params      *)
(* when the payload has the product's official schema, and updated in place   *)
(* when its product model was inferred from the payload.  The raw number is   *)
(* not the actual value: the schema's zoom and scale convert it.            *)
(*                                                                         *)
(* Who may write, and when, is DeviceState's subject.  Here every change of   *)
(* the device is reported at once, and a command is a single step.          *)
(***************************************************************************)
EXTENDS Naturals, FiniteSets

CONSTANTS
    Fleet,       \* the devices, one of which exists in each behaviour
    Parts,       \* the numbers of components, from 1
    Indices,     \* the indices a component can have, natural numbers from 1
    Numbers,     \* the raw values of the property, and those a user may ask for
    Unit,        \* shown values are counted in fractions 1/Unit
    Unknown      \* a key that is not in the dict

Plain == 0       \* the key that is the property's name alone
PropKeys  == {Plain} \cup Indices

(* A device: does the payload hold the official schema, does the device name  *)
(* its properties by index, which platform reads the property ("climate" and   *)
(* "cover", or "sensor" and the others), may it be written, and the index,     *)
(* zoom and scale of each component.                                         *)
Devices ==
    [official : BOOLEAN, indexed : BOOLEAN, reader : {"climate", "sensor"}, writable : BOOLEAN,
     parts : SUBSET Parts, index : [Parts -> PropKeys],
     zoom : {"divide", "keep", "multiply"}, scale : Nat \ {0}]

ASSUME NumbersAssumption ==
    /\ Numbers \subseteq Nat
    /\ Unknown \notin Nat
    /\ Unit \in Nat \ {0}

ASSUME KeysAssumption ==
    /\ Parts \subseteq Nat \ {0}
    /\ Indices \subseteq Nat \ {0}
    /\ IsFiniteSet(Indices)

(* Components with an index have different ones, and a device that has several *)
(* components, or none without an index, can name each of them.               *)
ASSUME FleetAssumption ==
    /\ Fleet \subseteq Devices
    /\ \A d \in Fleet :
         /\ d.parts # {}
         /\ \A c, e \in d.parts : c # e => d.index[c] # d.index[e]
         /\ d.indexed \/ \E c \in d.parts : d.parts = {c}
         /\ d.indexed => \A c \in d.parts : d.index[c] # Plain

VARIABLES
    product,     \* the device, as its product describes it
    raw,         \* what the property is on the device, per component
    compParams,  \* payload["params"]
    compOverrides, \* RuntimeStateStore._overrides[device_id]["params"]
    state,       \* the state of each component of payload["ha_device_instance"]
    wanted       \* history: what the user asked for last, Unknown once the device has moved on

compVars == <<product, raw, compParams, compOverrides, state, wanted>>

Single == \E c \in product.parts : product.parts = {c}

-----------------------------------------------------------------------------
(* Python dicts: the values, and the order in which the keys were inserted. *)

EmptyDict == [val |-> [k \in PropKeys |-> Unknown], rank |-> [k \in PropKeys |-> 0]]

Held(d) == {k \in PropKeys : d.val[k] # Unknown}

Dicts == [val : [PropKeys -> Numbers \cup {Unknown}], rank : [PropKeys -> Nat]]

(* d.update(e): a key that d has keeps its place, the others come after. *)
Updated(d, e) ==
    [val  |-> [k \in PropKeys |-> IF e.val[k] = Unknown THEN d.val[k] ELSE e.val[k]],
     rank |-> [k \in PropKeys |-> IF k \in Held(d) \/ k \notin Held(e) THEN d.rank[k]
                              ELSE Cardinality(Held(d)) + e.rank[k]]]

Entry(key, v) ==
    [val  |-> [k \in PropKeys |-> IF k = key THEN v ELSE Unknown],
     rank |-> [k \in PropKeys |-> IF k = key THEN 1 ELSE 0]]

-----------------------------------------------------------------------------
(* PropKeys *)

(* The key under which the device names the property of component c. *)
DeviceKey(c) == IF product.indexed THEN product.index[c] ELSE Plain

(* The number at the end of the component's identifier.  The official schema   *)
(* numbers the components of a category only when there are several; the       *)
(* inferred model numbers every sub-device.                                  *)
Suffix(c) ==
    IF (product.official \/ ~product.indexed) /\ Single THEN Plain ELSE product.index[c]

(* Mutant: the index is left out of every command. *)
MutControlKey(c) == Plain

(* The key that a command to c writes: "{number}-{property}", or the property. *)
ControlKey(c) == Suffix(c)

(* The components whose property the key names, as the payload is read ...     *)
Named(key) ==
    IF key = Plain THEN {c \in product.parts : Single}
    ELSE {c \in product.parts : product.index[c] = key}

(* ... and on the device: a key without index reaches the only component.     *)
Reached(key) == Named(key)

-----------------------------------------------------------------------------
(* From params to the canonical instance *)

(* The actual value of a raw number, in units. *)
Actual(v) ==
    IF product.zoom = "keep" \/ product.scale = 1 THEN v * Unit
    ELSE IF product.zoom = "multiply" THEN v * product.scale * Unit
    ELSE (v * Unit) \div product.scale

(* The rebuilt state: the keys in the dict's order, each overwriting the last. *)
Hydrated(d) ==
    [c \in Parts |->
        LET keys == {k \in Held(d) : c \in Named(k)}
        IN  IF keys = {} THEN Unknown
            ELSE LET last == CHOOSE k \in keys : \A j \in keys : d.rank[j] <= d.rank[k]
                 IN  Actual(d.val[last])]

(* The state updated in place: by index or identifier, a plain key wherever    *)
(* the property is known; the number is taken as it is.                      *)
MergedState(key, v) ==
    [c \in Parts |->
        IF /\ c \in product.parts
           /\ IF key = Plain THEN state[c] # Unknown \/ Single
              ELSE product.index[c] = key \/ Suffix(c) = key
        THEN v * Unit ELSE state[c]]

(* store_update: into the overrides and the loaded payload. *)
StoreComponent(key, v) ==
    /\ compOverrides' = Updated(compOverrides, Entry(key, v))
    /\ compParams' = Updated(compParams, Entry(key, v))
    /\ state' = IF product.official THEN Hydrated(compParams') ELSE MergedState(key, v)

(* What a request for the device's row returns: the properties it knows. *)
Row(known) ==
    [val  |-> [k \in PropKeys |-> IF \E c \in known : DeviceKey(c) = k
                                  THEN raw[CHOOSE c \in known : DeviceKey(c) = k] ELSE Unknown],
     rank |-> [k \in PropKeys |-> IF \E c \in known : DeviceKey(c) = k
                                  THEN CHOOSE c \in known : DeviceKey(c) = k ELSE 0]]

-----------------------------------------------------------------------------
(* From the instance to the entity *)

(* The entity of component c: climate and cover look the control key up in     *)
(* the params overlaid by the component's state, the others in that state      *)
(* first.                                                                    *)
Shown(c) ==
    LET key  == ControlKey(c)
        byKey(k) == IF k \in Held(compParams) THEN compParams.val[k] * Unit ELSE Unknown
    IN  IF product.reader = "climate" /\ key # Plain /\ byKey(key) # Unknown THEN byKey(key)
        ELSE IF state[c] # Unknown THEN state[c]
        ELSE IF product.reader = "climate" \/ key = Plain THEN byKey(Plain)
        ELSE byKey(key)

-----------------------------------------------------------------------------
(* The steps *)

(* A new coordinator reads the device for the first time. *)
InitComponents ==
    /\ product \in Fleet
    /\ raw \in [Parts -> Numbers]
    /\ compOverrides = EmptyDict
    /\ \E known \in SUBSET product.parts : compParams = Row(known)
    /\ state = Hydrated(compParams)
    /\ wanted = [c \in Parts |-> Unknown]

(* The device changes, and reports the change. *)
Report(c, v) ==
    /\ raw' = [raw EXCEPT ![c] = v]
    /\ wanted' = [wanted EXCEPT ![c] = Unknown]
    /\ StoreComponent(DeviceKey(c), v)
    /\ UNCHANGED product

(* The entity of c asks for v, and the device takes what the command says.    *)
Command(c, v) ==
    /\ product.writable
    /\ raw' = [e \in Parts |-> IF e \in Reached(ControlKey(c)) THEN v ELSE raw[e]]
    /\ wanted' = [wanted EXCEPT ![c] = v]
    /\ StoreComponent(ControlKey(c), v)
    /\ UNCHANGED product

(* A poll replaces the payload and lays the overrides over it. *)
Poll(known) ==
    /\ compParams' = Updated(Row(known), compOverrides)
    /\ state' = Hydrated(compParams')
    /\ UNCHANGED <<product, raw, compOverrides, wanted>>

(* The entry is reloaded: a new coordinator, without overrides. *)
ReloadDevice(known) ==
    /\ compOverrides' = EmptyDict
    /\ compParams' = Row(known)
    /\ state' = Hydrated(compParams')
    /\ UNCHANGED <<product, raw, wanted>>

NextComponents ==
    \/ \E c \in product.parts, v \in Numbers : Report(c, v) \/ Command(c, v)
    \/ \E known \in SUBSET product.parts : Poll(known) \/ ReloadDevice(known)

SpecComponents == InitComponents /\ [][NextComponents]_compVars

-----------------------------------------------------------------------------
(* Properties *)

ComponentsTypeOK ==
    /\ product \in Fleet
    /\ raw \in [Parts -> Numbers]
    /\ compParams \in Dicts
    /\ compOverrides \in Dicts
    /\ state \in [Parts -> Nat \cup {Unknown}]
    /\ wanted \in [Parts -> Numbers \cup {Unknown}]

(* An entity shows the actual value of its own component, or that it does not   *)
(* know it: through polls that know only some properties, reports, commands,    *)
(* and the overrides laid over every later poll, no other component's value,    *)
(* no older value, and no raw number.                                         *)
ShownIsActual ==
    \A c \in product.parts : Shown(c) \in {Unknown, Actual(raw[c])}

(* What the user asked for is what the component takes, until it moves on.      *)
WantedIsTaken ==
    \A c \in product.parts : wanted[c] # Unknown => Actual(raw[c]) = wanted[c] * Unit

(* Reading and writing agree on which component a key names and on what its      *)
(* number means.                                                            *)
ComponentsAgree == ShownIsActual /\ WantedIsTaken

(* For which devices that is: a device that names its properties by index must    *)
(* not have the official schema and one component alone, as then the commands     *)
(* leave the index out, ...                                                  *)
KeysAgree(d) == ~(d.official /\ d.indexed /\ \E c \in d.parts : d.parts = {c})

(* ... and a number that is not the actual value may only be read, by way of the   *)
(* official schema and the component's state.                                 *)
NumbersAgree(d) ==
    \/ d.zoom = "keep" \/ d.scale = 1
    \/ d.official /\ ~d.writable /\ (d.reader = "sensor" \/ ~d.indexed)

FleetAgrees == \A d \in Fleet : KeysAgree(d) /\ NumbersAgree(d)
=============================================================================
