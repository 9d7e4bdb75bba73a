---------------------------- MODULE ReadingProofs ----------------------------
(***************************************************************************)
(* A reading reaches its node (NodeRouting), its component (ComponentState),   *)
(* the row of the auxiliary lists (NodeRows) and the row of a poll            *)
(* (PropertyHydration).                                                     *)
(*                                                                         *)
(* Components: reading and writing agree, for every fleet without the devices   *)
(* that ComponentState!FleetAgrees names.  The argument: the key of a component  *)
(* names it alone, and every key that is held is a component's key, under which *)
(* lies that component's number; so what is rebuilt from the keys, in whatever  *)
(* order, is each component's own value.                                     *)
(*                                                                         *)
(* Nodes: an update is resolved to one of its own numbers, so that the node      *)
(* found there is the sender or one that shares a number with it; and what the  *)
(* override store keeps is never a typed update of a list's node, so that no     *)
(* reload can put one into a device.                                         *)
(*                                                                         *)
(* Lists: the last message of a property tells its value, and with none on its    *)
(* way the loaded row tells it, as does a row that was fetched, but for the      *)
(* properties with news since; a list that is put back when another is loaded     *)
(* knows nothing.                                                           *)
(*                                                                         *)
(* Rows: whatever has been read or listed is a value the property has had since   *)
(* the list was read, whoever reads it and when; and a device's answers are     *)
(* dropped only after one of them had no entry.                              *)
(***************************************************************************)
EXTENDS ComponentState, NodeRouting, NodeRows, PropertyHydration, FiniteSetTheorems, TLAPS

(* Every number that the dict d holds is the one, among the numbers r, of the      *)
(* component whose key it has.                                                *)
Real(d, r) ==
    \A k \in Held(d) : \E c \in product.parts : DeviceKey(c) = k /\ d.val[k] = r[c]

(* The state of a component is its actual value, and not missing if its number    *)
(* is there and the state is rebuilt.                                         *)
StateReal(s, d, r) ==
    \A c \in product.parts :
        /\ s[c] \in {Unknown, Actual(r[c])}
        /\ product.official /\ DeviceKey(c) \in Held(d) => s[c] = Actual(r[c])

WantedReal ==
    \A c \in product.parts :
        wanted[c] # Unknown => product.writable /\ wanted[c] = raw[c]

(* The variables' types, as far as the argument needs them. *)
Typed ==
    /\ product \in Fleet
    /\ raw \in [Parts -> Numbers]
    /\ compParams \in Dicts
    /\ compOverrides \in Dicts
    /\ state = [c \in Parts |-> state[c]]
    /\ wanted \in [Parts -> Numbers \cup {Unknown}]

IndInv ==
    /\ Typed
    /\ Real(compParams, raw) /\ Real(compOverrides, raw)
    /\ StateReal(state, compParams, raw)
    /\ WantedReal

-----------------------------------------------------------------------------
(* The device. *)

(* What FleetAssumption says of the device there is. *)
LEMMA ProductFacts ==
    ASSUME product \in Fleet
    PROVE  /\ product.parts \subseteq Parts
           /\ \A c \in Parts : product.index[c] \in PropKeys
           /\ product.scale \in Nat \ {0}
           /\ product.zoom \in {"divide", "keep", "multiply"}
           /\ product.official \in BOOLEAN /\ product.indexed \in BOOLEAN
           /\ product.writable \in BOOLEAN
           /\ product.reader \in {"climate", "sensor"}
           /\ \A c, e \in product.parts : c # e => product.index[c] # product.index[e]
           /\ ~product.indexed => Single
           /\ product.indexed => \A c \in product.parts : product.index[c] # Plain
  BY FleetAssumption DEF Devices, Single

(* The key of a component names that component alone, and a command uses it. *)
LEMMA KeyNames ==
    ASSUME product \in Fleet, FleetAgrees, NEW c \in product.parts
    PROVE  /\ DeviceKey(c) \in PropKeys
           /\ Named(DeviceKey(c)) = {c}
           /\ ControlKey(c) = DeviceKey(c)
           /\ \A e \in product.parts : DeviceKey(e) = DeviceKey(c) => e = c
<1>1. CASE ~product.indexed
  <2>1. product.parts = {c}
    BY <1>1, ProductFacts DEF Single
  <2> QED
    BY <1>1, <2>1, ProductFacts DEF DeviceKey, Named, ControlKey, Suffix, Single, Plain, PropKeys
<1>2. CASE product.indexed
  <2>1. ~(product.official /\ Single)
    BY <1>2 DEF FleetAgrees, KeysAgree, Single
  <2>2. DeviceKey(c) = product.index[c] /\ product.index[c] # Plain
    BY <1>2, ProductFacts DEF DeviceKey
  <2>3. Named(DeviceKey(c)) = {c}
    BY <2>2, ProductFacts DEF Named
  <2>4. ControlKey(c) = DeviceKey(c)
    BY <1>2, <2>1, <2>2, ProductFacts DEF ControlKey, Suffix
  <2> QED
    BY <1>2, <2>2, <2>3, <2>4, ProductFacts DEF DeviceKey
<1> QED
  BY <1>1, <1>2, ProductFacts

(* An actual value is a number. *)
LEMMA ActualNat ==
    ASSUME product \in Fleet, NEW v \in Numbers
    PROVE  Actual(v) \in Nat
<1>1. v \in Nat /\ Unit \in Nat
  BY NumbersAssumption
<1>2. v * Unit \in Nat
  BY <1>1
<1>3. \A n \in Nat, s \in Nat \ {0} : n \div s \in Nat
  OBVIOUS
<1>4. v * product.scale * Unit \in Nat
  BY <1>1, ProductFacts
<1>5. (v * Unit) \div product.scale \in Nat
  BY <1>2, <1>3, ProductFacts
<1> QED
  BY <1>2, <1>4, <1>5 DEF Actual

-----------------------------------------------------------------------------
(* Dicts. *)

(* There are finitely many keys. *)
LEMMA HeldFinite == ASSUME NEW d PROVE Cardinality(Held(d)) \in Nat
<1>1. IsFiniteSet(PropKeys)
  BY KeysAssumption, FS_Singleton, FS_Union DEF PropKeys
<1> QED
  BY <1>1, FS_Subset, FS_CardinalityType DEF Held

(* What update makes of two dicts. *)
LEMMA UpdatedFacts ==
    ASSUME NEW d \in Dicts, NEW e \in Dicts
    PROVE  /\ Updated(d, e) \in Dicts
           /\ \A k \in Held(Updated(d, e)) :
                \/ k \in Held(e) /\ Updated(d, e).val[k] = e.val[k]
                \/ k \notin Held(e) /\ k \in Held(d) /\ Updated(d, e).val[k] = d.val[k]
<1>1. Cardinality(Held(d)) \in Nat
  BY HeldFinite
<1>2. Updated(d, e) \in Dicts
  BY <1>1 DEF Updated, Dicts
<1> QED
  BY <1>2 DEF Updated, Dicts, Held

(* A dict of one key. *)
LEMMA EntryFacts ==
    ASSUME NEW key \in PropKeys, NEW v \in Numbers
    PROVE  /\ Entry(key, v) \in Dicts
           /\ Held(Entry(key, v)) = {key}
           /\ Entry(key, v).val[key] = v
  BY NumbersAssumption DEF Entry, Dicts, Held

(* What is rebuilt from a dict of the components' own numbers. *)
LEMMA HydratedFacts ==
    ASSUME product \in Fleet, FleetAgrees, NEW r,
           NEW d \in Dicts, Real(d, r)
    PROVE  StateReal(Hydrated(d), d, r)
<1> SUFFICES ASSUME NEW c \in product.parts
             PROVE  /\ Hydrated(d)[c] \in {Unknown, Actual(r[c])}
                    /\ DeviceKey(c) \in Held(d) => Hydrated(d)[c] = Actual(r[c])
  BY DEF StateReal
<1> DEFINE keys == {k \in Held(d) : c \in Named(k)}
<1>1. c \in Parts
  BY ProductFacts
<1>2. \A k \in Held(d) : c \in Named(k) => k = DeviceKey(c) /\ d.val[k] = r[c]
  BY KeyNames DEF Real
<1>3. DeviceKey(c) \in Held(d) => DeviceKey(c) \in keys
  BY KeyNames
<1>4. CASE keys = {}
  <2>1. Hydrated(d)[c] = Unknown
    BY <1>1, <1>4 DEF Hydrated
  <2> QED
    BY <2>1, <1>3, <1>4
<1>5. CASE keys # {}
  <2>1. keys = {DeviceKey(c)}
    BY <1>2, <1>5
  <2>2. d.rank[DeviceKey(c)] \in Nat
    BY <2>1 DEF Held, Dicts
  <2> DEFINE last == CHOOSE k \in keys : \A j \in keys : d.rank[j] <= d.rank[k]
  <2>3. last = DeviceKey(c)
    BY <2>1, <2>2
  <2>4. Hydrated(d)[c] = Actual(d.val[last])
    BY <1>1, <1>5 DEF Hydrated
  <2> QED
    BY <2>1, <2>3, <2>4, <1>2
<1> QED
  BY <1>4, <1>5

(* A row that was read holds the components' own numbers. *)
LEMMA RowFacts ==
    ASSUME product \in Fleet, FleetAgrees, raw \in [Parts -> Numbers],
           NEW known \in SUBSET product.parts
    PROVE  Row(known) \in Dicts /\ Real(Row(known), raw)
<1>1. \A k \in PropKeys : (\E c \in known : DeviceKey(c) = k) =>
          /\ (CHOOSE c \in known : DeviceKey(c) = k) \in known
          /\ DeviceKey(CHOOSE c \in known : DeviceKey(c) = k) = k
  OBVIOUS
<1>2. known \subseteq Parts /\ Parts \subseteq Nat
  BY ProductFacts, KeysAssumption
<1>3. Row(known) \in Dicts
  BY <1>1, <1>2 DEF Row, Dicts
<1>4. ASSUME NEW k \in Held(Row(known))
      PROVE  \E c \in product.parts : DeviceKey(c) = k /\ Row(known).val[k] = raw[c]
  <2>1. k \in PropKeys /\ \E c \in known : DeviceKey(c) = k
    BY <1>4 DEF Held, Row
  <2>2. Row(known).val[k] = raw[CHOOSE c \in known : DeviceKey(c) = k]
    BY <2>1 DEF Row
  <2> QED
    BY <2>1, <2>2, <1>1
<1> QED
  BY <1>3, <1>4 DEF Real

-----------------------------------------------------------------------------
(* The steps. *)

(* An update of component c's number leaves every number that is held its own. *)
LEMMA UpdatedReal ==
    ASSUME product \in Fleet, FleetAgrees, NEW c \in product.parts, NEW v \in Numbers,
           NEW r, NEW q, \A e \in product.parts : q[e] = IF e = c THEN v ELSE r[e],
           NEW d \in Dicts, Real(d, r)
    PROVE  /\ Updated(d, Entry(DeviceKey(c), v)) \in Dicts
           /\ Real(Updated(d, Entry(DeviceKey(c), v)), q)
<1> DEFINE new == Entry(DeviceKey(c), v)
<1>1. new \in Dicts /\ Held(new) = {DeviceKey(c)} /\ new.val[DeviceKey(c)] = v
  BY KeyNames, EntryFacts
<1>2. ASSUME NEW k \in Held(Updated(d, new))
      PROVE  \E e \in product.parts : DeviceKey(e) = k /\ Updated(d, new).val[k] = q[e]
  <2>1. CASE k = DeviceKey(c)
    BY <1>1, <1>2, <2>1, UpdatedFacts
  <2>2. CASE k # DeviceKey(c)
    <3>1. k \in Held(d) /\ Updated(d, new).val[k] = d.val[k]
      BY <1>1, <1>2, <2>2, UpdatedFacts
    <3>2. PICK e \in product.parts : DeviceKey(e) = k /\ d.val[k] = r[e]
      BY <3>1 DEF Real
    <3> QED
      BY <3>1, <3>2, <2>2
  <2> QED
    BY <2>1, <2>2
<1> QED
  BY <1>1, <1>2, UpdatedFacts DEF Real

(* So does the laying of one dict over another. *)
LEMMA OverlaidReal ==
    ASSUME NEW r, NEW d \in Dicts, NEW e \in Dicts, Real(d, r), Real(e, r)
    PROVE  Updated(d, e) \in Dicts /\ Real(Updated(d, e), r)
  BY UpdatedFacts DEF Real

(* Without the official schema, and where one may write, a number is its value.  *)
LEMMA Unscaled ==
    ASSUME product \in Fleet, FleetAgrees, NEW v \in Numbers,
           ~product.official \/ product.writable
    PROVE  Actual(v) = v * Unit
  BY ProductFacts DEF FleetAgrees, NumbersAgree, Actual

(* An update in place changes the state of the component named alone. *)
LEMMA MergedFacts ==
    ASSUME product \in Fleet, FleetAgrees, NEW c \in product.parts, NEW v \in Numbers,
           NEW e \in product.parts
    PROVE  MergedState(DeviceKey(c), v)[e] = IF e = c THEN v * Unit ELSE state[e]
<1>1. e \in Parts
  BY ProductFacts
<1>2. CASE ~product.indexed
  <2>1. Single /\ DeviceKey(c) = Plain /\ e = c
    BY <1>2, ProductFacts DEF DeviceKey, Single
  <2> QED
    BY <1>1, <2>1 DEF MergedState
<1>3. CASE product.indexed
  <2>1. DeviceKey(c) = product.index[c] /\ product.index[c] # Plain
    BY <1>3, ProductFacts DEF DeviceKey
  <2>2. Suffix(e) \in {Plain, product.index[e]}
    BY DEF Suffix
  <2>3. product.index[e] = DeviceKey(c) \/ Suffix(e) = DeviceKey(c) <=> e = c
    BY <2>1, <2>2, ProductFacts
  <2> QED
    BY <1>1, <2>1, <2>3 DEF MergedState
<1> QED
  BY <1>2, <1>3, ProductFacts

(* What a report and a command have in common: c has the number v by now, and the *)
(* coordinator is told of it.                                                  *)
LEMMA StoreStep ==
    ASSUME IndInv, FleetAgrees, NEW c \in product.parts, NEW v \in Numbers,
           NEW q \in [Parts -> Numbers],
           \A e \in product.parts : q[e] = IF e = c THEN v ELSE raw[e],
           StoreComponent(DeviceKey(c), v)
    PROVE  /\ compParams' \in Dicts /\ compOverrides' \in Dicts
           /\ Real(compParams', q) /\ Real(compOverrides', q)
           /\ state' = [e \in Parts |-> state'[e]]
           /\ StateReal(state', compParams', q)
<1> USE DEF IndInv, Typed
<1>1. /\ compParams' \in Dicts /\ Real(compParams', q)
      /\ compOverrides' \in Dicts /\ Real(compOverrides', q)
  <2> DEFINE given(d) == Updated(d, Entry(DeviceKey(c), v))
  <2>1. given(compParams) \in Dicts /\ Real(given(compParams), q)
    BY UpdatedReal
  <2>2. given(compOverrides) \in Dicts /\ Real(given(compOverrides), q)
    BY UpdatedReal
  <2> QED
    BY <2>1, <2>2 DEF StoreComponent
<1>2. CASE product.official
  <2>1. state' = Hydrated(compParams')
    BY <1>2 DEF StoreComponent
  <2>2. StateReal(Hydrated(compParams'), compParams', q)
    BY <1>1, HydratedFacts
  <2> QED
    BY <1>1, <2>1, <2>2 DEF Hydrated
<1>3. CASE ~product.official
  <2>1. state' = MergedState(DeviceKey(c), v)
    BY <1>3 DEF StoreComponent
  <2>2. \A e \in product.parts : state'[e] = IF e = c THEN v * Unit ELSE state[e]
    BY <2>1, MergedFacts
  <2>3. Actual(v) = v * Unit
    BY <1>3, Unscaled
  <2>4. StateReal(state', compParams', q)
    BY <1>3, <2>2, <2>3 DEF StateReal
  <2> QED
    BY <1>1, <2>1, <2>4 DEF MergedState
<1> QED
  BY <1>2, <1>3

(* The invariant of the next state, of a device that is the same. *)
LEMMA Same ==
    ASSUME product' = product, product \in Fleet, raw' \in [Parts -> Numbers],
           compParams' \in Dicts, compOverrides' \in Dicts,
           state' = [c \in Parts |-> state'[c]], wanted' \in [Parts -> Numbers \cup {Unknown}],
           Real(compParams', raw'), Real(compOverrides', raw'),
           StateReal(state', compParams', raw'),
           \A c \in product.parts :
               wanted'[c] # Unknown => product.writable /\ wanted'[c] = raw'[c]
    PROVE  IndInv'
<1>1. Typed'
  BY DEF Typed
<1>2. Real(compParams, raw)' /\ Real(compOverrides, raw)'
  BY DEF Real, DeviceKey, Held
<1>3. StateReal(state, compParams, raw)'
  BY DEF StateReal, Actual, DeviceKey, Held
<1>4. WantedReal'
  BY DEF WantedReal
<1> QED
  BY <1>1, <1>2, <1>3, <1>4 DEF IndInv

LEMMA InitIndInv == ASSUME FleetAgrees, InitComponents PROVE IndInv
<1> USE DEF InitComponents
<1>1. PICK known \in SUBSET product.parts : compParams = Row(known)
  OBVIOUS
<1>2. compParams \in Dicts /\ Real(compParams, raw)
  BY <1>1, RowFacts
<1>3. compOverrides \in Dicts /\ Real(compOverrides, raw)
  BY DEF EmptyDict, Dicts, Real, Held
<1>4. StateReal(state, compParams, raw)
  BY <1>2, HydratedFacts
<1>5. WantedReal
  BY ProductFacts DEF WantedReal
<1>6. Typed
  BY <1>2, <1>3 DEF Typed, Hydrated
<1> QED
  BY <1>2, <1>3, <1>4, <1>5, <1>6 DEF IndInv

LEMMA ReportKeeps ==
    ASSUME IndInv, FleetAgrees, NEW c \in product.parts, NEW v \in Numbers, Report(c, v)
    PROVE  IndInv'
<1> USE DEF IndInv, Typed
<1>1. raw' \in [Parts -> Numbers] /\ \A e \in product.parts : raw'[e] = IF e = c THEN v ELSE raw[e]
  BY ProductFacts DEF Report
<1>2. StoreComponent(DeviceKey(c), v)
  BY DEF Report
<1>3. /\ wanted' \in [Parts -> Numbers \cup {Unknown}]
      /\ \A e \in product.parts :
             wanted'[e] # Unknown => product.writable /\ wanted'[e] = raw'[e]
  BY <1>1, ProductFacts DEF Report, WantedReal
<1>4. product' = product
  BY DEF Report
<1>5. /\ compParams' \in Dicts /\ compOverrides' \in Dicts
      /\ Real(compParams', raw') /\ Real(compOverrides', raw')
      /\ state' = [e \in Parts |-> state'[e]]
      /\ StateReal(state', compParams', raw')
  BY <1>1, <1>2, StoreStep
<1> QED
  BY <1>1, <1>3, <1>4, <1>5, Same

LEMMA CommandKeeps ==
    ASSUME IndInv, FleetAgrees, NEW c \in product.parts, NEW v \in Numbers, Command(c, v)
    PROVE  IndInv'
<1> USE DEF IndInv, Typed
<1>1. ControlKey(c) = DeviceKey(c) /\ Reached(ControlKey(c)) = {c}
  BY KeyNames DEF Reached
<1>2. raw' \in [Parts -> Numbers] /\ \A e \in product.parts : raw'[e] = IF e = c THEN v ELSE raw[e]
  BY <1>1, ProductFacts DEF Command
<1>3. StoreComponent(DeviceKey(c), v)
  BY <1>1 DEF Command
<1>4. /\ wanted' \in [Parts -> Numbers \cup {Unknown}]
      /\ \A e \in product.parts :
             wanted'[e] # Unknown => product.writable /\ wanted'[e] = raw'[e]
  BY <1>2, ProductFacts DEF Command, WantedReal
<1>5. product' = product
  BY DEF Command
<1>6. /\ compParams' \in Dicts /\ compOverrides' \in Dicts
      /\ Real(compParams', raw') /\ Real(compOverrides', raw')
      /\ state' = [e \in Parts |-> state'[e]]
      /\ StateReal(state', compParams', raw')
  BY <1>2, <1>3, StoreStep
<1> QED
  BY <1>2, <1>4, <1>5, <1>6, Same

LEMMA PollKeeps ==
    ASSUME IndInv, FleetAgrees, NEW known \in SUBSET product.parts, Poll(known)
    PROVE  IndInv'
<1> USE DEF IndInv, Typed, Poll
<1>1. Row(known) \in Dicts /\ Real(Row(known), raw)
  BY RowFacts
<1>2. compParams' \in Dicts /\ Real(compParams', raw)
  BY <1>1, OverlaidReal
<1>3. StateReal(state', compParams', raw)
  BY <1>2, HydratedFacts
<1>4. state' = [c \in Parts |-> state'[c]]
  BY DEF Hydrated
<1> QED
  BY <1>2, <1>3, <1>4, Same DEF WantedReal

LEMMA ReloadKeeps ==
    ASSUME IndInv, FleetAgrees, NEW known \in SUBSET product.parts, ReloadDevice(known)
    PROVE  IndInv'
<1> USE DEF IndInv, Typed, ReloadDevice
<1>1. compParams' \in Dicts /\ Real(compParams', raw)
  BY RowFacts
<1>2. compOverrides' \in Dicts /\ Real(compOverrides', raw)
  BY DEF EmptyDict, Dicts, Real, Held
<1>3. StateReal(state', compParams', raw)
  BY <1>1, HydratedFacts
<1>4. state' = [c \in Parts |-> state'[c]]
  BY DEF Hydrated
<1> QED
  BY <1>1, <1>2, <1>3, <1>4, Same DEF WantedReal

(* The inductive invariant: every number held under a component's key is that     *)
(* component's, and so is every state made of them, for every fleet whose devices  *)
(* FleetAgrees admits.                                                        *)
THEOREM ComponentInvariant == ASSUME FleetAgrees PROVE SpecComponents => []IndInv
<1>1. InitComponents => IndInv
  BY InitIndInv
<1>2. IndInv /\ [NextComponents]_compVars => IndInv'
  <2> SUFFICES ASSUME IndInv, [NextComponents]_compVars PROVE IndInv'
    OBVIOUS
  <2>1. ASSUME NEW c \in product.parts, NEW v \in Numbers, Report(c, v) \/ Command(c, v)
        PROVE  IndInv'
    BY <2>1, ReportKeeps, CommandKeeps
  <2>2. ASSUME NEW known \in SUBSET product.parts, Poll(known) \/ ReloadDevice(known)
        PROVE  IndInv'
    BY <2>2, PollKeeps, ReloadKeeps
  <2>3. CASE UNCHANGED compVars
    BY <2>3, Same DEF IndInv, Typed, WantedReal, compVars
  <2> QED
    BY <2>1, <2>2, <2>3 DEF NextComponents
<1> QED
  BY <1>1, <1>2, PTL DEF SpecComponents

-----------------------------------------------------------------------------
(* What an entity shows. *)

LEMMA ShownFacts ==
    ASSUME IndInv, FleetAgrees, NEW c \in product.parts
    PROVE  Shown(c) \in {Unknown, Actual(raw[c])}
<1> USE DEF IndInv, Typed
<1> DEFINE byKey(k) == IF k \in Held(compParams) THEN compParams.val[k] * Unit ELSE Unknown
<1>1. raw[c] \in Numbers /\ Actual(raw[c]) # Unknown
  BY ProductFacts, ActualNat, NumbersAssumption
<1>2. ControlKey(c) = DeviceKey(c)
  BY KeyNames
<1>3. DeviceKey(c) \in Held(compParams) => compParams.val[DeviceKey(c)] = raw[c]
  BY KeyNames DEF Real
<1>4. DeviceKey(c) \in Held(compParams) /\ Actual(raw[c]) = raw[c] * Unit
         => byKey(DeviceKey(c)) = Actual(raw[c])
  BY <1>3
<1>5. Plain \in Held(compParams) => DeviceKey(c) = Plain
  BY ProductFacts, KeyNames DEF Real, DeviceKey, Single
<1>6. CASE product.reader = "climate" /\ DeviceKey(c) # Plain /\ byKey(DeviceKey(c)) # Unknown
  <2>1. product.indexed
    BY <1>6 DEF DeviceKey
  <2>2. Actual(raw[c]) = raw[c] * Unit
    BY <1>6, <2>1, <1>1, ProductFacts DEF FleetAgrees, NumbersAgree, Actual
  <2>3. Shown(c) = byKey(DeviceKey(c))
    BY <1>2, <1>6 DEF Shown
  <2> QED
    BY <1>4, <1>6, <2>2, <2>3
<1>7. CASE /\ ~(product.reader = "climate" /\ DeviceKey(c) # Plain /\ byKey(DeviceKey(c)) # Unknown)
           /\ state[c] # Unknown
  <2>1. Shown(c) = state[c]
    BY <1>2, <1>7 DEF Shown
  <2> QED
    BY <2>1, <1>7 DEF StateReal
<1>8. CASE /\ ~(product.reader = "climate" /\ DeviceKey(c) # Plain /\ byKey(DeviceKey(c)) # Unknown)
           /\ state[c] = Unknown
  <2>1. Shown(c) \in {byKey(Plain), byKey(DeviceKey(c))}
    BY <1>2, <1>8 DEF Shown
  <2>2. DeviceKey(c) \in Held(compParams) => Actual(raw[c]) = raw[c] * Unit
    BY <1>1, <1>8, Unscaled, ProductFacts DEF StateReal
  <2>3. byKey(DeviceKey(c)) \in {Unknown, Actual(raw[c])}
    BY <1>4, <2>2
  <2>4. byKey(Plain) \in {Unknown, Actual(raw[c])}
    BY <1>5, <2>3
  <2> QED
    BY <2>1, <2>3, <2>4
<1> QED
  BY <1>6, <1>7, <1>8

(* Reading and writing agree, whatever the numbers of components, the indices and   *)
(* the values: an entity shows its own component's actual value or nothing, and a    *)
(* command reaches the component it is meant for with the value it asks for.       *)
THEOREM AgreeAlways == ASSUME FleetAgrees PROVE SpecComponents => []ComponentsAgree
<1>1. IndInv => ShownIsActual
  BY ShownFacts DEF ShownIsActual
<1>2. IndInv => WantedIsTaken
  BY Unscaled, ProductFacts DEF IndInv, Typed, WantedReal, WantedIsTaken
<1> QED
  BY <1>1, <1>2, ComponentInvariant, PTL DEF ComponentsAgree

-----------------------------------------------------------------------------
(* NodeRouting: the invariant. *)

(* What the store keeps under a number, if anything, is an update that has the      *)
(* number as its own, and that is no typed update of a group, room, area or house. *)
KeptSound ==
    \A i \in Ids : kept[i] # NoFrame =>
        i \in OwnIds(kept[i]) /\ kept[i].type \in {Untyped, "devices"}

(* What a node says, loaded or not. *)
SaysSound ==
    \A n \in Nodes : says[n] # NoFrame => (says[n].about = n \/ Confused(says[n], n))

(* Of a device that cannot be mistaken, the last report is kept. *)
KeptTold ==
    \A n \in Nodes : Unmistakable(n) /\ KindOf[n] = "devices" => kept[IdOf[n]] = told[n]

RoutingTyped ==
    /\ placed \subseteq Nodes
    /\ says \in [Nodes -> Updates \cup {NoFrame}]
    /\ kept \in [Ids -> Updates \cup {NoFrame}]
    /\ told \in [Nodes -> Updates \cup {NoFrame}]

RoutingInv == RoutingTyped /\ KeptSound /\ SaysSound /\ KeptTold /\ OwnReportShown

-----------------------------------------------------------------------------
(* A kind is the type, but for gateways. *)
LEMMA KindFacts ==
    ASSUME NEW n \in Nodes
    PROVE  /\ KindOf[n] \in Kinds
           /\ IdOf[n] \in Ids
           /\ KindOf[n] \in NodeLists => TypeOf(n) = KindOf[n]
           /\ KindOf[n] \notin NodeLists => TypeOf(n) = "devices"
           /\ TypeOf(n) = "devices" <=> KindOf[n] \in {"devices", "gateways"}
           /\ TypeOf(n) \in NodeLists <=> KindOf[n] \in NodeLists
  BY NodesAssumption DEF Kinds, NodeLists, TypeOf, Ids

(* The number that an update is resolved to is one of its own. *)
LEMMA ResolvedOwn ==
    ASSUME NEW f \in NodeUpdates
    PROVE  Resolved(f) \in OwnIds(f) /\ Resolved(f) \in DOMAIN f.fields /\ Resolved(f) \in Ids
<1>1. f.id \in OwnIds(f) /\ f.id \in DOMAIN f.fields
  BY UpdatesAssumption DEF OwnIds
<1>2. ASSUME NEW i \in DOMAIN f.fields, Fits(f, i) PROVE i \in OwnIds(f)
  <2>1. CASE f.fields[i] = "id"
    BY <2>1, <1>2 DEF OwnIds
  <2>2. CASE f.fields[i] # "id"
    <3>1. f.fields[i] = f.type
      BY <2>2, <1>2 DEF Fits
    <3>2. f.fields[i] \in NodeLists \cup {"id", "gateway"} /\ f.type \in {TypeOf(f.about), Untyped}
      BY UpdatesAssumption
    <3>3. f.fields[i] = TypeOf(f.about)
      BY <3>1, <3>2, UpdatesAssumption DEF Kinds
    <3> QED BY <3>3, UpdatesAssumption DEF OwnIds
  <2> QED BY <2>1, <2>2
<1>3. Resolved(f) = f.id \/ \E i \in DOMAIN f.fields : Resolved(f) = i /\ Fits(f, i)
  BY DEF Resolved
<1>4. DOMAIN f.fields \subseteq Ids
  BY DEF Ids
<1> QED BY <1>1, <1>2, <1>3, <1>4

(* Where an update goes: a typed one of a group, room, area or house to lists only.  *)
LEMMA ListFacts ==
    ASSUME NEW f \in NodeUpdates, NEW matched
    PROVE  /\ ListsFor(f, matched) \subseteq NodeLists
           /\ f.type \in NodeLists => ListsFor(f, matched) # {}
           /\ f.type \in NodeLists => ListsFor(f, matched) \subseteq {"groups", f.type}
           /\ f.type \in {Untyped, "devices"} \cup NodeLists
<1>1. f.type \in {Untyped, "devices"} \cup NodeLists
  BY UpdatesAssumption, KindFacts DEF TypeOf
<1> QED BY <1>1 DEF ListsFor, NodeLists

LEMMA TypedInit == InitNodes => RoutingInv
<1> SUFFICES ASSUME InitNodes PROVE RoutingInv
  OBVIOUS
<1>1. RoutingTyped
  BY DEF InitNodes, RoutingTyped
<1>2. KeptSound /\ SaysSound /\ OwnReportShown
  BY DEF InitNodes, KeptSound, SaysSound, OwnReportShown
<1>3. KeptTold
  BY KindFacts DEF InitNodes, KeptTold
<1> QED BY <1>1, <1>2, <1>3 DEF RoutingInv

(* A node that shows an update because of the number it is resolved to. *)
LEMMA ShownSound ==
    ASSUME NEW f \in NodeUpdates, NEW n \in Nodes, IdOf[n] = Resolved(f),
           NEW matched,
           \/ KindOf[n] \in ListsFor(f, matched)
           \/ ListsFor(f, matched) = {} /\ KindOf[n] \in {"devices", "gateways", "groups"}
    PROVE  Confused(f, n)
<1>1. IdOf[n] \in OwnIds(f)
  BY ResolvedOwn
<1>2. \/ f.type \in {Untyped, "devices"}
      \/ f.type \in NodeLists /\ ListsFor(f, matched) # {} /\ ListsFor(f, matched) \subseteq {"groups", f.type}
  BY ListFacts
<1>3. CASE f.type \in {Untyped, "devices"}
  BY <1>1, <1>3 DEF Confused
<1>4. CASE f.type \in NodeLists /\ ListsFor(f, matched) # {} /\ ListsFor(f, matched) \subseteq {"groups", f.type}
  <2>1. KindOf[n] = "groups" \/ KindOf[n] = f.type
    BY <1>4
  <2>2. KindOf[n] = f.type => TypeOf(n) = f.type
    BY <1>4, KindFacts
  <2> QED BY <1>1, <2>1, <2>2 DEF Confused
<1> QED BY <1>2, <1>3, <1>4

-----------------------------------------------------------------------------
(* A node that cannot be mistaken. *)

(* Another node's update is resolved to another number. *)
LEMMA OtherElsewhere ==
    ASSUME NEW f \in NodeUpdates, NEW n \in Nodes, Unmistakable(n), f.about # n
    PROVE  Resolved(f) # IdOf[n]
  BY ResolvedOwn DEF Unmistakable

(* Its own update fits no number but its own, and that one if it is loaded. *)
LEMMA OwnFits ==
    ASSUME NEW f \in NodeUpdates, NEW n \in Nodes, Unmistakable(n), f.about = n, placed \subseteq Nodes
    PROVE  \A i \in DOMAIN f.fields : Fits(f, i) <=> i = IdOf[n] /\ n \in placed
<1>1. Clear(f)
  BY DEF Unmistakable
<1>2. ASSUME NEW i \in DOMAIN f.fields, i # IdOf[n] PROVE ~Fits(f, i)
  <2>1. CASE f.fields[i] = "id"
    <3>1. At(i) = {}
      BY <2>1, <1>1, <1>2 DEF Clear, OwnIds, At
    <3> QED BY <3>1, <2>1 DEF Fits, Matching
  <2>2. CASE f.fields[i] # "id"
    <3>1. f.fields[i] # TypeOf(f.about) /\ f.type \in {TypeOf(f.about), Untyped}
      BY <1>2, UpdatesAssumption
    <3>2. f.fields[i] # Untyped
      BY UpdatesAssumption DEF Kinds
    <3> QED BY <3>1, <3>2, <2>2 DEF Fits
  <2> QED BY <2>1, <2>2
<1>3. IdOf[n] \in DOMAIN f.fields /\ f.fields[IdOf[n]] \in {"id", TypeOf(n)}
  BY UpdatesAssumption
<1>4. At(IdOf[n]) = {m \in {n} : m \in placed}
  BY DEF At, Unmistakable
<1>5. Matching(IdOf[n]) = {KindOf[m] : m \in {k \in {n} : k \in placed}}
  BY <1>4 DEF Matching
<1>6. CASE n \notin placed
  <2>1. Matching(IdOf[n]) = {}
    BY <1>5, <1>6
  <2>2. ~Fits(f, IdOf[n])
    BY <2>1 DEF Fits
  <2> QED BY <1>2, <1>3, <1>6, <2>2
<1>7. CASE n \in placed
  <2>1. KindOf[n] \in Matching(IdOf[n])
    BY <1>5, <1>7
  <2>2. CASE f.fields[IdOf[n]] = "id"
    <3>1. f.type \in {TypeOf(n), Untyped}
      BY UpdatesAssumption
    <3>2. KindOf[n] \in Collections(f.type)
      BY <3>1, KindFacts, UpdatesAssumption DEF Collections, Kinds, NodeLists, TypeOf
    <3> QED BY <1>2, <1>3, <1>7, <2>1, <2>2, <3>2 DEF Fits
  <2>3. CASE f.fields[IdOf[n]] # "id"
    <3>1. f.fields[IdOf[n]] = TypeOf(n) /\ f.type = TypeOf(n)
      BY <2>3, <1>1, <1>3, UpdatesAssumption DEF Clear
    <3>2. TypeOf(n) \in NodeLists
      BY <3>1, <2>3, UpdatesAssumption, KindFacts DEF NodeLists
    <3>3. TypeOf(n) = KindOf[n]
      BY <3>2, KindFacts
    <3> QED BY <1>2, <1>3, <1>7, <2>1, <2>3, <3>1, <3>3 DEF Fits
  <2> QED BY <2>2, <2>3
<1> QED BY <1>6, <1>7

(* Loaded, it shows its own update, and what is no list's is kept under its number. *)
LEMMA OwnShown ==
    ASSUME NEW f \in NodeUpdates, NEW n \in Nodes, Unmistakable(n), f.about = n,
           placed \subseteq Nodes, n \in placed
    PROVE  /\ Resolved(f) = IdOf[n]
           /\ \/ ListsFor(f, Matching(IdOf[n])) = {KindOf[n]}
              \/ /\ ListsFor(f, Matching(IdOf[n])) = {}
                 /\ KindOf[n] \in {"devices", "gateways"}
           /\ KindOf[n] = "devices" => ListsFor(f, Matching(IdOf[n])) = {}
<1>1. {j \in DOMAIN f.fields : Fits(f, j)} = {IdOf[n]}
  BY OwnFits, UpdatesAssumption
<1>2. Resolved(f) = IdOf[n]
  BY <1>1 DEF Resolved
<1>3. Matching(IdOf[n]) = {KindOf[n]}
  BY DEF Matching, At, Unmistakable
<1>4. f.type \in {TypeOf(n), Untyped}
  BY UpdatesAssumption
<1>5. CASE KindOf[n] \in NodeLists
  <2>1. f.type \in {KindOf[n], Untyped} /\ Untyped \notin NodeLists
    BY <1>4, <1>5, KindFacts, UpdatesAssumption DEF Kinds
  <2>2. {KindOf[n]} = {"groups"} <=> KindOf[n] = "groups"
    OBVIOUS
  <2>3. {k \in NodeLists : {KindOf[n]} = {k}} = {KindOf[n]}
    BY <1>5
  <2>4. ListsFor(f, Matching(IdOf[n])) = {KindOf[n]}
    BY <1>3, <1>5, <2>1, <2>2, <2>3, UpdatesAssumption DEF ListsFor, Kinds, NodeLists
  <2> QED BY <1>2, <1>5, <2>4 DEF NodeLists
<1>6. CASE KindOf[n] \notin NodeLists
  <2>1. KindOf[n] \in {"devices", "gateways"} /\ f.type \in {"devices", Untyped}
    BY <1>4, <1>6, KindFacts
  <2>2. {k \in NodeLists : {KindOf[n]} = {k}} = {}
    BY <1>6
  <2>3. f.type \notin NodeLists /\ f.type # "groups" /\ {KindOf[n]} # {"groups"}
    BY <1>6, <2>1, UpdatesAssumption DEF NodeLists, Kinds
  <2>4. ListsFor(f, Matching(IdOf[n])) = {}
    BY <1>3, <2>2, <2>3 DEF ListsFor
  <2> QED BY <1>2, <2>1, <2>4
<1> QED BY <1>5, <1>6

(* Not loaded, a device's update is kept under the number that comes first. *)
LEMMA OwnKept ==
    ASSUME NEW f \in NodeUpdates, NEW n \in Nodes, Unmistakable(n), f.about = n,
           placed \subseteq Nodes, n \notin placed, KindOf[n] = "devices"
    PROVE  /\ Resolved(f) = f.id
           /\ f.id = IdOf[n] => ListsFor(f, Matching(f.id)) = {}
<1>1. Resolved(f) = f.id
  BY OwnFits DEF Resolved
<1>2. ASSUME f.id = IdOf[n] PROVE ListsFor(f, Matching(f.id)) = {}
  <2>1. Matching(f.id) = {}
    BY <1>2 DEF Matching, At, Unmistakable
  <2>2. f.type \in {"devices", Untyped}
    BY UpdatesAssumption, KindFacts DEF NodeLists
  <2> QED BY <2>1, <2>2, UpdatesAssumption DEF ListsFor, NodeLists, Kinds
<1> QED BY <1>1, <1>2

-----------------------------------------------------------------------------
(* Every step keeps the invariant. *)

LEMMA ReceiveKeeps ==
    ASSUME RoutingInv, NEW f \in NodeUpdates, Receive(f) PROVE RoutingInv'
<1> USE DEF RoutingInv
<1> DEFINE i == Resolved(f)
           list == ListsFor(f, Matching(i))
           there(n) == n \in At(i) /\ KindOf[n] \in (IF list # {} THEN list
                                                    ELSE {"devices", "gateways", "groups"})
<1>1. /\ placed' = placed
      /\ says' = [n \in Nodes |-> IF there(n) THEN f ELSE says[n]]
      /\ kept' = IF list # {} THEN kept ELSE [kept EXCEPT ![i] = f]
      /\ told' = IF Heeded(f) THEN [told EXCEPT ![f.about] = f] ELSE told
  BY DEF Receive, ShownBy
<1>2. f \in Updates /\ f # NoFrame /\ f.about \in Nodes /\ i \in Ids /\ i \in OwnIds(f)
  BY ResolvedOwn, UpdatesAssumption DEF Updates
<1> HIDE DEF list, i
<1>3. RoutingTyped'
  BY <1>1, <1>2 DEF RoutingTyped
<1>4. KeptSound'
  <2>1. list = {} => f.type \in {Untyped, "devices"}
    BY ListFacts DEF list
  <2>2. ASSUME NEW j \in Ids, kept'[j] # NoFrame
        PROVE  j \in OwnIds(kept'[j]) /\ kept'[j].type \in {Untyped, "devices"}
    <3>1. kept'[j] = kept[j] \/ (j = i /\ list = {} /\ kept'[j] = f)
      BY <1>1, <2>2 DEF RoutingTyped
    <3> QED BY <1>2, <2>1, <2>2, <3>1 DEF KeptSound
  <2> QED BY <2>2 DEF KeptSound, OwnIds
<1>5. SaysSound'
  <2>1. ASSUME NEW n \in Nodes, says'[n] # NoFrame
        PROVE  says'[n].about = n \/ Confused(says'[n], n)
    <3>1. CASE there(n)
      <4>1. says'[n] = f
        BY <1>1, <3>1
      <4>2. IdOf[n] = Resolved(f)
        BY <3>1 DEF At, i
      <4>3. Confused(f, n)
        BY <3>1, <4>2, ShownSound DEF list
      <4> QED BY <4>1, <4>3
    <3>2. CASE ~there(n)
      <4>1. says'[n] = says[n]
        BY <1>1, <3>2
      <4> QED BY <2>1, <4>1 DEF SaysSound
    <3> QED BY <3>1, <3>2
  <2> QED BY <2>1 DEF SaysSound, Confused, OwnIds
<1>6. KeptTold'
  <2>1. ASSUME NEW n \in Nodes, Unmistakable(n), KindOf[n] = "devices"
        PROVE  kept'[IdOf[n]] = told'[n]
    <3>0. kept[IdOf[n]] = told[n] /\ IdOf[n] \in Ids
      BY <2>1, KindFacts DEF KeptTold
    <3>1. CASE f.about # n
      <4>1. told'[n] = told[n] /\ i # IdOf[n]
        BY <1>1, <2>1, <3>1, OtherElsewhere DEF i, RoutingTyped
      <4> QED BY <1>1, <3>0, <4>1 DEF RoutingTyped
    <3>2. CASE f.about = n /\ n \in placed
      <4>1. Heeded(f) /\ i = IdOf[n] /\ list = {}
        BY <2>1, <3>2, OwnShown DEF Heeded, i, list, RoutingTyped
      <4> QED BY <1>1, <1>2, <3>2, <4>1 DEF RoutingTyped
    <3>3. CASE f.about = n /\ n \notin placed /\ f.id = IdOf[n]
      <4>1. Heeded(f) /\ i = IdOf[n] /\ list = {}
        BY <2>1, <3>3, OwnKept DEF Heeded, i, list, RoutingTyped
      <4> QED BY <1>1, <1>2, <3>3, <4>1 DEF RoutingTyped
    <3>4. CASE f.about = n /\ n \notin placed /\ f.id # IdOf[n]
      <4>1. ~Heeded(f) /\ i # IdOf[n]
        BY <2>1, <3>4, OwnKept DEF Heeded, i, RoutingTyped
      <4> QED BY <1>1, <3>0, <4>1 DEF RoutingTyped
    <3> QED BY <3>1, <3>2, <3>3, <3>4
  <2> QED BY <2>1 DEF KeptTold, Unmistakable, Clear, OwnIds
<1>7. OwnReportShown'
  <2>1. ASSUME NEW n \in placed, Unmistakable(n) PROVE says'[n] = told'[n]
    <3>0. n \in Nodes /\ says[n] = told[n]
      BY <2>1 DEF RoutingTyped, OwnReportShown
    <3>1. CASE f.about # n
      <4>1. told'[n] = told[n] /\ i # IdOf[n]
        BY <1>1, <2>1, <3>0, <3>1, OtherElsewhere DEF i, RoutingTyped
      <4> QED BY <1>1, <3>0, <4>1 DEF At
    <3>2. CASE f.about = n
      <4>1. /\ Heeded(f) /\ i = IdOf[n]
            /\ list = {KindOf[n]} \/ (list = {} /\ KindOf[n] \in {"devices", "gateways"})
        BY <2>1, <3>0, <3>2, OwnShown DEF Heeded, i, list, RoutingTyped
      <4>2. there(n)
        BY <2>1, <3>0, <4>1 DEF At
      <4> QED BY <1>1, <1>2, <3>0, <3>2, <4>1, <4>2 DEF RoutingTyped
    <3> QED BY <3>1, <3>2
  <2> QED BY <1>1, <2>1 DEF OwnReportShown, Unmistakable, Clear, OwnIds
<1> QED BY <1>3, <1>4, <1>5, <1>6, <1>7

LEMMA ControlKeeps ==
    ASSUME RoutingInv, NEW n \in Nodes, Control(n) PROVE RoutingInv'
<1> USE DEF RoutingInv
<1> DEFINE c == CommandTo(n)
           there(m) == m \in At(IdOf[n]) /\ KindOf[m] \in {"devices", "gateways"}
<1>1. /\ placed' = placed
      /\ says' = [m \in Nodes |-> IF there(m) THEN c ELSE says[m]]
      /\ kept' = [kept EXCEPT ![IdOf[n]] = c]
      /\ told' = [told EXCEPT ![n] = c]
      /\ TypeOf(n) = "devices" /\ n \in placed
  BY DEF Control, ShownBy
<1>2. c \in Updates /\ IdOf[n] \in Ids /\ KindOf[n] \in {"devices", "gateways"}
  BY <1>1, KindFacts DEF Updates
<1>3. c.about = n /\ c.type = "devices" /\ IdOf[n] \in OwnIds(c)
  BY DEF CommandTo, OwnIds
<1> HIDE DEF c
<1>4. RoutingTyped'
  BY <1>1, <1>2 DEF RoutingTyped
<1>5. KeptSound'
  <2>1. ASSUME NEW j \in Ids, kept'[j] # NoFrame
        PROVE  j \in OwnIds(kept'[j]) /\ kept'[j].type \in {Untyped, "devices"}
    <3>1. kept'[j] = kept[j] \/ (j = IdOf[n] /\ kept'[j] = c)
      BY <1>1 DEF RoutingTyped
    <3> QED BY <1>3, <2>1, <3>1 DEF KeptSound
  <2> QED BY <2>1 DEF KeptSound, OwnIds
<1>6. SaysSound'
  <2>1. ASSUME NEW m \in Nodes, says'[m] # NoFrame
        PROVE  says'[m].about = m \/ Confused(says'[m], m)
    <3>1. says'[m] = says[m] \/ (says'[m] = c /\ IdOf[m] = IdOf[n])
      BY <1>1 DEF At
    <3> QED BY <1>3, <2>1, <3>1 DEF SaysSound, Confused
  <2> QED BY <2>1 DEF SaysSound, Confused, OwnIds
<1>7. KeptTold'
  <2>1. ASSUME NEW m \in Nodes, Unmistakable(m), KindOf[m] = "devices"
        PROVE  kept'[IdOf[m]] = told'[m]
    <3>1. m = n \/ IdOf[m] # IdOf[n]
      BY <2>1 DEF Unmistakable
    <3> QED BY <1>1, <1>2, <2>1, <3>1, KindFacts DEF KeptTold, RoutingTyped
  <2> QED BY <2>1 DEF KeptTold, Unmistakable, Clear, OwnIds
<1>8. OwnReportShown'
  <2>1. ASSUME NEW m \in placed, Unmistakable(m) PROVE says'[m] = told'[m]
    <3>1. m \in Nodes /\ says[m] = told[m]
      BY <2>1 DEF RoutingTyped, OwnReportShown
    <3>2. CASE m = n
      BY <1>1, <1>2, <3>1, <3>2 DEF At, RoutingTyped
    <3>3. CASE m # n
      <4>1. IdOf[m] # IdOf[n]
        BY <2>1, <3>3 DEF Unmistakable
      <4> QED BY <1>1, <3>1, <3>3, <4>1 DEF At, RoutingTyped
    <3> QED BY <3>2, <3>3
  <2> QED BY <1>1, <2>1 DEF OwnReportShown, Unmistakable, Clear, OwnIds
<1> QED BY <1>4, <1>5, <1>6, <1>7, <1>8

LEMMA LoadDevicesKeeps ==
    ASSUME RoutingInv, NEW ns \in SomeOf({"devices", "gateways"}), LoadDevices(ns)
    PROVE  RoutingInv'
<1> USE DEF RoutingInv
<1>1. ns \subseteq Nodes /\ \A n \in ns : KindOf[n] \in {"devices", "gateways"}
  BY DEF SomeOf
<1>2. /\ placed' = {n \in placed : TypeOf(n) # "devices"} \cup ns
      /\ says' = [n \in Nodes |-> IF TypeOf(n) # "devices" THEN says[n]
                               ELSE IF n \in ns /\ KindOf[n] = "devices" THEN kept[IdOf[n]]
                               ELSE NoFrame]
      /\ told' = [n \in Nodes |-> IF KindOf[n] = "gateways" THEN NoFrame ELSE told[n]]
      /\ kept' = kept
  BY DEF LoadDevices
<1>3. RoutingTyped'
  BY <1>1, <1>2, KindFacts DEF RoutingTyped
<1>4. KeptSound'
  BY <1>2 DEF KeptSound, OwnIds
<1>5. SaysSound'
  <2>1. ASSUME NEW n \in Nodes, says'[n] # NoFrame
        PROVE  says'[n].about = n \/ Confused(says'[n], n)
    <3>1. CASE TypeOf(n) # "devices"
      BY <1>2, <2>1, <3>1 DEF SaysSound
    <3>2. CASE TypeOf(n) = "devices"
      <4>1. says'[n] = kept[IdOf[n]] /\ IdOf[n] \in Ids
        BY <1>2, <2>1, <3>2, KindFacts
      <4>2. IdOf[n] \in OwnIds(says'[n]) /\ says'[n].type \in {Untyped, "devices"}
        BY <2>1, <4>1 DEF KeptSound
      <4> QED BY <4>2 DEF Confused
    <3> QED BY <3>1, <3>2
  <2> QED BY <2>1 DEF SaysSound, Confused, OwnIds
<1>6. KeptTold'
  <2>1. ASSUME NEW n \in Nodes, Unmistakable(n), KindOf[n] = "devices"
        PROVE  kept'[IdOf[n]] = told'[n]
    BY <1>2, <2>1 DEF KeptTold
  <2> QED BY <2>1 DEF KeptTold, Unmistakable, Clear, OwnIds
<1>7. OwnReportShown'
  <2>1. ASSUME NEW n \in placed', Unmistakable(n) PROVE says'[n] = told'[n]
    <3>0. n \in Nodes
      BY <1>3 DEF RoutingTyped
    <3>1. CASE TypeOf(n) # "devices"
      <4>1. n \in placed /\ KindOf[n] # "gateways"
        BY <1>1, <1>2, <3>0, <3>1, KindFacts
      <4> QED BY <1>2, <2>1, <3>0, <3>1, <4>1 DEF OwnReportShown
    <3>2. CASE TypeOf(n) = "devices"
      <4>1. n \in ns /\ KindOf[n] \in {"devices", "gateways"}
        BY <1>1, <1>2, <3>2
      <4> QED BY <1>2, <2>1, <3>0, <3>2, <4>1 DEF KeptTold
    <3> QED BY <3>1, <3>2
  <2> QED BY <2>1 DEF OwnReportShown, Unmistakable, Clear, OwnIds
<1> QED BY <1>3, <1>4, <1>5, <1>6, <1>7

LEMMA LoadListsKeeps ==
    ASSUME RoutingInv, NEW ns \in SomeOf(NodeLists), LoadLists(ns)
    PROVE  RoutingInv'
<1> USE DEF RoutingInv
<1>1. ns \subseteq Nodes /\ \A n \in ns : KindOf[n] \in NodeLists
  BY DEF SomeOf
<1>2. /\ placed' = {n \in placed : TypeOf(n) = "devices"} \cup ns
      /\ says' = [n \in Nodes |-> IF KindOf[n] \in NodeLists THEN NoFrame ELSE says[n]]
      /\ told' = [n \in Nodes |-> IF KindOf[n] \in NodeLists THEN NoFrame ELSE told[n]]
      /\ kept' = kept
  BY DEF LoadLists
<1>3. RoutingTyped'
  BY <1>1, <1>2 DEF RoutingTyped
<1>4. KeptSound'
  BY <1>2 DEF KeptSound, OwnIds
<1>5. SaysSound'
  BY <1>2 DEF SaysSound, Confused, OwnIds
<1>6. KeptTold'
  <2>1. ASSUME NEW n \in Nodes, Unmistakable(n), KindOf[n] = "devices"
        PROVE  kept'[IdOf[n]] = told'[n]
    BY <1>2, <2>1 DEF KeptTold, NodeLists
  <2> QED BY <2>1 DEF KeptTold, Unmistakable, Clear, OwnIds
<1>7. OwnReportShown'
  <2>1. ASSUME NEW n \in placed', Unmistakable(n) PROVE says'[n] = told'[n]
    <3>0. n \in Nodes
      BY <1>3 DEF RoutingTyped
    <3>1. CASE KindOf[n] \in NodeLists
      BY <1>2, <3>0, <3>1
    <3>2. CASE KindOf[n] \notin NodeLists
      BY <1>1, <1>2, <2>1, <3>0, <3>2 DEF OwnReportShown
    <3> QED BY <3>1, <3>2
  <2> QED BY <2>1 DEF OwnReportShown, Unmistakable, Clear, OwnIds
<1> QED BY <1>3, <1>4, <1>5, <1>6, <1>7

LEMMA LoadTopologyKeeps ==
    ASSUME RoutingInv, NEW ns \in SomeOf(NodeLists \cup {"devices"}), LoadTopology(ns)
    PROVE  RoutingInv'
<1> USE DEF RoutingInv
<1>1. ns \subseteq Nodes /\ \A n \in ns : KindOf[n] \in NodeLists \cup {"devices"}
  BY DEF SomeOf
<1>2. /\ placed' = {n \in placed : KindOf[n] = "gateways"} \cup ns
      /\ says' = [n \in Nodes |-> IF KindOf[n] = "gateways" THEN says[n]
                               ELSE IF n \in ns /\ KindOf[n] = "devices" THEN kept[IdOf[n]]
                               ELSE NoFrame]
      /\ told' = [n \in Nodes |-> IF KindOf[n] \in NodeLists THEN NoFrame ELSE told[n]]
      /\ kept' = kept
  BY DEF LoadTopology
<1>3. RoutingTyped'
  BY <1>1, <1>2, KindFacts DEF RoutingTyped
<1>4. KeptSound'
  BY <1>2 DEF KeptSound, OwnIds
<1>5. SaysSound'
  <2>1. ASSUME NEW n \in Nodes, says'[n] # NoFrame
        PROVE  says'[n].about = n \/ Confused(says'[n], n)
    <3>1. CASE KindOf[n] = "gateways"
      BY <1>2, <2>1, <3>1 DEF SaysSound
    <3>2. CASE KindOf[n] # "gateways"
      <4>1. says'[n] = kept[IdOf[n]] /\ IdOf[n] \in Ids
        BY <1>2, <2>1, <3>2, KindFacts
      <4>2. IdOf[n] \in OwnIds(says'[n]) /\ says'[n].type \in {Untyped, "devices"}
        BY <2>1, <4>1 DEF KeptSound
      <4> QED BY <4>2 DEF Confused
    <3> QED BY <3>1, <3>2
  <2> QED BY <2>1 DEF SaysSound, Confused, OwnIds
<1>6. KeptTold'
  <2>1. ASSUME NEW n \in Nodes, Unmistakable(n), KindOf[n] = "devices"
        PROVE  kept'[IdOf[n]] = told'[n]
    BY <1>2, <2>1 DEF KeptTold, NodeLists
  <2> QED BY <2>1 DEF KeptTold, Unmistakable, Clear, OwnIds
<1>7. OwnReportShown'
  <2>1. ASSUME NEW n \in placed', Unmistakable(n) PROVE says'[n] = told'[n]
    <3>0. n \in Nodes
      BY <1>3 DEF RoutingTyped
    <3>1. CASE KindOf[n] = "gateways"
      <4>1. n \in placed
        BY <1>1, <1>2, <3>1 DEF NodeLists
      <4> QED BY <1>2, <2>1, <3>0, <3>1, <4>1 DEF OwnReportShown, NodeLists
    <3>2. CASE KindOf[n] \in NodeLists
      BY <1>2, <3>0, <3>2 DEF NodeLists
    <3>3. CASE KindOf[n] = "devices"
      <4>1. n \in ns
        BY <1>2, <3>3
      <4> QED BY <1>2, <2>1, <3>0, <3>3, <4>1 DEF KeptTold, NodeLists
    <3> QED BY <3>0, <3>1, <3>2, <3>3, KindFacts DEF Kinds
  <2> QED BY <2>1 DEF OwnReportShown, Unmistakable, Clear, OwnIds
<1> QED BY <1>3, <1>4, <1>5, <1>6, <1>7

LEMMA RoutingInductive == SpecNodes => []RoutingInv
<1>1. RoutingInv /\ [NextNodes]_routeVars => RoutingInv'
  <2> SUFFICES ASSUME RoutingInv, [NextNodes]_routeVars PROVE RoutingInv'
    OBVIOUS
  <2>1. CASE \E f \in NodeUpdates : Receive(f)
    BY <2>1, ReceiveKeeps
  <2>2. CASE \E n \in Nodes : Control(n)
    BY <2>2, ControlKeeps
  <2>3. CASE \E ns \in SomeOf({"devices", "gateways"}) : LoadDevices(ns)
    BY <2>3, LoadDevicesKeeps
  <2>4. CASE \E ns \in SomeOf(NodeLists) : LoadLists(ns)
    BY <2>4, LoadListsKeeps
  <2>5. CASE \E ns \in SomeOf(NodeLists \cup {"devices"}) : LoadTopology(ns)
    BY <2>5, LoadTopologyKeeps
  <2>6. CASE UNCHANGED routeVars
    BY <2>6 DEF routeVars, RoutingInv, RoutingTyped, KeptSound, SaysSound, KeptTold,
        OwnReportShown, Unmistakable, Clear, Confused, OwnIds
  <2> QED BY <2>1, <2>2, <2>3, <2>4, <2>5, <2>6 DEF NextNodes
<1> QED BY <1>1, TypedInit, PTL DEF SpecNodes

(* Whatever numbers the nodes have and however updates name them, a node shows     *)
(* another node's report only by one of the named mix-ups.                     *)
THEOREM NoCrossTalkHolds == SpecNodes => []NoCrossTalk
<1>1. RoutingInv => NoCrossTalk
  BY DEF RoutingInv, RoutingTyped, SaysSound, NoCrossTalk
<1> QED BY <1>1, RoutingInductive, PTL

(* A node that cannot be mistaken for another shows its own last report.           *)
THEOREM OwnReportAlwaysShown == SpecNodes => []OwnReportShown
<1>1. RoutingInv => OwnReportShown
  BY DEF RoutingInv
<1> QED BY <1>1, RoutingInductive, PTL

-----------------------------------------------------------------------------
(* NodeRows *)

Messages == [kind : {"props", "topology"}, params : Partial]

(* The messages on their way that speak of a property. *)
Waits(a) == {i \in 1 .. Len(waiting) : waiting[i].params[a] # Unset}

(* The lists that are loaded, or that a refresh may put back, have the row; a    *)
(* row that was fetched is one of the Open API.                              *)
RowsHeld ==
    /\ lists[loaded] \in Rows
    /\ \A r \in Refreshes : refresh[r].at # "idle" =>
         /\ refresh[r].found \in Lists
         /\ lists[refresh[r].found] \in Rows
    /\ \A r \in Refreshes : refresh[r].at = "fetched" =>
         refresh[r].row \in Rows /\ refresh[r].row.params = Blank

(* The last message that speaks of a property tells its value. *)
LastNews(a) ==
    \A i \in Waits(a) : (\A j \in Waits(a) : j <= i) => waiting[i].params[a] = lit[a]

(* Without a message on its way, a row has the value unless it lacks the news. *)
RowKnows(a) == Waits(a) = {} /\ a \notin missed => Says(lists[loaded], a) = lit[a]

FetchKnows(a) ==
    Waits(a) = {} =>
        \A r \in Refreshes : refresh[r].at = "fetched" /\ a \notin news[r] =>
            refresh[r].row.properties[a] = lit[a]

Knowledge == \A a \in Attrs : LastNews(a) /\ RowKnows(a) /\ FetchKnows(a)

NodeInv == NodeTypeOK /\ RowsHeld /\ Knowledge

-----------------------------------------------------------------------------
(* Rows and updates. *)

LEMMA OverTypes ==
    ASSUME NEW u \in Partial
    PROVE  /\ \A s \in Partial : Over(s, u) \in Partial
           /\ \A s \in Full : Over(s, u) \in Full
BY DEF Over, Partial, Full

LEMMA FullPartial == Full \subseteq Partial /\ Blank \in Partial
BY DEF Full, Partial, Blank

LEMMA NewRows ==
    /\ NoRow \notin Rows
    /\ \A s \in Full : CloudRow(s) \in Rows
    /\ \A s \in Partial : LanRow(s) \in Rows
    /\ \A a \in Attrs, s \in Full : Says(CloudRow(s), a) = s[a]
    /\ \A a \in Attrs, s \in Partial : s[a] # Unset => Says(LanRow(s), a) = s[a]
<1>1. NoRow \notin Rows
  BY NodeAssumption DEF Rows, Partial, NoRow
<1> QED
  BY <1>1, FullPartial DEF Rows, CloudRow, LanRow, Says, Blank

(* A merge adds what it carries, and keeps the rest. *)
LEMMA MergedRow ==
    ASSUME NodeTypeOK, NEW u \in Partial, lists[loaded] \in Rows
    PROVE  /\ MergedInto(loaded, u) \in [Lists -> Rows \cup {NoRow}]
           /\ \A l \in Lists : lists[l] \in Rows => MergedInto(loaded, u)[l] \in Rows
           /\ \A a \in Attrs : Says(MergedInto(loaded, u)[loaded], a) =
                IF u[a] # Unset THEN u[a] ELSE Says(lists[loaded], a)
<1> DEFINE entry == [lists[loaded] EXCEPT !.params = Over(@, u)]
<1>1. lists \in [Lists -> Rows \cup {NoRow}] /\ loaded \in Lists
  BY DEF NodeTypeOK
<1>2. MergedInto(loaded, u) = [lists EXCEPT ![loaded] = entry]
  BY <1>1, NewRows DEF MergedInto, Rows
<1>3. entry \in Rows /\ entry.params = Over(lists[loaded].params, u)
      /\ entry.properties = lists[loaded].properties
  BY OverTypes DEF Rows
<1> HIDE DEF entry
<1>4. ASSUME NEW a \in Attrs
      PROVE  Says(entry, a) = IF u[a] # Unset THEN u[a] ELSE Says(lists[loaded], a)
  <2>1. entry.params[a] = IF u[a] = Unset THEN lists[loaded].params[a] ELSE u[a]
    BY <1>3 DEF Over
  <2> QED
    BY <1>3, <2>1 DEF Says
<1> QED
  BY <1>1, <1>2, <1>3, <1>4

(* There is a list that no refresh remembers. *)
LEMMA FreshList ==
    ASSUME NodeTypeOK
    PROVE  Fresh \in Lists /\ \A r \in Refreshes : refresh[r].found # Fresh
<1> DEFINE found == [r \in Refreshes |-> refresh[r].found]
<1>1. found \in [Refreshes -> Lists \cup {Unset}]
  BY DEF NodeTypeOK
<1>2. \E l \in Lists : \A r \in Refreshes : found[r] # l
  BY <1>1, ListsAssumption
<1>3. \E l \in Lists : \A r \in Refreshes : refresh[r].found # l
  BY <1>2
<1> QED
  BY <1>3 DEF Fresh

-----------------------------------------------------------------------------
(* The messages on their way. *)

LEMMA WaitsAppend ==
    ASSUME NodeTypeOK, NEW m \in Messages, waiting' = Append(waiting, m)
    PROVE  /\ waiting' \in Seq(Messages)
           /\ \A a \in Attrs : m.params[a] = Unset =>
                Waits(a)' = Waits(a) /\ \A i \in Waits(a) : waiting'[i] = waiting[i]
           /\ \A a \in Attrs : m.params[a] # Unset =>
                /\ Len(waiting) + 1 \in Waits(a)' /\ waiting'[Len(waiting) + 1] = m
                /\ \A i \in Waits(a)' : i \in Nat /\ i <= Len(waiting) + 1
<1>1. waiting \in Seq(Messages) /\ Len(waiting) \in Nat
  BY DEF NodeTypeOK, Messages
<1>2. /\ waiting' \in Seq(Messages)
      /\ Len(waiting') = Len(waiting) + 1 /\ waiting'[Len(waiting) + 1] = m
      /\ \A i \in 1 .. Len(waiting) : waiting'[i] = waiting[i]
  BY <1>1
<1>4. ASSUME NEW a \in Attrs, m.params[a] = Unset
      PROVE  Waits(a)' = Waits(a) /\ \A i \in Waits(a) : waiting'[i] = waiting[i]
  BY <1>1, <1>2, <1>4 DEF Waits
<1>5. ASSUME NEW a \in Attrs, m.params[a] # Unset
      PROVE  /\ Len(waiting) + 1 \in Waits(a)'
             /\ \A i \in Waits(a)' : i \in Nat /\ i <= Len(waiting) + 1
  BY <1>1, <1>2, <1>5 DEF Waits
<1> QED
  BY <1>2, <1>4, <1>5

LEMMA WaitsTail ==
    ASSUME NodeTypeOK, NEW a \in Attrs, waiting # <<>>, waiting' = Tail(waiting)
    PROVE  /\ waiting' \in Seq(Messages)
           /\ Head(waiting) = waiting[1] /\ Head(waiting) \in Messages
           /\ \A i \in Waits(a)' : i \in Nat /\ i + 1 \in Waits(a) /\ waiting'[i] = waiting[i + 1]
           /\ \A i \in Waits(a) : i \in Nat /\ (i = 1 \/ i - 1 \in Waits(a)')
           /\ 1 \in Waits(a) <=> Head(waiting).params[a] # Unset
<1>1. waiting \in Seq(Messages)
  BY DEF NodeTypeOK, Messages
<1>2. Len(waiting) >= 1 /\ Len(waiting) \in Nat /\ Head(waiting) = waiting[1]
      /\ Head(waiting) \in Messages /\ waiting' \in Seq(Messages)
  BY <1>1
<1>3. Len(waiting') = Len(waiting) - 1 /\ \A i \in 1 .. Len(waiting') : waiting'[i] = waiting[i + 1]
  BY <1>1, <1>2
<1>5. \A i \in Waits(a) : i \in Nat /\ (i = 1 \/ i - 1 \in Waits(a)')
  <2> SUFFICES ASSUME NEW i \in Waits(a), i # 1 PROVE i - 1 \in Waits(a)'
    BY <1>2 DEF Waits
  <2>1. i \in 1 .. Len(waiting) /\ i - 1 \in 1 .. Len(waiting') /\ (i - 1) + 1 = i
    BY <1>2, <1>3 DEF Waits
  <2>2. waiting'[i - 1] = waiting[i]
    BY <1>3, <2>1
  <2> QED
    BY <2>1, <2>2 DEF Waits
<1>6. \A i \in Waits(a)' : i \in Nat /\ i + 1 \in Waits(a) /\ waiting'[i] = waiting[i + 1]
  BY <1>2, <1>3 DEF Waits
<1>7. 1 \in Waits(a) <=> Head(waiting).params[a] # Unset
  BY <1>2 DEF Waits
<1> QED
  BY <1>2, <1>5, <1>6, <1>7

LEMMA TailTypes ==
    ASSUME NodeTypeOK, waiting # <<>>, waiting' = Tail(waiting)
    PROVE  waiting' \in Seq(Messages) /\ Head(waiting).params \in Partial
<1>1. waiting \in Seq(Messages)
  BY DEF NodeTypeOK, Messages
<1>2. Head(waiting) \in Messages /\ waiting' \in Seq(Messages)
  BY <1>1
<1> QED
  BY <1>2 DEF Messages

(* When the first message was handled, the last is still the last; if none is    *)
(* left that speaks of a property that the first spoke of, it was the last.      *)
LEMMA NewsKept ==
    ASSUME NodeTypeOK, NEW a \in Attrs, LastNews(a),
           waiting # <<>>, waiting' = Tail(waiting), UNCHANGED lit
    PROVE  /\ LastNews(a)'
           /\ Waits(a)' = {} /\ Head(waiting).params[a] = Unset => Waits(a) = {}
           /\ Waits(a)' = {} /\ Head(waiting).params[a] # Unset => Head(waiting).params[a] = lit[a]
<1>1. /\ \A i \in Waits(a)' : i \in Nat /\ i + 1 \in Waits(a) /\ waiting'[i] = waiting[i + 1]
      /\ \A i \in Waits(a) : i \in Nat /\ (i = 1 \/ i - 1 \in Waits(a)')
      /\ 1 \in Waits(a) <=> Head(waiting).params[a] # Unset
      /\ Head(waiting) = waiting[1]
  BY WaitsTail
<1>2. ASSUME NEW i \in Waits(a)', \A j \in Waits(a)' : j <= i
      PROVE  waiting'[i].params[a] = lit'[a]
  <2>1. \A j \in Waits(a) : j <= i + 1
    <3> SUFFICES ASSUME NEW j \in Waits(a) PROVE j <= i + 1
      OBVIOUS
    <3>1. i \in Nat /\ j \in Nat /\ (j = 1 \/ j - 1 \in Waits(a)')
      BY <1>1, <1>2
    <3>2. j - 1 \in Waits(a)' => j - 1 <= i
      BY <1>2
    <3> QED
      BY <3>1, <3>2
  <2> QED
    BY <1>1, <1>2, <2>1 DEF LastNews
<1>3. Waits(a)' = {} /\ Head(waiting).params[a] = Unset => Waits(a) = {}
  BY <1>1
<1>4. ASSUME Waits(a)' = {}, Head(waiting).params[a] # Unset
      PROVE  Head(waiting).params[a] = lit[a]
  <2>1. 1 \in Waits(a) /\ \A j \in Waits(a) : j <= 1
    BY <1>1, <1>4
  <2> QED
    BY <1>1, <2>1 DEF LastNews
<1> QED
  BY <1>2, <1>3, <1>4 DEF LastNews

-----------------------------------------------------------------------------
(* The steps. *)

LEMMA NodeInit == InitNode => NodeInv
<1> SUFFICES ASSUME InitNode PROVE NodeInv
  OBVIOUS
<1> USE DEF InitNode
<1>1. loaded \in Lists
  <2>1. [r \in Refreshes |-> Unset] \in [Refreshes -> Lists \cup {Unset}]
    OBVIOUS
  <2>2. \E l \in Lists : TRUE
    BY <2>1, ListsAssumption
  <2> QED
    BY <2>2
<1>2. /\ lists \in [Lists -> Rows \cup {NoRow}] /\ lists[loaded] \in Rows
      /\ \A a \in Attrs : Says(lists[loaded], a) = lit[a]
  BY <1>1, NewRows
<1>3. refresh \in [Refreshes -> [at : {"idle", "begun", "fetched", "failed"},
                                 found : Lists \cup {Unset}, row : Rows \cup {NoRow}]]
      /\ \A r \in Refreshes : refresh[r].at = "idle"
  BY NewRows DEF Idle
<1>4. write \in [params : Partial, applied : BOOLEAN]
  BY FullPartial DEF NoWrite
<1>5. waiting \in Seq(Messages) /\ Len(waiting) = 0
  OBVIOUS
<1>6. missed \subseteq Attrs /\ news \in [Refreshes -> SUBSET Attrs]
  OBVIOUS
<1>7. moves \in 0 .. MaxMoves /\ writes \in 0 .. MaxWrites /\ faults \in 0 .. MaxFaults
  BY NodeBounds
<1>8. NodeTypeOK
  BY <1>1, <1>2, <1>3, <1>4, <1>5, <1>6, <1>7 DEF NodeTypeOK, Messages
<1>9. \A a \in Attrs : Waits(a) = {}
  BY <1>5 DEF Waits
<1> QED
  BY <1>2, <1>3, <1>5, <1>8, <1>9
  DEF NodeInv, RowsHeld, Knowledge, LastNews, RowKnows, FetchKnows

(* What the messages and the node do is all that matters of a message: it says    *)
(* what the node has, and of what it does not say nothing changed.              *)
LEMMA NodeSaid ==
    ASSUME NodeInv, NEW m \in Messages, waiting' = Append(waiting, m), lit' \in Full,
           \A a \in Attrs : lit'[a] = IF m.params[a] = Unset THEN lit[a] ELSE m.params[a],
           UNCHANGED <<lists, loaded, refresh, missed, news>>
    PROVE  waiting' \in Seq(Messages) /\ RowsHeld' /\ Knowledge'
<1>0. NodeTypeOK /\ RowsHeld /\ Knowledge
  BY DEF NodeInv
<1>1. /\ waiting' \in Seq(Messages)
      /\ \A a \in Attrs : m.params[a] = Unset =>
           Waits(a)' = Waits(a) /\ \A i \in Waits(a) : waiting'[i] = waiting[i]
      /\ \A a \in Attrs : m.params[a] # Unset =>
           /\ Len(waiting) + 1 \in Waits(a)' /\ waiting'[Len(waiting) + 1] = m
           /\ \A i \in Waits(a)' : i \in Nat /\ i <= Len(waiting) + 1
  BY <1>0, WaitsAppend
<1>2. RowsHeld'
  BY <1>0 DEF RowsHeld, Rows, Partial, Blank
<1>3. ASSUME NEW a \in Attrs PROVE (LastNews(a) /\ RowKnows(a) /\ FetchKnows(a))'
  <2>1. LastNews(a) /\ RowKnows(a) /\ FetchKnows(a)
    BY <1>0 DEF Knowledge
  <2>2. CASE m.params[a] = Unset
    <3>1. Waits(a)' = Waits(a) /\ \A i \in Waits(a) : waiting'[i] = waiting[i]
      BY <1>1, <2>2
    <3>2. lit'[a] = lit[a]
      BY <2>2
    <3> QED
      BY <2>1, <3>1, <3>2 DEF LastNews, RowKnows, FetchKnows, Says
  <2>3. CASE m.params[a] # Unset
    <3>1. /\ Len(waiting) + 1 \in Waits(a)' /\ waiting'[Len(waiting) + 1] = m
          /\ \A i \in Waits(a)' : i \in Nat /\ i <= Len(waiting) + 1
      BY <1>1, <2>3
    <3>2. Len(waiting) \in Nat
      BY <1>0 DEF NodeTypeOK
    <3>3. \A i \in Waits(a)' : Len(waiting) + 1 <= i => i = Len(waiting) + 1
      BY <3>1, <3>2
    <3>4. lit'[a] = m.params[a]
      BY <2>3
    <3> QED
      BY <3>1, <3>3, <3>4 DEF LastNews, RowKnows, FetchKnows
  <2> QED
    BY <2>2, <2>3
<1> QED
  BY <1>1, <1>2, <1>3 DEF Knowledge

(* A change of the node is said. *)
LEMMA NodeTakes ==
    ASSUME NodeInv, NEW u \in Partial, Takes(u),
           UNCHANGED <<lists, loaded, refresh, missed, news>>
    PROVE  lit' \in Full /\ waiting' \in Seq(Messages) /\ RowsHeld' /\ Knowledge'
<1> DEFINE m == [kind |-> "props", params |-> u]
<1>1. lit' = Over(lit, u) /\ lit' \in Full
  BY OverTypes DEF Takes, NodeInv, NodeTypeOK
<1>2. m \in Messages /\ m.params = u /\ waiting' = Append(waiting, m)
  BY DEF Messages, Takes, Posted
<1> HIDE DEF m
<1>3. \A a \in Attrs : lit'[a] = IF m.params[a] = Unset THEN lit[a] ELSE m.params[a]
  BY <1>1, <1>2 DEF Over
<1> QED
  BY <1>1, <1>2, <1>3, NodeSaid

(* A topology and a synchronisation say what the node has, all or some of it. *)
LEMMA SentKeeps == ASSUME NodeInv, TopologySent \/ StateSent PROVE NodeInv'
<1>0. NodeTypeOK /\ lit \in Full
  BY DEF NodeInv, NodeTypeOK
<1>1. UNCHANGED <<lit, lists, loaded, refresh, write, moves, writes, faults, missed, news>>
  BY DEF TopologySent, StateSent, unheard
<1>2. PICK as \in SUBSET Attrs, kind \in {"props", "topology"} :
        waiting' = Append(waiting, [kind |-> kind,
                      params |-> [a \in Attrs |-> IF a \in as THEN lit[a] ELSE Unset]])
  <2>1. CASE TopologySent
    BY <2>1, StatedAssumption DEF TopologySent, Posted
  <2>2. CASE StateSent
    <3>1. lit = [a \in Attrs |-> IF a \in Attrs THEN lit[a] ELSE Unset]
      BY <1>0 DEF Full
    <3>2. waiting' = Append(waiting, [kind |-> "props",
                      params |-> [a \in Attrs |-> IF a \in Attrs THEN lit[a] ELSE Unset]])
      BY <2>2, <3>1 DEF StateSent, Posted
    <3> QED
      BY <3>2
  <2> QED
    BY <2>1, <2>2
<1> DEFINE m == [kind |-> kind, params |-> [a \in Attrs |-> IF a \in as THEN lit[a] ELSE Unset]]
<1>3. m \in Messages /\ waiting' = Append(waiting, m)
  BY <1>0, <1>2 DEF Messages, Full, Partial
<1>4. \A a \in Attrs : m.params[a] = IF a \in as THEN lit[a] ELSE Unset
  OBVIOUS
<1> HIDE DEF m
<1>5. \A a \in Attrs : lit'[a] = IF m.params[a] = Unset THEN lit[a] ELSE m.params[a]
  BY <1>1, <1>4
<1>6. waiting' \in Seq(Messages) /\ RowsHeld' /\ Knowledge'
  BY <1>0, <1>1, <1>3, <1>5, NodeSaid
<1>7. NodeTypeOK'
  BY <1>0, <1>1, <1>6 DEF NodeTypeOK, Messages
<1> QED
  BY <1>6, <1>7 DEF NodeInv

LEMMA NodeReportedKeeps == ASSUME NodeInv, NodeReported PROVE NodeInv'
<1> DEFINE u == Head(waiting).params
<1>0. NodeTypeOK /\ RowsHeld /\ Knowledge
  BY DEF NodeInv
<1>1. /\ waiting # <<>> /\ waiting' = Tail(waiting)
      /\ lists' = MergedInto(loaded, u)
      /\ missed' = missed \ Spoken(u)
      /\ news' = [r \in Refreshes |->
                     IF refresh[r].at = "fetched" THEN news[r] \cup Spoken(u) ELSE {}]
      /\ UNCHANGED <<lit, loaded, refresh, write, moves, writes, faults>>
  BY DEF NodeReported, Told, IsNews
<1>2. u \in Partial /\ waiting' \in Seq(Messages)
  BY <1>0, <1>1, TailTypes
<1>3. /\ lists' \in [Lists -> Rows \cup {NoRow}]
      /\ \A l \in Lists : lists[l] \in Rows => lists'[l] \in Rows
      /\ \A a \in Attrs : Says(lists'[loaded], a) =
           IF u[a] # Unset THEN u[a] ELSE Says(lists[loaded], a)
  BY <1>0, <1>1, <1>2, MergedRow DEF RowsHeld
<1>4. ASSUME NEW a \in Attrs
      PROVE  /\ LastNews(a)'
             /\ Waits(a)' = {} /\ u[a] = Unset => Waits(a) = {}
             /\ Waits(a)' = {} /\ u[a] # Unset => u[a] = lit[a]
  BY <1>0, <1>1, NewsKept DEF Knowledge
<1> HIDE DEF u
<1>5. missed' \subseteq Attrs /\ news' \in [Refreshes -> SUBSET Attrs]
  BY <1>0, <1>1 DEF NodeTypeOK, Spoken
<1>6. NodeTypeOK'
  BY <1>0, <1>1, <1>2, <1>3, <1>5 DEF NodeTypeOK, Messages
<1>7. RowsHeld'
  <2>1. loaded \in Lists /\ loaded' = loaded /\ refresh' = refresh
    BY <1>0, <1>1 DEF NodeTypeOK
  <2> QED
    BY <1>0, <1>3, <2>1 DEF RowsHeld
<1>8. ASSUME NEW a \in Attrs PROVE (RowKnows(a) /\ FetchKnows(a))'
  <2>1. RowKnows(a) /\ FetchKnows(a)
    BY <1>0 DEF Knowledge
  <2>2. CASE u[a] = Unset
    <3>1. a \notin missed' => a \notin missed
      BY <1>1, <2>2 DEF Spoken
    <3>2. \A r \in Refreshes : refresh[r].at = "fetched" /\ a \notin news'[r] => a \notin news[r]
      BY <1>1
    <3> QED
      BY <1>1, <1>3, <1>4, <2>1, <2>2, <3>1, <3>2 DEF RowKnows, FetchKnows
  <2>3. CASE u[a] # Unset
    <3>1. \A r \in Refreshes : refresh[r].at = "fetched" => a \in news'[r]
      BY <1>1, <2>3 DEF Spoken
    <3> QED
      BY <1>1, <1>3, <1>4, <2>3, <3>1 DEF RowKnows, FetchKnows
  <2> QED
    BY <2>2, <2>3
<1> QED
  BY <1>2, <1>4, <1>6, <1>7, <1>8 DEF NodeInv, Knowledge

(* Whatever takes the place of the loaded list, the lists found are kept. *)
LEMMA NewListKeeps ==
    ASSUME NodeTypeOK, RowsHeld, NEW entry \in Rows, NewList(entry),
           \A r \in Refreshes : refresh'[r].at # "idle" => refresh'[r] = refresh[r]
    PROVE  /\ lists' \in [Lists -> Rows \cup {NoRow}] /\ loaded' \in Lists /\ lists'[loaded'] = entry
           /\ RowsHeld'
<1>1. Fresh \in Lists /\ \A r \in Refreshes : refresh[r].found # Fresh
  BY FreshList
<1>2. lists' \in [Lists -> Rows \cup {NoRow}] /\ loaded' = Fresh /\ lists'[loaded'] = entry
  BY <1>1, NewRows DEF NewList, NodeTypeOK, Rows, NoRow
<1>3. ASSUME NEW r \in Refreshes, refresh'[r].at # "idle"
      PROVE  /\ refresh'[r].found \in Lists /\ lists'[refresh'[r].found] \in Rows
             /\ refresh'[r].at = "fetched" =>
                  refresh'[r].row \in Rows /\ refresh'[r].row.params = Blank
  <2>1. refresh'[r] = refresh[r] /\ refresh[r].at # "idle"
    BY <1>3
  <2>2. refresh'[r].found \in Lists /\ lists[refresh'[r].found] \in Rows
        /\ refresh'[r].found # Fresh
    BY <1>1, <2>1 DEF RowsHeld
  <2>3. lists'[refresh'[r].found] = lists[refresh'[r].found]
    BY <2>2 DEF NewList
  <2> QED
    BY <2>1, <2>2, <2>3 DEF RowsHeld
<1> QED
  BY <1>1, <1>2, <1>3 DEF RowsHeld

LEMMA NodeTopologyKeeps == ASSUME NodeInv, NodeTopology PROVE NodeInv'
<1> DEFINE s == Head(waiting).params
<1>0. NodeTypeOK /\ RowsHeld /\ Knowledge
  BY DEF NodeInv
<1>1. /\ waiting # <<>> /\ waiting' = Tail(waiting)
      /\ NewList(LanRow(s))
      /\ missed' = Attrs \ Spoken(s)
      /\ news' = [r \in Refreshes |->
                     IF refresh[r].at = "fetched" THEN news[r] \cup Spoken(s) ELSE {}]
      /\ UNCHANGED <<lit, refresh, write, moves, writes, faults>>
  BY DEF NodeTopology, IsNews
<1>2. s \in Partial /\ waiting' \in Seq(Messages)
  BY <1>0, <1>1, TailTypes
<1>3. ASSUME NEW a \in Attrs
      PROVE  /\ LastNews(a)'
             /\ Waits(a)' = {} /\ s[a] = Unset => Waits(a) = {}
             /\ Waits(a)' = {} /\ s[a] # Unset => s[a] = lit[a]
  BY <1>0, <1>1, NewsKept DEF Knowledge
<1> HIDE DEF s
<1>4. /\ lists' \in [Lists -> Rows \cup {NoRow}] /\ loaded' \in Lists /\ lists'[loaded'] = LanRow(s)
      /\ RowsHeld'
  BY <1>0, <1>1, <1>2, NewRows, NewListKeeps
<1>5. missed' \subseteq Attrs /\ news' \in [Refreshes -> SUBSET Attrs]
  BY <1>0, <1>1 DEF NodeTypeOK, Spoken
<1>6. NodeTypeOK'
  BY <1>0, <1>1, <1>2, <1>4, <1>5 DEF NodeTypeOK, Messages
<1>7. ASSUME NEW a \in Attrs PROVE (RowKnows(a) /\ FetchKnows(a))'
  <2>1. FetchKnows(a)
    BY <1>0 DEF Knowledge
  <2>2. CASE s[a] = Unset
    <3>1. a \in missed'
      BY <1>1, <2>2 DEF Spoken
    <3>2. \A r \in Refreshes : refresh[r].at = "fetched" /\ a \notin news'[r] => a \notin news[r]
      BY <1>1
    <3> QED
      BY <1>1, <1>3, <2>1, <2>2, <3>1, <3>2 DEF RowKnows, FetchKnows
  <2>3. CASE s[a] # Unset
    <3>1. Says(LanRow(s), a) = s[a]
      BY <1>2, <2>3, NewRows
    <3>2. \A r \in Refreshes : refresh[r].at = "fetched" => a \in news'[r]
      BY <1>1, <2>3 DEF Spoken
    <3> QED
      BY <1>1, <1>3, <1>4, <2>3, <3>1, <3>2 DEF RowKnows, FetchKnows
  <2> QED
    BY <2>2, <2>3
<1> QED
  BY <1>2, <1>3, <1>4, <1>6, <1>7 DEF NodeInv, Knowledge

(* A refresh that begins, fetches or fails leaves the lists as they are. *)
LEMMA RefreshKeeps ==
    ASSUME NodeInv, NEW r \in Refreshes, RefreshBegins(r) \/ RefreshFetches(r) \/ FetchFails(r)
    PROVE  NodeInv'
<1>0. NodeTypeOK /\ RowsHeld /\ Knowledge
  BY DEF NodeInv
<1>1. UNCHANGED <<lit, waiting, lists, loaded, write, moves, writes, missed, news>>
      /\ faults' \in 0 .. MaxFaults
  BY <1>0, NodeBounds DEF RefreshBegins, RefreshFetches, FetchFails, unheard, NodeTypeOK
<1>2. /\ lit \in Full /\ CloudRow(lit) \in Rows
      /\ CloudRow(lit).params = Blank /\ CloudRow(lit).properties = lit
  BY <1>0, NewRows DEF CloudRow, NodeTypeOK
<1>3. /\ refresh' \in [Refreshes -> [at : {"idle", "begun", "fetched", "failed"},
                                     found : Lists \cup {Unset}, row : Rows \cup {NoRow}]]
      /\ \A q \in Refreshes : q # r => refresh'[q] = refresh[q]
  <2>1. CASE RefreshBegins(r)
    BY <1>0, <2>1 DEF RefreshBegins, NodeTypeOK
  <2>2. CASE RefreshFetches(r)
    <3> DEFINE e == [refresh[r] EXCEPT !.at = "fetched", !.row = CloudRow(lit)]
    <3>1. refresh' = [refresh EXCEPT ![r] = e]
      BY <1>0, <2>2 DEF RefreshFetches, NodeTypeOK
    <3>2. e \in [at : {"idle", "begun", "fetched", "failed"},
                found : Lists \cup {Unset}, row : Rows \cup {NoRow}]
      <4>1. /\ refresh[r] \in [at : {"idle", "begun", "fetched", "failed"},
                               found : Lists \cup {Unset}, row : Rows \cup {NoRow}]
            /\ CloudRow(lit) \in Rows
        BY <1>0, <1>2 DEF NodeTypeOK
      <4> QED
        BY <4>1
    <3> HIDE DEF e
    <3> QED
      BY <1>0, <3>1, <3>2 DEF NodeTypeOK
  <2>3. CASE FetchFails(r)
    BY <1>0, <2>3 DEF FetchFails, NodeTypeOK
  <2> QED
    BY <2>1, <2>2, <2>3
<1>4. /\ refresh'[r].found \in Lists /\ lists[refresh'[r].found] \in Rows
      /\ refresh'[r].at = "fetched" => refresh'[r].row = CloudRow(lit)
  <2>1. CASE RefreshBegins(r)
    BY <1>0, <2>1 DEF RefreshBegins, NodeTypeOK, RowsHeld
  <2>2. CASE RefreshFetches(r) \/ FetchFails(r)
    <3>1. refresh[r].at = "begun" /\ refresh'[r].found = refresh[r].found
      BY <1>0, <2>2 DEF RefreshFetches, FetchFails, NodeTypeOK
    <3>2. refresh'[r].at = "fetched" => refresh'[r].row = CloudRow(lit)
      BY <1>0, <2>2 DEF RefreshFetches, FetchFails, NodeTypeOK
    <3> QED
      BY <1>0, <3>1, <3>2 DEF RowsHeld
  <2> QED
    BY <2>1, <2>2
<1>5. NodeTypeOK'
  BY <1>0, <1>1, <1>3 DEF NodeTypeOK
<1>6. RowsHeld'
  <2>1. \A q \in Refreshes : refresh'[q].at # "idle" =>
          refresh'[q].found \in Lists /\ lists[refresh'[q].found] \in Rows
    BY <1>0, <1>3, <1>4 DEF RowsHeld
  <2>2. \A q \in Refreshes : refresh'[q].at = "fetched" =>
          refresh'[q].row \in Rows /\ refresh'[q].row.params = Blank
    BY <1>0, <1>2, <1>3, <1>4 DEF RowsHeld
  <2> QED
    BY <1>0, <1>1, <2>1, <2>2 DEF RowsHeld
<1>7. \A a \in Attrs : Waits(a)' = Waits(a)
  BY <1>0, <1>1 DEF Waits
<1>8. ASSUME NEW a \in Attrs PROVE (LastNews(a) /\ RowKnows(a) /\ FetchKnows(a))'
  <2>1. LastNews(a) /\ RowKnows(a) /\ FetchKnows(a)
    BY <1>0 DEF Knowledge
  <2> QED
    BY <1>1, <1>2, <1>3, <1>4, <1>7, <2>1 DEF LastNews, RowKnows, FetchKnows
<1> QED
  BY <1>5, <1>6, <1>7, <1>8 DEF NodeInv, Knowledge

LEMMA PutBackKeeps ==
    ASSUME NodeTypeOK, RowsHeld, NEW l \in Lists, lists[l] \in Rows, PutBack(l),
           \A r \in Refreshes : refresh'[r].at # "idle" => refresh'[r] = refresh[r]
    PROVE  /\ lists' \in [Lists -> Rows \cup {NoRow}] /\ loaded' = l /\ lists'[loaded'] = lists[l]
           /\ RowsHeld'
<1>1. lists' \in [Lists -> Rows \cup {NoRow}] /\ loaded' = l /\ lists'[loaded'] = lists[l]
  BY NewRows DEF PutBack, NodeTypeOK, Rows, NoRow
<1>2. ASSUME NEW r \in Refreshes, refresh'[r].at # "idle"
      PROVE  /\ refresh'[r].found \in Lists /\ lists'[refresh'[r].found] \in Rows
             /\ refresh'[r].at = "fetched" =>
                  refresh'[r].row \in Rows /\ refresh'[r].row.params = Blank
  <2>1. refresh'[r] = refresh[r] /\ refresh[r].at # "idle"
    BY <1>2
  <2>2. refresh'[r].found \in Lists /\ lists[refresh'[r].found] \in Rows
    BY <2>1 DEF RowsHeld
  <2>3. lists'[refresh'[r].found] = lists[refresh'[r].found]
    BY <2>2 DEF PutBack
  <2> QED
    BY <2>1, <2>2, <2>3 DEF RowsHeld
<1> QED
  BY <1>1, <1>2 DEF RowsHeld

(* The end of a refresh: a row that was fetched is put in place, with the news    *)
(* that it lacks, or a list is put back.                                     *)
LEMMA RefreshEndKeeps ==
    ASSUME NodeInv, NEW r \in Refreshes, RefreshEnds(r) \/ RefreshAborts(r)
    PROVE  NodeInv'
<1>0. NodeTypeOK /\ RowsHeld /\ Knowledge
  BY DEF NodeInv
<1>1. /\ refresh' = [refresh EXCEPT ![r] = Idle]
      /\ news' = [news EXCEPT ![r] = {}]
      /\ UNCHANGED <<lit, waiting, write, moves, writes>>
      /\ faults' \in 0 .. MaxFaults
      /\ refresh[r].at # "idle"
  BY <1>0, NodeBounds DEF RefreshEnds, RefreshAborts, NodeTypeOK
<1>2. /\ refresh' \in [Refreshes -> [at : {"idle", "begun", "fetched", "failed"},
                                     found : Lists \cup {Unset}, row : Rows \cup {NoRow}]]
      /\ refresh'[r].at = "idle"
      /\ \A q \in Refreshes : q # r => refresh'[q] = refresh[q]
      /\ \A q \in Refreshes : refresh'[q].at # "idle" => refresh'[q] = refresh[q]
      /\ \A q \in Refreshes : refresh'[q].at # "idle" => news'[q] = news[q]
  BY <1>0, <1>1, NewRows DEF Idle, NodeTypeOK
<1>3. \/ NewList(refresh[r].row) /\ missed' = news[r] /\ refresh[r].at = "fetched"
      \/ \E l \in {loaded, refresh[r].found} : PutBack(l)
  BY DEF RefreshEnds, RefreshAborts
<1>4. \A a \in Attrs : Waits(a)' = Waits(a)
  BY <1>0, <1>1 DEF Waits
<1>5. ASSUME NEW a \in Attrs PROVE LastNews(a)' /\ FetchKnows(a)'
  <2>1. LastNews(a) /\ FetchKnows(a)
    BY <1>0 DEF Knowledge
  <2>2. LastNews(a)'
    BY <1>1, <1>4, <2>1 DEF LastNews
  <2>3. FetchKnows(a)'
    BY <1>1, <1>2, <1>4, <2>1 DEF FetchKnows
  <2> QED
    BY <2>2, <2>3
<1>6. /\ lists' \in [Lists -> Rows \cup {NoRow}] /\ loaded' \in Lists /\ missed' \subseteq Attrs
      /\ RowsHeld'
      /\ \A a \in Attrs : RowKnows(a)'
  <2>1. CASE NewList(refresh[r].row) /\ missed' = news[r] /\ refresh[r].at = "fetched"
    <3>1. refresh[r].row \in Rows /\ refresh[r].row.params = Blank
      BY <1>0, <2>1 DEF RowsHeld
    <3>3. \A a \in Attrs : Says(refresh[r].row, a) = refresh[r].row.properties[a]
      BY <3>1 DEF Says, Blank
    <3>4. /\ lists' \in [Lists -> Rows \cup {NoRow}] /\ loaded' \in Lists /\ lists'[loaded'] = refresh[r].row
          /\ RowsHeld'
      BY <1>0, <1>2, <2>1, <3>1, NewListKeeps
    <3>5. ASSUME NEW a \in Attrs PROVE RowKnows(a)'
      <4>1. FetchKnows(a)
        BY <1>0 DEF Knowledge
      <4> QED
        BY <1>1, <1>4, <2>1, <3>3, <3>4, <4>1 DEF RowKnows, FetchKnows
    <3>6. missed' \subseteq Attrs
      BY <1>0, <2>1 DEF NodeTypeOK
    <3> QED
      BY <3>4, <3>5, <3>6
  <2>2. ASSUME NEW l \in {loaded, refresh[r].found}, PutBack(l)
        PROVE  /\ lists' \in [Lists -> Rows \cup {NoRow}] /\ loaded' \in Lists /\ missed' \subseteq Attrs
               /\ RowsHeld'
               /\ \A a \in Attrs : RowKnows(a)'
    <3>1. l \in Lists /\ lists[l] \in Rows
      BY <1>0, <1>1, <2>2 DEF NodeTypeOK, RowsHeld
    <3>2. /\ lists' \in [Lists -> Rows \cup {NoRow}] /\ loaded' = l /\ lists'[loaded'] = lists[l]
          /\ RowsHeld'
      BY <1>0, <1>2, <2>2, <3>1, PutBackKeeps
    <3>3. missed' = IF l = loaded THEN missed ELSE Attrs
      BY <2>2 DEF PutBack
    <3>4. ASSUME NEW a \in Attrs PROVE RowKnows(a)'
      <4>1. RowKnows(a)
        BY <1>0 DEF Knowledge
      <4> QED
        BY <1>1, <1>4, <3>2, <3>3, <4>1 DEF RowKnows
    <3>5. missed' \subseteq Attrs
      BY <1>0, <3>3 DEF NodeTypeOK
    <3> QED
      BY <3>1, <3>2, <3>4, <3>5
  <2> QED
    BY <1>3, <2>1, <2>2
<1>7. news' \in [Refreshes -> SUBSET Attrs]
  BY <1>0, <1>1 DEF NodeTypeOK
<1>8. NodeTypeOK'
  BY <1>0, <1>1, <1>2, <1>6, <1>7 DEF NodeTypeOK
<1> QED
  BY <1>4, <1>5, <1>6, <1>8 DEF NodeInv, Knowledge

LEMMA WriteAnsweredKeeps == ASSUME NodeInv, WriteAnswered PROVE NodeInv'
<1> DEFINE u == write.params
<1>0. NodeTypeOK /\ RowsHeld /\ Knowledge
  BY DEF NodeInv
<1>1. /\ lists' = MergedInto(loaded, u)
      /\ missed' = (missed \ Spoken(u)) \cup {a \in Attrs : u[a] \notin {Unset, lit[a]}}
      /\ write' = NoWrite
      /\ UNCHANGED <<lit, waiting, loaded, refresh, moves, writes, faults, news>>
      /\ u \in Partial
  BY <1>0 DEF WriteAnswered, NodeTypeOK
<1> HIDE DEF u
<1>2. /\ lists' \in [Lists -> Rows \cup {NoRow}]
      /\ \A l \in Lists : lists[l] \in Rows => lists'[l] \in Rows
      /\ \A a \in Attrs : Says(lists'[loaded], a) =
           IF u[a] # Unset THEN u[a] ELSE Says(lists[loaded], a)
  BY <1>0, <1>1, MergedRow DEF RowsHeld
<1>3. write' \in [params : Partial, applied : BOOLEAN] /\ missed' \subseteq Attrs
  BY <1>0, <1>1, FullPartial DEF NoWrite, NodeTypeOK
<1>4. NodeTypeOK'
  BY <1>0, <1>1, <1>2, <1>3 DEF NodeTypeOK
<1>5. RowsHeld'
  <2>1. loaded \in Lists /\ loaded' = loaded /\ refresh' = refresh
    BY <1>0, <1>1 DEF NodeTypeOK
  <2> QED
    BY <1>0, <1>2, <2>1 DEF RowsHeld
<1>6. \A a \in Attrs : Waits(a)' = Waits(a)
  BY <1>0, <1>1 DEF Waits
<1>7. ASSUME NEW a \in Attrs PROVE (LastNews(a) /\ RowKnows(a) /\ FetchKnows(a))'
  <2>1. LastNews(a) /\ RowKnows(a) /\ FetchKnows(a)
    BY <1>0 DEF Knowledge
  <2>2. RowKnows(a)'
    <3>1. a \notin missed' => u[a] = lit[a] \/ (u[a] = Unset /\ a \notin missed)
      BY <1>1 DEF Spoken
    <3>2. lit[a] # Unset
      BY <1>0, NodeAssumption DEF NodeTypeOK, Full
    <3> QED
      BY <1>1, <1>2, <1>6, <2>1, <3>1, <3>2 DEF RowKnows
  <2> QED
    BY <1>1, <1>6, <2>1, <2>2 DEF LastNews, FetchKnows
<1> QED
  BY <1>4, <1>5, <1>6, <1>7 DEF NodeInv, Knowledge

LEMMA NodeStep == NodeInv /\ [NextNode]_nodeVars => NodeInv'
<1> SUFFICES ASSUME NodeInv, [NextNode]_nodeVars PROVE NodeInv'
  OBVIOUS
<1>0. NodeTypeOK /\ RowsHeld /\ Knowledge
  BY DEF NodeInv
<1>1. ASSUME NEW a \in Attrs, NEW v \in Levels, NodeMoves(a, v) PROVE NodeInv'
  <2>1. [Blank EXCEPT ![a] = v] \in Partial
    BY DEF Blank, Partial
  <2>2. UNCHANGED <<lists, loaded, refresh, write, writes, faults, missed, news>>
        /\ Takes([Blank EXCEPT ![a] = v]) /\ moves' \in 0 .. MaxMoves
    BY <1>0, <1>1, NodeBounds DEF NodeMoves, unheard, NodeTypeOK
  <2>3. /\ lit' \in Full /\ waiting' \in Seq(Messages)
        /\ RowsHeld' /\ Knowledge'
    BY <2>1, <2>2, NodeTakes
  <2> QED
    BY <1>0, <2>2, <2>3 DEF NodeInv, NodeTypeOK, Messages
<1>2. CASE WriteApplied
  <2>1. UNCHANGED <<lists, loaded, refresh, moves, writes, faults, missed, news>>
        /\ Takes(write.params) /\ write.params \in Partial
        /\ write' \in [params : Partial, applied : BOOLEAN]
    BY <1>0, <1>2 DEF WriteApplied, unheard, NodeTypeOK
  <2>2. /\ lit' \in Full /\ waiting' \in Seq(Messages)
        /\ RowsHeld' /\ Knowledge'
    BY <2>1, NodeTakes
  <2> QED
    BY <1>0, <2>1, <2>2 DEF NodeInv, NodeTypeOK, Messages
<1>3. ASSUME UNCHANGED <<lit, waiting, lists, loaded, refresh, moves, faults, missed, news>>,
             write' \in [params : Partial, applied : BOOLEAN], writes' \in 0 .. MaxWrites
      PROVE  NodeInv'
  <2>1. NodeTypeOK' /\ RowsHeld' /\ \A a \in Attrs : Waits(a)' = Waits(a)
    BY <1>0, <1>3 DEF NodeTypeOK, RowsHeld, Waits
  <2> QED
    BY <1>0, <1>3, <2>1 DEF NodeInv, Knowledge, LastNews, RowKnows, FetchKnows
<1>4. ASSUME NEW u \in Partial, WriteStarts(u) PROVE NodeInv'
  BY <1>0, <1>3, <1>4, NodeBounds DEF WriteStarts, unheard, NodeTypeOK
<1>5. CASE WriteFails
  BY <1>0, <1>3, <1>5, FullPartial DEF WriteFails, unheard, NodeTypeOK, NoWrite
<1>6. CASE UNCHANGED nodeVars
  BY <1>0, <1>3, <1>6 DEF nodeVars, unheard, NodeTypeOK
<1> QED
  BY <1>1, <1>2, <1>4, <1>5, <1>6, SentKeeps, NodeReportedKeeps, NodeTopologyKeeps,
     RefreshKeeps, RefreshEndKeeps, WriteAnsweredKeeps
  DEF NextNode

(* The variables of NodeRows keep their types; the lists that are loaded or may   *)
(* be put back have the row; the last message on its way tells the truth; and    *)
(* with none on its way, a row that is loaded or fetched is as the node is, but   *)
(* for the news it lacks.                                                    *)
THEOREM NodeInvariant == SpecNode => []NodeInv
<1>1. SpecNode => InitNode /\ [][NextNode]_nodeVars
  BY DEF SpecNode
<1> QED
  BY <1>1, NodeInit, NodeStep, PTL

(* NodeRows: once what was said of a property is handled, the row has it as the   *)
(* node has it, however refreshes overlap, fail and end late, unless a fetched     *)
(* row lacks the news handled meanwhile, an older list was put back, a topology    *)
(* did not state the property, or an answer was not true.                      *)
THEOREM RowIsCurrentAlways == SpecNode => []RowIsCurrent
<1>1. ASSUME NodeInv PROVE RowIsCurrent
  <2> SUFFICES ASSUME NEW a \in Attrs \ missed,
                      \A i \in DOMAIN waiting : waiting[i].params[a] = Unset
               PROVE  Says(TheRow, a) = lit[a]
    BY DEF RowIsCurrent
  <2>1. Waits(a) = {}
    BY <1>1 DEF NodeInv, NodeTypeOK, Waits
  <2> QED
    BY <1>1, <2>1 DEF NodeInv, Knowledge, RowKnows, TheRow
<1>2. NodeInv => RowIsCurrent
  BY <1>1
<1> QED
  BY <1>2, NodeInvariant, PTL

-----------------------------------------------------------------------------
(* PropertyHydration *)

USE HydrationAssumption

LEMMA RowsSound == HydrationInv => RowSound
<1> SUFFICES ASSUME HydrationInv, phase = "done", NEW k \in Props
             PROVE  /\ row[k] # Nil => row[k] \in since[k]
                    /\ merged[k] \in Vals /\ DeviceOf[k] \notin empty => row[k] # Nil
  BY DEF RowSound, RowWasReal, AnswersKeptUnlessEmpty, Given
<1>1. row[k] = RowOf(k) /\ dropped \subseteq empty
  BY DEF HydrationInv, AnswersInv
<1>2. /\ merged[k] \in Vals => merged[k] \in since[k]
      /\ listedValue[k] # Nil => listedValue[k] \in since[k]
  BY DEF HydrationInv, AnswersInv
<1> QED
  BY <1>1, <1>2 DEF RowOf

LEMMA InitHydrationInv == InitHydration => HydrationInv
<1> SUFFICES ASSUME InitHydration PROVE HydrationInv
  OBVIOUS
<1>1. HydrationTypeOK
  BY DEF InitHydration, HydrationTypeOK, Nothing, Reads
<1> QED
  BY <1>1 DEF InitHydration, HydrationInv, AnswersInv

(* Each read of a poll keeps it. *)
LEMMA HydrationStep == HydrationInv /\ [NextHydration]_hydrationVars => HydrationInv'
<1> SUFFICES ASSUME HydrationInv, [NextHydration]_hydrationVars PROVE HydrationInv'
  OBVIOUS
<1> USE DEF HydrationInv
<1>1. ASSUME NEW k \in Props, NEW v \in Vals, Changes(k, v) PROVE HydrationInv'
  <2>1. HydrationTypeOK'
    BY <1>1 DEF Changes, HydrationTypeOK
  <2>2. /\ real' = [real EXCEPT ![k] = v]
        /\ since' = [since EXCEPT ![k] = @ \cup {v}]
    BY <1>1 DEF Changes
  <2>3. \A j \in Props : since[j] \subseteq since'[j]
    BY <2>2 DEF HydrationTypeOK
  <2>4. \A j \in Props : real'[j] \in since'[j] \/ real'[j] = real[j]
    BY <2>2 DEF HydrationTypeOK
  <2>5. AnswersInv'
    BY <1>1, <2>3, <2>4 DEF Changes, AnswersInv, RowOf
  <2> QED
    BY <2>1, <2>5
<1>2. CASE ListDevices
  <2>1. PICK known \in SUBSET Props :
          listedValue' = [k \in Props |-> IF k \in known THEN real[k] ELSE Nil]
    BY <1>2 DEF ListDevices
  <2>2. HydrationTypeOK'
    BY <1>2, <2>1 DEF ListDevices, HydrationTypeOK, Nothing, Reads
  <2>3. AnswersInv'
    BY <1>2, <2>1 DEF ListDevices, HydrationTypeOK, AnswersInv, Nothing
  <2> QED
    BY <2>2, <2>3
<1>3. ASSUME NEW g \in Groups, GroupRead(g) PROVE HydrationInv'
  <2>1. PICK answer \in Answers({k \in Props : GroupOf[DeviceOf[k]] = g}) :
          merged' = Update(merged, answer)
    BY <1>3 DEF GroupRead
  <2>2. answer \in Reads /\ \A k \in Props : answer[k] \in {real[k], Nil, Null}
    BY <2>1 DEF Answers
  <2>3. merged' \in Reads
    BY <2>1, <2>2 DEF Update, HydrationTypeOK, Reads
  <2>4. \A k \in Props : merged'[k] \in {merged[k], real[k], Null}
    BY <2>1, <2>2 DEF Update
  <2>5. HydrationTypeOK'
    BY <1>3, <2>3 DEF GroupRead, HydrationTypeOK
  <2>6. AnswersInv'
    BY <1>3, <2>4 DEF GroupRead, AnswersInv
  <2> QED
    BY <2>5, <2>6
<1>4. ASSUME NEW g \in Groups, GroupFails(g) PROVE HydrationInv'
  BY <1>4 DEF GroupFails, HydrationTypeOK, AnswersInv
<1>5. CASE GroupsDone
  BY <1>5 DEF GroupsDone, HydrationTypeOK, AnswersInv
<1>6. ASSUME NEW d \in Owners, DeviceBegins(d) PROVE HydrationInv'
  BY <1>6 DEF DeviceBegins, HydrationTypeOK, AnswersInv
<1>7. ASSUME NEW k \in Channels, NEW v \in Vals \cup {Null}, ChannelRead(k, v) PROVE HydrationInv'
  <2>1. HydrationTypeOK'
    BY <1>7 DEF ChannelRead, HydrationTypeOK, Reads
  <2>2. \A j \in Props : merged'[j] \in {merged[j], real[j], Null}
    BY <1>7 DEF ChannelRead, HydrationTypeOK, Reads
  <2>3. AnswersInv'
    BY <1>7, <2>2 DEF ChannelRead, AnswersInv
  <2> QED
    BY <2>1, <2>3
<1>8. ASSUME NEW k \in Channels, ChannelEmpty(k) PROVE HydrationInv'
  BY <1>8 DEF ChannelEmpty, HydrationTypeOK, AnswersInv, Owners
<1>9. ASSUME NEW k \in Channels, ChannelFails(k) PROVE HydrationInv'
  BY <1>9 DEF ChannelFails, HydrationTypeOK, AnswersInv
<1>10. CASE TokenRefused
  BY <1>10 DEF TokenRefused, HydrationTypeOK, AnswersInv
<1>11. CASE Return
  <2>1. \A k \in Props : RowOf(k) \in Vals \cup {Nil}
    BY DEF RowOf, HydrationTypeOK
  <2>2. HydrationTypeOK'
    BY <1>11, <2>1 DEF Return, HydrationTypeOK
  <2>3. AnswersInv'
    BY <1>11 DEF Return, AnswersInv, RowOf
  <2> QED
    BY <2>2, <2>3
<1>12. CASE UNCHANGED hydrationVars
  BY <1>12 DEF hydrationVars, HydrationTypeOK, AnswersInv, RowOf
<1> QED
  BY <1>1, <1>2, <1>3, <1>4, <1>5, <1>6, <1>7, <1>8, <1>9, <1>10, <1>11, <1>12 DEF NextHydration

THEOREM HydrationInvariant == SpecHydration => []HydrationInv
BY InitHydrationInv, HydrationStep, PTL DEF SpecHydration

(* The row that a poll returns holds what its own properties had since the list    *)
(* was read, and every value that was answered, for any devices, groups and        *)
(* sub-devices, and however often they change meanwhile.                           *)
THEOREM RowSoundAlways == SpecHydration => []RowSound
BY HydrationInvariant, RowsSound, PTL
=============================================================================
