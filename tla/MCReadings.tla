------------------------------ MODULE MCReadings ------------------------------
(***************************************************************************)
(* Ways in which a reading reaches an entity, one of them in each behaviour:   *)
(* the feed and the polls of a device (DeviceState), the keys and numbers of    *)
(* its components (ComponentState), the reads that complete a poll             *)
(* (PropertyHydration), the rows of groups and rooms (NodeRows), and what        *)
(* entities show and send (EntityControls).                                  *)
(***************************************************************************)
EXTENDS DeviceState, ComponentState, PropertyHydration, NodeRows, EntityControls,
    FiniteSetsExt, TLC

CONSTANT Ways       \* the ways of this run

VARIABLE way

readingVars == <<way, vars, compVars, hydrationVars, nodeVars, controlVars>>

-----------------------------------------------------------------------------
(* A type that names a default for one of its properties.                     *)
MCDefaults ==
    [k \in Keys |-> IF k = CHOOSE x \in Keys : TRUE THEN CHOOSE v \in Values : TRUE ELSE None]

-----------------------------------------------------------------------------
(* A device with two sub-devices, and one with none, in groups of their own.  *)
MCProps    == {"d1.1", "d1.2", "d2"}
MCDeviceOf == [k \in MCProps |-> IF k = "d2" THEN "d2" ELSE "d1"]
MCGroupOf  == ("d1" :> "g1") @@ ("d2" :> "g2")
MCChannels == {"d1.1", "d1.2"}

(* Thermostats of one component and of two, with the official schema and with  *)
(* an inferred one, and scaled sensors.                                      *)
Device(official, reader, writable, ps, zoom) ==
    [official |-> official, indexed |-> Cardinality(ps) > 1, reader |-> reader,
     writable |-> writable, parts |-> ps,
     index |-> [c \in {1, 2} |-> IF Cardinality(ps) > 1 THEN c ELSE 0],
     zoom |-> zoom, scale |-> IF writable THEN 1 ELSE 2]

MCFleet ==
    { Device(TRUE, "climate", TRUE, {1}, "divide"),
      Device(TRUE, "climate", TRUE, {1, 2}, "keep"),
      Device(FALSE, "climate", TRUE, {1, 2}, "keep"),
      Device(FALSE, "sensor", TRUE, {1, 2}, "keep"),
      Device(TRUE, "sensor", FALSE, {1}, "divide"),
      Device(TRUE, "sensor", FALSE, {1, 2}, "multiply"),
      [Device(FALSE, "climate", TRUE, {1}, "keep")
          EXCEPT !.indexed = TRUE, !.index = [c \in {1, 2} |-> c]] }

-----------------------------------------------------------------------------
(* Entities of every kind, with the ranges that the products have, the widest    *)
(* and the narrowest.                                                        *)
Lamp(lo, hi, keys) ==
    [kind |-> "light", lo |-> lo, hi |-> hi, warm |-> 2700, cool |-> 6500,
     keys |-> {"p"} \cup keys]
Node(keys)         == [kind |-> "node", lo |-> 0, hi |-> 100, keys |-> {"p"} \cup keys]
Fan(lo, hi, keys)  == [kind |-> "fan", lo |-> lo, hi |-> hi, keys |-> {"vmcf"} \cup keys]
Switch(key, int)   == [kind |-> "switch", key |-> key, int |-> int, keys |-> {key}]

MCUnits ==
    { Lamp(1, 100, {"l"}), Lamp(0, 120, {"l"}), Lamp(1, 100, {"l", "ct"}),
      Lamp(1, 100, {"l", "c"}), Lamp(1, 100, {"l", "ct", "c", "m"}), Lamp(0, 1, {}),
      Node({"l", "ct", "c", "m"}), Node({"l"}),
      [kind |-> "cover", keys |-> {"cp", "tp", "cra", "tra"}],
      [kind |-> "cover", keys |-> {"cp", "tp"}],
      Fan(1, 100, {"vmcp"}), Fan(0, 3, {"vmcp"}), Fan(1, 60, {"vmcp"}), Fan(1, 7, {}),
      [kind |-> "climate", fans |-> {1, 2, 4}, keys |-> {"acp", "acm", "actt", "acf"}],
      [kind |-> "select", key |-> "bhm", keys |-> {"bhm"}, readOnly |-> {"5"},
       options |-> << [code |-> "1", desc |-> "x"], [code |-> "2", desc |-> "x"],
                      [code |-> "3", desc |-> "y"], [code |-> "5", desc |-> "z"] >>],
      Switch("li", TRUE), Switch("lc", FALSE) }

(* The values of a property: all of them, or only some; every brightness only    *)
(* of a lamp without colours.                                                *)
PropertyValues(u, k, all) ==
    CASE k \in {"p", "acp", "vmcp", "lc"} -> BOOLEAN
      [] k = "l"    -> IF all /\ u.keys = {"p", "l"} THEN u.lo .. u.hi ELSE {50}
      [] k = "vmcf" -> IF all THEN 0 .. u.hi ELSE {0, u.hi}
      [] k = "ct"   -> IF all THEN {2000, 2700, 4000} ELSE {4000}
      [] k = "c"    -> {0, 255}
      [] k = "m"    -> {1, 2}
      [] k \in {"cp", "tp"}   -> IF all THEN 0 .. 100 ELSE {0, 50}
      [] k \in {"cra", "tra"} -> IF all THEN 0 .. 180 ELSE {0, 90}
      [] k \in {"acm", "acf"} -> {1, 2, 4, 8}
      [] k = "actt" -> IF all THEN {16, 26} ELSE {26}
      [] k = "bhm"  -> {"1", "2", "3", "5"}
      [] k = "li"   -> {0, 1}

Combined(u, ks, all) ==
    FoldSet(LAMBDA k, states : {(k :> v) @@ s : v \in PropertyValues(u, k, all), s \in states},
            {<<>>}, ks)

(* A motor is stored and moved while it stands still. *)
Standing(u, all) ==
    {s @@ [k \in u.keys \cap {"tp", "tra"} |-> IF k = "tp" THEN s["cp"] ELSE s["cra"]] :
        s \in Combined(u, u.keys \ {"tp", "tra"}, all)}

MCSettings(u) ==
    {s \in Standing(u, TRUE) : u.kind = "cover" /\ "cra" \in u.keys => s["cp"] \in {0, 37}}
OthersOf    == [u \in MCUnits |-> Standing(u, FALSE)]
MCOthers(u) == OthersOf[u]

-----------------------------------------------------------------------------
(* A way that is not taken stays in one state; the values of a device's property    *)
(* that has no default are interchangeable.                                  *)
InitReadings ==
    /\ way \in Ways
    /\ Init
    /\ \A k \in Keys : way # "device" \/ Defaults[k] = None =>
           actual[k] = CHOOSE v \in Values : TRUE
    /\ way # "device" => payload = actual
    /\ InitComponents
    /\ way # "components" =>
         /\ product = CHOOSE d \in Fleet : TRUE
         /\ raw = CHOOSE n \in [Parts -> Numbers] : TRUE
         /\ compParams = EmptyDict
    /\ InitHydration /\ (way # "hydration" => real = CHOOSE s \in [Props -> Vals] : TRUE)
    /\ InitNode /\ (way = "rows" => lit = [a \in Attrs |-> CHOOSE v \in Levels : TRUE])
    /\ way # "rows" => lit = CHOOSE s \in Full : TRUE
    /\ IF way = "scene" THEN InitControl
       ELSE unit = "" /\ own = "" /\ kept = "" /\ scene = "" /\ act = ""

(* Bounds: one property of the node may change, by itself or by a command, and    *)
(* the others be there or lack; a second refresh may begin while the first is      *)
(* under way, and the next when both are done; while two refreshes overlap one    *)
(* thing happens at most, and no command is sent.                              *)
FirstAttr    == CHOOSE a \in Attrs : TRUE
FirstLevel   == CHOOSE v \in Levels : TRUE
FirstRefresh == CHOOSE r \in Refreshes : TRUE

Begins(r) == refresh[r] = Idle /\ refresh'[r] # Idle

FewAtATime ==
    /\ \A a \in Attrs \ {FirstAttr} : {lit'[a], write'.params[a]} \subseteq {FirstLevel, Unset}
    /\ moves' + writes' <= 1
    /\ \/ writes' = 0 /\ moves' + faults' <= 1
       \/ \A r \in Refreshes \ {FirstRefresh} : refresh'[r] = Idle
    /\ Begins(FirstRefresh) => \A r \in Refreshes : refresh[r] = Idle
    /\ (\E r \in Refreshes \ {FirstRefresh} : Begins(r)) => refresh[FirstRefresh] # Idle

NextReadings ==
    /\ UNCHANGED way
    /\ \/ way = "device"     /\ Next
                             /\ UNCHANGED <<compVars, hydrationVars, nodeVars, controlVars>>
       \/ way = "components" /\ NextComponents
                             /\ UNCHANGED <<vars, hydrationVars, nodeVars, controlVars>>
       \/ way = "hydration"  /\ NextHydration
                             /\ UNCHANGED <<vars, compVars, nodeVars, controlVars>>
       \/ way = "rows"       /\ NextNode /\ FewAtATime
                             /\ UNCHANGED <<vars, compVars, hydrationVars, controlVars>>
       \/ way = "scene"      /\ NextControl
                             /\ UNCHANGED <<vars, compVars, hydrationVars, nodeVars>>

(* The fairness of DeviceState!FairSpec and NodeRows!FairNode, on their way.   *)
FairReadings ==
    /\ WF_vars(way = "device" /\ FeedNext)
    /\ \A p \in Polls :
         /\ WF_vars(way = "device" /\ PollReads(p))
         /\ SF_vars(way = "device" /\ PollEnds(p))
    /\ WF_nodeVars(way = "rows" /\ (NodeReported \/ NodeTopology))
    /\ WF_nodeVars(way = "rows" /\ \E r \in Refreshes :
                       RefreshBegins(r) \/ RefreshFetches(r) \/ RefreshEnds(r))

SpecReadings == InitReadings /\ [][NextReadings]_readingVars /\ FairReadings

(* Safety alone, for the runs that show a violation. *)
SafeReadings == InitReadings /\ [][NextReadings]_readingVars
=============================================================================
