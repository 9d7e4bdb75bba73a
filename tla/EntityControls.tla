---------------------------- MODULE EntityControls ----------------------------
(***************************************************************************)
(* What an entity shows of its device and what its services send to it: the   *)
(* lights (of a device, and of a group, room, area or house), covers, fans,    *)
(* climates, selects and switches of the platform modules and the projector.   *)
(*                                                                         *)
(* One entity is driven through a Home Assistant scene: its state is stored,    *)
(* the device is changed by whoever likes, and the stored state is restored     *)
(* by service calls.  The scene knows only what the entity showed, so that a    *)
(* conversion that cannot be undone changes what the device does.             *)
(*                                                                         *)
(* Values travel without loss or delay here; DeviceState and NodeRows have      *)
(* the feeds, the polls and the commands under way.                           *)
(***************************************************************************)
EXTENDS Integers

CONSTANTS
    Units,         \* the entities: records, of which `kind` says which
    Settings(_),   \* the states of a device that the scene may store
    Others(_),     \* the states it may be put into afterwards
    NotShown       \* an attribute that is not there, or unknown

VARIABLES
    unit,          \* the entity
    own,           \* the properties of its device
    kept,          \* the properties when the scene was stored
    scene,         \* the attributes that were stored
    act            \* how far the scene is

controlVars == <<unit, own, kept, scene, act>>

-----------------------------------------------------------------------------
(* What a product makes of an entity.  With more levels a lamp at its lowest would   *)
(* be shown at 1 of 255 and come back brighter, with more speeds two would share a  *)
(* percentage.  A device has a mode if it has colours and colour temperatures.     *)
LightUnit(u) ==
    /\ "p" \in u.keys /\ u.keys \subseteq {"p", "l", "ct", "c", "m"}
    /\ u.lo \in Nat /\ u.hi \in Nat /\ u.hi - u.lo \in 1 .. 127
    /\ "m" \in u.keys => {"ct", "c"} \subseteq u.keys

FanUnit(u) ==
    /\ "vmcf" \in u.keys /\ u.keys \subseteq {"vmcf", "vmcp"}
    /\ u.lo \in Nat /\ u.hi \in Nat /\ u.hi - u.lo \in 0 .. 99
    /\ u.lo = 0 => "vmcp" \in u.keys

SelectUnit(u) ==
    /\ u.keys = {u.key} /\ u.key \notin {"m", "cp", "cra"}
    /\ DOMAIN u.options \subseteq Nat \ {0}

IsUnit(u) ==
    \/ /\ u.kind = "light"
       /\ LightUnit(u) /\ u.warm \in Int /\ u.cool \in Int
    \/ /\ u.kind = "node"
       /\ LightUnit(u) /\ u.lo = 0 /\ u.hi = 100
       /\ {"ct", "c"} \subseteq u.keys => "m" \in u.keys
    \/ /\ u.kind = "cover"
       /\ u.keys \in {{"cp", "tp"}, {"cp", "tp", "cra", "tra"}}
    \/ /\ u.kind = "fan"
       /\ FanUnit(u)
    \/ /\ u.kind = "climate"
       /\ {"acp", "actt", "acf"} \subseteq u.keys
       /\ u.keys \subseteq {"acp", "actt", "acf", "acm"}
    \/ /\ u.kind = "select"
       /\ SelectUnit(u)
    \/ /\ u.kind = "switch"
       /\ u.keys = {u.key} /\ u.key \notin {"m", "cp", "cra"}
       /\ u.int \in BOOLEAN

(* The states that a device can be in. *)
IsSetting(u, s) ==
    /\ s = [k \in u.keys |-> s[k]]
    /\ u.kind \in {"light", "node"} =>
         /\ s["p"] \in BOOLEAN
         /\ "l" \in u.keys => s["l"] \in u.lo .. u.hi
         /\ \A k \in {"ct", "c"} \cap u.keys : s[k] \in Int
         /\ "m" \in u.keys => s["m"] \in {1, 2}
    /\ u.kind = "cover" =>
         /\ \A k \in {"cp", "tp"} : s[k] \in 0 .. 100
         /\ \A k \in {"cra", "tra"} \cap u.keys : s[k] \in 0 .. 180
    /\ u.kind = "fan" =>
         /\ s["vmcf"] \in {0} \cup (u.lo .. u.hi)
         /\ "vmcp" \in u.keys => s["vmcp"] \in BOOLEAN
    /\ u.kind = "climate" =>
         /\ s["acp"] \in BOOLEAN
         /\ \A k \in u.keys \ {"acp"} : s[k] \in Int
    /\ u.kind = "select" => \E i \in DOMAIN u.options : s[u.key] = u.options[i].code
    /\ u.kind = "switch" => s[u.key] \in (IF u.int THEN {0, 1} ELSE BOOLEAN)

ASSUME UnitsAssumption == \A u \in Units : IsUnit(u)

ASSUME SettingsAssumption ==
    \A u \in Units : \A s \in Settings(u) \cup Others(u) : IsSetting(u, s)

ASSUME NotShownAssumption ==
    /\ NotShown \notin Int
    /\ \A u \in Units : u.kind = "select" =>
         \A i \in DOMAIN u.options :
            NotShown \notin {<<u.options[i].desc>>, <<u.options[i].desc, u.options[i].code>>}

-----------------------------------------------------------------------------
(* Python's int(round(n / d)): half to even. *)
Rounded(n, d) ==
    LET q == n \div d
        r == n % d
    IN  IF 2 * r < d THEN q ELSE IF 2 * r > d THEN q + 1 ELSE q + (q % 2)

AtLeast(a, b) == IF a > b THEN a ELSE b
Clamp(v, lo, hi) == IF v < lo THEN lo ELSE IF v > hi THEN hi ELSE v

Value(s, k) == IF k \in DOMAIN s THEN s[k] ELSE NotShown

(* What services send: one property, nothing, and what one sends over another.  *)
Sends(k, v)  == [x \in {k} |-> v]
NoCall       == [x \in {} |-> NotShown]
Joined(a, b) == [k \in DOMAIN a \cup DOMAIN b |-> IF k \in DOMAIN a THEN a[k] ELSE b[k]]

-----------------------------------------------------------------------------
(* Lights.  m is the mode the device is in: 1 colour, 2 colour temperature.   *)

ColorModes(s) ==
    LET modes == {k \in {"ct", "c"} : k \in DOMAIN s}
    IN  IF modes # {} THEN modes
        ELSE IF "l" \in DOMAIN s THEN {"brightness"} ELSE {"onoff"}

(* The light of a device takes no notice of a numeric m: with both properties  *)
(* nothing tells which one applies, and colour temperature comes first.        *)
DeviceMode(s) ==
    IF ColorModes(s) = {"c"} THEN "c"
    ELSE IF "ct" \in ColorModes(s) THEN "ct"
    ELSE CHOOSE mode \in ColorModes(s) : TRUE

NodeMode(s) ==
    IF Value(s, "m") = 1 /\ "c" \in ColorModes(s) THEN "c"
    ELSE IF "ct" \in ColorModes(s) THEN "ct"
    ELSE CHOOSE mode \in ColorModes(s) : TRUE

(* A range of the device's own on Home Assistant's 0 to 255, and back. *)
DeviceBrightness(u, s) ==
    IF "l" \notin DOMAIN s THEN NotShown
    ELSE LET part == Rounded(255 * (Clamp(s["l"], u.lo, u.hi) - u.lo), u.hi - u.lo)
         IN  IF s["p"] THEN AtLeast(1, part) ELSE part

(* A bug: a range that starts above 0 is taken for one that starts at 0. *)
MutBrightnessSent(u, b) == Rounded(b * u.hi, 255)

BrightnessSent(u, b) == Rounded(255 * u.lo + b * (u.hi - u.lo), 255)

NodeBrightness(s) ==
    IF "l" \notin DOMAIN s THEN NotShown ELSE Rounded(255 * Clamp(s["l"], 0, 100), 100)

NodeBrightnessSent(b) == Rounded(100 * b, 255)

LightShown(u, s) ==
    [on |-> s["p"], brightness |-> DeviceBrightness(u, s), mode |-> DeviceMode(s),
     ct |-> Value(s, "ct"), c |-> Value(s, "c")]

NodeShown(s) ==
    [on |-> s["p"], brightness |-> NodeBrightness(s), mode |-> NodeMode(s),
     ct |-> Value(s, "ct"), c |-> Value(s, "c")]

(* turn_on and turn_off, as Home Assistant calls them to restore a light: with  *)
(* the brightness, and the colour of the stored mode.                         *)
LightCall(u, s, want) ==
    IF ~want.on THEN Sends("p", FALSE)
    ELSE Joined(IF want.brightness = NotShown THEN Sends("p", TRUE)
              ELSE Joined(Sends("p", TRUE), Sends("l", BrightnessSent(u, want.brightness))),
              IF want.mode = "ct" /\ "ct" \in ColorModes(s)
              THEN Sends("ct", Clamp(want.ct, u.warm, u.cool))
              ELSE IF want.mode = "c" THEN Sends("c", want.c) ELSE NoCall)

NodeLightCall(s, want) ==
    IF ~want.on THEN Sends("p", FALSE)
    ELSE Joined(IF want.brightness = NotShown THEN Sends("p", TRUE)
              ELSE Joined(Sends("p", TRUE), Sends("l", NodeBrightnessSent(want.brightness))),
              IF want.mode = "ct" THEN Sends("ct", want.ct)
              ELSE IF want.mode = "c" /\ "c" \in DOMAIN s THEN Sends("c", want.c) ELSE NoCall)

-----------------------------------------------------------------------------
(* Covers: positions in percent, the tilt of a zebra blind in degrees. *)

TiltShown(angle)  == Rounded(100 * Clamp(angle, 0, 180), 180)
TiltSent(percent) == Rounded(180 * Clamp(percent, 0, 100), 100)

CoverShown(s) ==
    [position |-> Clamp(s["cp"], 0, 100),
     tilt |-> IF "cra" \in DOMAIN s THEN TiltShown(s["cra"]) ELSE NotShown,
     closed |-> s["cp"] <= 0, opening |-> s["tp"] > s["cp"], closing |-> s["tp"] < s["cp"]]

CoverCall(s, want) ==
    Joined(Sends("tp", Clamp(want.position, 0, 100)),
         IF want.tilt # NotShown /\ "tra" \in DOMAIN s THEN Sends("tra", TiltSent(want.tilt))
         ELSE NoCall)

-----------------------------------------------------------------------------
(* Fans: speeds lo to hi, over which Home Assistant's 1 to 100 % are spread     *)
(* (its helpers round down on the way in, and not on the way back).            *)

Speeds(u) == u.hi - u.lo + 1

FanPercentage(u, s) ==
    IF s["vmcf"] <= 0 THEN 0 ELSE (100 * (s["vmcf"] - u.lo + 1)) \div Speeds(u)

SpeedSent(u, percentage) == Rounded(percentage * Speeds(u) + 100 * (u.lo - 1), 100)

FanShown(u, s) ==
    [on |-> IF "vmcp" \in DOMAIN s THEN s["vmcp"] ELSE s["vmcf"] > 0,
     percentage |-> FanPercentage(u, s)]

FanOff(s) == IF "vmcp" \in DOMAIN s THEN Sends("vmcp", FALSE) ELSE Sends("vmcf", 0)
FanDefaultOn(u, s) ==
    IF "vmcp" \in DOMAIN s THEN Sends("vmcp", TRUE) ELSE Sends("vmcf", u.lo)

SetPercentage(u, s, percentage) ==
    IF percentage <= 0 THEN FanOff(s)
    ELSE Joined(Sends("vmcf", SpeedSent(u, percentage)),
              IF "vmcp" \in DOMAIN s THEN Sends("vmcp", TRUE) ELSE NoCall)

(* turn_off; or turn_on if it is off, and then set_percentage if it differs.    *)
FanCall(u, s, want) ==
    LET now == FanShown(u, s)
    IN  IF ~want.on THEN FanOff(s)
        ELSE Joined(IF want.percentage # now.percentage
                  THEN SetPercentage(u, s, want.percentage) ELSE NoCall,
                  IF now.on THEN NoCall ELSE FanDefaultOn(u, s))

-----------------------------------------------------------------------------
(* Climates.  acm has values Home Assistant has no mode for; it shows auto.   *)

HvacOf == [raw \in {1, 4, 8} |->
              IF raw = 1 THEN "cool" ELSE IF raw = 4 THEN "fan_only" ELSE "heat"]
RawModeOf(mode) == {raw \in DOMAIN HvacOf : HvacOf[raw] = mode}

HvacMode(s) ==
    IF ~s["acp"] THEN "off"
    ELSE IF Value(s, "acm") \in DOMAIN HvacOf THEN HvacOf[s["acm"]] ELSE "auto"

ClimateShown(s) ==
    [mode |-> HvacMode(s), target |-> Value(s, "actt"), fan |-> Value(s, "acf")]

HvacCall(s, mode) ==
    IF mode = "off" THEN Sends("acp", FALSE)
    ELSE Joined(Sends("acp", TRUE),
              IF "acm" \in DOMAIN s /\ RawModeOf(mode) # {}
              THEN Sends("acm", CHOOSE raw \in RawModeOf(mode) : TRUE) ELSE NoCall)

(* set_hvac_mode, set_temperature and set_fan_mode; a fan speed outside the     *)
(* schema's list is refused.                                                  *)
ClimateCall(u, s, want) ==
    Joined(HvacCall(s, want.mode),
         Joined(IF want.target = NotShown THEN NoCall ELSE Sends("actt", want.target),
              IF want.fan \in u.fans THEN Sends("acf", want.fan) ELSE NoCall))

-----------------------------------------------------------------------------
(* Selects and switches.  u.options is a sequence of codes and descriptions.   *)

(* A description that was there before is told apart by its code. *)
OptionLabel(u, i) ==
    LET item == u.options[i]
    IN  IF \E j \in 1 .. i - 1 : u.options[j].desc = item.desc
        THEN <<item.desc, item.code>> ELSE <<item.desc>>

(* Values that can only be read are no options. *)
Offered(u) == {i \in DOMAIN u.options : u.options[i].code \notin u.readOnly}

SelectShown(u, s) ==
    LET found == {i \in Offered(u) : u.options[i].code = s[u.key]}
    IN  [option |-> IF found = {} THEN NotShown
                    ELSE OptionLabel(u, CHOOSE i \in found : TRUE)]

SelectCall(u, want) ==
    LET found == {i \in Offered(u) : OptionLabel(u, i) = want.option}
    IN  IF found = {} THEN NoCall ELSE Sends(u.key, u.options[CHOOSE i \in found : TRUE].code)

(* A switch of an integer property has 1 and 0 for TRUE and FALSE. *)
CommandValue(u, on) == IF u.int THEN (IF on THEN 1 ELSE 0) ELSE on
SwitchShown(u, s) == [on |-> s[u.key] = CommandValue(u, TRUE)]
SwitchCall(u, want) == Sends(u.key, CommandValue(u, want.on))

-----------------------------------------------------------------------------
StateShown(u, s) ==
    CASE u.kind = "light"   -> LightShown(u, s)
      [] u.kind = "node"    -> NodeShown(s)
      [] u.kind = "cover"   -> CoverShown(s)
      [] u.kind = "fan"     -> FanShown(u, s)
      [] u.kind = "climate" -> ClimateShown(s)
      [] u.kind = "select"  -> SelectShown(u, s)
      [] u.kind = "switch"  -> SwitchShown(u, s)

Call(u, s, want) ==
    CASE u.kind = "light"   -> LightCall(u, s, want)
      [] u.kind = "node"    -> NodeLightCall(s, want)
      [] u.kind = "cover"   -> CoverCall(s, want)
      [] u.kind = "fan"     -> FanCall(u, s, want)
      [] u.kind = "climate" -> ClimateCall(u, s, want)
      [] u.kind = "select"  -> SelectCall(u, want)
      [] u.kind = "switch"  -> SwitchCall(u, want)

(* The device takes the properties it is sent; a light takes the mode of the    *)
(* colour it was sent, and a motor moves to its target.                       *)
Obeyed(s, call) ==
    LET taken == [k \in DOMAIN s |-> IF k \in DOMAIN call THEN call[k] ELSE s[k]]
    IN  [k \in DOMAIN s |->
            CASE k = "m" /\ "c" \in DOMAIN call  -> 1
              [] k = "m" /\ "ct" \in DOMAIN call -> 2
              [] k = "cp"  -> taken["tp"]
              [] k = "cra" -> taken["tra"]
              [] OTHER     -> taken[k]]

(* Home Assistant calls no service for an entity that shows its state already. *)
Restored(u, s, want) ==
    IF StateShown(u, s) = want THEN s ELSE Obeyed(s, Call(u, s, want))

InitControl ==
    /\ unit \in Units
    /\ own \in Settings(unit)
    /\ kept = own
    /\ scene = NotShown
    /\ act = "set"

StoreScene ==
    /\ act = "set"
    /\ kept' = own
    /\ scene' = StateShown(unit, own)
    /\ act' = "stored"
    /\ UNCHANGED <<unit, own>>

ElseWhere ==
    /\ act \in {"stored", "restored"}
    /\ own' \in Others(unit)
    /\ act' = "stored"
    /\ UNCHANGED <<unit, kept, scene>>

RestoreScene ==
    /\ act = "stored"
    /\ own' = Restored(unit, own, scene)
    /\ act' = "restored"
    /\ UNCHANGED <<unit, kept, scene>>

NextControl == StoreScene \/ ElseWhere \/ RestoreScene

SpecControl == InitControl /\ [][NextControl]_controlVars

-----------------------------------------------------------------------------
(* What a light gives: its colour only in the mode that the device is in. *)
Lit(s) ==
    LET mode == Value(s, "m")
        used == {k \in DOMAIN s : k = "l" \/ (k = "ct" /\ mode # 1) \/ (k = "c" /\ mode # 2)}
    IN  IF s["p"] THEN [k \in used |-> s[k]] ELSE "dark"

(* The devices do the same, as far as the service calls reach. *)
Near(a, b, most) == a - b <= most /\ b - a <= most

Alike(u, s, t) ==
    CASE u.kind \in {"light", "node"} -> Lit(s) = Lit(t)
      [] u.kind = "cover" -> /\ s["cp"] = t["cp"]
                             /\ "cra" \in DOMAIN s => Near(s["cra"], t["cra"], 1)
      [] u.kind = "fan" ->
            /\ FanShown(u, s).on = FanShown(u, t).on
            /\ FanShown(u, t).on =>
                  Near(s["vmcf"], t["vmcf"], IF Speeds(u) \in 51 .. 99 THEN 1 ELSE 0)
      [] u.kind = "climate" ->
            /\ s["acp"] = t["acp"] /\ s["actt"] = t["actt"]
            /\ t["acf"] \in u.fans => s["acf"] = t["acf"]
            /\ t["acp"] /\ Value(t, "acm") \in DOMAIN HvacOf => s["acm"] = t["acm"]
      [] OTHER -> s = t

(* What the code cannot restore: the mode of a lamp that has colours and colour    *)
(* temperatures (m is written down as "1 colour, 2 temperature" in                *)
(* capabilities/models.py, and not read), a temperature outside the lamp's range,   *)
(* a fan that runs at speed 0, and a value that is no option.                    *)
OutOfReach(u, s) ==
    CASE u.kind = "light"  -> \/ ColorModes(s) = {"ct", "c"}
                              \/ "ct" \in DOMAIN s /\ s["ct"] \notin u.warm .. u.cool
      [] u.kind = "fan"    -> FanShown(u, s).on /\ FanPercentage(u, s) = 0
      [] u.kind = "select" -> s[u.key] \in u.readOnly
      [] OTHER -> FALSE

(* A scene that is restored leaves the device as it was when the scene was stored, *)
(* whatever happened to it in between: brightness, colour, position and speed come  *)
(* through the conversions to Home Assistant's scales and back, the tilt of a blind *)
(* to a degree, and what is then shown is what was stored.                       *)
SceneRestored ==
    act = "restored" =>
        \/ OutOfReach(unit, kept)
        \/ /\ Alike(unit, own, kept)
           /\ unit.kind = "cover" => StateShown(unit, own).tilt = scene.tilt

(* What a scene holds in every state, and the promise with it.                  *)
ControlInvariant ==
    /\ unit \in Units
    /\ act \in {"set", "stored", "restored"}
    /\ IsSetting(unit, kept)
    /\ act # "restored" => IsSetting(unit, own)
    /\ act # "set" => scene = StateShown(unit, kept)
    /\ SceneRestored
=============================================================================
