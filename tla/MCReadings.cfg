SPECIFICATION SpecReadings
CONSTANTS
    Units <- MCUnits
    Settings <- MCSettings
    Others <- MCOthers
    NotShown = NotShown
    Ways = {"device", "components", "hydration", "rows", "scene"}
    Keys = {k1, k2}
    Values = {v1, v2}
    Defaults <- MCDefaults
    Carried = {{}, {k1}}
    Cmds = {c1}
    Polls = {p1}
    Routes = {"lan", "cloud"}
    Troubles = {"refused", "lost"}
    Reported = {TRUE}
    MaxChanges = 1
    MaxCommands = 2
    MaxReports = 1
    None = None
    Absent = Absent
    Fleet <- MCFleet
    Parts = {1, 2}
    Indices = {1, 2}
    Numbers = {1, 2, 4}
    Unit = 2
    Unknown = Unknown
    Props <- MCProps
    DeviceOf <- MCDeviceOf
    GroupOf <- MCGroupOf
    Channels <- MCChannels
    Vals = {"a", "b"}
    MaxDrift = 1
    Nil = "nil"
    Attrs = {p, l}
    Levels = {n0, n1}
    Stated = {{}}
    Refreshes = {r1, r2}
    Lists = {s1, s2, s3}
    MaxMoves = 1
    MaxWrites = 1
    MaxFaults = 1
    MaxWaiting = 1
    Unset = Unset
INVARIANTS
    CaughtUp
    NoGhost
    OverridesWereReal
    ComponentsAgree
    RowSound
    RowIsCurrent
    SceneRestored
PROPERTIES
    CatchesUp
    NodeCatchesUp
