SPECIFICATION SafeReadings
CONSTANTS
    Units <- MCUnits
    Settings <- MCSettings
    Others <- MCOthers
    NotShown = NotShown
    Ways = {"rows"}
    Keys = {k1, k2}
    Values = {v1, v2}
    Defaults <- MCDefaults
    Carried = {{}, {k1}}
    Cmds = {}
    Polls = {p1, p2}
    Routes = {"lan"}
    Troubles = {}
    Reported = {TRUE}
    MaxChanges = 3
    MaxCommands = 0
    MaxReports = 3
    None = None
    Absent = Absent
    Fleet <- MCFleet
    Parts = {1, 2}
    Indices = {1, 2}
    Numbers = {1, 2, 4}
    Unit = 2
    Unknown = Unknown
    Props <- MCProps
    DeviceOf <- MCDeviceOf
    GroupOf <- MCGroupOf
    Channels <- MCChannels
    Vals = {"a", "b"}
    MaxDrift = 1
    Nil = "nil"
    Attrs = {p, l}
    Levels = {n0, n1}
    Stated = {{}}
    Refreshes = {r1, r2}
    Lists = {s1, s2, s3}
    MaxMoves = 1
    MaxWrites = 1
    MaxFaults = 1
    MaxWaiting = 1
    Unset = Unset
INVARIANT
    GroupShowsRow
