SPECIFICATION MCSpec
CONSTANTS
    Keys = {k1, k2}
    Values = {v1, v2}
    Defaults <- MCDefaults
    Carried = {{}}
    Cmds = {c1, c2}
    Polls = {p1}
    Routes = {"lan", "cloud"}
    Troubles = {"refused", "lost", "timeout", "cancelled", "absent"}
    Reported = {TRUE, FALSE}
    MaxChanges = 1
    MaxCommands = 2
    MaxReports = 1
    None = None
    Absent = Absent
SYMMETRY MCSymmetry
INVARIANTS
    CaughtUp
