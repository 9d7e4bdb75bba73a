SPECIFICATION Spec
CONSTANTS
    Keys = {k1}
    Values = {v1, v2}
    Defaults <- MCDefaults
    Carried = {{}}
    Cmds = {c1, c2}
    Polls = {p1}
    Routes = {"cloud"}
    Troubles = {"refused"}
    Reported = {FALSE}
    MaxChanges = 0
    MaxCommands = 2
    MaxReports = 1
    None = None
    Absent = Absent
INVARIANTS
    NoGhost
