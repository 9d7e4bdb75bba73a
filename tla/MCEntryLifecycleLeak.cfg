SPECIFICATION Spec
CONSTANTS
    Gens = {g1, g2}
    Options <- MCOptions
    None = None
    Modes = {"lan"}
    Troubles = {"topology"}
    MaxChanges = 0
INVARIANT NothingLeftBehind
