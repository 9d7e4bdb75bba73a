SPECIFICATION SpecResets
CONSTANTS
    Socks = {c1, c2}
    Loops = {l1, l2}
    Recs = {t1, t2}
    Cmds = {m1}
    None = None
    MinDelay = 1
    MaxDelay = 2
SYMMETRY MCSymmetry
INVARIANT NeverStranded
