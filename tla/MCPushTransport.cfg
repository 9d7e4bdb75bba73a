SPECIFICATION FairSpec
CONSTANTS
    Conns = {c1, c2, c3}
    Recs = {t1, t2}
    None = None
    Starter = Starter
    MinDelay = 1
    MaxDelay = 2
    Multiplier = 2
INVARIANTS
    OneConnection
    QuietAfterStop
    ServedIfClosed
PROPERTIES
    ImplementsFeedIfClosed
