SPECIFICATION SpecRuntime
CONSTANTS
    Socks = {c1, c2, c3}
    Loops = {l1, l2}
    Recs = {t1, t2}
    Cmds = {m1, m2}
    None = None
    MinDelay = 1
    MaxDelay = 2
INVARIANTS
    OneWorker
    HealthIsHonest
    NoAckAwaitedInVain
    QuietAfterStop
    NoSocketLeak
    ServedUnlessReset
PROPERTIES
    LostCommandEnds
    ImplementsFeedUnlessReset
