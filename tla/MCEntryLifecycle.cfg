SPECIFICATION FairSpec
CONSTANTS
    Gens = {g1, g2}
    Options <- MCOptions
    None = None
    Modes = {"cloud", "lan"}
    Troubles = {"push_stop", "lan_stop", "topology", "maintenance"}
    MaxChanges = 2
INVARIANTS
    LoadedIsWhole
    LeftoversExplained
    FeedsUsedAsAgreed
    OptionsInEffect
PROPERTIES
    ChangesSettle
