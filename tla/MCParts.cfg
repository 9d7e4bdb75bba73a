SPECIFICATION SpecParts
CONSTANTS
    Requests = {r1, r2}
    Setup = s
    Clients = {c1, c2}
    None = None
    MaxTokens = 2
    Keys <- MCKeys
    Devices = {"d"}
    DeviceOf <- MCDeviceOf
    Legacy = {}
    Named = {}
    Supersedes <- MCSupersedes
    Nil = Nil
    Accounts = {"a1", "a2"}
    HousesOf <- MCHousesOf
    Regions = {"cn"}
    TokenRegions = {Nil, "sg"}
    Gateways = {"g1"}
    Life = 2
    Skews = {0, 1}
    MaxGrants = 2
    Order <- MCOrder
    Wizard <- MCWizard
    Hidden = {"product_ids"}
    Shown <- MCShown
    Match <- MCMatch
    Nodes <- MCNodes
    KindOf <- MCKindOf
    IdOf <- MCIdOf
    NodeUpdates <- MCFrames
    Untyped = "untyped"
    NoFrame = NoFrame
    MaxUpdates = 2
    MaxMissing = 1
    Refreshes = {"a", "b"}
    MaxVersion = 2
    Messages = {"press", "motion", "broken"}
    Aliased = {"press"}
    Invalid = {"broken"}
    MaxKeys = 2
    MaxFrame = 2
    Rows <- MCRows
    PageSize = 2
    MaxPages = 4
SYMMETRY MCSymmetry
INVARIANTS
    NoTokenSpentTwice
    TokensInUseAreLive
    SettingKept
    WantedServed
    SchemaFresh
    EventsSound
    EverySteadyRowRead
    FilterSound
    EntriesSound
    NoCrossTalk
    OwnReportShown
PROPERTIES
    DisabledOnlyAsAgreed
    GrantsAreUsed
CHECK_DEADLOCK FALSE
