SPECIFICATION LiveSpec
CONSTANTS
    Hook = {"h1", "h2"}
    Desktop = {"d"}
    Team <- Teams
    TeamOf <- TheTeam
    Start <- Devices
    Faults = {"gateway", "idp", "save", "kill", "unsupported", "unknownClient", "refused"}
    MaxFaults = 1
    MaxAges = 1
    MaxQueue = 1
    None = None
INVARIANTS
    NoReplay
    StoreIsNewest
PROPERTY
    EveryHookEnds
CHECK_DEADLOCK FALSE
