SPECIFICATION LiveSpec
CONSTANTS
    u1 = u1  u2 = u2  n1 = n1  n2 = n2  a1 = a1  b1 = b1  a2 = a2
    k1 = k1  k2 = k2  p1 = p1  p2 = p2
    Gateway = {u1, u2}  Name = {n1, n2}  Team = {a1, b1, a2}
    Idp = {"idp"}  StaticKey = {k1, k2}  Caller = {}
    NoTeam = NoTeam  NoName = NoName  NoIdp = NoIdp  NoKey = NoKey
    Unconfigured = Unconfigured  NoUrl = NoUrl
    NotAnEntry = NotAnEntry  NotAList = NotAList
    None = None  Absent = Absent  Torn = Torn
    Home <- MCHome  TeamsOf <- MCTeamsOf  Factory <- MCFactory
    Proc = {p1}  Watcher = "watcher"
    Commands <- MCKeys
    Installed <- MCInstalled
    LegacyEnv <- MCLegacyEnv
    Devices <- MCDevices
    KeyVerdicts <- AnyKeys
    Faults = {"crash", "save", "tool", "exchange"}
    MaxCommands = 2
PROPERTIES
    WatchSettles
CHECK_DEADLOCK FALSE
