SPECIFICATION Spec
CONSTANTS
    u1 = u1  u2 = u2  n1 = n1  n2 = n2  a1 = a1  b1 = b1  a2 = a2
    k1 = k1  k2 = k2  p1 = p1  p2 = p2
    Gateway = {u1, u2}  Name = {n1, n2}  Team = {a1, b1, a2}
    Idp = {"idp"}  StaticKey = {k1, k2}  Caller = {}
    NoTeam = NoTeam  NoName = NoName  NoIdp = NoIdp  NoKey = NoKey
    Unconfigured = Unconfigured  NoUrl = NoUrl
    NotAnEntry = NotAnEntry  NotAList = NotAList
    None = None  Absent = Absent  Torn = Torn
    Home <- MCHome  TeamsOf <- MCTeamsOf  Factory <- MCFactory
    Proc = {p1, p2}  Watcher = "watcher"
    Commands <- MCSelections
    Installed <- MCInstalled
    LegacyEnv <- MCLegacyEnv
    Devices <- MCLinux
    KeyVerdicts <- OwnKeys
    Faults = {"crash", "save", "refused", "offline", "exchange", "revoked"}
    MaxCommands = 3
INVARIANTS
    PicksStayHome
    InstallKeepsPicks
    VerifiedKeysOnly
CHECK_DEADLOCK FALSE
SYMMETRY MCSymmetry
