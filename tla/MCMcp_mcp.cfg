SPECIFICATION Spec
CONSTANTS
    None = None
    c1 = c1  c2 = c2  i1 = i1  i2 = i2
    Call = {c1, c2}
    Identity = {i1, i2}
    Ungrouped = "ungrouped"
    SearchLimit = 1
    MaxPermits = 2
    Caps = {1, 2}
    MaxRequests = 3
    MaxMoves = 2
    ReadWords <- MCReadWords
    WriteWords <- MCWriteWords
    WordsOf <- MCWordsOf
    Split <- MCSplit
    Before <- MCBefore
    Sections <- MCSections
    Earlier <- MCEarlier
    Request <- MCRequest
    Listings <- MCListings
    Asks <- MCAsks
INVARIANTS
    PermitsAreConserved
    KnownVersionMeansKnownSection
    CapFollowsSection
    CatalogFollowsSection
    CatalogIsOfIdentity
    ActiveMeansConfirmed
    RunsConfirmedOrAllowed
CHECK_DEADLOCK FALSE
SYMMETRY MCSymmetry
