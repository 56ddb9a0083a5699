SPECIFICATION LiveSpec
CONSTANTS
    None = None
    c1 = c1  c2 = c2  i1 = i1  i2 = i2
    Call = {c1, c2}
    Identity = {i1}
    Ungrouped = "ungrouped"
    SearchLimit = 1
    MaxPermits = 2
    Caps = {1, 2}
    MaxRequests = 3
    MaxMoves = 1
    ReadWords <- MCReadWords
    WriteWords <- MCWriteWords
    WordsOf <- MCWordsOf
    Split <- MCSplit
    Before <- MCBefore
    Sections <- MCOneSection
    Earlier <- MCNoEarlier
    Request <- MCCallsOnly
    Listings <- MCListings
    Asks <- MCAnyAsks
INVARIANT ToldNothingRan
PROPERTY EveryCallEnds
CHECK_DEADLOCK FALSE
