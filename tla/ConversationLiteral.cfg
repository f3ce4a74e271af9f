CONSTANTS
    h1 = h1
    h2 = h2
    Listings <- MCListings
    Unknown = Unknown
    MaxTurns = 3
    NoSearch = NoSearch
    NoResults = NoResults
    NoPending = NoPending
    NoContext = NoContext
    NoTarget = NoTarget
    NoDraft = NoDraft
    NoResult = NoResult
SPECIFICATION Spec
INVARIANT SearchMatchesShown
CHECK_DEADLOCK FALSE
