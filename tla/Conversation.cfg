CONSTANTS
    h1 = h1
    h2 = h2
    Listings <- MCListings
    Unknown = Unknown
    MaxTurns = 4
    NoSearch = NoSearch
    NoResults = NoResults
    NoPending = NoPending
    NoContext = NoContext
    NoTarget = NoTarget
    NoDraft = NoDraft
    NoResult = NoResult
SPECIFICATION Spec
INVARIANTS TypeOK PendingIsAnswerable ShownBelongToSearch TargetsAreShown
PROPERTIES ContextIsCurrent NeverRevived AppliedOnlyWhenChosen ImplementsContract
SYMMETRY Symmetry
CHECK_DEADLOCK FALSE
