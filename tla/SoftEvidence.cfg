SPECIFICATION Spec
CONSTANTS
    Requests <- MCRequests
    Listings <- MCListings
    ShadowHotelTopK = 2
    Score <- MCScore
    BatchSize = 3
    TopK = 3
    MaxConcurrency = 2
    CallsPerHotel = 2
    CallsPerRequest = 4
INVARIANTS TypeOK NoOrphanedCalls ResultsStayInPlace BudgetIsFair VerdictsHaveGrounds
PROPERTIES OnlyHungCallsBlock
