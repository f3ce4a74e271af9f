SPECIFICATION Spec
CONSTANTS
    Requests <- MCRequests
    SupportedCities = {"Rome"}
    RequiredAdults = 2
    Currency = "USD"
    RatesReplies <- MCRatesReplies
    Hotels <- MCHotels
    Phrases <- MCPhrases
    Items <- MCItems
    ActorReplies <- MCActorReplies
    Samples <- MCSamples
    YearLength = 10
    MaxItems = 2
    Faults = {"429", "401"}
    MaxAttempts = 2
    MaxDetailCalls = 2
    DetailConcurrency = 1
    RateTables <- MCRateTables
    TTL = 1
    Analyses <- MCAnalyses
    MaxEvidence = 6
    Queries <- MCQueries
    TopK = 1
    MaxConstraints = 2
    ResultLimit = 2
    MaxNow = 1
PROPERTIES ConfirmedSafeIsKept
CHECK_DEADLOCK FALSE
