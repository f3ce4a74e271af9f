CONSTANTS
    r1 = r1
    r2 = r2
    r3 = r3
    r4 = r4
    v1 = v1
    Requests <- FourRequests
    Visitors <- OneVisitor
    VisitorOf <- FromOne
    MaxSessions = 1
    Ttl = 1
    MaxConcurrentTurns = 2
    VisitorTurns = 4
    VisitorWindow = 2
    GlobalTurnsPerDay = 4
    DayLength = 4
    MaxTime = 2
    MaxRestarts = 0
    NoSession = NoSession
    NoRequest = NoRequest
    NoDecision = NoDecision
SPECIFICATION Spec
PROPERTY AnsweredTurnsAreStored
SYMMETRY Symmetry
CHECK_DEADLOCK FALSE
