CONSTANTS
    v1 = v1
    v2 = v2
    w1 = w1
    w2 = w2
    Visitors <- MCVisitors
    Workers <- MCWorkers
    NoDecision = NoDecision
    NoCall = NoCall
    VisitorTurns = 2
    VisitorWindow = 5
    GlobalTurnsPerDay = 3
    DayLength = 3
    Retention = 6
    BusyTimeout = 1
    TicksPerSecond = 2
    MaxTime = 7
SPECIFICATION Spec
INVARIANTS TypeOK VisitorLimit GlobalLimit OldRowsNotNeeded
PROPERTIES RetryAfterIsEnough ImplementsQuota
SYMMETRY Symmetry
CHECK_DEADLOCK FALSE
