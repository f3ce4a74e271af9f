\* The rolling window longer than RETENTION_SECONDS, as
\* BOOKING_API_VISITOR_WINDOW_HOURS > 48 makes it (no maximum is enforced).
CONSTANTS
    v1 = v1
    v2 = v2
    w1 = w1
    w2 = w2
    Visitors <- MCVisitors
    Workers <- MCWorkers
    NoDecision = NoDecision
    NoCall = NoCall
    VisitorTurns = 1
    VisitorWindow = 8
    GlobalTurnsPerDay = 2
    DayLength = 3
    Retention = 6
    BusyTimeout = 1
    TicksPerSecond = 2
    MaxTime = 9
SPECIFICATION Spec
INVARIANT OldRowsNotNeeded
CHECK_DEADLOCK FALSE
