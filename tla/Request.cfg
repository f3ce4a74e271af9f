SPECIFICATION Spec
CONSTANTS
    RouterAttempts = 2
    RouterTimeout = 3
    RouterDelay = 1
    StageAttempts = 3
    StageTimeout = 4
    StageBaseDelay = 1
    YearLength = 4
    MaxInferred = 2
    MealPlans = {"breakfast"}
    PeriodTexts = {"budget per month"}
    Scenarios <- MCScenarios
    Raises <- MCRaises
    Intents <- MCIntents
    Messages <- MCMessages
    Days <- MCDays
    MaxTurns = 2
INVARIANTS TypeOK RetriedWhilePassing StayAsStated RequirementsAsStated
CHECK_DEADLOCK FALSE
