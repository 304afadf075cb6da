SPECIFICATION FairSpec
CONSTANTS
    Scenarios <- MCScenarios
    QueueCap = 2
    WindUp = 2
    CastLag = 1
    PostCastLag = 2
    MaxSlots = 1
    Mishaps = {"hurt", "falter", "die", "drop"}
    MaxTyped = 4
    MaxMishaps = 1
    MaxReturns = 1
INVARIANTS
    SlotsOwned
PROPERTIES
    LinesInOrder
    LinesRun
CHECK_DEADLOCK FALSE
