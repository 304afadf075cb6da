SPECIFICATION Spec
CONSTANTS
    k = k
    l = l
    c = c
    r1 = r1
    r2 = r2
    Tomb = Tomb
    Rewards = {r1, r2}
    Values = {1, 2}
    Flushers = {1, 2}
    Tasks = {1, 2, 3}
    Objectives = {k, l, c}
    Scenes <- MCScenes
    QueueMax = 2
    MaxPack = 2
    MaxRuns = 2
    MaxMoves = 3
    MaxFaults = 1
INVARIANTS
    RewardOnce
    PhasesEarned
    NoneStranded
    GrantedOnce
PROPERTIES
    CollectedCounts
    VariablesSettle
CHECK_DEADLOCK FALSE
