SPECIFICATION FairSpec
CONSTANTS
    gold = gold
    gold2 = gold2
    item = item
    Payers = {gold, gold2, item}
    ItemPayers = {item}
    Scenes <- MCScenes
    MaxGen = 4
    MaxSessions = 2
INVARIANTS
    PaidOnce
    RewardKept
PROPERTIES
    RewardNotErased
    PaymentsEnd
CHECK_DEADLOCK FALSE
