SPECIFICATION Spec
CONSTANTS
    owner = owner
    looter = looter
    sword = sword
    Players = {owner, looter}
    Owner = owner
    Items = {sword}
    Scenes <- MCScenes
    MaxRow = 3
    MaxSeq = 2
INVARIANTS
    ItemRows
    QuitKeepsPack
    CoinsOnce
    CorpseMatchesRows
PROPERTIES
    CorpseRests
