SPECIFICATION Spec
CONSTANTS
    j1 = j1
    j2 = j2
    c1 = c1
    c2 = c2
    Jobs = {j1, j2}
    Conns = {c1}
    World = World
    Features = {"fail", "latetask"}
    MaxVer = 2
    MaxGen = 4
    MaxDeaths = 0
    MaxSessions = 2
    RetryDelays = 1
    SaveTurnRetries = 1
SYMMETRY TaskSymmetry
PROPERTIES
    LoginLoadsLatest
