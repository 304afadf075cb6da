SPECIFICATION Spec
CONSTANTS
    c1 = c1
    c2 = c2
    elda = elda
    gorm = gorm
    kest = kest
    newt = newt
    ann = ann
    bob = bob
    cora = cora
    k1 = k1
    k2 = k2
    NoName = NoName
    NoUser = NoUser
    NoCode = NoCode
    NoConn = NoConn
    Conns = {c1, c2}
    Names = {elda, gorm, kest, newt}
    Emails = {ann, bob, cora}
    Codes = {k1, k2}
    Owner0 <- MCOwner0
    MaxFails = 2
    Scenarios <- MCScenarios
INVARIANTS
    JobsMatchStage
    OneBody
    CreatedWhole
PROPERTIES
    CodeSpentOnLogin
    OrphanCodesClose
    LoginsMoveOn
CHECK_DEADLOCK FALSE
