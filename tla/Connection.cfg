SPECIFICATION Spec
CONSTANTS
    c1 = c1
    c2 = c2
    ip1 = ip1
    ip2 = ip2
    Conns = {c1, c2}
    IPs = {ip1, ip2}
    MaxConnections = 2
    MaxPreLogin = 1
    MaxPerIp = 1
    MaxConnects = 2
    MapCap = 1
    Window = 2
    SweepInterval = 2
    FullGap = 1
    Scenarios <- MCScenarios
    InboundCap = 2
    MaxPending = 2
INVARIANTS
    SlotsExact
    SessionShape
PROPERTIES
    ThrottleHolds
    FlushedBeforeEnd
    SlotsComeBack
CHECK_DEADLOCK FALSE
