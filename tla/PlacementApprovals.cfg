CONSTANTS
    o1 = o1
    o2 = o2
    o3 = o3
    o4 = o4
    h1 = h1
    h2 = h2
    None = None
    Ops <- ThreeOps
    Hosts = {h1, h2}
    HostOf <- GateHosts
    Menu <- GateMenu
    Tier = "STATELESS"
    Fanout = 1
    Deadlines = FALSE
    MaxRecords = 2
    MaxCrashes = 1
SPECIFICATION Spec
INVARIANTS
    TypeOK
    GatesAreNotSkipped
    ParkMeansSuspended
