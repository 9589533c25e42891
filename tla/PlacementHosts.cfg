CONSTANTS
    o1 = o1
    o2 = o2
    o3 = o3
    o4 = o4
    h1 = h1
    h2 = h2
    None = None
    Ops <- FourOps
    Hosts = {h1, h2}
    HostOf <- TwoHosts
    Menu <- HostsMenu
    Tier = "MEMORY"
    Fanout = 2
    Deadlines = TRUE
    MaxRecords = 2
    MaxCrashes = 1
SPECIFICATION Spec
SYMMETRY TwoAlike
CONSTRAINT Cases
INVARIANTS
    HoldsMatchCalls
    LateTurnWritesNothing
    ClonesMatchTheirLog
