CONSTANTS
    o1 = o1
    o2 = o2
    o3 = o3
    o4 = o4
    h1 = h1
    h2 = h2
    None = None
    Ops <- ThreeOps
    Hosts = {h1}
    HostOf <- OneHost
    Menu <- OneHostMenu
    Tier = "MEMORY"
    Fanout = 1
    Deadlines = FALSE
    MaxRecords = 1
    MaxCrashes = 0
SPECIFICATION Spec
INVARIANTS
    ParentSleepsDuringFanOut
