CONSTANTS
    past = past
    new1 = new1
    new2 = new2
    ta = ta
    tb = tb
    Procs = {past, new1, new2}
    Build <- MCBuild
    Execs = {0, 1, 2}
    NoID = 0
    CallIDs = {ta, tb}
    Histories <- MCHistories
    Events <- MCEvents
    MaxEvents = 2
    MaxOpens = 2
    None = None
SPECIFICATION Spec
SYMMETRY Symmetry
CHECK_DEADLOCK FALSE
INVARIANTS
    ReportAgreesWithTheLog
