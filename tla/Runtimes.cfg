CONSTANTS
    c1 = c1
    c2 = c2
    c3 = c3
    Children <- MCChildren
    Runtimes = {"MEMORY", "STATELESS", "local", "remote"}
    MaxFaults = 3
    MaxWakes = 2
SPECIFICATION Spec
CHECK_DEADLOCK FALSE
INVARIANTS
    NothingIsStranded
    ClonesHaveTheirSnapshot
