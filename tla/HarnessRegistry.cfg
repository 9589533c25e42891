CONSTANTS
    h1 = h1
    h2 = h2
    s1 = s1
    s2 = s2
    a = a
    b = b
    c1 = c1
    c2 = c2
    c3 = c3
    c4 = c4
    None = None
    Builtin = Builtin
    Hosts = {h1, h2}
    Names = {1, 2, 3}
    Specs = {a, b}
    Sessions = {s1, s2}
    Static <- MCStatic
    Held <- MCStatic
    Default = 1
    Memory = {2}
    Builds <- MCBuilds
    Lax = {h2}
    Calls = {c1, c2, c3, c4}
    Menu <- MCMenu
    MaxStarts = 3
    LoadPage = 2
    ListPage = 1
SPECIFICATION Spec
CHECK_DEADLOCK FALSE
INVARIANTS
    TypeOK
    NamesMeanOneHarness
    SessionsStayPinned
    CollidedNamesAreNotServed
    BackendsAreReleased
    PagesAreComplete
PROPERTIES
    RetiredTakesNoSessions
