CONSTANTS
    main = main
    other = other
    Tasks = {main, other}
    Main = main
    Detached = {main}
    Plan <- MCPlan
    Wirings = {TRUE, FALSE}
    MaxCalls = 3
    MaxCancels = 1
    Loop = Loop
    None = None
SPECIFICATION FairSpec
INVARIANTS
    RepliesAnswerTheirCall
    TurnEndsItsJournal
    CompletedIsComplete
    ParkIsAgreed
PROPERTIES
    ExecutionsEnd
