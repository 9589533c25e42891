CONSTANTS
    r1 = r1
    r2 = r2
    r3 = r3
    Runs <- ThreeRuns
    Operation <- Operations
    Settings <- OneHostOrTwo
    Inputs = 1
    MaxFailures = 1
SPECIFICATION Spec
SYMMETRY Alike
INVARIANTS
    TypeOK
    RunsOnAllItsInputs
    CompletedTurnReplays
    SameHarnessNeverDiverges
PROPERTIES
    DivergenceWritesNothing
    RecoveryServesWhatWasGiven
    AnsweredIsNotReinvoked
