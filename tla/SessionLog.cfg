CONSTANTS
    w1 = w1
    w2 = w2
    Nobody = Nobody
    Writers <- MCWriters
    Kinds <- MCKinds
    MaxFence = 3
    MaxRecords = 3
SPECIFICATION Spec
INVARIANTS
    TypeOK
    FencesNeverGoBack
    TokensNameOneWriter
    TurnsAreContiguous
    DeleteEndsTheLog
    ProjectionFollowsLog
PROPERTIES
    DeletedIsFrozen
    ImplementsOwnedJournal
