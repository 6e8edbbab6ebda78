SPECIFICATION FairSpec
CONSTANTS
    PoolMax = 4
    MaxAttempts = 2
    TopPick = 2
INVARIANTS
    TypeOK
    NoServerTwice
    BestFirst
    GoodServerKept
    VerdictFromOwnProbe
    FailedEngineNotGood
    QuotesAMeasurement
PROPERTIES
    NoEngineAfterInterrupt
    InterruptEnds
    AttemptSettles
