SPECIFICATION Spec
CONSTANTS
    Procs = {p1, p2}
    Items = {i1, i2}
    MaxAge = 2
    MaxTime = 4
    MaxSize = 2
INVARIANTS
    TypeOK
    AnswersComplete
    LoneSaveRepairs
PROPERTIES
    FailuresForgotten
    UsedIsFresh
