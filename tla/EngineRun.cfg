SPECIFICATION FairSpec
CONSTANTS
    out = out
    err = err
    Streams <- MCStreams
    Kinds = {"info", "marker", "long"}
    MaxLines <- MCMaxLines
    PipeCap = 1
    RingMax = 2
INVARIANTS
    TypeOK
    OnReadyExactlyOnce
    RingHoldsTail
    JoinNotStuck
    EngineHasItsConfig
    DeadlineKillReported
PROPERTIES
    NothingAfterReturn
    CancelStopsEngine
    DeadlineBoundsHang
    ImplementsEngineAbs
