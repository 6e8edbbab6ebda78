SPECIFICATION Spec
CONSTANTS
    out = out
    err = err
    Streams <- MCStreams
    Kinds = {"info", "marker"}
    MaxLines <- MCMaxLines
    PipeCap = 1
    RingMax = 2
INVARIANT TimedOutNeverReady
