SPECIFICATION Spec
CONSTANTS
    PoolMax = 3
    MaxAttempts = 2
    TopPick = 2
INVARIANT NoProbeOneShot
