SPECIFICATION Spec
CONSTANTS
    Runs = {r1, r2}
    Chunks = 2
    MaxStarts = 1
    Faults = {}
INVARIANT HolderCanRun
