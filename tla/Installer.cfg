SPECIFICATION Spec
CONSTANTS
    Runs = {r1, r2}
    Chunks = 2
    MaxStarts = 2
    Faults = {"crash", "error"}
INVARIANTS
    TypeOK
    UndisturbedWorks
