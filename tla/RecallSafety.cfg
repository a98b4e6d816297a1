SPECIFICATION Spec
CONSTANTS
    r1 = r1
    r2 = r2
    w1 = w1
    w2 = w2
    None = None
    Readers = {r1, r2}
    Writes = {w1, w2}
    Settings <- EitherOne
    MaxRuns <- ThreeOrTwo
    MaxFaults = 2
SYMMETRY WorkerSymmetry
INVARIANTS
    TypeOK
    ClosedWritesAreServed
    CachedIsFresh
    RowsAreLinked
    ServedAsRecorded
    WedgeIsExplained
CHECK_DEADLOCK FALSE
