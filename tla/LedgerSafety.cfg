SPECIFICATION Spec
CONSTANTS
    p1 = p1
    p2 = p2
    Procs = {p1, p2}
    None = None
    Tears = {"line", "part"}
    MaxRecords = 5
    MaxFaults = 2
SYMMETRY ProcSymmetry
INVARIANTS
    TypeOK
    DamageIsLast
    AcknowledgedIsKept
    ShortfallIsExplained
    SealKeepsUp
    LandedIsOnRecord
PROPERTIES
    FreezesForAReason
    LedgersOnlyGrow
CHECK_DEADLOCK FALSE
