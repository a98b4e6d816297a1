SPECIFICATION Spec
CONSTANTS
    a1 = a1
    a2 = a2
    w1 = w1
    p1 = p1
    p2 = p2
    f1 = f1
    f2 = f2
    f3 = f3
    f4 = f4
    b1 = b1
    b2 = b2
    b3 = b3
    b4 = b4
    b5 = b5
    b6 = b6
    None = None
    Appliers = {a1, a2}
    Writers = {w1}
    Proposals = {p1}
    Files = {f1, f2, f3}
    Blocks = {b1, b2, b3, b5}
    RootOf <- OneRoot
    HomeOf <- AtHomeOnly
    OpsOf <- TheirOps
    FirstFiles = {f1, f2, f3}
    FirstStaged = {p1}
    Crashes = TRUE
    Escapes = TRUE
    Drift = TRUE
    MarkMayFail = TRUE
    Operator = TRUE
SYMMETRY ApplierSymmetry
INVARIANT OnePending
PROPERTY BystandersStay
