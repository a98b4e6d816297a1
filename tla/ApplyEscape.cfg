SPECIFICATION Spec
CONSTANTS
    a1 = a1
    a2 = a2
    w1 = w1
    p1 = p1
    p2 = p2
    f1 = f1
    f2 = f2
    f3 = f3
    f4 = f4
    b1 = b1
    b2 = b2
    b3 = b3
    b4 = b4
    b5 = b5
    b6 = b6
    None = None
    Appliers = {a1}
    Writers = {}
    Proposals = {p1, p2}
    Files = {f1, f2}
    Blocks = {b1, b2, b3, b4}
    RootOf <- OneRoot
    HomeOf <- AtHomeOnly
    OpsOf <- TwoFiles
    FirstFiles = {f1, f2}
    FirstStaged = {p1, p2}
    Crashes = FALSE
    Escapes = TRUE
    Drift = FALSE
    MarkMayFail = FALSE
    Operator = FALSE
CHECK_DEADLOCK FALSE
INVARIANT AllOrNothing
