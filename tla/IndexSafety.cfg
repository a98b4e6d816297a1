SPECIFICATION Spec
CONSTANTS
    f1 = f1
    f2 = f2
    b1 = b1
    b2 = b2
    r1 = r1
    None = None
    Files = {f1}
    Named = {}
    Builders = {b1, b2}
    Readers = {r1}
    MaxEdits = 2
    MaxFaults = 1
SYMMETRY BuilderSymmetry
INVARIANTS
    TypeOK
    OneTable
    CurrentAgrees
    MembershipFollows
    ServedIsAdmissible
    ReleasedIsFound
CHECK_DEADLOCK FALSE
