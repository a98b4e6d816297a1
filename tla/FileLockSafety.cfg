\* Three processes of one thread each, any of whose steps may fail, one of
\* which may die and come back under its old pid; every platform that gives
\* fresh files fresh identities.
SPECIFICATION Spec
CONSTANTS
    t1 = t1
    t2 = t2
    t3 = t3
    p1 = p1
    p2 = p2
    p3 = p3
    i1 = i1
    i2 = i2
    i3 = i3
    None = None
    Empty = Empty
    Released = Released
    Junk = Junk
    Threads = {t1, t2, t3}
    Procs = {p1, p2, p3}
    ProcOf <- OneEach
    Inodes = {i1, i2, i3}
    Platforms = {"posix", "ntfs", "nolock"}
    Mortal = {p1}
    PidReuse = TRUE
    Faults = TRUE
    MayTimeout = TRUE
SYMMETRY BothSymmetry
INVARIANTS
    TypeOK
    ExclusionUnlessCrashed
    HolderKeepsClaim
    CreatorMeetsNobody
    LeaversHoldNothing
