\* The hand-over of a dead owner's file on POSIX: two survivors, one of
\* which judged the file before the other adopted it.
SPECIFICATION Spec
CONSTANTS
    t1 = t1
    t2 = t2
    t3 = t3
    p1 = p1
    p2 = p2
    p3 = p3
    i1 = i1
    i2 = i2
    i3 = i3
    None = None
    Empty = Empty
    Released = Released
    Junk = Junk
    Threads = {t1, t2, t3}
    Procs = {p1, p2, p3}
    ProcOf <- OneEach
    Inodes = {i1, i2, i3}
    Platforms = {"posix"}
    Mortal = {p1}
    PidReuse = FALSE
    Faults = FALSE
    MayTimeout = FALSE
SYMMETRY BothSymmetry
INVARIANT MutualExclusion
