SPECIFICATION FairSpec
CONSTANTS
    h1 = h1
    h2 = h2
    e1 = e1
    e2 = e2
    e3 = e3
    None = None
    Handlers = {h1, h2}
    Events = {e1, e2, e3}
    Textless = {e3}
    Capacity = 1
    MaxItems = 2
    Tears = {"line", "part"}
    MaxPosts = 4
    MaxFaults = 2
INVARIANTS
    TypeOK
    NothingLost
    AppliedIsAPrefix
PROPERTY
    AckedIsApplied
CHECK_DEADLOCK FALSE
