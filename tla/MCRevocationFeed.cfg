SPECIFICATION Spec
CONSTANTS
    r1 = r1
    r2 = r2
    s1 = s1
    s2 = s2
    none = none
    Request = {r1, r2}
    Early = {s1, s2}
    None = none
    AccessTtl = 2
    CacheTtl = 2
    Skew = 1
    PageSize = 1
    MaxPages = 2
    MaxResets = 1
    MaxTime = 3
CHECK_DEADLOCK FALSE
INVARIANTS
    TypeOK
    SpentForLater
    FeedMissesOnlyLate
PROPERTIES
    RevocationsArrive
