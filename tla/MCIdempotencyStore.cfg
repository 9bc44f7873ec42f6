SPECIFICATION Spec
CONSTANTS
    a1 = a1
    a2 = a2
    a3 = a3
    k1 = k1
    b1 = b1
    b2 = b2
    none = none
    Attempt = {a1, a2, a3}
    Key = {k1}
    Body = {b1, b2}
    None = none
    LockTtl = 2
    Ttl = 2
    MaxTime = 4
SYMMETRY Symmetry
CHECK_DEADLOCK FALSE
INVARIANTS
    TypeOK
    TwiceOnlyAfterLostLock
    ReplaysWhatIsStored
PROPERTIES
    RecordsLast
