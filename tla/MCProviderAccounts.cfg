SPECIFICATION Spec
CONSTANTS
    r1 = r1
    r2 = r2
    p1 = p1
    p2 = p2
    none = none
    Caller = {r1, r2}
    Role = {"NONE", "VIEWER", "OWNER"}
    WriteRoles = {"OWNER"}
    VerdictTtl = 2
    MaxChanges = 1
    Provider = {p1, p2}
    Rule <- Rules
    None = none
    Cycles <- SomeCycles
    Reach <- SomeReach
    MaxEdits = 2
    MaxTime = 2
SYMMETRY Symmetry
CHECK_DEADLOCK FALSE
INVARIANTS
    TypeOK
    ProvidersWereOnOffer
    StoredRulesNeverOverlap
    WindowsFound
PROPERTIES
    StaleAllowWindow
