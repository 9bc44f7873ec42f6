SPECIFICATION Spec
CONSTANTS
    e1 = e1
    e2 = e2
    e3 = e3
    Event = {e1, e2, e3}
    BatchSize = 2
    MaxFaults = 2
SYMMETRY EventSymmetry
INVARIANTS
    TypeOK
    OnlyCommittedOnTopic
    MarkedIsOnTopic
    FifoExceptLateCommit
    DuplicatesNeedFaults
PROPERTIES
    MarkedNeverResent
