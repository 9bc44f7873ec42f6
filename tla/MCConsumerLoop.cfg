SPECIFICATION Spec
CONSTANTS
    good = good
    bad = bad
    garbled = garbled
    poison = poison
    Message = {good, bad, garbled, poison}
    Malformed = {bad}
    Garbled = {garbled}
    Poison = {poison}
    MaxAttempts = 2
    MaxFaults = 2
    MaxLog = 3
INVARIANTS
    TypeOK
    HandledAtMostOnce
    BudgetPerEvent
    OneOutcome
    SkippedOnlyIfInterrupted
PROPERTIES
    PartitionKeepsFlowing
