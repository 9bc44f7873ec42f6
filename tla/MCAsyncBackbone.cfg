SPECIFICATION BackboneSpec
CONSTANTS
    e1 = e1
    e2 = e2
    Event = {e1, e2}
    BatchSize = 2
    Poison = {e2}
    MaxAttempts = 1
    MaxFaults = 2
PROPERTIES
    DeliversOnce
    BacklogDrains
    DeliversEventually
