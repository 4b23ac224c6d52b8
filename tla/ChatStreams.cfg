CONSTANTS
    Kinds <- AllKinds
    MaxDetours = 1
    MaxTokens = 1
    MaxFaults = 1
SPECIFICATION Spec
INVARIANTS
    StreamIsOrderly
    LossIsAnnounced
PROPERTIES
    NothingMissed
    StreamEnds
CHECK_DEADLOCK FALSE
