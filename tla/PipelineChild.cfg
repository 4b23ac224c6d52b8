CONSTANTS
    MaxLines = 2
    PipeSize = 1
    TailLines = 2
    MaxDeaths = 1
SPECIFICATION Spec
INVARIANTS
    LogIsWhole
    CauseIsReported
    NothingLeft
PROPERTIES
    RunEnds
CHECK_DEADLOCK FALSE
