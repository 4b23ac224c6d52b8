SPECIFICATION FairSpec
CONSTANTS
    d1 = d1
    d2 = d2
    NoFile = NoFile
    Readers = {d1, d2}
    Modes = {"local", "minio"}
    Namings = {TRUE, FALSE}
    MaxRuns = 3
    MaxFaults = 1
INVARIANTS
    ResultIsKept
PROPERTIES
    StaleOutputsGo
    StaleCopiesGo
