SPECIFICATION Spec
CONSTANTS
    Jobs = {j1}
    Readers = {r1}
    NoJob = NoJob
    Workers = {w1}
    NoWorker = NoWorker
    MaxProgress = 2
    MirrorAliased = FALSE
    MaxDeaths = 0
    MaxFaults = 0
    TimeoutOn = TRUE
    Skew = FALSE
INVARIANT SeenIsLogPrefix
