SPECIFICATION Spec
CONSTANTS
    Jobs = {j1}
    Readers = {r1}
    NoJob = NoJob
    MaxProgress = 2
    MirrorAliased = TRUE
    MaxWorkers = 1
    MaxRestarts = 0
    TimeoutOn = TRUE
    Unstorable = FALSE
INVARIANT SeenIsLogPrefix
