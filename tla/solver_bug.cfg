SPECIFICATION Spec
CONSTANTS
    Jobs = {j1}
    Readers = {r1}
    NoJob = NoJob
    MaxProgress = 2
    MirrorAliased = FALSE
    MaxWorkers = 1
    MaxRestarts = 0
    TimeoutOn = TRUE
    Unstorable = TRUE
INVARIANT EndedHasVerdict
