SPECIFICATION FairSpec
CONSTANTS
    Jobs = {j1}
    Readers = {r1}
    NoJob = NoJob
    MaxProgress = 2
    MirrorAliased = FALSE
    MaxWorkers = 1
    MaxRestarts = 2
    TimeoutOn = TRUE
    Unstorable = FALSE
PROPERTIES EveryJobEnds EveryStreamEnds
