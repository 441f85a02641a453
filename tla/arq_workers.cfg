SPECIFICATION FairSpec
CONSTANTS
    Jobs = {j1}
    Readers = {r1}
    NoJob = NoJob
    Workers = {w1}
    NoWorker = NoWorker
    MaxProgress = 2
    MirrorAliased = FALSE
    MaxDeaths = 1
    MaxFaults = 1
    TimeoutOn = TRUE
    Skew = TRUE
INVARIANTS VerdictIsEarned DeliveryIsOrdered
PROPERTIES VerdictIsFinal EveryJobEnds
