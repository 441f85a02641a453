SPECIFICATION Spec
CONSTANTS
    Jobs = {j1, j2}
    Readers = {r1}
    NoJob = NoJob
    MaxProgress = 1
    MirrorAliased = FALSE
    MaxWorkers = 1
    MaxRestarts = 1
    TimeoutOn = TRUE
    Unstorable = TRUE
SYMMETRY JobSymmetry
INVARIANTS TypeOK DeliveryExact VerdictAgrees ProgressBeforeVerdict Accounted
PROPERTIES VerdictIsFinal StreamSpec
