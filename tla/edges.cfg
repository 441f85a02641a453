SPECIFICATION PartsSpec
CONSTANTS
    RpcJobs = {j1}
    MaxMessages = 3
    MaxPushes = 1
    Jobs = {j1}
    Readers = {r1}
    NoJob = NoJob
    MaxProgress = 2
    MirrorAliased = FALSE
    MaxReconnects = 1
    MaxDrops = 2
    MaxServerDeaths = 1
    Caps = {2, 3}
    Cadences = {1, 2}
    Savings = {0, 1}
    MaxFrames = 2
    Widths = {1, 2}
    HistoryLimit = 2
    MaxPoints = 5
    MaxEdits = 3
    Results <- Shown
    Viewports = {v1}
    NoResult = NoResult
    NoView = NoView
    MaxCalls = 4
    Fingers = {f1, f2}
    Mouse = Mouse
    Lines = {a, b}
    NoLine = NoLine
    MaxGestures = 4
    Limits = {1, 2}
    MaxMishaps = 2
    Payloads <- Temperatures
    Questions <- Questionnaire
    Declared <- Metrics
    MaxSamples = 5
    DefaultSamples = 4
    MaxHotspots = 3
    Coefficients = {0, 1, 2, 3}
    Sketches <- Drawings
    Places <- SomePlaces
    NewId = "n"
    NoId = NoId
    Unknown = Unknown
    MaxRevised = 2
INVARIANTS ReadsAreRight ConnectionIsSound ClientIsTold SolveIsHonest EditorIsSound ViewerIsSound FieldsAreRight BoundariesFollow PlaneIsRight
PROPERTIES ConnectionEnds IteratorEnds ProgressGoesOn
CHECK_DEADLOCK FALSE
