SPECIFICATION PartsSpec
CONSTANTS
    Callers = {c1, c2}
    Owners = {ann, ben}
    Parts = {p1}
    NoFile = NoFile
    MaxObjects = 2
    MaxRevisions = 3
    Metrics = {"low"}
    MaxJobs = 3
    MaxPurges = 1
    NoMetric = NoMetric
    NoRank = NoRank
    Enough = 3
    Budgets = {2, 3}
    MaxRuns = 2
    MaxCrashes = 1
    NoTask = NoTask
    NoStop = NoStop
    NoRun = NoRun
    Rungs = 2
    MaxDesigns = 2
    MaxStudyRuns = 2
    NoReceipt = NoReceipt
    Span = 1000000
    InvPhi = 618034
    Minima = {0, 90000, 236068, 300000, 381966, 450000, 500000, 618034, 700000, 850000, 910000, 1000000}
    Slopes = {1, 3}
    Tolerances = {10000, 100000, 900000}
    MaxTold = 11
    Parameters = {"u", "v"}
    Values = {10, 11, 20}
    Longest = 3
    MaxAxes = 2
    MaxSweepPoints = 4
    Measures = {0, 100, 104}
    Tolerance = 50
    NoAnswer = NoAnswer
    LoadCases = {l1, l2}
    Stranger = Stranger
    CaseBodies <- BeamCases
    Shapes = {{"root"}, {"root", "tip"}}
    Drafts <- Designs
    AcceptedKeys = {"fixed", "load"}
    MaxPatches = 2
INVARIANTS ResolutionIsSound OnlyTheHeadIsTorn SearchIsSound TableShowsTheRun ReadoutIsRight MethodIsSound
PROPERTIES RevisionIsFrozen HistorySpec AllocationEnds SearchEnds
CHECK_DEADLOCK FALSE
