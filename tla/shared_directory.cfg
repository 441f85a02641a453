SPECIFICATION FairSpec
CONSTANTS
    Processes = {api, rpc}
    Sweepers = {api}
    Owners = {ann}
    Keys = {k1}
    NoKey = NoKey
    NoRow = NoRow
    NoTask = NoTask
    ConcurrentJobs = 0
    MaxJobs = 2
    MaxDeaths = 1
    MaxReuse = 1
    MaxExpired = 1
INVARIANT StrandedIsListed
PROPERTY EveryRowEnds
