SPECIFICATION Spec
CONSTANTS
    Processes = {api, rpc}
    Sweepers = {api}
    Owners = {ann}
    Keys = {k1}
    NoKey = NoKey
    NoRow = NoRow
    NoTask = NoTask
    ConcurrentJobs = 0
    MaxJobs = 1
    MaxDeaths = 1
    MaxReuse = 0
    MaxExpired = 0
INVARIANT ReconcileSparesTheLiving
