SPECIFICATION Spec
CONSTANTS
    Processes = {server1, server2}
    Sweepers = {server1, server2}
    Owners = {ann}
    Keys = {k1}
    NoKey = NoKey
    NoRow = NoRow
    NoTask = NoTask
    ConcurrentJobs = 2
    MaxJobs = 4
    MaxDeaths = 0
    MaxReuse = 2
    MaxExpired = 0
SYMMETRY Symmetry
INVARIANTS QuotaOvershoot FewSolves ReuseCounted
