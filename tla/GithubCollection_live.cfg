SPECIFICATION FairSpec
CONSTANTS
    Repos = 2
    MaxJobs = 2
    MaxRev = 1
    Worker = {w1}
    Batches = 1
    SliceLimit = 1
    MaxInterruptions = 1
    MaxAttempts = 2
    Lease = 1
    Life = 2
    Delay = 1
INVARIANTS
    SuccessIsTotal
PROPERTIES
    RunsEnd
