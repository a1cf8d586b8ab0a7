SPECIFICATION Spec
CONSTANTS
    Job = {j1, j2}
    NoJob = NoJob
    Handler = {h1, h2}
    Worker = {w1, w2}
    QueueTTL = 1
    StagingTTL = 1
    WorkerTimeout = 1
    WorkerLease = 2
    MaxAttempts = 2
SYMMETRY Symmetry
INVARIANTS
    TypeOK
    ActiveHasReports
    LiveImportKeepsItsJob
    OneJobPerKey
    SuccessIsEvaluated
