SPECIFICATION Spec
CONSTANTS
    ValidationJob = {v1, v2}
    CollectionJob = {c1}
    NoJob = NoJob
    Api = {a1}
    Worker = {w1, w2}
    QueueTTL = 1
    WorkerTimeout = 1
    WorkerLease = 2
    MaxAttempts = 2
SYMMETRY Symmetry
INVARIANTS
    TypeOK
    OneExecutor
    LiveWorkKeepsItsJob
    OneActiveJob
    InactiveIsIdle
PROPERTIES
    SuccessIsOwned
