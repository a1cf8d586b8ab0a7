SPECIFICATION FairSpec
CONSTANTS
    ValidationJob = {v1}
    CollectionJob = {c1}
    NoJob = NoJob
    Api = {a1}
    Worker = {w1, w2}
    QueueTTL = 1
    WorkerTimeout = 1
    WorkerLease = 2
    MaxAttempts = 2
PROPERTIES
    JobsSettle
