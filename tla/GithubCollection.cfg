SPECIFICATION Spec
CONSTANTS
    Repos = 1
    MaxJobs = 2
    MaxRev = 2
    Worker = {w1, w2}
    Batches = 2
    SliceLimit = 1
    MaxInterruptions = 1
    MaxAttempts = 2
    Lease = 1
    Life = 2
    Delay = 1
SYMMETRY Symmetry
INVARIANTS
    TypeOK
    EvidenceAtPin
    CompleteIsStored
PROPERTIES
    EvidenceForward
