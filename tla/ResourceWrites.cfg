SPECIFICATION Spec
CONSTANTS
    Request = {r1, r2}
    Grant = {g1}
    User = {u1, u2}
    Handler = {h1}
    Worker = {w1, w2}
    None = None
    PreviewTTL = 1
    WorkerTimeout = 1
    WorkerLease = 2
    MaxCalls = 1
    MaxEdits = 1
SYMMETRY Symmetry
INVARIANTS
    TypeOK
    SingleAttempt
    WriterHoldsGrant
    FailedIsUntouched

    
