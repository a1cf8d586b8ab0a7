SPECIFICATION Watched
CONSTANTS
    Event = {e1}
    Scopes = 2
    Worker = {w1}
    NoCursor = NoCursor
    Interval = 1
    Lookback = 2
    Overlap = 1
    MaxCatchup = 3
    MaxDelay = 1
    QueueTTL = 2
    WorkerTimeout = 2
    WorkerLease = 3
    MaxAttempts = 2
INVARIANTS
    TypeOK
    NothingBehindCursor

    
    
