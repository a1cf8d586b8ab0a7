SPECIFICATION Watched
CONSTANTS
    Event = {e1}
    Scopes = 1
    Worker = {w1}
    NoCursor = NoCursor
    Interval = 1
    Lookback = 2
    Overlap = 1
    MaxCatchup = 3
    MaxDelay = 1
    QueueTTL = 1
    WorkerTimeout = 1
    WorkerLease = 2
    MaxAttempts = 2
PROPERTIES
    AzureCursorAdvances
