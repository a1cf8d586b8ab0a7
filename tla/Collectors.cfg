SPECIFICATION FairSpec
CONSTANTS
    Followed <- MCFollowed
    Excused <- MCExcused
    MaxPaths = 2
    MaxFaults = 1
INVARIANTS
    TypeOK
PROPERTIES
    KeptWhileThere
    CompleteIsExact
    
