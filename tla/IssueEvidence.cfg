SPECIFICATION Spec
CONSTANTS
    Workload = {w1}
    Role = {q1}
    Path = {p1}
    None = None
    MaxEdits = 1
INVARIANTS
    TypeOK
    IssuesAreGaps
PROPERTIES
    LedgerSpec
