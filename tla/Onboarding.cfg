SPECIFICATION Spec
CONSTANTS
    Places = {p1, p2}
    Planes = {asset, runtime}
    OddPlane = runtime
    MaxStates = 4
    Accounts = {own, other}
    NoAccount = NoAccount
    Requests = {r1, r2}
    Providers <- MCProviders
    NoRow = NoRow
    MaxLives = 2
SYMMETRY Symmetry
INVARIANTS
    TypeOK
    SpentOnce
    HealthyMeansProved
    ReceiptTellsTruth
    AttachedAsAsked
PROPERTIES
    VerifiedInstallation
CHECK_DEADLOCK FALSE
