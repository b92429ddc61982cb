\* Counting: two visitors of one page, failures, a restart, and the page shown.
SPECIFICATION Spec
CONSTANTS
    r1 = r1
    r2 = r2
    p1 = p1
    v1 = v1
    v2 = v2
    Requests <- TwoRequests
    Pages <- OnePage
    Visitors <- TwoVisitors
    HitOldAfter = 1
    KeyLifetime = 2
    MaxHitCount = 2
    MaxClock = 0
    MaxRestarts = 1
SYMMETRY Symmetry
INVARIANTS
    TypeOK
    UniqueNeverUndercounts
    UniqueWithinTotal
    ShownTotalsCoverPage
PROPERTY
    ImplementsLedger
