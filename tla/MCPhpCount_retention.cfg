\* Time: one visitor of one page, with cleanup, expiry and rotation.
SPECIFICATION Spec
CONSTANTS
    r1 = r1
    r2 = r2
    p1 = p1
    v1 = v1
    v2 = v2
    Requests <- TwoRequests
    Pages <- OnePage
    Visitors <- OneVisitor
    HitOldAfter = 2
    KeyLifetime = 3
    MaxHitCount = 2
    MaxClock = 4
    MaxRestarts = 0
SYMMETRY Symmetry
INVARIANTS
    CleanupKeepsWhatCounts
    UniqueOnlyAfterRetention
PROPERTY KeyServesItsLifetime
