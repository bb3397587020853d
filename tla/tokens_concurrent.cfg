SPECIFICATION FairSpec
CONSTANTS
    Users = {u1}
    Requests = {r1, r2}
    Tokens = {t1, t2, t3}
    None = None
    Lifetime = 1
    MaxTime = 2
INVARIANTS
    AbsoluteExpiry
    RotatedIsSpent
PROPERTIES
    SpentForever
    RefinesSession
    SessionEnds
    RowsPurged
