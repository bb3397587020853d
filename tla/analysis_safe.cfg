SPECIFICATION Spec
CONSTANTS
    Tasks = {t1, t2}
    Workers = {w1, w2}
    Ids = {a1, a2}
    None = None
    Expires = 1
    Visibility = 2
    ResultTTL = 1
    MaxLosses = 1
SYMMETRY Interchangeable
INVARIANTS
    RunsBounded
    SettledHasVerdict
    CompletedIsSaved
PROPERTIES
    FailedIsFinal
    RefinesJob
