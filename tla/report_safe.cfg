SPECIFICATION Spec
CONSTANTS
    Analyses = {a1}
    Tasks = {t1, t2}
    Workers = {w1, w2}
    Requests = {r1, r2}
    None = None
    Queues = {"analysis", "cleanup"}
    MaxCrashes = 0
SYMMETRY Interchangeable
INVARIANTS
    StoredWasWritten
    CompletedIsRecorded
CHECK_DEADLOCK FALSE
