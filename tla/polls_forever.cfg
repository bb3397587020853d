SPECIFICATION FairSpec
CONSTANTS
    Analyses = {a1, a2}
    Tasks = {t1}
    Calls = {c1, c2}
    MaxErrors = 3
    MaxClicks = 2
    None = None
INVARIANTS
    FailuresCapped
CHECK_DEADLOCK FALSE
