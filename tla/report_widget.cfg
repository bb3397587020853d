SPECIFICATION FairSpec
CONSTANTS
    Analyses = {a1, a2}
    Tasks = {t1, t2}
    Calls = {c1, c2}
    MaxErrors = 2
    MaxClicks = 5
    None = None
INVARIANTS
    TypeOK
    NeverStuck
    OfferedWasMade
PROPERTIES
    EndShows
CHECK_DEADLOCK FALSE
