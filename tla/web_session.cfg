SPECIFICATION Spec
CONSTANTS
    Tabs = {t1}
    Slots = {s1, s2}
    MaxPairs = 3
    MaxReloads = 1
SYMMETRY Interchangeable
INVARIANTS
    TypeOK
    FlagHasLeader
    NoReplay
    InSync
PROPERTIES
    RetriesWithNewToken
    QueueServed
CHECK_DEADLOCK FALSE
