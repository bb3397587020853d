SPECIFICATION FairSpec
CONSTANTS
    Users = {u1, u2}
    Admins = {u1}
    Tasks = {t1}
    Calls = {c1, c2}
    MaxErrors = 3
    MaxInputs = 6
    None = None
INVARIANTS
    Guarded
    OwnData
PROPERTIES
    StatusLeadsOn
CHECK_DEADLOCK FALSE
