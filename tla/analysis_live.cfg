SPECIFICATION FairSpec
CONSTANTS
    Tasks = {t1, t2}
    Workers = {w1}
    Ids = {a1, a2}
    None = None
    Expires = 1
    Visibility = 2
    ResultTTL = 1
    MaxLosses = 1
PROPERTIES
    RefinesFairJob
