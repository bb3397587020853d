SPECIFICATION FairSpec
CONSTANTS
    Searches = {all, some}
    NoSearch = all
    Filters = {any, active}
    NoFilter = any
    MaxPages = 2
    Slots = {s1, s2}
    MaxInputs = 3
    None = None
INVARIANTS
    ChangesSeen
    AnswerFindsItsDialog
PROPERTIES
    TellsWhy
    ListFollowsBox
