SPECIFICATION LimiterSpec
CONSTANTS
    Requests = {r1, r2}
    None = None
    MaxRequests = 2
    Window = 4
    MaxDelay = 1
    MaxBurst = 1
    MaxTime = 7
SYMMETRY Interchangeable
INVARIANTS
    SecondsBounded
PROPERTIES
    QuietIsForgiven
CHECK_DEADLOCK FALSE
