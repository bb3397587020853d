SPECIFICATION FairSpec
CONSTANTS
    Analyses = {a1}
    Tasks = {t1}
    Workers = {w1}
    Requests = {r1}
    None = None
    Queues = {"analysis", "cleanup", "celery"}
    MaxCrashes = 1
PROPERTIES
    TasksSettle
