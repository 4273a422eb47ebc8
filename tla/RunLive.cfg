SPECIFICATION FairSpec
ACTION_CONSTRAINT CancelOrTrouble
CONSTRAINT FreshThreads
CONSTANTS
    Run = {r1, r2}
    Thread = {t1}
    ThreadOf <- OneThread
    None = None
    Prior = Prior
    MaxCancels = 1
    MaxExits = 0
    MaxFailures = 1
    StreamsSurvive = TRUE
    Databases = {"sqlite"}
PROPERTY StartedRunEndsStream
CHECK_DEADLOCK FALSE
