SPECIFICATION Spec
CONSTANTS
    Run = {r1, r2}
    Thread = {t1}
    ThreadOf <- OneThread
    None = None
    Prior = Prior
    MaxCancels = 1
    MaxExits = 0
    MaxFailures = 0
    StreamsSurvive = TRUE
    Databases = {"sqlite"}
SYMMETRY Symmetry
PROPERTY RollbackRevertsOnlyOwnWork
CHECK_DEADLOCK FALSE
