SPECIFICATION Spec
ACTION_CONSTRAINT CancelOrTrouble
CONSTRAINT PlainExits
CONSTANTS
    Run = {r1, r2}
    Thread = {t1}
    ThreadOf <- OneThread
    None = None
    Prior = Prior
    MaxCancels = 1
    MaxExits = 1
    MaxFailures = 1
    StreamsSurvive = TRUE
    Databases = {"sqlite", "postgres"}
SYMMETRY Symmetry
INVARIANT TypeOK
INVARIANT OlderCleanupFirst
INVARIANT OneGraphPerThread
INVARIANT DurableStateAgrees
PROPERTY CleanupKeepsOthersWork
CHECK_DEADLOCK FALSE
