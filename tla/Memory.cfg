CONSTANTS
    Conversation = {v1, v2}
    Timer = {t1, t2, t3}
    MaxCalls = 3

SPECIFICATION FairSpec
INVARIANT QueueAttended
INVARIANT NothingForgotten
INVARIANT CacheCurrent
PROPERTY EditsBuildOnLatest
PROPERTY TurnsReachModelInOrder
CHECK_DEADLOCK FALSE
