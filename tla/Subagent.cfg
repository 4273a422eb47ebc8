SPECIFICATION FairSpec
CONSTANTS
    Task = {t1, t2}
    PoolSize = 1
    MaxPolls = 1
INVARIANT EntriesKept
INVARIANT AnsweredUsageReported
PROPERTY ImplementsTaskOutcome
PROPERTY EveryTaskSettles
CHECK_DEADLOCK FALSE
