SPECIFICATION FairSpec
ACTION_CONSTRAINT InOrder
ACTION_CONSTRAINT TwoOutcomes
CONSTRAINT OneTrouble
CONSTANTS
    Task = {o, c}
    Once = {o}
    Fresh = {c}
    d1 = d1
    d2 = d2
    Slot <- Slots
    None = None
    MaxConcurrent = 2
    MaxManual = 0
    MaxEdits = 0
    MaxFaults = 1
    MaxExits = 1
INVARIANT ScheduledRunsDoNotOverlap
PROPERTY ClaimedTaskSettles
CHECK_DEADLOCK FALSE
