SPECIFICATION Spec
CONSTRAINT OneKind
SYMMETRY Symmetry
CONSTANTS
    Task = {o, c}
    Once = {o}
    Fresh = {c}
    d1 = d1
    d2 = d2
    Slot <- Slots
    None = None
    MaxConcurrent = 1
    MaxManual = 1
    MaxEdits = 1
    MaxFaults = 1
    MaxExits = 1
INVARIANT TypeOK
INVARIANT ActiveRowAttended
INVARIANT RowShowsOutcome
INVARIANT OnceTaskHolds
INVARIANT ScheduledCap
CHECK_DEADLOCK FALSE
