SPECIFICATION FairSpec
CONSTANTS
    Client = {c1, c2}
    MaxSize = 2
    MaxEvents = 4
    MaxConnects = 2
    END = END
INVARIANT NoLostWakeup
INVARIANT RetentionOK
PROPERTY ImplementsEventStream
PROPERTY AttachedClientFinishes
CHECK_DEADLOCK FALSE
