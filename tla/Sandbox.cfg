SPECIFICATION FairSpec
CONSTANTS
    Worker = {w1, w2}
    Scope = {s1, s2}
    Replicas = 1
    MaxObjects = 6
    MaxCalls = 2
    MaxFaults = 2
INVARIANT PoolMapsOK
INVARIANT NoLeakedContainer
PROPERTY DropsOnlyDead
PROPERTY CallsAndContainersEnd
CHECK_DEADLOCK FALSE
