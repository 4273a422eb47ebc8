SPECIFICATION OneNamingSpec
ACTION_CONSTRAINT InOrder
CONSTANTS
    c1 = c1
    c2 = c2
    c3 = c3
    k1 = k1
    k2 = k2
    Call <- Calls
    OwnLoop <- OwnLoops
    Key <- Keys
    MaxSessions = 1
    MaxUpsets = 1
INVARIANT RegistryOK
INVARIANT NoOrphanSession
PROPERTY SessionsAndCallsEnd
CHECK_DEADLOCK FALSE
