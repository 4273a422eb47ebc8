SPECIFICATION RedisFairSpec
CONSTANTS
    Client = {c1}
    MaxSize = 2
    Count = 2
    MaxRetries = 1
    HasTTL = TRUE
    MaxEvents = 4
    MaxConnects = 3
INVARIANT RedisRetentionOK
PROPERTY RedisImplementsEventStream
PROPERTY SettledRunReleasesReaders
CHECK_DEADLOCK FALSE
