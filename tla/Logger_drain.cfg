SPECIFICATION Spec
CONSTANTS
    Producers = {p1, p2}
    NoOne = NoOne
    QueueCapacity = 1
    MaxRecords = 1
    MaxSessions = 1
    MayFail = {}
INVARIANT DrainedAtShutdown
