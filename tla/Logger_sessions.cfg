SPECIFICATION FairSpec
CONSTANTS
    Producers = {p1, p2}
    NoOne = NoOne
    QueueCapacity = 1
    MaxRecords = 1
    MaxSessions = 2
    MayFail = {"file", "event", "thread", "timeout"}
INVARIANTS HandlesOutliveUsers RecordsAccounted
PROPERTIES CategoryHonoured CallsReturn QueueDrains
