SPECIFICATION Spec
CONSTANTS
    Producers = {p1, p2}
    NoOne = NoOne
    QueueCapacity = 2
    MaxRecords = 2
    MaxSessions = 1
    MayFail = {}
SYMMETRY MCSymmetry
INVARIANT OrderKept
