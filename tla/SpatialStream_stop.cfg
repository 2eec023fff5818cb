SPECIFICATION StreamSpec
CONSTANTS
    Threads = {t1, t2}
    NoThread = NoThread
    Capacity = 3
    Period = 2
    Faults = {}
    Configs <- MCPackaged
    StampCapacity = 2
    MaxTime = 1
    MaxCycles = 0
INVARIANT StopAuthoritative
