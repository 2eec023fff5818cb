SPECIFICATION StreamFairSpec
CONSTANTS
    Threads = {t1, t2}
    NoThread = NoThread
    Capacity = 3
    Period = 2
    Faults = {}
    Configs <- MCSwitches
    StampCapacity = 2
    MaxTime = 2
    MaxCycles = 0
INVARIANT HealthyPassSucceeds
PROPERTY LockReleased
