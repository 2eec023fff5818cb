SPECIFICATION Spec
CONSTANTS
    Threads = {t1}
    NoThread = NoThread
    Capacity = 2
    Period = 2
    Faults = {}
    Configs <- MCLongCooldown
    StampCapacity = 2
    MaxTime = 4
INVARIANT CooldownRespected
