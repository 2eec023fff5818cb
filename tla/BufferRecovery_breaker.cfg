SPECIFICATION Spec
CONSTANTS
    Threads = {t1, t2}
    NoThread = NoThread
    Capacity = 2
    Period = 2
    Faults = {"tooLarge"}
    Configs <- MCBreakers
    StampCapacity = 3
    MaxTime = 4
INVARIANTS WindowRespected SpacingRespected
PROPERTIES BreakerSpec RefusesOnlyWhenDue
