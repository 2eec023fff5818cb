SPECIFICATION StreamSpec
CONSTANTS
    Threads = {t1, t2}
    NoThread = NoThread
    Capacity = 3
    Period = 2
    Faults = {"tooLarge", "failure", "padding", "lost"}
    Configs <- MCInjecting
    StampCapacity = 2
    MaxTime = 1
    MaxCycles = 1
SYMMETRY MCSymmetry
INVARIANTS InjectedOnce ReleaseMatchesAcquire StartedTruthful StopSupersedesRecovery
PROPERTY RecoveryUndisturbed
