SPECIFICATION Spec
CONSTANTS
    Threads = {t1, t2}
    NoThread = NoThread
    Capacity = 4
    Period = 3
    Faults = {"tooLarge", "failure", "padding", "lost"}
    Configs <- MCSwitches
    StampCapacity = 2
    MaxTime = 1
SYMMETRY MCSymmetry
INVARIANTS TypeOK GateDiscipline NoBufferLeak OutcomeTruthful
