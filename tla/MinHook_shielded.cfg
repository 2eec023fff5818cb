SPECIFICATION Spec
CONSTANTS
    Targets = {f, g}
    Above = {g}
    Blocks = {b1, b2}
    Reach <- MCReach
    Slots = {1}
    Threads = {t1, t2}
    Shielded = {t2}
    MayFail = {}
    SingleDisable = FALSE
INVARIANT MovedProperly
CHECK_DEADLOCK FALSE
