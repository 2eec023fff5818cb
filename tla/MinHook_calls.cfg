SPECIFICATION Spec
CONSTANTS
    Targets = {f, g}
    Above = {g}
    Blocks = {b1, b2}
    Reach <- MCReach
    Slots = {1, 2}
    Threads = {t1}
    Shielded = {}
    MayFail = {"memory", "function", "entry", "threads", "protect"}
    SingleDisable = FALSE
INVARIANTS SlotsAccounted CodeMatchesTable MovedProperly
CHECK_DEADLOCK FALSE
