SPECIFICATION Spec
CONSTANTS
    Passers = {p1, p2}
    StallTimeout = 2
    NonSilentWindow = 1
    ActivityWindow = 1
    MaxTime = 4
    MaxPosition = 1
    MaxPasses = 1
PROPERTIES ConditionDeserved StarvationExplained
SYMMETRY PasserSymmetry
CHECK_DEADLOCK FALSE
