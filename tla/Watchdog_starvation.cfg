SPECIFICATION Spec
CONSTANTS
    Passers = {p1, p2}
    StallTimeout = 2
    NonSilentWindow = 1
    ActivityWindow = 1
    MaxTime = 3
    MaxPosition = 0
    MaxPasses = 1
PROPERTY StarvationGenuine
SYMMETRY PasserSymmetry
CHECK_DEADLOCK FALSE
