SPECIFICATION Spec
CONSTANTS
    Inis <- MCInis
    Packaged <- MCPackaged
    Attempts = 2
    MaxFiles = 3
    MaxBytes = 2
    Sizes = {1, 2}
    MaxRecords = 7
INVARIANT RecoveryEnabled
CHECK_DEADLOCK FALSE
