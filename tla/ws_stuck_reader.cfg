SPECIFICATION Spec
CONSTANTS
    Cap = 1
    MaxReads = 2
    MaxChecks = 1
    MayFail = TRUE
PROPERTIES HangupNoticed
CHECK_DEADLOCK FALSE
