SPECIFICATION Spec
CONSTANTS
    Cap = 2
    MaxReads = 4
    MaxChecks = 2
    MayFail = TRUE
INVARIANTS TypeOK VerdictFirst CallsEarned
PROPERTIES LastCheckAnswered ShutdownCompletes OnlyStuckStays
CHECK_DEADLOCK FALSE
