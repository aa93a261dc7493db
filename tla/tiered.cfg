SPECIFICATION Spec
CONSTANTS
    Processes = {a, b}
    Slots = {s1}
    Prefix = "lt:check"
    L1TTL = 1
    L2TTL = 2
    CallTime = 1
    Disturbed = TRUE
    MaxTime = 6
    MaxAnswers = 2
    MaxClears = 1
SYMMETRY ProcessSymmetry
INVARIANTS TypeOK AnswersFresh ForgottenStay RedisFirst
CHECK_DEADLOCK FALSE
