SPECIFICATION Spec
CONSTANTS
    Requests = {r1, r2, r3}
    IPs = {a}
    Limit = 1
    Window = 2
    Delay = 1
    MaxTime = 5
    Grace = 1
INVARIANTS TypeOK AtMostTwice CountsAgree StatsPlausible
PROPERTIES OpeningsApart RefusalsEarned ShutdownEnds
CHECK_DEADLOCK FALSE
