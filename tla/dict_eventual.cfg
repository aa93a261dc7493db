SPECIFICATION Spec
CONSTANTS
    Words = {w1}
    Sentinel = Sentinel
    Writers = {p1}
    Readers = {r1, r2}
    BatchSize = 1
    Ops = {"add", "clear"}
    Faults = {"redisGet", "redisBump", "storeWrite", "crash"}
    MaxRequests = 2
    MaxCrashes = 1
PROPERTIES EventuallyCoherent
CHECK_DEADLOCK FALSE
