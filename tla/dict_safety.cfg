SPECIFICATION Spec
CONSTANTS
    Words = {w1, w2}
    Sentinel = Sentinel
    Writers = {p1, p2}
    Readers = {r1}
    BatchSize = 1
    Ops = {"add", "remove", "clear"}
    Faults = {"redisGet", "redisFill", "redisBump", "storeList", "storeWrite", "crash"}
    MaxRequests = 2
    MaxCrashes = 1
SYMMETRY SlotSymmetry
INVARIANTS TypeOK Coherent RegularReads AckedWritesVisible
CHECK_DEADLOCK FALSE
