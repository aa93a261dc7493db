SPECIFICATION Spec
CONSTANTS
    Words = {w1}
    Sentinel = Sentinel
    Writers = {p1}
    Readers = {r1}
    BatchSize = 25
    Ops = {"clear"}
    Faults = {}
    MaxRequests = 1
    MaxCrashes = 0
INVARIANTS LoadersDetectWrites
CHECK_DEADLOCK FALSE
