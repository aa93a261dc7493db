SPECIFICATION Spec
CONSTANTS
    Words = {w1}
    Sentinel = Sentinel
    Writers = {p1}
    Readers = {r1}
    BatchSize = 25
    Ops = {"add"}
    Faults = {}
    MaxRequests = 1
    MaxCrashes = 0
INVARIANTS AddedWordsIgnored
CHECK_DEADLOCK FALSE
