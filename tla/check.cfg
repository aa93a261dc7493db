SPECIFICATION Spec
CONSTANTS
    Keys <- MCKeys
    Values <- MCValues
    Elements = {e1, e2, e3}
    Capacity = 2
    OwnTTL = 1
    Requests = {r1, r2}
    Clients = {c1}
    Anonymous = anonymous
    Malformed = malformed
    Texts <- MCTexts
    Astral <- MCAstral
    Lower <- MCLower
    Spans <- MCSpans
    Words <- MCWords
    MaxTime = 2
    MaxChecks = 3
SYMMETRY MCSymmetry
INVARIANTS TypeOK IndexAgrees AnswersOwn
PROPERTIES LeastRecentlyUsed
CHECK_DEADLOCK FALSE
