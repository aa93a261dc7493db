SPECIFICATION Spec
CONSTANTS
    Kinds <- MCKinds
    MaxColumn = 1
    KeyLimit = 3
    max_flow_level = 2
    max_indents = 2
INVARIANTS TypeOK BlocksMatch MarksMatch OpenerAtHand KeysIndexed EndReached KeysInTime
PROPERTIES WellNested
CHECK_DEADLOCK FALSE
