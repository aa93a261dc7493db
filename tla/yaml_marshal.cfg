SPECIFICATION Spec
CONSTANTS
    Others = {}
    Values <- LineValues
    Styles = {}
    Indents = {4}
    SimpleKeyMax = 4
INVARIANTS ReadsBackAlways
