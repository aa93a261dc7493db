SPECIFICATION Spec
CONSTANTS
    Others = {}
    Values <- MCValues
    Styles = {"plain", "single", "double", "literal", "folded"}
    Indents = {2, 4}
    SimpleKeyMax = 4
INVARIANTS TypeOK ReadsBack Settles
PROPERTIES Advances
