SPECIFICATION Spec
CONSTANTS
    a = a
    b = b
    bad = bad
    NoText = NoText
    Texts = {a, b, bad}
    Defs <- AllDefs
    MaxRows = 2
PROPERTIES
    InvalidKeepsEditor
