SPECIFICATION Spec
CONSTANTS
    c1 = c1
    c2 = c2
    c3 = c3
    g1 = g1
    g2 = g2
    Ranges = {r0, r1}
    NullRange = r0
    UnitRange = r1
    SmoothByDefault = TRUE
    Charts = {c1, c2}
    Groups = {g1}
    Positions = {}
    Nobody = Nobody
    NoCursor = NoCursor
    HostRanges = {}
    SmoothInputs = {TRUE, FALSE}
PROPERTIES
    PansPropagate
