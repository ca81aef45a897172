SPECIFICATION Spec
CONSTANTS
    c1 = c1
    c2 = c2
    c3 = c3
    g1 = g1
    g2 = g2
    Ranges = {r0}
    NullRange = r0
    UnitRange = r0
    SmoothByDefault = FALSE
    Charts = {c1, c2}
    Groups = {g1, g2}
    Positions = {x0}
    Nobody = Nobody
    NoCursor = NoCursor
    HostRanges = {r0}
    SmoothInputs = {FALSE}
INVARIANTS
    MembersConsistent
SYMMETRY MemberSymmetry
