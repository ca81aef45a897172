SPECIFICATION FairSpec
CONSTANTS
    s1 = s1
    s2 = s2
    Absent = Absent
    NoPoint = NoPoint
    Series = {s1}
    Points <- OnePoint
    Values = {v0}
    ZeroValue = v0
    Ranges = {r0, r1}
    NullRange = r0
    UnitRange = r1
    InputLists <- FullLists
    OptionSets <- ViewOptions
    DefaultTicks = 2
    DefaultDepth = 0
INVARIANTS
    ViewConsistent
PROPERTIES
    ImplementsViewport
    AnimationEnds
    TooltipAppears
