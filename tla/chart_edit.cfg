SPECIFICATION Spec
CONSTANTS
    s1 = s1
    s2 = s2
    Absent = Absent
    NoPoint = NoPoint
    Series = {s1}
    Points <- TwoPoints
    Values = {v0, v1}
    ZeroValue = v0
    Ranges = {r0}
    NullRange = r0
    UnitRange = r0
    InputLists <- FullLists
    OptionSets <- EditOptions
    DefaultTicks = 0
    DefaultDepth = 2
INVARIANTS
    UndoBounded
    HostMirrorsData
    HistoryChains
PROPERTIES
    ImplementsEditHistory
