SPECIFICATION Spec
CONSTANTS
    s1 = s1
    s2 = s2
    Absent = Absent
    NoPoint = NoPoint
    Series = {s1, s2}
    Points <- TwoSeries
    Values = {v0}
    ZeroValue = v0
    Ranges = {r0}
    NullRange = r0
    UnitRange = r0
    InputLists <- AllLists
    OptionSets <- GestureOptions
    DefaultTicks = 0
    DefaultDepth = 1
PROPERTIES
    RangeCardOutlivesRelease
