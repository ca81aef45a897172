SPECIFICATION ProgramSpec
CONSTANTS
    Series <- MCSeries
    Compared = "temperature"
    Values <- MCValues
    Data <- MCData
    Windows = {"first", "second"}
    Themes = {"light", "dark"}
    Depth = 2
    WindowSizes <- MCWindowSizes
    Dpi <- MCDpi
    InfoRows = {0}
    WorkbenchModes = {"light", "dark"}
    Zooms = {60, 200}
    Artefacts = {0, 1}
    PointedTools = {3, 4}
    Lengths = {14, 5000}
    StartThemes = {"light", "high"}
    Longest = 4
    MostActs = 1
    MostControls = 2
    Chosen = {1, 6}
    PointedAt = {2, 20}
    Payloads = {"guest"}
    Ratios <- MCRatios
    Thicknesses <- MCThicknesses
    Originals <- MCOriginals
    ThumbRanges <- MCThumbRanges
    ThumbPositions <- MCThumbPositions
    RailRanges <- MCRailRanges
    RailPositions <- MCRailPositions
    Radii = {10}
    Ticks <- MCTicks
    ChartData <- MCChartData
    Axes <- MCAxes
    Tensions = {50, 100}
    Tolerance = 8
    MenuPalettes = {"light", "dark"}
    Captions <- MCCaptions
    MostItems = 2
    Popups = {"popup"}
INVARIANTS
    SeriesAgree
    PaletteFollowsBroker
    CopiesAgree
    CaughtUp
    TargetsAreHit
    HoverEnds
    LaidOut
    CleanIsStored
    ThemesAgree
    LineIsRead
    ItemsArePainted
    BrushesLive
    PressIsHeld
    StatusIsTrue
    DialogIsRouted
PROPERTIES
    ChangesAreRepainted
    WindowsRepainted
