------------------------------ MODULE Programs -----------------------------
(***************************************************************************)
(* One program runs: the dashboard; any program at all that uses the theme *)
(* broker; or a sample whose window is win.  What belongs to the others is *)
(* at rest.                                                                *)
(***************************************************************************)
EXTENDS Dashboard, ThemeBroker, Sequences

CONSTANTS
    WindowSizes, Dpi,    \* sizes of the client area and resolutions, by program
    InfoRows,                           \* of DashboardPanels
    WorkbenchModes, Zooms, Artefacts, PointedTools,   \* of Workbench
    Lengths, StartThemes,               \* of Settings
    Longest,                            \* of CodeTokens
    MostActs, MostControls,             \* of NavTiles, of Playground
    Chosen, PointedAt,                  \* of ResourceGallery
    Payloads,                           \* of DialogTour
    Ratios, Thicknesses, Originals,     \* of Layout
    ThumbRanges, ThumbPositions,        \* of ScrollThumb
    RailRanges, RailPositions, Radii,   \* of SliderRail
    Ticks, ChartData, Axes, Tensions, Tolerance,   \* of ChartPainting
    MenuPalettes, Captions, MostItems, Popups      \* of Menu

VARIABLES program, win

Panels == INSTANCE DashboardPanels WITH
    ClientSizes <- WindowSizes.panels, Rows <- InfoRows

Workbench == INSTANCE Workbench WITH
    Sizes <- WindowSizes.workbench, Scales <- Dpi.workbench, Modes <- WorkbenchModes

Settings == INSTANCE Settings WITH
    Starts <- StartThemes

Form == INSTANCE SettingsForm WITH
    Sizes <- WindowSizes.form, Scales <- Dpi.form

Studio == INSTANCE DarkStudio WITH
    Sizes <- WindowSizes.studio, Scales <- Dpi.studio

Code == INSTANCE CodeTokens

Theme == INSTANCE ThemeDemo WITH
    Sizes <- WindowSizes.theme, Scales <- Dpi.theme

Gallery == INSTANCE ComponentGallery WITH
    Sizes <- WindowSizes.gallery, Scales <- Dpi.gallery

Tile == INSTANCE NavTiles

Play == INSTANCE Playground WITH
    Sizes <- WindowSizes.play, Scales <- Dpi.play

Resources == INSTANCE ResourceGallery WITH
    Sizes <- WindowSizes.resources, Scales <- Dpi.resources

Tour == INSTANCE DialogTour WITH
    Sizes <- WindowSizes.tour, Scales <- Dpi.tour

Layouts == INSTANCE Layout WITH
    Sizes <- WindowSizes.layout

Thumb == INSTANCE ScrollThumb WITH
    Sizes <- WindowSizes.thumb, Scales <- Dpi.thumb,
    Ranges <- ThumbRanges, Positions <- ThumbPositions

Rail == INSTANCE SliderRail WITH
    Sizes <- WindowSizes.rail, Scales <- Dpi.rail,
    Ranges <- RailRanges, Positions <- RailPositions

Chart == INSTANCE ChartPainting WITH
    Sizes <- WindowSizes.chart, Data <- ChartData

Menus == INSTANCE Menu WITH
    Palettes <- MenuPalettes

\* A text has a length; commands are not separators and have captions.
ASSUME ProgramAssumption ==
    /\ Lengths \subseteq Nat
    /\ Menus!Separator \notin Menus!Commands
    /\ \A c \in Captions : c[2] # Menus!None

\* The windows have the least resolution of Win32 or a higher one, and an area
\* (one that only lays out what has a size of its own may be empty); a host
\* gives ranges that are not upside down, and children that have an extent.  A
\* chart has integer points and axes.
ASSUME SizesAssumption ==
    /\ \A size \in WindowSizes.form \cup WindowSizes.thumb \cup WindowSizes.rail :
           size.w \in Nat \ {0} /\ size.h \in Nat \ {0}
    /\ WindowSizes.layout \cup WindowSizes.panels \cup WindowSizes.workbench \cup WindowSizes.studio
           \cup WindowSizes.theme \cup WindowSizes.gallery \cup WindowSizes.play
           \cup WindowSizes.resources \cup WindowSizes.tour \subseteq [w : Nat, h : Nat]
    /\ \A dpi \in Dpi.form \cup Dpi.thumb \cup Dpi.rail \cup Dpi.workbench \cup Dpi.studio \cup Dpi.theme
                    \cup Dpi.gallery \cup Dpi.play \cup Dpi.resources \cup Dpi.tour :
           dpi \in Nat /\ dpi >= 96
    /\ \A r \in ThumbRanges \cup RailRanges : r[1] \in Int /\ r[2] \in Int /\ r[1] <= r[2]
    /\ ThumbPositions \cup RailPositions \subseteq Int
    /\ Radii \subseteq Nat \ {0}
    /\ InfoRows \subseteq Nat /\ Chosen \subseteq Resources!Groups
    /\ Ratios \subseteq Int /\ Thicknesses \subseteq Int
    /\ Originals \subseteq [x : Int, y : Int, width : Nat, height : Nat]
    /\ WindowSizes.chart \cup Ticks \subseteq [w : Nat, h : Nat]
    /\ ChartData \subseteq Seq(Seq([x : Int, y : Int])) /\ Axes \subseteq (Int \X Int) \X (Int \X Int)
    /\ Tolerance \in Nat

DashboardAtRest == board = CreateMain(Seeded("dark"))
BrokerAtRest == BrokerInit /\ current = CHOOSE mode \in Themes : TRUE

ProgramInit ==
    \/ program = "dashboard" /\ Init /\ BrokerAtRest /\ win = "unused"
    \/ program = "any" /\ BrokerInit /\ DashboardAtRest /\ win = "unused"
    \/ /\ DashboardAtRest /\ BrokerAtRest
       /\ \/ program = "panels" /\ Panels!Init
          \/ program = "workbench" /\ Workbench!Init
          \/ program = "settings" /\ Settings!Init
          \/ program = "settings form" /\ Form!Init
          \/ program = "dark studio" /\ Studio!Init
          \/ program = "code" /\ Code!Init
          \/ program = "theme demo" /\ Theme!Init
          \/ program = "component gallery" /\ Gallery!Init
          \/ program = "tiles" /\ Tile!Init
          \/ program = "playground" /\ Play!Init
          \/ program = "resource gallery" /\ Resources!Init
          \/ program = "dialog tour" /\ Tour!Init
          \/ program = "layout" /\ Layouts!Init
          \/ program = "scroll bar" /\ Thumb!Init
          \/ program = "slider" /\ Rail!Init
          \/ program = "chart" /\ Chart!Init
          \/ program = "menu" /\ Menus!Init

ProgramNext ==
    /\ UNCHANGED program
    /\ \/ program = "dashboard" /\ Next /\ UNCHANGED <<brokerVars, win>>
       \/ program = "any" /\ BrokerNext /\ UNCHANGED <<board, win>>
       \/ /\ UNCHANGED <<board, brokerVars>>
          /\ \/ program = "panels" /\ Panels!Next
             \/ program = "workbench" /\ Workbench!Next
             \/ program = "settings" /\ Settings!Next
             \/ program = "settings form" /\ Form!Next
             \/ program = "dark studio" /\ Studio!Next
             \/ program = "code" /\ Code!Next
             \/ program = "theme demo" /\ Theme!Next
             \/ program = "component gallery" /\ Gallery!Next
             \/ program = "tiles" /\ Tile!Next
             \/ program = "playground" /\ Play!Next
             \/ program = "resource gallery" /\ Resources!Next
             \/ program = "dialog tour" /\ Tour!Next
             \/ program = "layout" /\ Layouts!Next
             \/ program = "scroll bar" /\ Thumb!Next
             \/ program = "slider" /\ Rail!Next
             \/ program = "chart" /\ Chart!Next
             \/ program = "menu" /\ Menus!Next

ProgramSpec == ProgramInit /\ [][ProgramNext]_<<program, board, brokerVars, win>>

\* What is painted as something to press is found by the hit test of its program
\* at its middle, and answers there.  Not so, and left out: the boxes of the info
\* panel, painted 21 pixels below their targets, the thumb of a horizontal scroll
\* bar, the rows of the gallery in a list without room for them, the segments of a
\* theme of less than five pixels, the markers of a chart whose labels are longer
\* than the mouse assumes, and those farther aside than its tolerance, as in the
\* corner of the plot.
TargetsAreHit ==
    /\ program = "panels" => Panels!ButtonsAreHit
    /\ program = "workbench" => Workbench!ToolsAreHit
    /\ program = "settings form" => Form!SegmentsAreHit
    /\ program = "dark studio" => Studio!TargetsAreHit
    /\ program = "resource gallery" => Resources!TargetsAreHit
    /\ program = "dialog tour" => Tour!TargetsAreHit
    /\ program = "scroll bar" => Thumb!ThumbIsHit
    /\ program = "chart" => Chart!TargetsAreHit

\* What looks pointed at is still to be told that the pointer left, or the system
\* refused to: then three programs ask again at the next movement, and two never
\* do.  Left out are the ring of the info panel and the hover of a scroll bar,
\* whose windows never ask, so that they do not end when the pointer leaves.
HoverEnds ==
    /\ program = "panels" => Panels!HoverEnds
    /\ program = "workbench" => Workbench!HoverEnds
    /\ program = "settings form" => Form!HoverEnds
    /\ program = "tiles" => Tile!HoverEnds
    /\ program = "resource gallery" => Resources!HoverEnds
    /\ program = "dialog tour" => Tour!HoverEnds

\* Nothing covers anything else in a window large enough, at every scale.
LaidOut ==
    /\ program = "panels" => Panels!LaidOut
    /\ program = "workbench" => Workbench!LaidOut
    /\ program = "settings form" => Form!LaidOut
    /\ program = "dark studio" => Studio!LaidOut
    /\ program = "theme demo" => Theme!LaidOut
    /\ program = "component gallery" => Gallery!LaidOut
    /\ program = "playground" => Play!LaidOut
    /\ program = "resource gallery" => Resources!LaidOut
    /\ program = "dialog tour" => Tour!LaidOut
    /\ program = "layout" => Layouts!LaidOut
    /\ program = "scroll bar" => Thumb!LaidOut
    /\ program = "slider" => Rail!LaidOut
    /\ program = "chart" => Chart!LaidOut

\* Settings that are shown as saved are what a restart would read, after a write
\* that did not fail and but for the theme, which is stored and not restored.
CleanIsStored ==
    program = "settings" => Settings!CleanIsStored

\* The broker, the window, its colours and its controls are in one theme; of menus,
\* the bar and what opens from it.  Left out are the colours of the dark studio once
\* its pill was pressed (PaintedAsLabelled) and the popups of a builder that got no
\* brush.
ThemesAgree ==
    /\ program = "settings" => Settings!ThemesAgree
    /\ program = "dark studio" => Studio!ThemesAgree
    /\ program = "theme demo" => Theme!ThemesAgree
    /\ program = "component gallery" => Gallery!ThemesAgree
    /\ program = "playground" => Play!ThemesAgree
    /\ program = "resource gallery" => Resources!ThemesAgree
    /\ program = "dialog tour" => Tour!ThemesAgree
    /\ program = "menu" => Menus!ThemesAgree

\* The window is painted in the theme that it names.
PaintedAsLabelled ==
    program = "dark studio" => Studio!PaintedAsLabelled

\* The tokens of a line of code cover it, in order and once.
LineIsRead ==
    program = "code" => Code!LineIsRead

\* A tile is pressed only while it has the focus.
PressIsHeld ==
    program = "tiles" => Tile!PressIsHeld

\* The status bar says what is so.
StatusIsTrue ==
    /\ program = "tiles" => Tile!StatusIsTrue
    /\ program = "playground" => Play!StatusIsTrue
    /\ program = "dialog tour" => Tour!StatusIsTrue

\* The keys of the loop go to the modeless dialog exactly while it lives.
DialogIsRouted ==
    program = "dialog tour" => Tour!DialogIsRouted

\* The host of a menu finds the caption of what it is asked to draw.
ItemsArePainted ==
    program = "menu" => Menus!ItemsArePainted

\* No menu is painted with a brush that is gone.
BrushesLive ==
    program = "menu" => Menus!BrushesLive

\* What changes on a surface is repainted by the handler that changes it.
ProgramRepaints ==
    /\ program = "panels" => Panels!Repainted
    /\ program = "workbench" => Workbench!Repainted
    /\ program = "settings" => Settings!Repainted
    /\ program = "settings form" => Form!Repainted
    /\ program = "dark studio" => Studio!Repainted
    /\ program = "theme demo" => Theme!Repainted
    /\ program = "component gallery" => Gallery!Repainted
    /\ program = "tiles" => Tile!Repainted
    /\ program = "playground" => Play!Repainted
    /\ program = "resource gallery" => Resources!Repainted
    /\ program = "dialog tour" => Tour!Repainted
    /\ program = "scroll bar" => Thumb!Repainted
    /\ program = "slider" => Rail!Repainted

\* The same of every step.
WindowsRepainted == [][ProgramRepaints]_win
=============================================================================
