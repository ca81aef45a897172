----------------------------- MODULE Dashboard -----------------------------
(***************************************************************************)
(* The interactive chart dashboard: the main window with its theme pill,   *)
(* two charts, the value tiles, the info panel and the settings dialog     *)
(* (samples/NativeFrameUIChartsInteractive).                               *)
(*                                                                         *)
(* The dashboard keeps every theme and every series several times: the     *)
(* mode of the application, the palette resolved from it, the palette the  *)
(* info panel copied, the colours given to each series; the host's points, *)
(* the chart's own copy, and what tiles, comparison and overview were last *)
(* given.  The model has each of these copies, so that a handler that      *)
(* forgets one of them shows.                                              *)
(*                                                                         *)
(* A palette and a colour are named by the mode they were resolved for,    *)
(* the points of a series by one value.                                    *)
(***************************************************************************)
EXTENDS Integers

None == "nothing"

CONSTANTS Series,     \* the data series; Compared is drawn in both charts
          Compared,
          Values,     \* what the points of a series may be
          Data        \* the demo data

ASSUME DataAssumption == Compared \in Series /\ Data \in [Series -> Values]
                         /\ None \notin Series

Modes == {"light", "dark", "high_contrast"}
NoPalette == "none"   \* ThemePalette{}: all colours are 0

Surfaces == {"main", "primary", "comparison", "tiles", "info", "dialog"}
Shell == Surfaces \ {"dialog"}

VARIABLE board          \* the main window, the objects it owns and the broker

(***************************************************************************)
(* State.  asked is the set of windows the last handler asked to repaint.  *)
(* Histories: cut, the series whose point was dragged and left there when  *)
(* the capture was taken away, so that the host was never told; parted,    *)
(* the settings dialog gave the application a mode since the palette was   *)
(* last resolved.                                                          *)
(***************************************************************************)
Coloured == {"primary", "comparison", "tiles", "overview"}

Boards ==
    [broker : Modes, app : Modes, chartMode : {"light", "dark"},
     palette : Modes, infoPalette : Modes,
     settings : [{"primary", "comparison"} -> {"light", "dark"}],
     colours : [Coloured -> Modes],
     host : [Series -> Values], chart : [Series -> Values],
     overview : [Series -> Values], tiles : [Series -> Values],
     compared : Values,
     checked : [Series -> BOOLEAN], visible : [Series -> BOOLEAN],
     drag : Series \cup {None}, cut : SUBSET Series, parted : BOOLEAN,
     dialog : [open : BOOLEAN, theme : {"light", "dark"},
               palette : {"light", "dark"}],
     asked : SUBSET Surfaces]

TypeOK == board \in Boards

Closed == [open |-> FALSE, theme |-> "light", palette |-> "light"]

Quiet(w) == [w EXCEPT !.asked = {}]

Asking(w, surfaces) == [w EXCEPT !.asked = @ \cup surfaces]

-----------------------------------------------------------------------------
(* Themes.                                                                 *)

\* Charts know two themes: high contrast is drawn as dark.
ChartMode(mode) == IF mode = "light" THEN "light" ELSE "dark"

\* Light and dark mean the same to both; a chart knows no other.
AppMode(chartMode) == chartMode

\* The early return of apply_theme tests for a resolved palette by its
\* background, which is black in the high-contrast palette too.
IsBlack(palette) == palette \in {NoPalette, "high_contrast"}

Cycled(mode) ==
    IF mode = "light" THEN "dark"
    ELSE IF mode = "dark" THEN "high_contrast" ELSE "light"

\* apply_series_colors: every series is made again from the host's points.
ApplySeriesColours(w) ==
    Asking([w EXCEPT !.colours = [c \in Coloured |-> w.app],
                     !.chart = w.host,
                     !.cut = {},
                     !.compared = w.host[Compared],
                     !.tiles = w.host,
                     !.overview = w.host],
           {"tiles", "info"})

\* apply_settings on both charts, for the theme among the settings.
WithChartTheme(w, theme) ==
    Asking([w EXCEPT !.settings = [c \in {"primary", "comparison"} |-> theme]],
           {"primary", "comparison"})

ApplyTheme(w, mode) ==
    IF w.app = mode /\ ~IsBlack(w.palette)
    THEN w
    ELSE LET themed == [w EXCEPT !.app = mode,
                                 !.chartMode = ChartMode(mode),
                                 !.palette = mode,
                                 !.parted = FALSE]
             drawn  == ApplySeriesColours(
                           WithChartTheme(themed, ChartMode(mode)))
         IN Asking([drawn EXCEPT !.infoPalette = mode],
                   {"main", "tiles", "info"})

\* ThemeBroker::set_theme: the window gets WM_THEMECHANGED and, after it, its
\* registered handler is called; both apply the theme.
BrokerSet(w, mode) ==
    IF mode = w.broker
    THEN w
    ELSE LET messaged == ApplyTheme([w EXCEPT !.broker = mode], mode)
         IN ApplyTheme(messaged, mode)

-----------------------------------------------------------------------------
(* Creation: the theme of the command line, then palette, charts, tiles    *)
(* and panel, in this order.                                               *)

Seeded(mode) ==
    [broker |-> mode, app |-> mode, chartMode |-> ChartMode(mode),
     palette |-> NoPalette, infoPalette |-> NoPalette,
     settings |-> [c \in {"primary", "comparison"} |-> ChartMode(mode)],
     colours |-> [c \in Coloured |-> mode],
     host |-> Data, chart |-> Data, overview |-> Data, tiles |-> Data,
     compared |-> Data[Compared],
     checked |-> [s \in Series |-> TRUE], visible |-> [s \in Series |-> TRUE],
     drag |-> None, cut |-> {}, parted |-> FALSE, dialog |-> Closed, asked |-> {}]

CreateCharts(w) ==
    [WithChartTheme(w, w.chartMode) EXCEPT
        !.colours = [c \in Coloured |-> w.app],
        !.chart = w.host, !.compared = w.host[Compared], !.overview = w.host]

CreateTiles(w) ==
    Asking([w EXCEPT !.tiles = w.host, !.colours["tiles"] = w.app], {"tiles"})

CreateInfoPanel(w) == Asking([w EXCEPT !.infoPalette = w.palette], {"info"})

CreateMain(w) ==
    Asking(CreateInfoPanel(CreateTiles(CreateCharts(ApplyTheme(w, w.app)))), Shell)

Init == \E mode \in Modes : board = CreateMain(Seeded(mode))

-----------------------------------------------------------------------------
(* The user and the system.                                                *)

\* The pill in the title strip.
ThemePill == board' = BrokerSet(Quiet(board), Cycled(board.app))

\* WM_THEMECHANGED from the system.
SystemThemeChanged == board' = ApplyTheme(Quiet(board), board.broker)

\* A check box of the info panel: the panel flips its own mark and sends the
\* command, in which the main window shows or hides the series.
ToggleSeries(s) ==
    LET w == [Quiet(board) EXCEPT !.checked[s] = ~@]
    IN board' = Asking([w EXCEPT !.visible[s] = w.checked[s]], {"info", "primary"})

\* A point of the primary chart is dragged: the chart moves its own copy.
DragStart(s) ==
    /\ board.drag = None
    /\ board.visible[s]
    /\ board' = Asking([Quiet(board) EXCEPT !.drag = s], {"primary"})

DragMove(v) ==
    /\ board.drag # None
    /\ board' = Asking([Quiet(board) EXCEPT !.chart[board.drag] = v], {"primary"})

\* on_point_edited: write the edit back, refresh the status and the overview.
\* Slip: only the first series is written back.
OnPointEdited_first(w, s, v) ==
    LET known == [w.host EXCEPT ![s] = IF s = Compared THEN v ELSE @]
    IN Asking([w EXCEPT !.host = known, !.overview = known,
                        !.colours["overview"] = w.app], {"main", "info"})

OnPointEdited(w, s, v) ==
    LET known == [w.host EXCEPT ![s] = v]
    IN Asking([w EXCEPT !.host = known,
                        !.overview = known,
                        !.colours["overview"] = w.app],
              {"main", "info"})

DragEnd ==
    /\ board.drag # None
    /\ LET s == board.drag
           w == Asking([Quiet(board) EXCEPT !.drag = None, !.cut = @ \ {s}],
                       {"primary"})
       IN board' = OnPointEdited(w, s, w.chart[s])

\* The capture is taken away: the point stays where it is and nobody is told.
DragCut ==
    /\ board.drag # None
    /\ board' = Asking([Quiet(board) EXCEPT !.drag = None, !.cut = @ \cup {board.drag}],
                     {"primary"})

\* Undo and redo write an earlier or later value of a point and report it.
Recall(s, v) ==
    LET w == [Quiet(board) EXCEPT !.chart[s] = v, !.cut = @ \ {s}]
    IN board' = OnPointEdited(Asking(w, {"primary"}), s, v)

-----------------------------------------------------------------------------
(* The settings dialog.                                                    *)

\* The gear: a dialog that is open is replaced by a new one.
OpenDialog ==
    board' = Asking([Quiet(board) EXCEPT
                      !.dialog = [open |-> TRUE,
                                  theme |-> board.settings["primary"],
                                  palette |-> board.chartMode]], {"dialog"})

\* Slip: the dialog is not painted again.
PickTheme_unpainted(t) ==
    /\ board.dialog.open
    /\ board' = [Quiet(board) EXCEPT !.dialog.theme = t, !.dialog.palette = t]

PickTheme(t) ==
    /\ board.dialog.open
    /\ board' = Asking([Quiet(board) EXCEPT !.dialog.theme = t, !.dialog.palette = t],
                     {"dialog"})

CancelDialog ==
    /\ board.dialog.open
    /\ board' = [Quiet(board) EXCEPT !.dialog = Closed]

\* The callback of the dialog.  It sets the mode before it calls apply_theme,
\* so that apply_theme finds nothing to do unless the palette is black.
\* Slip: the callback relies on apply_theme for the series.
OnApply_uncoloured(w, theme) ==
    LET set == WithChartTheme([w EXCEPT !.chartMode = theme, !.app = theme], theme)
        themed == ApplyTheme(set, set.app)
    IN Asking([themed EXCEPT !.infoPalette = themed.palette], Shell)

\* Slip: the callback resolves the palette itself.
OnApply_past(w, theme) ==
    LET set == WithChartTheme(
                   [w EXCEPT !.chartMode = theme, !.app = theme, !.palette = theme],
                   theme)
    IN Asking([ApplySeriesColours(set) EXCEPT !.infoPalette = theme], Shell)

OnApply(w, theme) ==
    LET set == WithChartTheme(
                   [w EXCEPT !.chartMode = theme, !.app = AppMode(theme)], theme)
        coloured == ApplySeriesColours(ApplyTheme(set, set.app))
    IN Asking([coloured EXCEPT !.infoPalette = coloured.palette], Shell)

ApplyDialog ==
    /\ board.dialog.open
    /\ LET w == [Quiet(board) EXCEPT !.parted = TRUE]
       IN board' = [OnApply(w, board.dialog.theme) EXCEPT !.dialog = Closed]

-----------------------------------------------------------------------------
Next ==
    \/ ThemePill
    \/ SystemThemeChanged
    \/ \E s \in Series : ToggleSeries(s)
    \/ \E s \in Series : DragStart(s)
    \/ \E v \in Values : DragMove(v)
    \/ DragEnd
    \/ DragCut
    \/ \E s \in Series, v \in Values : Recall(s, v)
    \/ OpenDialog
    \/ \E t \in {"light", "dark"} : PickTheme(t)
    \/ CancelDialog
    \/ ApplyDialog

Spec == Init /\ [][Next]_board

-----------------------------------------------------------------------------
(* Properties.                                                             *)

\* The host's points are the chart's points, whatever the order of edits,
\* undo, theme changes and settings, but for the point under the mouse and for
\* a point whose drag was cut off; and the overview is of the host's points.
HostHasEdits ==
    /\ \A s \in Series :
           s # board.drag /\ s \notin board.cut => board.host[s] = board.chart[s]
    /\ board.overview = board.host

\* The boxes of the info panel say which series are shown, although a theme
\* change replaces all series of the chart.
CheckedIsVisible == board.checked = board.visible

\* The copies of the series agree: those of the host, of the chart, of the
\* overview and of the panel.
SeriesAgree == HostHasEdits /\ CheckedIsVisible

\* The palette on the screen is that of the broker.  Only while the broker is
\* at high contrast may the settings dialog have brought in another one, because
\* a black palette does not pass for a resolved one.
PaletteFollowsBroker ==
    board.broker # "high_contrast" => board.palette = board.broker

\* The copies of the theme agree: the panel's palette with the window's; the
\* colours of all series, the chart mode and both charts' settings with the mode
\* of the application; and the palette with that mode, but after Apply in the
\* settings dialog (parted).  That changes the mode before it asks for the theme to
\* be applied, which then returns at once: the series are coloured anew, "so KPI
\* tiles and chart glyphs stay coherent with the shell", and the shell is not.
CopiesAgree ==
    /\ board.infoPalette = board.palette
    /\ ~board.parted => board.palette = board.app
    /\ \A c \in Coloured : board.colours[c] = board.app
    /\ board.chartMode = ChartMode(board.app)
    /\ \A c \in DOMAIN board.settings : board.settings[c] = board.chartMode

\* What each window shows.
Face(w) ==
    [main       |-> <<w.palette, w.app>>,
     primary    |-> <<w.palette, w.colours["primary"], w.chart, w.visible>>,
     comparison |-> <<w.palette, w.colours["comparison"], w.compared>>,
     tiles      |-> <<w.palette, w.colours["tiles"], w.tiles>>,
     info       |-> <<w.infoPalette, w.colours["overview"], w.overview, w.checked>>,
     dialog     |-> <<w.dialog>>]

\* No handler changes what a window shows without asking to repaint it: a
\* window whose palette, colours or data changed unasked shows the old ones
\* until something else uncovers it.  A dialog that is closed shows nothing.
ChangesAreRepainted ==
    [][LET before == Face(board)
           after == Face(board')
       IN \A surface \in Surfaces \ board'.asked :
              before[surface] # after[surface]
                  => surface = "dialog" /\ ~board'.dialog.open]_board

=============================================================================
