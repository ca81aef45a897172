-------------------------- MODULE DashboardProofs --------------------------
(***************************************************************************)
(* Proofs about the dashboard.  Each lemma says what one function of the   *)
(* main window makes of its copies of the theme and of the data; the       *)
(* invariance proof then only combines them.                               *)
(***************************************************************************)
EXTENDS Dashboard, TLAPS

\* What a handler may assume and must restore.  A theme is settled once the
\* palette is resolved and the copies agree.
Settled(w) ==
    /\ w.palette \in Modes
    /\ w.infoPalette = w.palette
    /\ w.broker # "high_contrast" => w.palette = w.broker
    /\ ~w.parted => w.palette = w.app
    /\ \A c \in Coloured : w.colours[c] = w.app
    /\ w.chartMode = ChartMode(w.app)
    /\ \A c \in {"primary", "comparison"} : w.settings[c] = w.chartMode

Known(w) ==
    /\ \A s \in Series : s # w.drag /\ s \notin w.cut => w.host[s] = w.chart[s]
    /\ w.overview = w.host
    /\ w.checked = w.visible

\* The window while its palette need not be resolved.
Unpainted == [broker : Modes, app : Modes, chartMode : {"light", "dark"},
     palette : Modes \cup {NoPalette}, infoPalette : Modes \cup {NoPalette},
     settings : [{"primary", "comparison"} -> {"light", "dark"}],
     colours : [Coloured -> Modes],
     host : [Series -> Values], chart : [Series -> Values],
     overview : [Series -> Values], tiles : [Series -> Values],
     compared : Values,
     checked : [Series -> BOOLEAN], visible : [Series -> BOOLEAN],
     drag : Series \cup {None}, cut : SUBSET Series, parted : BOOLEAN,
     dialog : [open : BOOLEAN, theme : {"light", "dark"},
               palette : {"light", "dark"}],
     asked : SUBSET Surfaces]

\* A window with its palettes resolved is a window.
LEMMA Resolved ==
    ASSUME NEW w \in Unpainted, w.palette \in Modes, w.infoPalette \in Modes
    PROVE  w \in Boards
  BY DEF Unpainted, Boards

\* Every window is one whose palette need not be resolved.
LEMMA Painted == Boards \subseteq Unpainted
  BY DEF Unpainted, Boards

\* Making the series again: all colours are the application's, the chart has
\* the host's points, nothing else but the requests to repaint changes.
LEMMA SeriesColoured ==
    ASSUME NEW w \in Unpainted
    PROVE  LET n == ApplySeriesColours(w)
           IN /\ n \in Unpainted
              /\ \A c \in Coloured : n.colours[c] = w.app
              /\ n.app = w.app /\ n.broker = w.broker /\ n.chartMode = w.chartMode
              /\ n.palette = w.palette /\ n.infoPalette = w.infoPalette
              /\ n.settings = w.settings
              /\ n.host = w.host /\ n.chart = w.host /\ n.overview = w.host
              /\ n.drag = w.drag /\ n.parted = w.parted
              /\ n.checked = w.checked /\ n.visible = w.visible
  BY DataAssumption DEF ApplySeriesColours, Asking, Unpainted, Coloured, Surfaces

\* Giving the charts a theme changes their settings only.
LEMMA ChartThemed ==
    ASSUME NEW w \in Unpainted, NEW theme \in {"light", "dark"}
    PROVE  LET n == WithChartTheme(w, theme)
           IN /\ n \in Unpainted
              /\ \A c \in {"primary", "comparison"} : n.settings[c] = theme
              /\ n.app = w.app /\ n.broker = w.broker /\ n.chartMode = w.chartMode
              /\ n.palette = w.palette /\ n.infoPalette = w.infoPalette
              /\ n.colours = w.colours
              /\ n.host = w.host /\ n.chart = w.chart /\ n.overview = w.overview
              /\ n.drag = w.drag /\ n.cut = w.cut /\ n.parted = w.parted
              /\ n.checked = w.checked /\ n.visible = w.visible
  BY DEF WithChartTheme, Asking, Unpainted, Surfaces

\* apply_theme either finds nothing to do or settles everything on its mode.
LEMMA ThemeApplied ==
    ASSUME NEW w \in Unpainted, NEW mode \in Modes
    PROVE  LET n == ApplyTheme(w, mode)
           IN /\ n \in Unpainted
              /\ n.broker = w.broker /\ n.host = w.host
              /\ n.drag = w.drag
              /\ n.checked = w.checked /\ n.visible = w.visible
              /\ w.app = mode /\ ~IsBlack(w.palette) => n = w
              /\ ~(w.app = mode /\ ~IsBlack(w.palette)) =>
                    /\ n.app = mode /\ n.palette = mode /\ n.infoPalette = mode
                    /\ n.chartMode = ChartMode(mode)
                    /\ \A c \in Coloured : n.colours[c] = mode
                    /\ \A c \in {"primary", "comparison"} : n.settings[c] = ChartMode(mode)
                    /\ n.chart = w.host /\ n.overview = w.host
  <1> DEFINE themed == [w EXCEPT !.app = mode, !.chartMode = ChartMode(mode),
                                 !.palette = mode, !.parted = FALSE]
             charted == WithChartTheme(themed, ChartMode(mode))
             drawn == ApplySeriesColours(charted)
             done == Asking([drawn EXCEPT !.infoPalette = mode],
                            {"main", "tiles", "info"})
  <1>0. ChartMode(mode) \in {"light", "dark"}
    BY DEF ChartMode
  <1>1. /\ themed \in Unpainted
        /\ themed.app = mode /\ themed.palette = mode
        /\ themed.chartMode = ChartMode(mode)
        /\ themed.broker = w.broker /\ themed.host = w.host
        /\ themed.drag = w.drag
        /\ themed.checked = w.checked /\ themed.visible = w.visible
    BY <1>0 DEF Unpainted
  <1> HIDE DEF themed
  <1>2. /\ charted \in Unpainted
        /\ \A c \in {"primary", "comparison"} : charted.settings[c] = ChartMode(mode)
        /\ charted.app = mode /\ charted.palette = mode
        /\ charted.chartMode = ChartMode(mode)
        /\ charted.broker = w.broker /\ charted.host = w.host
        /\ charted.drag = w.drag
        /\ charted.checked = w.checked /\ charted.visible = w.visible
    BY <1>0, <1>1, ChartThemed
  <1> HIDE DEF charted
  <1>3. /\ drawn \in Unpainted
        /\ \A c \in {"primary", "comparison"} : drawn.settings[c] = ChartMode(mode)
        /\ \A c \in Coloured : drawn.colours[c] = mode
        /\ drawn.app = mode /\ drawn.palette = mode
        /\ drawn.chartMode = ChartMode(mode)
        /\ drawn.broker = w.broker /\ drawn.host = w.host
        /\ drawn.chart = w.host /\ drawn.overview = w.host
        /\ drawn.drag = w.drag
        /\ drawn.checked = w.checked /\ drawn.visible = w.visible
    BY <1>2, SeriesColoured
  <1> HIDE DEF drawn
  <1>4. /\ done \in Unpainted
        /\ \A c \in {"primary", "comparison"} : done.settings[c] = ChartMode(mode)
        /\ \A c \in Coloured : done.colours[c] = mode
        /\ done.app = mode /\ done.palette = mode /\ done.infoPalette = mode
        /\ done.chartMode = ChartMode(mode)
        /\ done.broker = w.broker /\ done.host = w.host
        /\ done.chart = w.host /\ done.overview = w.host
        /\ done.drag = w.drag
        /\ done.checked = w.checked /\ done.visible = w.visible
    BY <1>3 DEF Asking, Unpainted, Surfaces
  <1>5. ApplyTheme(w, mode) = IF w.app = mode /\ ~IsBlack(w.palette) THEN w ELSE done
    BY DEF ApplyTheme, done, drawn, charted, themed
  <1> HIDE DEF done
  <1> QED
    BY <1>4, <1>5

\* Telling the broker another mode settles the window on it.
LEMMA ThemeBroadcast ==
    ASSUME NEW w \in Boards, Settled(w), Known(w),
           NEW mode \in Modes, mode # w.app
    PROVE  LET n == BrokerSet(w, mode)
           IN n \in Boards /\ Settled(n) /\ Known(n)
  <1>1. CASE mode = w.broker
    BY <1>1 DEF BrokerSet
  <1>2. CASE mode # w.broker
    <2> DEFINE told == [w EXCEPT !.broker = mode]
               messaged == ApplyTheme(told, mode)
               handled == ApplyTheme(messaged, mode)
    <2>1. /\ told \in Unpainted /\ told.broker = mode /\ told.app # mode
          /\ told.checked = told.visible
      BY DEF Boards, Unpainted, Known
    <2> HIDE DEF told
    <2>2. /\ messaged \in Unpainted /\ messaged.broker = mode
          /\ messaged.checked = messaged.visible
          /\ messaged.host = told.host
          /\ messaged.app = mode /\ messaged.palette = mode
          /\ messaged.infoPalette = mode
          /\ messaged.chartMode = ChartMode(mode)
          /\ \A c \in Coloured : messaged.colours[c] = mode
          /\ \A c \in {"primary", "comparison"} : messaged.settings[c] = ChartMode(mode)
          /\ messaged.chart = told.host /\ messaged.overview = told.host
      BY <2>1, ThemeApplied
    <2> HIDE DEF messaged
    <2>3. /\ handled \in Unpainted /\ handled.broker = mode
          /\ handled.checked = handled.visible
          /\ handled.app = mode /\ handled.palette = mode
          /\ handled.infoPalette = mode
          /\ handled.chartMode = ChartMode(mode)
          /\ \A c \in Coloured : handled.colours[c] = mode
          /\ \A c \in {"primary", "comparison"} : handled.settings[c] = ChartMode(mode)
          /\ handled.chart = handled.host /\ handled.overview = handled.host
      BY <2>2, ThemeApplied
    <2>4. BrokerSet(w, mode) = handled
      BY <1>2 DEF BrokerSet, handled, messaged, told
    <2> HIDE DEF handled
    <2>5. handled \in Boards
      BY <2>3, Resolved
    <2> QED
      BY <2>3, <2>4, <2>5 DEF Settled, Known
  <1> QED
    BY <1>1, <1>2

\* WM_THEMECHANGED keeps the window settled.
LEMMA ThemeChanged ==
    ASSUME NEW w \in Boards, Settled(w), Known(w)
    PROVE  LET n == ApplyTheme(w, w.broker)
           IN n \in Boards /\ Settled(n) /\ Known(n)
  <1> DEFINE n == ApplyTheme(w, w.broker)
  <1>1. w \in Unpainted /\ w.broker \in Modes
    BY Painted DEF Boards
  <1>2. CASE w.app = w.broker /\ ~IsBlack(w.palette)
    <2>1. n = w
      BY <1>1, <1>2, ThemeApplied
    <2> QED
      BY <2>1
  <1>3. CASE ~(w.app = w.broker /\ ~IsBlack(w.palette))
    <2>1. /\ n \in Unpainted
          /\ n.broker = w.broker /\ n.host = w.host
          /\ n.checked = w.checked /\ n.visible = w.visible
          /\ n.app = w.broker /\ n.palette = w.broker /\ n.infoPalette = w.broker
          /\ n.chartMode = ChartMode(w.broker)
          /\ \A c \in Coloured : n.colours[c] = w.broker
          /\ \A c \in {"primary", "comparison"} : n.settings[c] = ChartMode(w.broker)
          /\ n.chart = w.host /\ n.overview = w.host
      BY <1>1, <1>3, ThemeApplied
    <2> HIDE DEF n
    <2>2. n \in Boards
      BY <1>1, <2>1, Resolved
    <2> QED
      BY <1>1, <2>1, <2>2 DEF Settled, Known, n
  <1> QED
    BY <1>2, <1>3

\* The callback of the dialog settles the window too: its palette is either
\* kept, or was the high-contrast one and the broker is still there.
LEMMA SettingsApplied ==
    ASSUME NEW w \in Boards, Settled(w), Known(w), NEW theme \in {"light", "dark"},
           w.parted
    PROVE  LET n == OnApply(w, theme)
           IN n \in Boards /\ Settled(n) /\ Known(n)
  <1> DEFINE told == [w EXCEPT !.chartMode = theme, !.app = AppMode(theme)]
             set == WithChartTheme(told, theme)
             themed == ApplyTheme(set, set.app)
             coloured == ApplySeriesColours(themed)
             n == Asking([coloured EXCEPT !.infoPalette = coloured.palette], Shell)
  <1>0. theme \in Modes /\ ChartMode(theme) = theme /\ AppMode(theme) = theme
    BY DEF Modes, ChartMode, AppMode
  <1>1. /\ told \in Unpainted /\ told.app = theme /\ told.chartMode = theme
        /\ told.broker = w.broker /\ told.palette = w.palette
        /\ told.checked = told.visible /\ told.parted
    BY <1>0 DEF Boards, Unpainted, Known
  <1> HIDE DEF told
  <1>2. /\ set \in Unpainted /\ set.app = theme /\ set.chartMode = theme
        /\ \A c \in {"primary", "comparison"} : set.settings[c] = theme
        /\ set.broker = w.broker /\ set.palette = w.palette
        /\ set.checked = set.visible /\ set.parted
    BY <1>1, ChartThemed
  <1> HIDE DEF set
  <1>3. /\ themed \in Unpainted /\ themed.app = theme /\ themed.chartMode = theme
        /\ \A c \in {"primary", "comparison"} : themed.settings[c] = theme
        /\ themed.broker = w.broker
        /\ themed.palette = w.palette \/ (IsBlack(w.palette) /\ themed.palette = theme)
        /\ themed.checked = themed.visible
        /\ themed.parted \/ themed.palette = theme
    <2>1. set \in Unpainted /\ set.app \in Modes /\ set.app = theme
      BY <1>0, <1>2
    <2>2. CASE ~IsBlack(set.palette)
      <3>1. themed = set
        BY <2>1, <2>2, ThemeApplied
      <3> HIDE DEF themed
      <3> QED
        BY <1>2, <3>1
    <2>3. CASE IsBlack(set.palette)
      <3>1. /\ themed \in Unpainted
            /\ themed.broker = set.broker
            /\ themed.checked = set.checked /\ themed.visible = set.visible
            /\ themed.app = theme /\ themed.palette = theme
            /\ themed.chartMode = ChartMode(theme)
            /\ \A c \in {"primary", "comparison"} : themed.settings[c] = ChartMode(theme)
        BY <2>1, <2>3, ThemeApplied
      <3> QED
        BY <1>0, <1>2, <2>3, <3>1
    <2> QED
      BY <2>2, <2>3
  <1> HIDE DEF themed
  <1>4. /\ coloured \in Unpainted /\ coloured.app = theme /\ coloured.chartMode = theme
        /\ \A c \in {"primary", "comparison"} : coloured.settings[c] = theme
        /\ \A c \in Coloured : coloured.colours[c] = theme
        /\ coloured.broker = w.broker
        /\ coloured.palette = w.palette \/ (IsBlack(w.palette) /\ coloured.palette = theme)
        /\ coloured.host = coloured.chart /\ coloured.overview = coloured.host
        /\ coloured.checked = coloured.visible
        /\ coloured.parted \/ coloured.palette = theme
    BY <1>3, SeriesColoured
  <1> HIDE DEF coloured
  <1>5. /\ n \in Unpainted /\ n.app = theme /\ n.chartMode = theme
        /\ \A c \in {"primary", "comparison"} : n.settings[c] = theme
        /\ \A c \in Coloured : n.colours[c] = theme
        /\ n.broker = w.broker
        /\ n.palette = w.palette \/ (IsBlack(w.palette) /\ n.palette = theme)
        /\ n.infoPalette = n.palette
        /\ n.host = n.chart /\ n.overview = n.host
        /\ n.checked = n.visible
        /\ n.parted \/ n.palette = theme
    BY <1>4 DEF Unpainted, Asking, Shell, Surfaces
  <1>6. OnApply(w, theme) = n
    BY DEF OnApply, n, coloured, themed, set, told
  <1> HIDE DEF n
  <1>7. /\ n.palette \in Modes
        /\ n.palette # w.palette => w.broker = "high_contrast"
    BY <1>0, <1>5 DEF Settled, IsBlack, NoPalette, Modes, Boards
  <1>8. n \in Boards
    <2>1. n \in Unpainted /\ n.palette \in Modes /\ n.infoPalette \in Modes
      BY <1>5, <1>7
    <2> QED
      BY <2>1, Resolved
  <1> QED
    BY <1>0, <1>5, <1>6, <1>7, <1>8 DEF Settled, Known

-----------------------------------------------------------------------------
\* The inductive invariant: a window between two messages is settled and what
\* it keeps twice is the same.
IInv == TypeOK /\ Settled(board) /\ Known(board)

\* A window that is created is settled, whatever theme the command line asks for.
LEMMA Created == Init => IInv
  <1> SUFFICES ASSUME NEW mode \in Modes, board = CreateMain(Seeded(mode))
               PROVE  IInv
    BY DEF Init
  <1> DEFINE seeded == Seeded(mode)
             themed == ApplyTheme(seeded, seeded.app)
  <1>0. ChartMode(mode) \in {"light", "dark"}
    BY DEF ChartMode
  <1>1. /\ seeded \in Unpainted /\ seeded.app = mode /\ seeded.broker = mode
        /\ seeded.palette = NoPalette /\ seeded.checked = seeded.visible
        /\ seeded.drag = None
    BY <1>0, DataAssumption DEF Seeded, Unpainted, Closed, Modes
  <1> HIDE DEF seeded
  <1>2. /\ themed \in Unpainted /\ themed.broker = mode
        /\ themed.checked = themed.visible /\ themed.drag = None
        /\ themed.app = mode /\ themed.palette = mode
        /\ themed.chartMode = ChartMode(mode)
    <2>1. IsBlack(seeded.palette) /\ seeded.app \in Modes
      BY <1>1 DEF IsBlack
    <2> QED
      BY <1>1, <2>1, ThemeApplied
  <1> HIDE DEF themed
  <1> DEFINE charted == WithChartTheme(themed, themed.chartMode)
             charts == CreateCharts(themed)
  <1>3. /\ charted \in Unpainted /\ charted.broker = mode
        /\ charted.checked = charted.visible
        /\ charted.app = mode /\ charted.palette = mode
        /\ charted.chartMode = ChartMode(mode)
        /\ \A c \in {"primary", "comparison"} : charted.settings[c] = charted.chartMode
    <2>1. themed.chartMode \in {"light", "dark"}
      BY <1>0, <1>2
    <2> QED
      BY <1>2, <2>1, ChartThemed
  <1>4. charts = [charted EXCEPT
                     !.colours = [c \in Coloured |-> themed.app],
                     !.chart = themed.host, !.compared = themed.host[Compared],
                     !.overview = themed.host]
    BY DEF CreateCharts
  <1>5. themed.host = charted.host
    <2>1. themed.chartMode \in {"light", "dark"}
      BY <1>0, <1>2
    <2> QED
      BY <1>2, <2>1, ChartThemed
  <1> HIDE DEF charted, charts
  <1>6. /\ charts \in Unpainted /\ charts.broker = mode
        /\ charts.checked = charts.visible
        /\ charts.app = mode /\ charts.palette = mode
        /\ charts.chartMode = ChartMode(mode)
        /\ \A c \in {"primary", "comparison"} : charts.settings[c] = charts.chartMode
        /\ charts.colours = [c \in Coloured |-> mode]
        /\ charts.chart = charts.host /\ charts.overview = charts.host
    BY <1>2, <1>3, <1>4, <1>5, DataAssumption DEF Unpainted
  <1> DEFINE tiles == CreateTiles(charts)
             panel == CreateInfoPanel(tiles)
             main == Asking(panel, Shell)
  <1>7. /\ tiles \in Unpainted /\ tiles.broker = mode
        /\ tiles.checked = tiles.visible
        /\ tiles.app = mode /\ tiles.palette = mode
        /\ tiles.chartMode = ChartMode(mode)
        /\ \A c \in {"primary", "comparison"} : tiles.settings[c] = tiles.chartMode
        /\ tiles.colours = [c \in Coloured |-> mode]
        /\ tiles.chart = tiles.host /\ tiles.overview = tiles.host
    BY <1>6 DEF CreateTiles, Asking, Unpainted, Coloured, Surfaces
  <1> HIDE DEF tiles
  <1>8. /\ main \in Unpainted /\ main.broker = mode
        /\ main.checked = main.visible
        /\ main.app = mode /\ main.palette = mode /\ main.infoPalette = mode
        /\ main.chartMode = ChartMode(mode)
        /\ \A c \in {"primary", "comparison"} : main.settings[c] = main.chartMode
        /\ main.colours = [c \in Coloured |-> mode]
        /\ main.chart = main.host /\ main.overview = main.host
    BY <1>7 DEF CreateInfoPanel, Asking, Unpainted, Shell, Surfaces
  <1>9. board = main
    BY DEF CreateMain, main, panel, tiles, charts, themed, seeded
  <1> HIDE DEF main
  <1>10. main \in Boards
    BY <1>8, Resolved
  <1> QED
    BY <1>8, <1>9, <1>10 DEF IInv, TypeOK, Settled, Known

\* Forgetting what the last handler asked for changes nothing that is kept.
LEMMA Quieted ==
    ASSUME NEW w \in Boards, Settled(w), Known(w)
    PROVE  /\ Quiet(w) \in Boards /\ Settled(Quiet(w)) /\ Known(Quiet(w))
           /\ Quiet(w).app = w.app /\ Quiet(w).broker = w.broker
           /\ Quiet(w).dialog = w.dialog
  BY DEF Quiet, Boards, Settled, Known

\* Once a point is reported with the value it has in the chart, the host has
\* all points it had and this one.
LEMMA EditTold ==
    ASSUME NEW w \in Boards, Settled(w), w.checked = w.visible,
           NEW s \in Series, NEW v \in Values, w.chart[s] = v,
           \A t \in Series : t # s /\ t # w.drag /\ t \notin w.cut
                                => w.host[t] = w.chart[t]
    PROVE  LET n == OnPointEdited(w, s, v)
           IN n \in Boards /\ Settled(n) /\ Known(n)
  <1> DEFINE known == [w.host EXCEPT ![s] = v]
             n == OnPointEdited(w, s, v)
  <1>1. known \in [Series -> Values]
    BY DEF Boards
  <1>2. \A t \in Series : t # w.drag /\ t \notin w.cut => known[t] = w.chart[t]
    BY DEF Boards
  <1> HIDE DEF known
  <1>3. n = Asking([w EXCEPT !.host = known, !.overview = known,
                             !.colours["overview"] = w.app], {"main", "info"})
    BY DEF OnPointEdited, known
  <1>4. n \in Boards
    <2>1. w.app \in Modes /\ [w.colours EXCEPT !["overview"] = w.app] \in [Coloured -> Modes]
      BY DEF Boards, Coloured
    <2> DEFINE colours == [w.colours EXCEPT !["overview"] = w.app]
    <2>2. n = [w EXCEPT !.host = known, !.overview = known, !.colours = colours,
                        !.asked = @ \cup {"main", "info"}]
      BY <1>3 DEF Asking, Boards
    <2> HIDE DEF colours
    <2>3. colours \in [Coloured -> Modes]
      BY <2>1 DEF colours
    <2> DEFINE m == [w EXCEPT !.host = known, !.overview = known, !.colours = colours]
    <2>4. m \in Boards
      BY <1>1, <2>3 DEF Boards
    <2>5. n = [m EXCEPT !.asked = @ \cup {"main", "info"}]
      BY <2>2 DEF Boards
    <2> HIDE DEF m
    <2> QED
      BY <2>4, <2>5 DEF Boards, Surfaces
  <1>5. Settled(n)
    BY <1>3 DEF Asking, Boards, Settled, Coloured
  <1>6. Known(n)
    BY <1>1, <1>2, <1>3 DEF Asking, Boards, Known
  <1> QED
    BY <1>4, <1>5, <1>6

\* Every message keeps the invariant.
LEMMA Handled == IInv /\ [Next]_board => IInv'
  <1> SUFFICES ASSUME IInv, [Next]_board PROVE IInv'
    OBVIOUS
  <1> USE DEF IInv, TypeOK
  <1> DEFINE q == Quiet(board)
  <1>0. /\ q \in Boards /\ Settled(q) /\ Known(q)
        /\ q.app = board.app /\ q.broker = board.broker /\ q.dialog = board.dialog
    BY Quieted
  <1>1. CASE ThemePill
    <2>1. Cycled(board.app) \in Modes /\ Cycled(board.app) # q.app
      BY <1>0 DEF Cycled, Modes, Boards
    <2> HIDE DEF q
    <2>2. LET n == BrokerSet(q, Cycled(board.app))
          IN n \in Boards /\ Settled(n) /\ Known(n)
      BY <1>0, <2>1, ThemeBroadcast
    <2> QED
      BY <1>1, <2>2 DEF ThemePill, q
  <1>2. CASE SystemThemeChanged
    <2> HIDE DEF q
    <2>1. LET n == ApplyTheme(q, q.broker)
          IN n \in Boards /\ Settled(n) /\ Known(n)
      BY <1>0, ThemeChanged
    <2> QED
      BY <1>0, <1>2, <2>1 DEF SystemThemeChanged, q
  <1>3. CASE ApplyDialog
    <2> DEFINE parted == [q EXCEPT !.parted = TRUE]
               n == OnApply(parted, board.dialog.theme)
    <2>1. board.dialog.theme \in {"light", "dark"}
      BY DEF Boards
    <2>2. parted \in Boards /\ Settled(parted) /\ Known(parted) /\ parted.parted
      <3> HIDE DEF q
      <3> QED
        BY <1>0 DEF Boards, Settled, Known
    <2>3. n \in Boards /\ Settled(n) /\ Known(n)
      <3> HIDE DEF parted
      <3> QED
        BY <2>1, <2>2, SettingsApplied
    <2>4. board' = [n EXCEPT !.dialog = Closed]
      BY <1>3 DEF ApplyDialog
    <2> HIDE DEF n
    <2>5. board' \in Boards
      BY <2>3, <2>4 DEF Boards, Closed
    <2> QED
      BY <2>3, <2>4, <2>5 DEF Settled, Known, Boards
  <1>4. ASSUME NEW s \in Series, ToggleSeries(s)
        PROVE  IInv'
    BY <1>4 DEF ToggleSeries, Quiet, Asking, Boards, Settled, Known, Surfaces
  <1>5. ASSUME NEW s \in Series, DragStart(s)
        PROVE  IInv'
    BY <1>5, DataAssumption DEF DragStart, Quiet, Asking, Boards, Settled, Known, Surfaces
  <1>6. ASSUME NEW v \in Values, DragMove(v)
        PROVE  IInv'
    BY <1>6 DEF DragMove, Quiet, Asking, Boards, Settled, Known, Surfaces
  <1>7. CASE DragEnd
    <2> DEFINE dropped == Asking([q EXCEPT !.drag = None, !.cut = @ \ {board.drag}],
                                 {"primary"})
    <2>1. board.drag \in Series
      BY <1>7 DEF DragEnd, Boards
    <2>2. /\ dropped \in Boards /\ Settled(dropped)
          /\ \A s \in Series : s # board.drag /\ s \notin dropped.cut
                                => dropped.host[s] = dropped.chart[s]
          /\ dropped.checked = dropped.visible
      <3>1. q.drag = board.drag
        BY DEF Quiet
      <3> HIDE DEF q
      <3> QED
        BY <1>0, <3>1 DEF Asking, Boards, Settled, Known, Surfaces
    <2>3. board' = OnPointEdited(dropped, board.drag, dropped.chart[board.drag])
      BY <1>7 DEF DragEnd
    <2> HIDE DEF dropped, q
    <2>4. dropped.chart[board.drag] \in Values
      BY <2>1, <2>2 DEF Boards
    <2>5. board' \in Boards /\ Settled(board') /\ Known(board')
      BY <2>1, <2>2, <2>3, <2>4, EditTold
    <2> QED
      BY <2>5
  <1>8. CASE DragCut
    BY <1>8, DataAssumption DEF DragCut, Quiet, Asking, Boards, Settled, Known, Surfaces
  <1>9. ASSUME NEW s \in Series, NEW v \in Values, Recall(s, v)
        PROVE  IInv'
    <2> DEFINE recalled == Asking([q EXCEPT !.chart[s] = v, !.cut = @ \ {s}],
                                  {"primary"})
    <2>1. /\ recalled \in Boards /\ Settled(recalled)
          /\ \A t \in Series : t # s /\ t # recalled.drag /\ t \notin recalled.cut
                                => recalled.host[t] = recalled.chart[t]
          /\ recalled.chart[s] = v
          /\ recalled.checked = recalled.visible
      <3> HIDE DEF q
      <3> QED
        BY <1>0 DEF Asking, Boards, Settled, Known, Surfaces
    <2>2. board' = OnPointEdited(recalled, s, v)
      BY <1>9 DEF Recall
    <2> HIDE DEF recalled, q
    <2>3. board' \in Boards /\ Settled(board') /\ Known(board')
      BY <2>1, <2>2, EditTold
    <2> QED
      BY <2>3
  <1>10. CASE OpenDialog
    BY <1>10 DEF OpenDialog, Quiet, Asking, Boards, Settled, Known, Surfaces
  <1>11. ASSUME NEW t \in {"light", "dark"}, PickTheme(t)
         PROVE  IInv'
    BY <1>11 DEF PickTheme, Quiet, Asking, Boards, Settled, Known, Surfaces
  <1>12. CASE CancelDialog
    BY <1>12 DEF CancelDialog, Quiet, Closed, Boards, Settled, Known
  <1>13. CASE UNCHANGED board
    BY <1>13 DEF Settled, Known
  <1> QED
    BY <1>1, <1>2, <1>3, <1>4, <1>5, <1>6, <1>7, <1>8, <1>9, <1>10, <1>11,
       <1>12, <1>13 DEF Next

\* The invariant holds in every behaviour.
THEOREM DashboardInvariance == Spec => []IInv
  BY Created, Handled, PTL DEF Spec

\* For any number of series and any data, the host has every edit.
THEOREM EditsReachTheHost == Spec => []HostHasEdits
  <1>1. IInv => HostHasEdits
    BY DEF IInv, Known, HostHasEdits
  <1> QED
    BY <1>1, DashboardInvariance, PTL

\* The boxes of the panel and the series of the chart never disagree.
THEOREM BoxesFollowSeries == Spec => []CheckedIsVisible
  <1>1. IInv => CheckedIsVisible
    BY DEF IInv, Known, CheckedIsVisible
  <1> QED
    BY <1>1, DashboardInvariance, PTL

\* So host, chart, overview and panel are of one mind about every series.
THEOREM SeriesStayInStep == Spec => []SeriesAgree
  <1>1. HostHasEdits /\ CheckedIsVisible => SeriesAgree
    BY DEF SeriesAgree
  <1> QED
    BY <1>1, EditsReachTheHost, BoxesFollowSeries, PTL

\* The palette is the broker's unless the broker is at high contrast.
THEOREM PaletteIsTheBrokers == Spec => []PaletteFollowsBroker
  <1>1. IInv => PaletteFollowsBroker
    BY DEF IInv, Settled, PaletteFollowsBroker
  <1> QED
    BY <1>1, DashboardInvariance, PTL

\* After every handler the copies of the theme agree: both palettes, the colours of
\* all series, the charts' settings and the mode; only what the settings dialog
\* applied may leave the palettes behind the mode, until the next change of theme.
THEOREM ThemeCopiesAgree == Spec => []CopiesAgree
  <1>1. IInv => CopiesAgree
    BY DEF IInv, TypeOK, Boards, Settled, CopiesAgree
  <1> QED
    BY <1>1, DashboardInvariance, PTL

-----------------------------------------------------------------------------
(* Every change is repainted.                                              *)

\* What a surface shows in n that it did not show in w, n asks to repaint.
Repaints(w, n) ==
    \A surface \in Surfaces :
        Face(w)[surface] # Face(n)[surface]
            => \/ surface \in n.asked
               \/ surface = "dialog" /\ ~n.dialog.open

\* Surface by surface, from the fields that its face is made of.
LEMMA RepaintsByFields ==
    ASSUME NEW w, NEW n,
           "main" \notin n.asked => n.palette = w.palette /\ n.app = w.app,
           "primary" \notin n.asked =>
               /\ n.palette = w.palette /\ n.colours["primary"] = w.colours["primary"]
               /\ n.chart = w.chart /\ n.visible = w.visible,
           "comparison" \notin n.asked =>
               /\ n.palette = w.palette
               /\ n.colours["comparison"] = w.colours["comparison"]
               /\ n.compared = w.compared,
           "tiles" \notin n.asked =>
               /\ n.palette = w.palette /\ n.colours["tiles"] = w.colours["tiles"]
               /\ n.tiles = w.tiles,
           "info" \notin n.asked =>
               /\ n.infoPalette = w.infoPalette
               /\ n.colours["overview"] = w.colours["overview"]
               /\ n.overview = w.overview /\ n.checked = w.checked,
           "dialog" \notin n.asked => n.dialog = w.dialog \/ ~n.dialog.open
    PROVE  Repaints(w, n)
  <1>1. "main" \notin n.asked => Face(w)["main"] = Face(n)["main"]
    BY DEF Face
  <1>2. "primary" \notin n.asked => Face(w)["primary"] = Face(n)["primary"]
    BY DEF Face
  <1>3. "comparison" \notin n.asked => Face(w)["comparison"] = Face(n)["comparison"]
    BY DEF Face
  <1>4. "tiles" \notin n.asked => Face(w)["tiles"] = Face(n)["tiles"]
    BY DEF Face
  <1>5. "info" \notin n.asked => Face(w)["info"] = Face(n)["info"]
    BY DEF Face
  <1>6. "dialog" \notin n.asked =>
            Face(w)["dialog"] = Face(n)["dialog"] \/ ~n.dialog.open
    BY DEF Face
  <1> QED
    BY <1>1, <1>2, <1>3, <1>4, <1>5, <1>6 DEF Repaints, Surfaces

\* A handler that asks for the whole main window and touches no dialog, but
\* perhaps to close it, need not be looked at further.
LEMMA ShellRepainted ==
    ASSUME NEW w, NEW n, Shell \subseteq n.asked,
           n.dialog = w.dialog \/ ~n.dialog.open
    PROVE  Repaints(w, n)
  BY RepaintsByFields DEF Shell, Surfaces

\* apply_theme asks for all that it touched.
LEMMA ThemeAsks ==
    ASSUME NEW w \in Boards, NEW mode \in Modes
    PROVE  LET n == ApplyTheme(w, mode)
           IN /\ n = w \/ (Shell \subseteq n.asked /\ n.dialog = w.dialog)
              /\ w.asked \subseteq n.asked
  <1> DEFINE themed == [w EXCEPT !.app = mode, !.chartMode = ChartMode(mode),
                                 !.palette = mode, !.parted = FALSE]
             charted == WithChartTheme(themed, ChartMode(mode))
             drawn == ApplySeriesColours(charted)
             done == Asking([drawn EXCEPT !.infoPalette = mode],
                            {"main", "tiles", "info"})
             Fields == {"asked", "dialog", "infoPalette", "settings", "app", "host",
                        "colours", "chart", "cut", "compared", "tiles", "overview"}
  <1>1. themed.asked = w.asked /\ themed.dialog = w.dialog /\ Fields \subseteq DOMAIN themed
    BY DEF Boards
  <1> HIDE DEF themed
  <1>2. /\ charted.asked = w.asked \cup {"primary", "comparison"}
        /\ charted.dialog = w.dialog /\ Fields \subseteq DOMAIN charted
    BY <1>1 DEF WithChartTheme, Asking
  <1> HIDE DEF charted
  <1>3. /\ drawn.asked = w.asked \cup {"primary", "comparison"} \cup {"tiles", "info"}
        /\ drawn.dialog = w.dialog /\ Fields \subseteq DOMAIN drawn
    BY <1>2 DEF ApplySeriesColours, Asking
  <1> HIDE DEF drawn
  <1>4. /\ done.asked = drawn.asked \cup {"main", "tiles", "info"}
        /\ done.dialog = w.dialog
    BY <1>3 DEF Asking
  <1>5. ApplyTheme(w, mode) = IF w.app = mode /\ ~IsBlack(w.palette) THEN w ELSE done
    BY DEF ApplyTheme, done, drawn, charted, themed
  <1> HIDE DEF done
  <1> QED
    BY <1>3, <1>4, <1>5 DEF Shell, Surfaces


\* The callback of the settings dialog asks for the whole window.
LEMMA ApplyAsks ==
    ASSUME NEW w \in Boards, NEW theme \in {"light", "dark"}
    PROVE  Shell \subseteq OnApply(w, theme).asked /\ "dialog" \in DOMAIN OnApply(w, theme)
  <1> DEFINE given == [w EXCEPT !.chartMode = theme, !.app = AppMode(theme)]
             set == WithChartTheme(given, theme)
             coloured == ApplySeriesColours(ApplyTheme(set, set.app))
  <1>1. given \in Unpainted
    BY DEF Boards, Unpainted, AppMode, Modes
  <1> HIDE DEF given
  <1>2. set \in Unpainted /\ set.app \in Modes
    <2>1. set \in Unpainted
      BY <1>1, ChartThemed
    <2> HIDE DEF set
    <2> QED
      BY <2>1 DEF Unpainted
  <1> HIDE DEF set
  <1>3. coloured \in Unpainted
    BY <1>2, ThemeApplied, SeriesColoured
  <1>4. OnApply(w, theme) = Asking([coloured EXCEPT !.infoPalette = coloured.palette], Shell)
    BY DEF OnApply, coloured, set, given
  <1> HIDE DEF coloured
  <1> QED
    BY <1>3, <1>4 DEF Asking, Unpainted

\* A point that was edited: its chart was to be repainted before, the status
\* and the panel are repainted now.
LEMMA EditAsks ==
    ASSUME NEW w \in Boards, NEW s \in Series, NEW v \in Values
    PROVE  LET n == OnPointEdited(w, s, v)
           IN /\ n.asked = w.asked \cup {"main", "info"}
              /\ n.app = w.app /\ n.palette = w.palette
              /\ n.infoPalette = w.infoPalette
              /\ \A c \in {"primary", "comparison", "tiles"} : n.colours[c] = w.colours[c]
              /\ n.chart = w.chart /\ n.visible = w.visible /\ n.compared = w.compared
              /\ n.tiles = w.tiles /\ n.dialog = w.dialog
  <1> DEFINE known == [w.host EXCEPT ![s] = v]
             colours == [w.colours EXCEPT !["overview"] = w.app]
  <1>1. OnPointEdited(w, s, v) =
            Asking([w EXCEPT !.host = known, !.overview = known, !.colours = colours],
                   {"main", "info"})
    BY DEF OnPointEdited, Boards
  <1>2. \A c \in {"primary", "comparison", "tiles"} : colours[c] = w.colours[c]
    BY DEF Boards, Coloured
  <1> HIDE DEF known, colours
  <1> QED
    BY <1>1, <1>2 DEF Asking, Boards

\* Every message asks for what it changes.
LEMMA HandledAsks == IInv /\ [Next]_board => Repaints(board, board') \/ UNCHANGED board
  <1> SUFFICES ASSUME IInv, Next PROVE Repaints(board, board')
    OBVIOUS
  <1> DEFINE q == Quiet(board)
  <1>0. /\ board \in Boards /\ q \in Boards /\ Settled(q) /\ q.app = board.app
        /\ q.asked = {} /\ q.dialog = board.dialog
        /\ q.palette = board.palette /\ q.infoPalette = board.infoPalette
        /\ q.colours = board.colours /\ q.chart = board.chart
        /\ q.visible = board.visible /\ q.compared = board.compared
        /\ q.tiles = board.tiles /\ q.overview = board.overview
        /\ q.checked = board.checked /\ q.drag = board.drag /\ q.broker = board.broker
        /\ q.cut = board.cut
    BY Quieted DEF IInv, TypeOK, Quiet, Boards
  <1>13. Repaints(board, q)
    <2> HIDE DEF q
    <2> QED
      BY <1>0, RepaintsByFields
  <1>1. CASE ThemePill
    <2> HIDE DEF q
    <2> DEFINE mode == Cycled(board.app)
               told == [q EXCEPT !.broker = mode]
               messaged == ApplyTheme(told, mode)
               called == ApplyTheme(messaged, mode)
    <2>1. mode \in Modes
      BY <1>0 DEF Cycled, Modes, Boards
    <2>2. board' = IF mode = q.broker THEN q ELSE called
      BY <1>1 DEF ThemePill, BrokerSet, q
    <2> HIDE DEF mode
    <2>3. /\ told \in Boards /\ told.asked = {} /\ told.dialog = board.dialog
          /\ told.app = board.app /\ told.palette = board.palette /\ told.infoPalette = board.infoPalette
          /\ told.colours = board.colours /\ told.chart = board.chart
          /\ told.visible = board.visible /\ told.compared = board.compared
          /\ told.tiles = board.tiles /\ told.overview = board.overview
          /\ told.checked = board.checked
      BY <1>0, <2>1 DEF Boards
    <2> HIDE DEF told
    <2>4. messaged \in Boards
      <3>1. told \in Unpainted /\ told.palette \in Modes /\ told.infoPalette \in Modes
        BY <2>3, Painted DEF Boards
      <3>2. /\ messaged \in Unpainted
            /\ \/ messaged = told
               \/ messaged.palette = mode /\ messaged.infoPalette = mode
        BY <2>1, <3>1, ThemeApplied
      <3> HIDE DEF messaged
      <3> QED
        BY <2>1, <3>1, <3>2, Resolved
    <2>5. \/ messaged = told
          \/ Shell \subseteq messaged.asked /\ messaged.dialog = told.dialog
      BY <2>1, <2>3, ThemeAsks
    <2> HIDE DEF messaged
    <2>6. /\ \/ called = messaged
             \/ Shell \subseteq called.asked /\ called.dialog = messaged.dialog
          /\ messaged.asked \subseteq called.asked
      BY <2>1, <2>4, ThemeAsks
    <2> HIDE DEF called
    <2>7. Repaints(board, called)
      <3>1. CASE called = told
        BY <2>3, <3>1, RepaintsByFields
      <3>2. CASE called # told
        <4>1. Shell \subseteq called.asked /\ called.dialog = board.dialog
          BY <2>3, <2>5, <2>6, <3>2
        <4> QED
          BY <4>1, ShellRepainted
      <3> QED
        BY <3>1, <3>2
    <2> QED
      BY <1>13, <2>2, <2>7
  <1>2. CASE SystemThemeChanged
    <2>1. board' = ApplyTheme(q, board.broker) /\ board.broker \in Modes
      BY <1>0, <1>2 DEF SystemThemeChanged, Boards
    <2> HIDE DEF q
    <2>2. \/ board' = q
          \/ Shell \subseteq board'.asked /\ board'.dialog = board.dialog
      BY <1>0, <2>1, ThemeAsks
    <2> QED
      BY <1>13, <2>2, ShellRepainted
  <1>3. CASE ApplyDialog
    <2> DEFINE parted == [q EXCEPT !.parted = TRUE]
               n == OnApply(parted, board.dialog.theme)
    <2>1. board' = [n EXCEPT !.dialog = Closed] /\ board.dialog.theme \in {"light", "dark"}
      BY <1>0, <1>3 DEF ApplyDialog, Boards
    <2> HIDE DEF q
    <2>4. parted \in Boards
      BY <1>0 DEF Boards
    <2> HIDE DEF parted
    <2>2. Shell \subseteq n.asked /\ "dialog" \in DOMAIN n
      BY <2>1, <2>4, ApplyAsks
    <2> HIDE DEF n
    <2>3. Shell \subseteq board'.asked /\ ~board'.dialog.open
      BY <2>1, <2>2 DEF Closed
    <2> QED
      BY <2>3, ShellRepainted
  <1>4. ASSUME NEW s \in Series, ToggleSeries(s) PROVE Repaints(board, board')
    <2>1. /\ board'.asked = {"info", "primary"} /\ board'.dialog = board.dialog
          /\ board'.app = board.app /\ board'.palette = board.palette /\ board'.colours = board.colours
          /\ board'.compared = board.compared /\ board'.tiles = board.tiles
      BY <1>0, <1>4 DEF ToggleSeries, Quiet, Asking, Boards
    <2> QED
      BY <2>1, RepaintsByFields
  <1>5. ASSUME NEW s \in Series, DragStart(s) PROVE Repaints(board, board')
    <2>1. board' = [q EXCEPT !.drag = s, !.asked = @ \cup {"primary"}]
      BY <1>0, <1>5 DEF DragStart, Asking, Boards
    <2> HIDE DEF q
    <2>2. /\ board'.asked = {"primary"} /\ board'.dialog = board.dialog
          /\ board'.app = board.app /\ board'.palette = board.palette /\ board'.infoPalette = board.infoPalette
          /\ board'.colours = board.colours /\ board'.compared = board.compared
          /\ board'.tiles = board.tiles /\ board'.overview = board.overview
          /\ board'.checked = board.checked
      BY <1>0, <2>1 DEF Boards
    <2> QED
      BY <2>2, RepaintsByFields
  <1>6. ASSUME NEW v \in Values, DragMove(v) PROVE Repaints(board, board')
    <2>1. board' = Asking([q EXCEPT !.chart[board.drag] = v], {"primary"})
      BY <1>6 DEF DragMove
    <2> HIDE DEF q
    <2>2. /\ board'.asked = {"primary"} /\ board'.dialog = board.dialog
          /\ board'.app = board.app /\ board'.palette = board.palette /\ board'.infoPalette = board.infoPalette
          /\ board'.colours = board.colours /\ board'.compared = board.compared
          /\ board'.tiles = board.tiles /\ board'.overview = board.overview
          /\ board'.checked = board.checked
      BY <1>0, <2>1 DEF Asking, Boards
    <2> QED
      BY <2>2, RepaintsByFields
  <1>7. CASE DragEnd
    <2> DEFINE dropped == Asking([q EXCEPT !.drag = None, !.cut = @ \ {board.drag}],
                                 {"primary"})
    <2>1. board.drag \in Series
      BY <1>0, <1>7 DEF DragEnd, Boards
    <2>2. board' = OnPointEdited(dropped, board.drag, dropped.chart[board.drag])
      BY <1>7 DEF DragEnd
    <2> HIDE DEF q
    <2>3. /\ dropped \in Boards /\ dropped.asked = {"primary"}
          /\ dropped.dialog = board.dialog
          /\ dropped.app = board.app /\ dropped.palette = board.palette /\ dropped.infoPalette = board.infoPalette
          /\ dropped.colours = board.colours /\ dropped.compared = board.compared
          /\ dropped.tiles = board.tiles
      BY <1>0 DEF Asking, Boards, Surfaces
    <2> HIDE DEF dropped
    <2>4. dropped.chart[board.drag] \in Values
      BY <2>1, <2>3 DEF Boards
    <2> QED
      BY <2>1, <2>2, <2>3, <2>4, EditAsks, RepaintsByFields
  <1>8. CASE DragCut
    <2>1. board' = Asking([q EXCEPT !.drag = None, !.cut = @ \cup {board.drag}], {"primary"})
      BY <1>8 DEF DragCut
    <2> HIDE DEF q
    <2>2. /\ board'.asked = {"primary"} /\ board'.dialog = board.dialog
          /\ board'.app = board.app /\ board'.palette = board.palette /\ board'.infoPalette = board.infoPalette
          /\ board'.colours = board.colours /\ board'.compared = board.compared
          /\ board'.tiles = board.tiles /\ board'.overview = board.overview
          /\ board'.checked = board.checked
      BY <1>0, <2>1 DEF Asking, Boards
    <2> QED
      BY <2>2, RepaintsByFields
  <1>9. ASSUME NEW s \in Series, NEW v \in Values, Recall(s, v)
        PROVE  Repaints(board, board')
    <2> DEFINE recalled == Asking([q EXCEPT !.chart[s] = v, !.cut = @ \ {s}], {"primary"})
    <2>1. board' = OnPointEdited(recalled, s, v)
      BY <1>9 DEF Recall
    <2> HIDE DEF q
    <2>2. /\ recalled \in Boards /\ recalled.asked = {"primary"}
          /\ recalled.dialog = board.dialog
          /\ recalled.app = board.app /\ recalled.palette = board.palette /\ recalled.infoPalette = board.infoPalette
          /\ recalled.colours = board.colours /\ recalled.compared = board.compared
          /\ recalled.tiles = board.tiles
      BY <1>0 DEF Asking, Boards, Surfaces
    <2> HIDE DEF recalled
    <2> QED
      BY <2>1, <2>2, EditAsks, RepaintsByFields
  <1>10. CASE OpenDialog
    <2>1. /\ board'.asked = {"dialog"} /\ board'.colours = board.colours
          /\ board'.app = board.app /\ board'.palette = board.palette /\ board'.infoPalette = board.infoPalette
          /\ board'.chart = board.chart /\ board'.visible = board.visible
          /\ board'.compared = board.compared /\ board'.tiles = board.tiles
          /\ board'.overview = board.overview /\ board'.checked = board.checked
      BY <1>0, <1>10 DEF OpenDialog, Quiet, Asking, Boards
    <2> QED
      BY <2>1, RepaintsByFields
  <1>11. ASSUME NEW t \in {"light", "dark"}, PickTheme(t) PROVE Repaints(board, board')
    <2>1. /\ board'.asked = {"dialog"} /\ board'.colours = board.colours
          /\ board'.app = board.app /\ board'.palette = board.palette /\ board'.infoPalette = board.infoPalette
          /\ board'.chart = board.chart /\ board'.visible = board.visible
          /\ board'.compared = board.compared /\ board'.tiles = board.tiles
          /\ board'.overview = board.overview /\ board'.checked = board.checked
      BY <1>0, <1>11 DEF PickTheme, Quiet, Asking, Boards
    <2> QED
      BY <2>1, RepaintsByFields
  <1>12. CASE CancelDialog
    <2>1. board' = [q EXCEPT !.dialog = Closed]
      BY <1>12 DEF CancelDialog
    <2> HIDE DEF q
    <2>2. /\ ~board'.dialog.open /\ board'.colours = board.colours
          /\ board'.app = board.app /\ board'.palette = board.palette /\ board'.infoPalette = board.infoPalette
          /\ board'.chart = board.chart /\ board'.visible = board.visible
          /\ board'.compared = board.compared /\ board'.tiles = board.tiles
          /\ board'.overview = board.overview /\ board'.checked = board.checked
      BY <1>0, <2>1 DEF Closed, Boards
    <2> QED
      BY <2>2, RepaintsByFields
  <1> QED
    BY <1>1, <1>2, <1>3, <1>4, <1>5, <1>6, <1>7, <1>8, <1>9, <1>10, <1>11, <1>12 DEF Next

\* No handler of the dashboard, in whatever order they run and for any data,
\* changes what one of its windows shows without asking to repaint it.
THEOREM BoardsAreRepainted == Spec => ChangesAreRepainted
  <1>1. IInv /\ [Next]_board =>
            [LET before == Face(board)
                 after == Face(board')
             IN \A surface \in Surfaces \ board'.asked :
                    before[surface] # after[surface]
                        => surface = "dialog" /\ ~board'.dialog.open]_board
    BY HandledAsks DEF Repaints
  <1> QED
    BY <1>1, DashboardInvariance, PTL DEF Spec, ChangesAreRepainted
=============================================================================
