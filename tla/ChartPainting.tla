--------------------------- MODULE ChartPainting ---------------------------
(***************************************************************************)
(* What the charts of src/charts paint, and where the mouse finds it: the  *)
(* plot that compute_chart_layout leaves between the labels of the axes    *)
(* and the legend, the points of line, area and spline charts, and the     *)
(* bars of BarChartView and HBarChartView.  A host replaces the data and   *)
(* the axes, hides series and resizes the chart.                           *)
(***************************************************************************)
EXTENDS Pixels, Sequences, FiniteSets, Functions

CONSTANTS Sizes,
          Ticks, \* Widths and heights of the longest labels of the axes.
          Data,  \* Lists of series, each a sequence of points.
          Axes,  \* Pairs of ranges, of x and of y.
          Tensions,  \* Of a spline, in percent.
          Tolerance  \* How far from a point the mouse still finds it.

Lines == {"line", "area", "spline"}
Bars == {"bar", "hbar"}
Kinds == Lines \cup Bars

kAxisGutter == 40
kTopGutter == 24
kBottomGutter == 28
kAxisTitleHeight == 16
kLegendGapPx == 8
kLegendPadX == 8
kLegendPadY == 6
kLegendRowH == 18
LegendWidth == 120

VARIABLE win
(***************************************************************************)
(* size: of the window.  series: of records with visible and points.       *)
(* x, y: the ranges of the axes, as pairs.  stacked: of the bar charts.    *)
(* tick: the size of the longest label as measured with the tick font.     *)
(***************************************************************************)

Shown(w) == {s \in DOMAIN w.series : w.series[s].visible}
PointsOf(w, s) == w.series[s].points

-----------------------------------------------------------------------------
(* The plot and the legend.                                                *)

\* compute_chart_layout, with the labels it is told of; for hbar the
\* renderer undoes the exchange of width and height.
ComputeChartLayout(w, tick) ==
    LET legend == IF Len(w.series) > 1 THEN LegendWidth ELSE 0
        left == Larger(kAxisGutter, tick.w + 8)
        right == IF Len(w.series) <= 1 /\ w.kind # "hbar" THEN kAxisGutter ELSE 0
        bottom == Larger(kBottomGutter, tick.h + 6)
        width == Larger(0, w.size.w - (legend + left + right))
        height == Larger(0, w.size.h - (kTopGutter + bottom + 2 * kAxisTitleHeight))
    IN Box(left, kTopGutter + kAxisTitleHeight, width, height)

Plot(w) == ComputeChartLayout(w, w.tick)

\* current_layout, which the mouse goes by, measures no labels: it takes the
\* least gutters for their size, and leaves wider ones.
CurrentLayout(w) == ComputeChartLayout(w, [w |-> kAxisGutter, h |-> kBottomGutter])

Width(r) == r.right - r.left
Height(r) == r.bottom - r.top
IsPainted(w) == Width(Plot(w)) > 0 /\ Height(Plot(w)) > 0

\* draw_legend_column: one row for every series that is shown.
HasLegend(w) == Cardinality(Shown(w)) >= 2
Legend(w) ==
    LET height == Cardinality(Shown(w)) * kLegendRowH + 2 * kLegendPadY
        top == Plot(w).top + Div(Height(Plot(w)) - height, 2)
        left == Plot(w).right + kLegendGapPx
    IN Rect(left, top, left + LegendWidth - kLegendPadX, top + height)

-----------------------------------------------------------------------------
(* Points: normalize_points for the renderers, data_to_pixel for the mouse.*)

\* Where v lies on a span of pixels for the range, rounded.
OnSpan(v, range, span) ==
    IF range[2] <= range[1] THEN 0
    ELSE Div(2 * (v - range[1]) * span + (range[2] - range[1]), 2 * (range[2] - range[1]))

Clamped(v, range) == Larger(range[1], Smaller(v, range[2]))
InRange(p, w) == p.x = Clamped(p.x, w.x) /\ p.y = Clamped(p.y, w.y)

PixelIn(r, w, p) ==
    [x |-> r.left + OnSpan(p.x, w.x, Width(r)), y |-> r.bottom - OnSpan(p.y, w.y, Height(r))]

\* normalize_axis keeps what lies outside the ranges at the edge.
NormalizePoint(w, p) == PixelIn(Plot(w), w, [x |-> Clamped(p.x, w.x), y |-> Clamped(p.y, w.y)])

\* Areas and splines show nothing of a series with one point.
Drawn(w) == {s \in Shown(w) : Len(PointsOf(w, s)) >= IF w.kind = "line" THEN 1 ELSE 2}
Polyline(w, s) == [i \in DOMAIN PointsOf(w, s) |-> NormalizePoint(w, PointsOf(w, s)[i])]

\* The area under a line ends on the baseline, below its last and first point.
Area(w, s) ==
    LET line == Polyline(w, s)
    IN line \o <<[x |-> line[Len(line)].x, y |-> Plot(w).bottom], [x |-> line[1].x, y |-> Plot(w).bottom]>>

\* catmull_rom_to_bezier: the two control points, in x, of the piece of the
\* curve from anchor i to the next.
Control(line, i, tension) ==
    LET before == line[Larger(1, i - 1)].x
        after == line[Smaller(Len(line), i + 2)].x
        Pull(d) == Div(2 * tension * d + 300, 600)
    IN <<line[i].x + Pull(line[i + 1].x - before), line[i + 1].x - Pull(after - line[i].x)>>

\* hit_test_point: the series and indices the mouse can find at p, the
\* nearest points of the series that are shown.
HitTestPoint(w, p) ==
    LET r == CurrentLayout(w)
        Far(h) == LET q == PixelIn(r, w, PointsOf(w, h[1])[h[2]])
                  IN (p.x - q.x) * (p.x - q.x) + (p.y - q.y) * (p.y - q.y)
        near == {h \in UNION {{s} \X DOMAIN PointsOf(w, s) : s \in Shown(w)} : Far(h) <= Tolerance * Tolerance}
    IN {h \in near : \A k \in near : Far(h) <= Far(k)}

-----------------------------------------------------------------------------
(* Bars.  A bar lies across one lane of the plot, and reaches from one     *)
(* length to another along it, both in pixels from the baseline.           *)

BarCount(w) == LET n == {Len(PointsOf(w, s)) : s \in DOMAIN w.series}
               IN IF n = {} THEN 0 ELSE CHOOSE k \in n : \A l \in n : l <= k
SpanOf(w) == IF w.kind = "bar" THEN Height(Plot(w)) ELSE Width(Plot(w))
VisibleSeriesCount(w) == Larger(1, Cardinality(Shown(w)))

\* compute_bar_geometry for one series and a gap of a fifth: bands of one
\* width from the left; without room for them they are empty.
BandWidth(w) == Width(Plot(w)) \div BarCount(w)
Gap(w) == Larger(1, (2 * BandWidth(w) + 5) \div 10)
Band(w, i) ==
    LET start == Plot(w).left + BandWidth(w) * (i - 1) + Gap(w) \div 2
    IN IF BandWidth(w) = 0 THEN [from |-> 0, to |-> 0]
       ELSE [from |-> start, to |-> start + Larger(1, BandWidth(w) - Gap(w))]

\* The rows of HBarChartView.
RowHeight(w) == Larger(1, Height(Plot(w)) \div BarCount(w))
RowGap(w) == Smaller(2, RowHeight(w) \div 4)
RowTop(w, i) == Plot(w).top + (i - 1) * RowHeight(w) + RowGap(w) \div 2

Lane(w, i) ==
    IF w.kind = "bar" THEN Band(w, i)
    ELSE [from |-> RowTop(w, i), to |-> RowTop(w, i) + RowHeight(w) - RowGap(w)]

\* The part of lane i for series s among others.
SubLane(w, s, i) ==
    IF w.kind = "bar"
    THEN LET width == Larger(1, Div(Band(w, i).to - Band(w, i).from, VisibleSeriesCount(w)))
             start == Band(w, i).from + (s - 1) * width
         IN [from |-> start, to |-> start + width]
    ELSE LET height == Larger(1, RowHeight(w) \div VisibleSeriesCount(w))
             start == RowTop(w, i) + (s - 1) * height
         IN [from |-> start, to |-> start + height - RowGap(w)]

Grouped(w, s, i) == [series |-> s, at |-> i, lane |-> SubLane(w, s, i), from |-> 0,
                     to |-> OnSpan(Clamped(PointsOf(w, s)[i].y, w.y), w.y, SpanOf(w))]

\* What series s adds to the stack of lane i.
Share(w, s, i) ==
    IF s \in Shown(w) /\ i <= Len(PointsOf(w, s)) THEN Larger(0, PointsOf(w, s)[i].y) ELSE 0

\* The stack of lane i up to and with series s.
UpTo(w, s, i) ==
    LET sum[t \in 0..s] == IF t = 0 THEN 0 ELSE sum[t - 1] + Share(w, t, i)
    IN sum[s]
Sum(w, i) == UpTo(w, Len(w.series), i)
MaxSum(w) == LET sums == {Sum(w, i) : i \in 1..BarCount(w)}
             IN CHOOSE n \in sums : \A k \in sums : k <= n

\* The range of the stacks, and that of the ticks beside them.
Effective(w) ==
    LET high == Larger(MaxSum(w), w.y[2])
    IN <<w.y[1], IF high > w.y[1] THEN high ELSE w.y[1] + 1>>
TickAxis(w) == IF w.stacked THEN <<w.y[1], Larger(MaxSum(w), w.y[2])>> ELSE w.y

\* The stack begins at the least value of the axis and is cut at the greatest.
Cursor(w, s, i) == Smaller(Effective(w)[1] + UpTo(w, s, i), Effective(w)[2])
Segment(w, s, i) == [series |-> s, at |-> i, lane |-> Lane(w, i),
                     from |-> OnSpan(Cursor(w, s - 1, i), Effective(w), SpanOf(w)),
                     to |-> OnSpan(Cursor(w, s, i), Effective(w), SpanOf(w))]

PaintedBars(w) ==
    LET Bar(s, i) == IF w.stacked THEN Segment(w, s, i) ELSE Grouped(w, s, i)
        bars == UNION {{Bar(s, i) : i \in DOMAIN PointsOf(w, s)} : s \in Shown(w)}
    IN {b \in bars : b.from < b.to /\ b.lane.from < b.lane.to}

\* Where HBarChartView writes the total of row i: it adds up from nought.
TotalAt(w, i) ==
    LET ends == {OnSpan(UpTo(w, s, i), Effective(w), SpanOf(w)) : s \in {t \in Shown(w) : Share(w, t, i) > 0}} \cup {0}
    IN CHOOSE n \in ends : \A k \in ends : k <= n

-----------------------------------------------------------------------------
(* The host.                                                               *)

AllShown(data) == [s \in DOMAIN data |-> [visible |-> TRUE, points |-> data[s]]]

Init == \E kind \in Kinds, stacked \in BOOLEAN, size \in Sizes, tick \in Ticks, data \in Data, axes \in Axes,
          tension \in Tensions :
    /\ stacked => kind \in Bars
    /\ win = [kind |-> kind, stacked |-> stacked, size |-> size, tick |-> tick, series |-> AllShown(data),
              x |-> axes[1], y |-> axes[2], tension |-> tension]

SetSeries == \E data \in Data : win' = [win EXCEPT !.series = AllShown(data)]

SetSeriesVisible == \E s \in DOMAIN win.series, visible \in BOOLEAN :
    win' = [win EXCEPT !.series = [win.series EXCEPT ![s] = [visible |-> visible, points |-> PointsOf(win, s)]]]

\* The labels of other ranges may be longer or shorter.
SetAxes == \E axes \in Axes, tick \in Ticks : win' = [win EXCEPT !.x = axes[1], !.y = axes[2], !.tick = tick]

Resize == \E size \in Sizes : win' = [win EXCEPT !.size = size]

Next == SetSeries \/ SetSeriesVisible \/ SetAxes \/ Resize

Spec == Init /\ [][Next]_win

-----------------------------------------------------------------------------
(* Properties.                                                             *)

\* The points of series s that are painted where they are and not at the edge.
Markers(w, s) == {p \in Range(PointsOf(w, s)) : InRange(p, w)}

\* How far a marker is painted from where the mouse looks for its point.
Aside(w, p) == LET painted == NormalizePoint(w, p)
                   looked == PixelIn(CurrentLayout(w), w, p)
               IN [x |-> painted.x - looked.x, y |-> painted.y - looked.y]

\* The mouse goes by another plot than the renderer.  Where the labels are no
\* longer than current_layout assumes, the two are at most 8 and 6 pixels apart,
\* and a point is found at the middle of every marker that is no farther from its
\* place than the tolerance: with a tolerance of 10 of all, with the 8 of the code
\* not of one in the corner, 10 pixels aside.
TargetsAreHit ==
    win.kind \in Lines /\ IsPainted(win) /\ win.tick.w <= kAxisGutter /\ win.tick.h <= kBottomGutter =>
        \A s \in Drawn(win) : \A p \in Markers(win, s) :
            LET d == Aside(win, p)
            IN /\ d.x \in -8..8 /\ d.y \in -6..6
               /\ Tolerance >= 10 \/ d.x * d.x + d.y * d.y <= Tolerance * Tolerance =>
                      HitTestPoint(win, NormalizePoint(win, p)) # {}

\* Lines stay in the plot, and a spline whose points are evenly spaced does
\* not turn back between two of them.
LinesLaidOut(w) == \A s \in Drawn(w) :
    LET line == Polyline(w, s)
        IsEven == \A i \in 1..(Len(line) - 2) : line[i + 2].x - line[i + 1].x = line[i + 1].x - line[i].x
        outline == IF w.kind = "area" THEN Area(w, s) ELSE line
    IN /\ \A p \in Range(outline) : /\ Plot(w).left <= p.x /\ p.x <= Plot(w).right
                                   /\ Plot(w).top <= p.y /\ p.y <= Plot(w).bottom
       /\ w.kind = "spline" /\ IsEven => \A i \in 1..(Len(line) - 1) :
              line[i + 1].x >= line[i].x + 2 => \A c \in {1, 2} :
                  line[i].x <= Control(line, i, w.tension)[c] /\ Control(line, i, w.tension)[c] <= line[i + 1].x

\* There is a pixel for each bar that is shown.
HasRoom(w) ==
    IF w.kind = "bar"
    THEN BandWidth(w) > 0 /\ (w.stacked \/ Band(w, 1).to - Band(w, 1).from >= VisibleSeriesCount(w))
    ELSE Height(Plot(w)) >= BarCount(w) /\ (w.stacked \/ RowHeight(w) >= VisibleSeriesCount(w))

\* Grouped bars are placed by their number among all the series, so that
\* hiding a series before another would push that one out of its lane.
HiddenAreLast(w) == \A s, t \in DOMAIN w.series : s < t /\ t \in Shown(w) => s \in Shown(w)

\* Bars keep to the plot and to the band of their category and do not cover
\* each other.  A stack has no holes, its top is where the ticks read the
\* sum of what is shown, and the total of a row is written at its end.
KeepPlace(bars, w) ==
    LET step == IF w.kind = "bar" THEN BandWidth(w) ELSE RowHeight(w)
        start == IF w.kind = "bar" THEN Plot(w).left ELSE Plot(w).top
    IN /\ \A b \in bars : /\ start + (b.at - 1) * step <= b.lane.from /\ b.lane.to <= start + b.at * step
                          /\ 0 <= b.from /\ b.to <= SpanOf(w)
       /\ \A b, c \in bars : b # c => Apart(Rect(b.lane.from, b.from, b.lane.to, b.to),
                                            Rect(c.lane.from, c.from, c.lane.to, c.to))
       /\ w.stacked => \A b \in bars : b.from = 0 \/ \E c \in bars : c.at = b.at /\ c.to = b.from
       /\ w.stacked /\ w.y[1] = 0 => \A b \in bars :
              LET top == OnSpan(Sum(w, b.at), TickAxis(w), SpanOf(w))
              IN (\A c \in bars : c.at = b.at => c.to <= b.to) => b.to = top /\ TotalAt(w, b.at) = top

BarsLaidOut(w) == HasRoom(w) /\ (w.stacked \/ HiddenAreLast(w)) => KeepPlace(PaintedBars(w), w)

\* The legend has a row for each series that is shown, inside the window and
\* beside the plot.
LegendLaidOut(w) == HasLegend(w) =>
    /\ Legend(w).left >= Plot(w).right /\ Legend(w).right <= w.size.w
    /\ Height(Plot(w)) >= Height(Legend(w)) =>
           /\ Plot(w).top <= Legend(w).top /\ Legend(w).bottom <= Plot(w).bottom
           /\ Cardinality(Shown(w)) * kLegendRowH + kLegendPadY <= Height(Legend(w))

\* What a chart paints keeps to its place, whatever is hidden or resized.
LaidOut == IsPainted(win) =>
    /\ win.kind \in Lines => LinesLaidOut(win)
    /\ win.kind \in Bars /\ BarCount(win) > 0 => BarsLaidOut(win)
    /\ LegendLaidOut(win)
=============================================================================
