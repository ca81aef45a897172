-------------------------- MODULE DashboardPanels --------------------------
(***************************************************************************)
(* The pointer, the layout and the texts of the interactive dashboard      *)
(* (samples/NativeFrameUIChartsInteractive): toolbar, info panel, cards    *)
(* and status strip.  Themes and data are in module Dashboard.             *)
(*                                                                         *)
(* The pointer is where something is painted: a click goes to the middle   *)
(* of what the user sees, and the hit test decides what it means.          *)
(***************************************************************************)
EXTENDS Pixels

CONSTANTS Rows,          \* the series of the info panel, 0 .. n - 1
          ClientSizes    \* sizes of the client area, [w, h]

Buttons == {"theme", "export", "reset", "settings"}
None == "none"
Nowhere == -1         \* in the panel: neither a row nor the comparison toggle
Toggle == -2

VARIABLE win
(***************************************************************************)
(* size, laid: the client area and the rectangles the children were moved  *)
(*   to; compared, shown: the mark of the toggle, the chart's visibility.  *)
(* hovered, pressed, tracking: the toolbar, the leave message is due.      *)
(* refused (a history): the last request for that message failed.          *)
(* checked, ring: the boxes of the panel and the row with a hover ring.    *)
(* selection, readout, status: the last texts given.                       *)
(* asked: the windows the last handler asked to repaint.                   *)
(***************************************************************************)
Texts == {"nothing", "view reset", "exported", "chart"}

Quiet(w) == [w EXCEPT !.asked = {}]
Asking(w, surfaces) == [w EXCEPT !.asked = @ \cup surfaces]

-----------------------------------------------------------------------------
(* Geometry, in pixels.                                                    *)

Title == 32
Status == 28
Padding == 12

ButtonRect(size, b) ==
    LET top == (Title - 22) \div 2
        left == CASE b = "settings" -> size.w - Padding - 22
                  [] b = "reset"    -> size.w - Padding - 52
                  [] b = "export"   -> size.w - Padding - 82
                  [] b = "theme"    -> size.w - Padding - 94 - 72
        width == IF b = "theme" THEN 72 ELSE 22
    IN Rect(left, top, left + width, top + 22)

\* hit_test_toolbar computes the rectangles again.
\* Slip: the gaps between the buttons are forgotten.
HitToolbar_gapless(size, p) ==
    LET x == [settings |-> size.w - Padding - 22, reset |-> size.w - Padding - 44,
              export |-> size.w - Padding - 66, theme |-> size.w - Padding - 138]
        width == [b \in Buttons |-> IF b = "theme" THEN 72 ELSE 22]
        hits == {b \in Buttons : Contains(Rect(x[b], 5, x[b] + width[b], 27), p)}
    IN IF hits = {} THEN None ELSE CHOOSE b \in hits : TRUE

HitToolbar(size, p) ==
    LET hits == {b \in Buttons : Contains(ButtonRect(size, b), p)}
    IN IF hits = {} THEN None ELSE CHOOSE b \in hits : TRUE

\* Where on_paint of the panel draws the box of a row, and of the toggle.
PaintedBox(row) ==
    LET y == 28 + 14 + (14 + 6) + (18 + 12) + (14 + 6) + row * (16 + 13 + 8)
    IN Rect(Padding, y + 1, Padding + 14, y + 15)

PaintedToggle == LET y == 28 + 14 + 14 + 6
                 IN Rect(Padding, y + 1, Padding + 14, y + 15)

\* Where a press counts for the box of a row, and for the toggle.
BoxTarget(row) ==
    LET y == 28 + 14 + 50 + row * (18 + 14 + 10)
    IN Rect(Padding - 6, y, Padding + 14 + 6, y + 18)

ToggleTarget == LET y == 28 + 14 + 14 + 6
                IN Rect(Padding - 6, y, Padding + 14 + 6, y + 18)

HitBox(p) ==
    LET hits == {row \in Rows : Contains(BoxTarget(row), p)}
    IN IF hits = {} THEN Nowhere ELSE CHOOSE row \in hits : TRUE

\* The cards below the title strip.  A chart that is not compared has the
\* height of both.
Geometry(size, compared) ==
    LET body == size.h - Status - Title
        remaining == body - 132 - 3 * Padding
        left == Padding
        right == size.w - Padding - 320 - Padding
        kpi == Title + Padding
        primary == kpi + 132 + Padding
        height == IF compared THEN Div(remaining * 55, 100) ELSE remaining
        second == IF compared THEN remaining - height - Padding ELSE 0
        below == primary + height + Padding
    IN [kpi |-> Rect(left, kpi, right, kpi + 132),
        primary |-> Rect(left, primary, right, primary + height),
        comparison |-> Rect(left, below, right, below + second),
        info |-> Rect(size.w - Padding - 320, Title, size.w - Padding, size.h - Status)]

\* The three tiles share the width of their row; they stay where they are when
\* there is no room for them.
TileRow(row, before) ==
    LET width == Div((row.right - row.left) - 24, 3)
    IN IF width <= 0 THEN before
       ELSE [k \in 0..2 |-> Rect(row.left + k * (width + 12), row.top,
                                 row.left + k * (width + 12) + width, row.bottom)]

LayoutChildren(w) ==
    LET g == Geometry(w.size, w.compared)
    IN Asking([w EXCEPT !.laid = g, !.tiles = TileRow(g.kpi, w.tiles)],
              {"main", "info"})

Init ==
    \E size \in ClientSizes :
        LET g == Geometry(size, TRUE)
        IN win = [size |-> size, laid |-> g, tiles |-> TileRow(g.kpi, <<>>),
                  compared |-> TRUE, shown |-> TRUE,
                  hovered |-> None, pressed |-> None, tracking |-> FALSE,
                  refused |-> FALSE,
                  checked |-> [row \in Rows |-> TRUE], ring |-> Nowhere,
                  selection |-> "none", readout |-> "none", status |-> "nothing",
                  asked |-> {}]

-----------------------------------------------------------------------------
(* The window and its toolbar.                                             *)

Resize ==
    \E size \in ClientSizes :
        win' = LayoutChildren([Quiet(win) EXCEPT !.size = size])

\* The pointer is over button b, or over none of them.
Aimed(b) == IF b = None THEN [x |-> Padding, y |-> Title \div 2]
            ELSE Middle(ButtonRect(win.size, b))

\* The leave message is asked for unless it is due; the request may fail, and
\* then the next movement repeats it.
Tracked(w, granted) ==
    IF w.tracking THEN w ELSE [w EXCEPT !.tracking = granted, !.refused = ~granted]

\* Slip: the window does not ask for the leave message.
MouseMove_untracked(b) ==
    LET hit == HitToolbar(win.size, Aimed(b))
    IN win' = Asking([Quiet(win) EXCEPT !.hovered = hit], {"main"})

MouseMove(b) ==
    LET hit == HitToolbar(win.size, Aimed(b))
    IN \E granted \in {g \in BOOLEAN : win.tracking => g} :
           LET w == Tracked(Quiet(win), granted)
           IN win' = IF hit = w.hovered THEN w
                     ELSE Asking([w EXCEPT !.hovered = hit], {"main"})

MouseLeave ==
    /\ win.tracking
    /\ win' = Asking([Quiet(win) EXCEPT !.tracking = FALSE, !.hovered = None],
                     IF win.hovered = None THEN {} ELSE {"main"})

LButtonDown(b) ==
    win' = Asking([Quiet(win) EXCEPT !.pressed = HitToolbar(win.size, Aimed(b))],
                  {"main"})

SetStatusText(w, text) == Asking([w EXCEPT !.status = text], {"main"})

\* What the buttons do beyond what module Dashboard says of theme and settings.
Command(w, button) ==
    CASE button = "reset"  -> SetStatusText(w, "view reset")
      [] button = "export" -> SetStatusText(w, "exported")
      [] OTHER             -> w

LButtonUp(b) ==
    LET hit == HitToolbar(win.size, Aimed(b))
        w == Asking([Quiet(win) EXCEPT !.pressed = None], {"main"})
    IN win' = IF hit # None /\ hit = win.pressed THEN Command(w, hit) ELSE w

-----------------------------------------------------------------------------
(* The info panel.                                                         *)

AimedInPanel(t) ==
    IF t \in Rows THEN Middle(PaintedBox(t))
    ELSE IF t = Toggle THEN Middle(PaintedToggle)
    ELSE [x |-> 200, y |-> 10]

\* WM_COMMAND of the toggle: show or hide the second chart and lay out again.
\* Slip: the chart is shown or hidden where it is.
ToggleComparison_unlaid(w) == [w EXCEPT !.shown = w.compared]

ToggleComparison(w) == LayoutChildren([w EXCEPT !.shown = w.compared])

\* The panel flips its mark before it sends the command.
PanelPress(t) ==
    LET p == AimedInPanel(t)
        row == HitBox(p)
        w == Quiet(win)
    IN win' = IF row \in Rows
              THEN Asking([w EXCEPT !.checked[row] = ~@], {"info"})
              ELSE IF Contains(ToggleTarget, p)
              THEN Asking(ToggleComparison([w EXCEPT !.compared = ~@]), {"info"})
              ELSE w

\* The ring follows the pointer inside the panel.  The panel never asks for a
\* leave message, and so none comes.
PanelMove(t) ==
    LET row == HitBox(AimedInPanel(t))
    IN win' = IF row = win.ring THEN Quiet(win)
              ELSE Asking([Quiet(win) EXCEPT !.ring = row], {"info"})

\* The callbacks of the primary chart.
RangeSelected(points) ==
    LET w == Asking([Quiet(win) EXCEPT !.selection = points], {"info"})
    IN win' = SetStatusText(w, "chart")

CursorMoved(values) ==
    LET w == Asking([Quiet(win) EXCEPT !.readout = values], {"info"})
    IN win' = IF values = "values" THEN SetStatusText(w, "chart") ELSE w

-----------------------------------------------------------------------------
Next ==
    \/ Resize
    \/ \E b \in Buttons \cup {None} : MouseMove(b)
    \/ MouseLeave
    \/ \E b \in Buttons \cup {None} : LButtonDown(b)
    \/ \E b \in Buttons \cup {None} : LButtonUp(b)
    \/ \E t \in Rows \cup {Toggle, Nowhere} : PanelPress(t)
    \/ \E t \in Rows \cup {Toggle, Nowhere} : PanelMove(t)
    \/ \E points \in {"empty", "points"} : RangeSelected(points)
    \/ \E values \in {"empty", "values"} : CursorMoved(values)

Spec == Init /\ [][Next]_win

-----------------------------------------------------------------------------
(* Properties.                                                             *)

\* What the panel paints under SELECTION and CURSOR READOUT: it returns after
\* the hint when there is nothing selected, and so the readout is part of it
\* only with a selection.
PanelTexts(w) ==
    IF w.selection \in {"none", "empty"} THEN <<w.selection>>
    ELSE <<w.selection, w.readout>>

Face(w) ==
    [main |-> <<w.size, w.hovered, w.status>>,
     info |-> <<w.laid.info, w.compared, w.checked, w.ring, PanelTexts(w)>>]

\* A press in the middle of a button or of the toggle hits it, in every window
\* size, and one on the toggle is not taken for a row.  (The boxes of the rows are
\* painted 21 pixels below the targets that answer for them.)
ButtonsAreHit ==
    /\ \A b \in Buttons : HitToolbar(win.size, Middle(ButtonRect(win.size, b))) = b
    /\ Contains(ToggleTarget, Middle(PaintedToggle))
    /\ HitBox(Middle(PaintedToggle)) = Nowhere

\* The window of a hovered button will be told that the pointer left, or the
\* request for that failed and the next movement makes it again.
HoverEnds == win.hovered # None => win.tracking \/ win.refused

\* The children are where the present size and the toggle want them, and the
\* cards do not overlap as long as the window leaves them any height.
LaidOut ==
    LET g == win.laid
    IN /\ win.shown = win.compared
       /\ g = Geometry(win.size, win.compared)
       /\ g.primary.top < g.primary.bottom =>
             /\ g.kpi.bottom < g.primary.top
             /\ g.primary.bottom < g.comparison.top
             /\ g.comparison.bottom <= IF win.compared THEN g.info.bottom
                                       ELSE g.info.bottom + Padding
       /\ g.kpi.right < g.info.left

\* What changes on a surface is repainted.
Repainted == \A s \in {"main", "info"} : Face(win)[s] # Face(win')[s] => s \in win'.asked

=============================================================================
