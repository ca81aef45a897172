---------------------------- MODULE SettingsForm ---------------------------
(***************************************************************************)
(* The page of the settings sample (samples/NativeFrameUISettingsDemo):    *)
(* one layout places the child windows, what is painted around them, and   *)
(* the three segments of the theme that are painted and hit.               *)
(***************************************************************************)
EXTENDS Pixels

CONSTANTS Sizes, Scales

None == -1

VARIABLE win
(***************************************************************************)
(* size, dpi, laid: the client area, its scale and the layout of both.     *)
(* hovered, tracking: the segment under the pointer; the leave message is  *)
(*   due.  refused (a history): the last request for it failed.            *)
(* asked: the surfaces the last handler asked to repaint.                  *)
(***************************************************************************)
Quiet(w) == [w EXCEPT !.asked = {}]
Asking(w, surfaces) == [w EXCEPT !.asked = @ \cup surfaces]

-----------------------------------------------------------------------------
(* compute_layout.  The columns are centred; the rows are a running sum.   *)

Column(size, dpi) ==
    LET S(v) == Scaled(dpi, v)
        width == Larger(Smaller(S(1040), size.w - 2 * S(24)), Smaller(S(640), size.w))
        left == Div(size.w - width, 2)
    IN [left |-> left, right |-> left + width]

\* A label, an input and a help text, below y.
Field(dpi, x, y, width) ==
    LET S(v) == Scaled(dpi, v)
    IN [input |-> Box(x, y + S(18) + S(8), width, S(32)),
        bottom |-> y + S(18) + S(8) + S(32) + S(8) + S(18)]

Check(dpi, x, right, y) ==
    LET S(v) == Scaled(dpi, v)
    IN [input |-> Rect(x, y, right, y + S(24)), bottom |-> y + S(24) + S(4) + S(18)]

\* The fields of the card, from x to right.
Fields(dpi, x, right, top) ==
    LET S(v) == Scaled(dpi, v)
        head == S(22) + S(12)
        intro == top + S(20) + S(16) + S(2) + S(26) + S(4) + S(18) + S(16)
                 + Larger(1, S(1)) + S(16)
        wide == Smaller(S(460), right - x)
        profile == Field(dpi, x, intro + head, wide)
        root == Field(dpi, x, profile.bottom + S(16), wide)
        theme == Field(dpi, x, root.bottom + S(24) + head, Smaller(S(360), right - x))
        autosave == Check(dpi, x, right, theme.bottom + S(24) + head)
        splash == Check(dpi, x, right, autosave.bottom + S(16))
        verbose == Check(dpi, x, right, splash.bottom + S(16))
    IN [profile |-> profile.input, root |-> root.input, theme |-> theme.input,
        autosave |-> autosave.input, splash |-> splash.input, verbose |-> verbose.input,
        bottom |-> verbose.bottom]

\* The column of navigation, the card beside it and the button above them; the
\* texts of the header and of the column are left out.
Shell(c, size, dpi) ==
    LET S(v) == Scaled(dpi, v)
        top == S(96) + S(24)
        list == top + S(18) + S(16) + S(8)
    IN [nav |-> Rect(c.left + S(8), list, c.left + S(216) - S(8), list + 3 * S(44)),
        save |-> Box(c.right - S(150), S(26), S(150), S(40)),
        card |-> Rect(c.left + S(216) + S(16), top, c.right, Larger(top, size.h - S(24)))]

Geometry(size, dpi) ==
    LET shell == Shell(Column(size, dpi), size, dpi)
        x == shell.card.left + Scaled(dpi, 24)
        fields == Fields(dpi, x, Larger(x, shell.card.right - Scaled(dpi, 24)), shell.card.top)
    IN [part \in DOMAIN shell \cup DOMAIN fields |->
            IF part \in DOMAIN shell THEN shell[part] ELSE fields[part]]

\* layout_controls moves the children and repaints the page.
LayoutControls(w) == Asking([w EXCEPT !.laid = Geometry(w.size, w.dpi)], {"main"})

-----------------------------------------------------------------------------
(* The segments of the theme.                                              *)

PaintedSegment(laid, k) ==
    LET b == laid.theme
        width == b.right - b.left
    IN Rect(b.left + Div(width * k, 3), b.top, b.left + Div(width * (k + 1), 3), b.bottom)

SegmentAt(laid, p) ==
    LET b == laid.theme
        width == b.right - b.left
    IN IF ~Contains(b, p) \/ width <= 0 THEN None
       ELSE Smaller(Div((p.x - b.left) * 3, width), 2)

Init ==
    \E size \in Sizes, dpi \in Scales :
        win = [size |-> size, dpi |-> dpi, laid |-> Geometry(size, dpi),
               hovered |-> None, tracking |-> FALSE, refused |-> FALSE, asked |-> {}]

Resize == \E size \in Sizes : win' = LayoutControls([Quiet(win) EXCEPT !.size = size])

\* WM_DPICHANGED: the suggested size, and the layout twice.
DpiChanged ==
    \E dpi \in Scales \ {win.dpi}, size \in Sizes :
        win' = LayoutControls(LayoutControls(
                   [Quiet(win) EXCEPT !.dpi = dpi, !.size = size]))

\* The pointer is over a segment, or elsewhere on the page.
Aimed(k) == IF k = None THEN [x |-> 1, y |-> 1]
            ELSE Middle(PaintedSegment(win.laid, k))

\* The leave message is asked for unless it is due; the request may fail, and
\* then the next movement repeats it.
Tracked(w, granted) ==
    IF w.tracking THEN w ELSE [w EXCEPT !.tracking = granted, !.refused = ~granted]

MouseMove(k) ==
    LET hit == SegmentAt(win.laid, Aimed(k))
    IN \E granted \in {g \in BOOLEAN : win.tracking => g} :
           LET w == Tracked(Quiet(win), granted)
           IN win' = IF hit = w.hovered THEN w ELSE Asking([w EXCEPT !.hovered = hit], {"main"})

MouseLeave ==
    /\ win.tracking
    /\ win' = Asking([Quiet(win) EXCEPT !.tracking = FALSE, !.hovered = None],
                     IF win.hovered = None THEN {} ELSE {"main"})

Next ==
    \/ Resize
    \/ DpiChanged
    \/ \E k \in {None, 0, 1, 2} : MouseMove(k)
    \/ MouseLeave

Spec == Init /\ [][Next]_win

-----------------------------------------------------------------------------
(* Properties.                                                             *)

\* A segment is hit in its middle and within a pixel of both of its edges as
\* painted, whatever the division of the width by three leaves over.  In a
\* theme of three or four pixels it may be hit beside where it is painted.
SegmentsAreHit ==
    win.laid.theme.right - win.laid.theme.left >= 5 =>
        \A k \in 0..2 :
            LET r == PaintedSegment(win.laid, k)
            IN /\ SegmentAt(win.laid, Middle(r)) = k
               /\ SegmentAt(win.laid, [x |-> r.right - 1, y |-> r.top]) = k
               /\ SegmentAt(win.laid, [x |-> r.left + 1, y |-> r.top]) = k

\* The page of a hovered segment will be told that the pointer left, or the
\* request for that failed and the next movement makes it again.
HoverEnds == win.hovered # None => win.tracking \/ win.refused

\* The inputs do not cover one another, and a window as high as the sample makes
\* its own has all of them on the card.
LaidOut ==
    LET g == win.laid
        inputs == {"profile", "root", "theme", "autosave", "splash", "verbose"}
        children == inputs \cup {"nav", "save"}
    IN /\ g = Geometry(win.size, win.dpi)
       /\ g.card.left < g.card.right =>
              \A r, s \in children : r # s => Apart(g[r], g[s])
       /\ win.size.h >= Scaled(win.dpi, 860) => g.bottom <= g.card.bottom

\* What changes on the page is repainted.
Repainted == <<win.laid, win.hovered>> # <<win'.laid, win'.hovered>> => "main" \in win'.asked
=============================================================================
