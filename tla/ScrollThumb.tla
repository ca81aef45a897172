---------------------------- MODULE ScrollThumb ----------------------------
(***************************************************************************)
(* A scroll bar of its own (src/controls/Scrollbar.cpp): the thumb, where  *)
(* it is painted and where the mouse finds it.  Lists and trees paint their*)
(* thumbs with the same paint_thumb_into.                                  *)
(***************************************************************************)
EXTENDS Pixels

CONSTANTS Sizes,     \* The sizes that the bar can have.
          Scales,
          Ranges,    \* The pairs of bounds that it can be given.
          Positions  \* The positions that it can be given, in the range or not.

Palettes == {"light", "dark"}
Bar == "bar"

VARIABLE win
(***************************************************************************)
(* size, dpi: of the bar.  vertical, low, high, position: of Scrollbar.    *)
(* hovered, captured: hovered_thumb_, and whether the bar has the mouse.   *)
(* palette: the theme; asked: what the last call asked to repaint.         *)
(***************************************************************************)
Quiet(w) == [w EXCEPT !.asked = {}]
Asking(w) == [w EXCEPT !.asked = {Bar}]

-----------------------------------------------------------------------------
(* The thumb.                                                              *)

RestWidth == 4
HoverWidth == 8

\* A horizontal track has its sides swapped.
TrackRectFor(w) == IF w.vertical THEN Rect(0, 0, w.size.w, w.size.h)
                                 ELSE Rect(0, 0, w.size.h, w.size.w)

LeastLength(dpi) == Scaled(dpi, 24)
ThumbLength(dpi, length) == Larger(length \div 4, LeastLength(dpi))

\* How far the thumb is from the start of its track, for a position anywhere.
ThumbOffset(w, length) ==
    LET clamped == IF w.position < w.low THEN w.low ELSE Smaller(w.position, w.high)
    IN Div((clamped - w.low) * (length - ThumbLength(w.dpi, length)), Larger(1, w.high - w.low))

\* thumb_rect_for: along the track, and in the middle of it across.
ThumbRectFor(w, track, width) ==
    LET length == IF w.vertical THEN track.bottom - track.top ELSE track.right - track.left
        across == IF w.vertical THEN track.right - track.left ELSE track.bottom - track.top
        thickness == Smaller(width, across)
        side == Div(across - thickness, 2)
        offset == ThumbOffset(w, length)
    IN IF w.vertical
       THEN Box(track.left + side, track.top + offset, thickness, ThumbLength(w.dpi, length))
       ELSE Box(track.left + offset, track.top + side, ThumbLength(w.dpi, length), thickness)

\* Where the mouse finds it: wider under the mouse.
ThumbRect(w) ==
    ThumbRectFor(w, TrackRectFor(w), Scaled(w.dpi, IF w.hovered THEN HoverWidth ELSE RestWidth))

\* Where paint_chrome has paint_thumb_into put it: never wider, sides not swapped.
PaintedThumb(w) == ThumbRectFor(w, Rect(0, 0, w.size.w, w.size.h), Scaled(w.dpi, RestWidth))

HitTestThumb(w, p) == Contains(ThumbRect(w), p)

-----------------------------------------------------------------------------
(* The bar.                                                                *)

Create(size, dpi, vertical, palette) ==
    [size |-> size, dpi |-> dpi, vertical |-> vertical, low |-> 0, high |-> 100, position |-> 0,
     hovered |-> FALSE, captured |-> FALSE, palette |-> palette, asked |-> {}]

Init == \E size \in Sizes, dpi \in Scales, vertical \in BOOLEAN, palette \in Palettes :
            win = Create(size, dpi, vertical, palette)

SetRange == \E r \in Ranges : win' = Asking([win EXCEPT !.low = r[1], !.high = r[2]])

\* A position out of the range is kept.
SetPosition == \E position \in Positions : win' = Asking([win EXCEPT !.position = position])

\* set_palette, which also calls on_palette_changed.
PaletteChanged == \E palette \in Palettes : win' = Asking([win EXCEPT !.palette = palette])

\* The class of Win32 repaints a bar that is resized.
Resize == \E size \in Sizes, dpi \in Scales : win' = Asking([win EXCEPT !.size = size, !.dpi = dpi])

Aimed == {Middle(PaintedThumb(win)), [x |-> win.size.w - 1, y |-> win.size.h - 1]}

SubclassMouseMove(w, p) ==
    IF HitTestThumb(w, p) = w.hovered THEN Quiet(w)
    ELSE Asking([w EXCEPT !.hovered = ~w.hovered])

MouseMove == \E p \in Aimed : win' = SubclassMouseMove(win, p)

\* The thumb keeps the mouse: nothing of the bar ever gives it back.
LButtonDown == \E p \in Aimed :
    win' = IF HitTestThumb(win, p) THEN Asking([win EXCEPT !.captured = TRUE]) ELSE Quiet(win)

Next == SetRange \/ SetPosition \/ PaletteChanged \/ Resize \/ MouseMove \/ LButtonDown

Spec == Init /\ [][Next]_win

-----------------------------------------------------------------------------
(* Properties.                                                             *)

Face(w) == [thumb |-> PaintedThumb(w), size |-> w.size, palette |-> w.palette]

\* paint_chrome shows nothing that was not asked to be painted again.
Repainted == Face(win) # Face(win') => Bar \in win'.asked

\* The painted thumb of a vertical bar is where the mouse finds it
\* (thumb_rect and paint_thumb_into), at rest, hovered, and at any scale.
\* That of a horizontal bar is not: track_rect_for swaps the sides of the track.
ThumbIsHit == win.vertical => HitTestThumb(win, Middle(PaintedThumb(win)))

\* Whatever position was set, the thumb stays in a track that has room for
\* the least thumb, and reaches its two ends at the two ends of the range.
LaidOut ==
    LET thumb == PaintedThumb(win)
        start == IF win.vertical THEN thumb.top ELSE thumb.left
        end == IF win.vertical THEN thumb.bottom ELSE thumb.right
        length == IF win.vertical THEN win.size.h ELSE win.size.w
    IN LeastLength(win.dpi) <= length =>
           /\ 0 <= start /\ end <= length
           /\ win.position <= win.low => start = 0
           /\ win.low < win.high /\ win.position >= win.high => end = length
=============================================================================
