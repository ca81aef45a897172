----------------------------- MODULE SliderRail ----------------------------
(***************************************************************************)
(* A slider (src/controls/Slider.cpp): a rail, the part of it that is      *)
(* filled and a disc at its end, painted over a trackbar of Win32 that     *)
(* keeps the range and the position and moves them with mouse and keys.    *)
(***************************************************************************)
EXTENDS Pixels

CONSTANTS Sizes, Scales,
          Ranges,    \* The pairs low <= high that it can be given.
          Positions, \* The positions, in the range or not.
          Radii      \* The radii of the disc that a style can ask for.

Orientations == {"horizontal", "vertical"}
Palettes == {"light", "dark"}
Default == 0
CornerRadiusControl == 6
Spacing == 8

VARIABLE win
(***************************************************************************)
(* size, dpi: of the slider.  low, high, pos: of the trackbar.             *)
(* orientation, radius: of Slider; radius is Default if the style has none.*)
(* enabled, focus, palette: how it is painted.                             *)
(* asked: whether the last call asked to repaint it.                       *)
(***************************************************************************)
Asking(w) == [w EXCEPT !.asked = TRUE]

-----------------------------------------------------------------------------
(* compute_geometry.                                                       *)

AskedRadius(w) == IF w.radius = Default THEN CornerRadiusControl ELSE w.radius

\* What the rail leaves free at its ends.
Inset(w) == Scaled(w.dpi, AskedRadius(w))

\* The radius that a style asks for is not scaled.
ThumbRadius(w) == IF w.radius = Default THEN Inset(w) ELSE w.radius

Channel(w) == Larger(2, Scaled(w.dpi, Spacing \div 2))

\* Along the rail of a slider this long: the rail, the filled part and the disc.
Along(w, length) ==
    LET start == Inset(w)
        end == length - Inset(w)
        span == Larger(1, w.high - w.low)
        done == IF w.orientation = "vertical" THEN w.high - w.pos ELSE w.pos - w.low
        centre == start + Div((end - start) * done, span)
    IN [start |-> start, end |-> end, centre |-> centre,
        filled |-> IF w.orientation = "vertical" THEN <<centre, end>> ELSE <<start, centre>>]

Length(w) == IF w.orientation = "vertical" THEN w.size.h ELSE w.size.w
Across(w) == IF w.orientation = "vertical" THEN w.size.w ELSE w.size.h

ComputeGeometry(w) ==
    [along |-> Along(w, Length(w)), across |-> Div(Across(w) - Channel(w), 2), channel |-> Channel(w),
     radius |-> ThumbRadius(w)]

\* Nothing is painted on a rail without a length.
IsPainted(w) == Length(w) > 2 * Inset(w)

\* A disabled slider has no ring, and the colours of a secondary text.
PaintChrome(w) ==
    IF ~IsPainted(w) THEN [size |-> w.size]
    ELSE [size |-> w.size, geometry |-> ComputeGeometry(w), orientation |-> w.orientation,
          palette |-> w.palette, enabled |-> w.enabled, ring |-> w.enabled /\ w.focus]

-----------------------------------------------------------------------------
(* The slider.                                                             *)

Create(size, dpi, palette) ==
    [size |-> size, dpi |-> dpi, low |-> 0, high |-> 100, pos |-> 0, orientation |-> "horizontal",
     radius |-> Default, enabled |-> TRUE, focus |-> FALSE, palette |-> palette, asked |-> FALSE]

Init == \E size \in Sizes, dpi \in Scales, palette \in Palettes : win = Create(size, dpi, palette)

SetOrientation == \E orientation \in Orientations :
    win' = IF orientation = win.orientation THEN [win EXCEPT !.asked = FALSE]
           ELSE Asking([win EXCEPT !.orientation = orientation])

SetStyle == \E radius \in Radii \cup {Default} : win' = Asking([win EXCEPT !.radius = radius])

\* The trackbar keeps its position within its range, and repaints.
Moved(w, pos) == Asking([w EXCEPT !.pos = Larger(w.low, Smaller(pos, w.high))])

SetRange == \E r \in Ranges : win' = Moved([win EXCEPT !.low = r[1], !.high = r[2]], win.pos)
SetPos == \E pos \in Positions : win' = Moved(win, pos)

\* WM_SETFOCUS and WM_KILLFOCUS of visual_subclass_proc.
FocusChanged == win' = Asking([win EXCEPT !.focus = ~win.focus])

\* Win32, set_palette and the trackbar repaint it.
Enable == win' = Asking([win EXCEPT !.enabled = ~win.enabled])
PaletteChanged == \E palette \in Palettes : win' = Asking([win EXCEPT !.palette = palette])
Resize == \E size \in Sizes, dpi \in Scales : win' = Asking([win EXCEPT !.size = size, !.dpi = dpi])

Next == SetOrientation \/ SetStyle \/ SetRange \/ SetPos \/ FocusChanged \/ Enable \/ PaletteChanged \/ Resize

Spec == Init /\ [][Next]_win

-----------------------------------------------------------------------------
(* Properties.                                                             *)

\* paint_chrome shows nothing that was not asked to be painted again.
Repainted == PaintChrome(win') # PaintChrome(win) => win'.asked

\* Wherever the slider was moved and whatever its range became, the disc is
\* on the rail and not cut off at an end of the slider, it reaches the end of
\* the rail at the end of the range, and the filled part ends at the disc.
LaidOut ==
    IsPainted(win) =>
        LET g == ComputeGeometry(win)
            high == IF win.orientation = "vertical" THEN g.along.start ELSE g.along.end
            low == IF win.orientation = "vertical" THEN g.along.end ELSE g.along.start
        IN /\ g.along.start <= g.along.centre /\ g.along.centre <= g.along.end
           /\ 0 <= g.along.centre - g.radius /\ g.along.centre + g.radius <= Length(win)
           /\ win.low < win.high => /\ win.pos = win.high => g.along.centre = high
                                    /\ win.pos = win.low => g.along.centre = low
           /\ low \in {g.along.filled[1], g.along.filled[2]}
           /\ g.along.centre \in {g.along.filled[1], g.along.filled[2]}
=============================================================================
