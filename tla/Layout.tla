------------------------------- MODULE Layout ------------------------------
(***************************************************************************)
(* The layouts of src/layout/Layout.cpp, and a window that uses them: a    *)
(* splitter that the user drags, a row and a column of items, and a child  *)
(* anchored to the edges of its parent.                                    *)
(***************************************************************************)
EXTENDS Pixels, Sequences

CONSTANTS Sizes,       \* The sizes that the window can have.
          Ratios,      \* The shares of the first pane, in percent; any integer.
          Thicknesses, \* The widths asked of the splitter; any integer.
          Originals    \* Where a child was placed, in a parent of the first size.

AnchorFlags == {"left", "top", "right", "bottom"}

\* nfui::Rect has an origin and a size.
At(x, y, width, height) == [x |-> x, y |-> y, width |-> width, height |-> height]

ClampRatio(ratio) == Larger(0, Smaller(ratio, 100))

\* How much of an extent the first pane gets.
Share(extent, ratio, thickness) ==
    Larger(0, Smaller(Div(extent * ClampRatio(ratio), 100), extent - thickness))

SplitHorizontally(b, ratio, asked) ==
    LET thickness == Larger(asked, 0)
        share == Share(b.width, ratio, thickness)
    IN [first |-> At(b.x, b.y, share, b.height),
        splitter |-> At(b.x + share, b.y, thickness, b.height),
        second |-> At(b.x + share + thickness, b.y, b.width - share - thickness, b.height)]

SplitVertically(b, ratio, asked) ==
    LET thickness == Larger(asked, 0)
        share == Share(b.height, ratio, thickness)
    IN [first |-> At(b.x, b.y, b.width, share),
        splitter |-> At(b.x, b.y + share, b.width, thickness),
        second |-> At(b.x, b.y + share + thickness, b.width, b.height - share - thickness)]

\* Where each of these extents begins, and where one more would.
Starts(start, extents, gap) ==
    LET at[i \in 1..(Len(extents) + 1)] ==
            IF i = 1 THEN start ELSE at[i - 1] + extents[i - 1] + gap
    IN at

LayoutHorizontal(b, widths, gap) ==
    [i \in DOMAIN widths |-> At(Starts(b.x, widths, gap)[i], b.y, widths[i], b.height)]

LayoutVertical(b, heights, gap) ==
    [i \in DOMAIN heights |-> At(b.x, Starts(b.y, heights, gap)[i], b.width, heights[i])]

\* Along one axis: both edges stretch, the far one alone moves.
AnchoredStart(start, delta, near, far) == IF far /\ ~near THEN start + delta ELSE start
AnchoredExtent(extent, delta, near, far) == IF near /\ far THEN Larger(0, extent + delta) ELSE extent

AnchorLayout(r, original, new, flags) ==
    LET dw == new.w - original.w
        dh == new.h - original.h
        left == "left" \in flags
        top == "top" \in flags
        right == "right" \in flags
        bottom == "bottom" \in flags
    IN At(AnchoredStart(r.x, dw, left, right), AnchoredStart(r.y, dh, top, bottom),
          AnchoredExtent(r.width, dw, left, right), AnchoredExtent(r.height, dh, top, bottom))

-----------------------------------------------------------------------------
(* A window that splits its client area and anchors a child.               *)

VARIABLE win
\* size; ratio, thickness: the splitter; child, was, flags: the child as it was
\* placed, in a window of that size; and how all of it is laid out now.
Laid(size, ratio, thickness, child, was, flags) ==
    LET panes == SplitHorizontally(At(0, 0, size.w, size.h), ratio, thickness)
    IN [size |-> size, ratio |-> ratio, thickness |-> thickness, child |-> child, was |-> was, flags |-> flags,
        panes |-> panes,
        stacked |-> SplitVertically(panes.second, ratio, thickness),
        row |-> LayoutHorizontal(panes.first, <<100, 200, 300>>, 10),
        column |-> LayoutVertical(panes.first, <<100, 150>>, 8),
        anchored |-> AnchorLayout(child, was, size, flags)]

Init == \E size \in Sizes, ratio \in Ratios, thickness \in Thicknesses, child \in Originals,
           flags \in SUBSET AnchorFlags : win = Laid(size, ratio, thickness, child, size, flags)

Resize == \E size \in Sizes : win' = Laid(size, win.ratio, win.thickness, win.child, win.was, win.flags)
DragSplitter == \E ratio \in Ratios :
    win' = Laid(win.size, ratio, win.thickness, win.child, win.was, win.flags)

Next == Resize \/ DragSplitter

Spec == Init /\ [][Next]_win

-----------------------------------------------------------------------------
(* Properties.                                                             *)

Within(extent, thickness) == Larger(thickness, 0) <= extent

\* The two panes and the splitter cover the bounds from one end to the other,
\* and none has a negative extent if the splitter fits (split_horizontally).
TiledAcross(b, s, fits) ==
    /\ s.first.x = b.x /\ s.splitter.x = s.first.x + s.first.width
    /\ s.second.x = s.splitter.x + s.splitter.width
    /\ s.second.x + s.second.width = b.x + b.width
    /\ fits => s.first.width >= 0 /\ s.splitter.width >= 0 /\ s.second.width >= 0

\* The same from the top to the bottom (split_vertically).
TiledDown(b, s, fits) ==
    /\ s.first.y = b.y /\ s.splitter.y = s.first.y + s.first.height
    /\ s.second.y = s.splitter.y + s.splitter.height
    /\ s.second.y + s.second.height = b.y + b.height
    /\ fits => s.first.height >= 0 /\ s.splitter.height >= 0 /\ s.second.height >= 0

\* An anchored child keeps its distance to the far edge, unless its extent
\* was cut at zero, and to the near edge, unless only the far one holds it.
KeepsDistance(start, extent, parent, start0, extent0, parent0, near, far) ==
    /\ extent >= 0
    /\ far => extent = 0 \/ parent - (start + extent) = parent0 - (start0 + extent0)
    /\ near \/ ~far => start = start0

\* Layout.hpp:44-49: "Distances to anchored edges are preserved; unanchored
\* edges keep their original offset from the parent origin".
ChildIsAnchored ==
    LET r == win.anchored
        c == win.child
    IN /\ KeepsDistance(r.x, r.width, win.size.w, c.x, c.width, win.was.w,
                        "left" \in win.flags, "right" \in win.flags)
       /\ KeepsDistance(r.y, r.height, win.size.h, c.y, c.height, win.was.h,
                        "top" \in win.flags, "bottom" \in win.flags)
       /\ win.size = win.was => r = c

\* However the splitter was dragged and the window resized, the panes tile the
\* window, and those of the second pane tile that.
PanesTile ==
    /\ TiledAcross(At(0, 0, win.size.w, win.size.h), win.panes, Within(win.size.w, win.thickness))
    /\ TiledDown(win.panes.second, win.stacked, Within(win.size.h, win.thickness))

\* And the items of a row and of a column keep their gap (layout_horizontal,
\* layout_vertical).
LaidOut ==
    /\ PanesTile /\ ChildIsAnchored
    /\ \A i \in 1..(Len(win.row) - 1) : win.row[i + 1].x = win.row[i].x + win.row[i].width + 10
    /\ \A i \in 1..(Len(win.column) - 1) :
           win.column[i + 1].y = win.column[i].y + win.column[i].height + 8
=============================================================================
