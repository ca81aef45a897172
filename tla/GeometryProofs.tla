--------------------------- MODULE GeometryProofs --------------------------
(***************************************************************************)
(* What is laid out has its place, and is hit where it is painted, in      *)
(* windows of any size and at any resolution: the layouts of the library,  *)
(* its scroll bar and its slider, and the windows of the samples.          *)
(***************************************************************************)
EXTENDS ProgramProofs, SequenceTheorems, WellFoundedInduction

-----------------------------------------------------------------------------
(* The layouts.  Where the items of a row begin is a recursive function:   *)
(* that there is one, which obeys its equation, is proved by the least     *)
(* length for which there is none.                                         *)

\* The share of a pane is an integer from zero to what the splitter leaves,
\* or zero if the splitter leaves less than nothing.
LEMMA ShareInRange ==
    ASSUME NEW extent \in Int, NEW ratio \in Int, NEW thickness \in Int
    PROVE  /\ Layouts!Share(extent, ratio, thickness) \in Int
           /\ Layouts!Share(extent, ratio, thickness) >= 0
           /\ extent - thickness >= 0 => Layouts!Share(extent, ratio, thickness) <= extent - thickness
<1> DEFINE product == extent * Layouts!ClampRatio(ratio)
<1>1. Layouts!ClampRatio(ratio) \in Int
  BY DEF Layouts!ClampRatio, Layouts!Larger, Layouts!Smaller
<1>2. product \in Int
  BY <1>1
<1>3. Layouts!Div(product, 100) \in Int
  <2> HIDE DEF product
  <2> QED BY <1>2 DEF Layouts!Div
<1> HIDE DEF product
<1>4. Layouts!Share(extent, ratio, thickness) = Layouts!Larger(0, Layouts!Smaller(Layouts!Div(product, 100), extent - thickness))
  BY DEF Layouts!Share, product
<1> QED BY <1>3, <1>4 DEF Layouts!Larger, Layouts!Smaller

\* split_horizontally: the panes and the splitter cover the bounds across,
\* and none is negative if the splitter fits.
THEOREM SplitTilesAcross ==
    ASSUME NEW b \in [x : Int, y : Int, width : Int, height : Int],
           NEW ratio \in Int, NEW asked \in Int
    PROVE  Layouts!TiledAcross(b, Layouts!SplitHorizontally(b, ratio, asked), Layouts!Within(b.width, asked))
<1> DEFINE thickness == Layouts!Larger(asked, 0)
           share == Layouts!Share(b.width, ratio, thickness)
<1>1. thickness \in Int /\ thickness >= 0
  BY DEF Layouts!Larger
<1>2. /\ share \in Int /\ share >= 0
      /\ b.width - thickness >= 0 => share <= b.width - thickness
  <2> HIDE DEF thickness
  <2> QED BY <1>1, ShareInRange
<1> DEFINE s == Layouts!SplitHorizontally(b, ratio, asked)
<1>4. /\ s.first.x = b.x /\ s.first.width = share
      /\ s.splitter.x = b.x + share /\ s.splitter.width = thickness
      /\ s.second.x = b.x + share + thickness /\ s.second.width = b.width - share - thickness
  BY DEF Layouts!SplitHorizontally, Layouts!At
<1>5. Layouts!Within(b.width, asked) => thickness <= b.width
  BY DEF Layouts!Within
<1>6. b.x \in Int /\ b.width \in Int
  OBVIOUS
<1> HIDE DEF share, thickness, s
<1>7. /\ s.first.x = b.x /\ s.splitter.x = s.first.x + s.first.width
      /\ s.second.x = s.splitter.x + s.splitter.width
  BY <1>4, <1>6
<1>8. s.second.x + s.second.width = b.x + b.width
  BY <1>1, <1>2, <1>4, <1>6
<1>9. thickness <= b.width => s.first.width >= 0 /\ s.splitter.width >= 0 /\ s.second.width >= 0
  BY <1>1, <1>2, <1>4, <1>6
<1> QED BY <1>5, <1>7, <1>8, <1>9 DEF Layouts!TiledAcross, s

\* split_vertically: the same from the top to the bottom.
THEOREM SplitTilesDown ==
    ASSUME NEW b \in [x : Int, y : Int, width : Int, height : Int],
           NEW ratio \in Int, NEW asked \in Int
    PROVE  Layouts!TiledDown(b, Layouts!SplitVertically(b, ratio, asked), Layouts!Within(b.height, asked))
<1> DEFINE thickness == Layouts!Larger(asked, 0)
           share == Layouts!Share(b.height, ratio, thickness)
<1>1. thickness \in Int /\ thickness >= 0
  BY DEF Layouts!Larger
<1>2. /\ share \in Int /\ share >= 0
      /\ b.height - thickness >= 0 => share <= b.height - thickness
  <2> HIDE DEF thickness
  <2> QED BY <1>1, ShareInRange
<1> DEFINE s == Layouts!SplitVertically(b, ratio, asked)
<1>4. /\ s.first.y = b.y /\ s.first.height = share
      /\ s.splitter.y = b.y + share /\ s.splitter.height = thickness
      /\ s.second.y = b.y + share + thickness /\ s.second.height = b.height - share - thickness
  BY DEF Layouts!SplitVertically, Layouts!At
<1>5. Layouts!Within(b.height, asked) => thickness <= b.height
  BY DEF Layouts!Within
<1>6. b.y \in Int /\ b.height \in Int
  OBVIOUS
<1> HIDE DEF share, thickness, s
<1>7. /\ s.first.y = b.y /\ s.splitter.y = s.first.y + s.first.height
      /\ s.second.y = s.splitter.y + s.splitter.height
  BY <1>4, <1>6
<1>8. s.second.y + s.second.height = b.y + b.height
  BY <1>1, <1>2, <1>4, <1>6
<1>9. thickness <= b.height => s.first.height >= 0 /\ s.splitter.height >= 0 /\ s.second.height >= 0
  BY <1>1, <1>2, <1>4, <1>6
<1> QED BY <1>5, <1>7, <1>8, <1>9 DEF Layouts!TiledDown, s

\* The invariant: the window is always laid out for the size it has.
IsLaid ==
    \E size \in WindowSizes.layout, ratio \in Ratios, thickness \in Thicknesses, child \in Originals,
       was \in WindowSizes.layout, flags \in SUBSET Layouts!AnchorFlags :
        win = Layouts!Laid(size, ratio, thickness, child, was, flags)

\* A window is laid out when it is created, at the size it was placed in.
LEMMA LaidAtFirst == Layouts!Init => IsLaid
BY DEF Layouts!Init, IsLaid

\* Whatever changes the window lays it out again.
LEMMA LaidAgain == IsLaid /\ Layouts!Next => IsLaid'
<1> SUFFICES ASSUME IsLaid, Layouts!Next PROVE IsLaid'
  OBVIOUS
<1>1. PICK size \in WindowSizes.layout, ratio \in Ratios, thickness \in Thicknesses, child \in Originals,
           was \in WindowSizes.layout, flags \in SUBSET Layouts!AnchorFlags :
              win = Layouts!Laid(size, ratio, thickness, child, was, flags)
  BY DEF IsLaid
<1>2. /\ win.size = size /\ win.ratio = ratio /\ win.thickness = thickness
      /\ win.child = child /\ win.was = was /\ win.flags = flags
  BY <1>1 DEF Layouts!Laid
<1>3. CASE Layouts!Resize
  <2>1. PICK other \in WindowSizes.layout : win' = Layouts!Laid(other, ratio, thickness, child, was, flags)
    BY <1>2, <1>3 DEF Layouts!Resize
  <2> QED BY <2>1 DEF IsLaid
<1>4. CASE Layouts!DragSplitter
  <2>1. PICK other \in Ratios : win' = Layouts!Laid(size, other, thickness, child, was, flags)
    BY <1>2, <1>4 DEF Layouts!DragSplitter
  <2> QED BY <2>1 DEF IsLaid
<1> QED BY <1>3, <1>4 DEF Layouts!Next

\* So it always is.
LEMMA LaidIsInvariant == Layouts!Spec => []IsLaid
<1>1. IsLaid /\ [Layouts!Next]_win => IsLaid'
  <2>1. IsLaid /\ UNCHANGED win => IsLaid'
    BY DEF IsLaid
  <2> QED BY <2>1, LaidAgain
<1> QED BY <1>1, LaidAtFirst, PTL DEF Layouts!Spec

\* A window laid out for its size is tiled, and so is its second pane.
LEMMA LaidIsTiled == ASSUME IsLaid PROVE Layouts!PanesTile
<1>1. PICK size \in WindowSizes.layout, ratio \in Ratios, thickness \in Thicknesses, child \in Originals,
           was \in WindowSizes.layout, flags \in SUBSET Layouts!AnchorFlags :
              win = Layouts!Laid(size, ratio, thickness, child, was, flags)
  BY DEF IsLaid
<1> DEFINE bounds == Layouts!At(0, 0, size.w, size.h)
           panes == Layouts!SplitHorizontally(bounds, ratio, thickness)
<1>2. /\ win.size = size /\ win.thickness = thickness
      /\ win.panes = panes /\ win.stacked = Layouts!SplitVertically(panes.second, ratio, thickness)
  BY <1>1 DEF Layouts!Laid
<1>3. /\ size.w \in Nat /\ size.h \in Nat /\ ratio \in Int /\ thickness \in Int
  BY SizesAssumption
<1>4. bounds \in [x : Int, y : Int, width : Int, height : Int] /\ bounds.width = size.w
  BY <1>3 DEF Layouts!At
<1>5. panes.second \in [x : Int, y : Int, width : Int, height : Int] /\ panes.second.height = size.h
  <2>1. Layouts!Larger(thickness, 0) \in Int
    BY <1>3 DEF Layouts!Larger
  <2>2. Layouts!Share(bounds.width, ratio, Layouts!Larger(thickness, 0)) \in Int
    BY <1>3, <1>4, <2>1, ShareInRange
  <2> DEFINE thick == Layouts!Larger(thickness, 0)
             share == Layouts!Share(bounds.width, ratio, thick)
  <2>3. panes.second = Layouts!At(bounds.x + share + thick, bounds.y, bounds.width - share - thick, bounds.height)
    BY DEF Layouts!SplitHorizontally
  <2>4. bounds.x = 0 /\ bounds.y = 0 /\ bounds.height = size.h
    BY DEF Layouts!At
  <2> HIDE DEF share, thick, bounds, panes
  <2> QED BY <1>3, <1>4, <2>1, <2>2, <2>3, <2>4 DEF Layouts!At, share, thick
<1> HIDE DEF bounds, panes
<1>6. Layouts!TiledAcross(bounds, panes, Layouts!Within(size.w, thickness))
  BY <1>3, <1>4, SplitTilesAcross DEF panes
<1>7. Layouts!TiledDown(panes.second, Layouts!SplitVertically(panes.second, ratio, thickness), Layouts!Within(size.h, thickness))
  BY <1>3, <1>5, SplitTilesDown
<1> QED BY <1>2, <1>6, <1>7 DEF Layouts!PanesTile, bounds

\* The panes tile the window in every state (split_horizontally, split_vertically).
THEOREM PanesAlwaysTile == Layouts!Spec => []Layouts!PanesTile
<1>1. IsLaid => Layouts!PanesTile
  BY LaidIsTiled
<1> QED BY <1>1, LaidIsInvariant, PTL

\* In a window laid out for its size the child keeps its distances.
LEMMA LaidIsAnchored == ASSUME IsLaid PROVE Layouts!ChildIsAnchored
<1>1. PICK size \in WindowSizes.layout, ratio \in Ratios, thickness \in Thicknesses, child \in Originals,
           was \in WindowSizes.layout, flags \in SUBSET Layouts!AnchorFlags :
              win = Layouts!Laid(size, ratio, thickness, child, was, flags)
  BY DEF IsLaid
<1> DEFINE r == Layouts!AnchorLayout(child, was, size, flags)
<1>2. /\ win.size = size /\ win.child = child /\ win.was = was /\ win.flags = flags /\ win.anchored = r
  BY <1>1 DEF Layouts!Laid
<1>3. /\ size.w \in Int /\ size.h \in Int /\ was.w \in Int /\ was.h \in Int
      /\ child.x \in Int /\ child.y \in Int /\ child.width \in Nat /\ child.height \in Nat
  BY SizesAssumption
<1>4. /\ r.x = Layouts!AnchoredStart(child.x, size.w - was.w, "left" \in flags, "right" \in flags)
      /\ r.width = Layouts!AnchoredExtent(child.width, size.w - was.w, "left" \in flags, "right" \in flags)
      /\ r.y = Layouts!AnchoredStart(child.y, size.h - was.h, "top" \in flags, "bottom" \in flags)
      /\ r.height = Layouts!AnchoredExtent(child.height, size.h - was.h, "top" \in flags, "bottom" \in flags)
  BY DEF Layouts!AnchorLayout, Layouts!At
<1>5. size = was => r = child
  <2> SUFFICES ASSUME size = was PROVE r = child
    OBVIOUS
  <2>1. r = Layouts!At(r.x, r.y, r.width, r.height) /\ child = Layouts!At(child.x, child.y, child.width, child.height)
    BY SizesAssumption DEF Layouts!AnchorLayout, Layouts!At
  <2>2. size.w - was.w = 0 /\ size.h - was.h = 0
    BY <1>3
  <2>3. r.x = child.x /\ r.y = child.y /\ r.width = child.width /\ r.height = child.height
    BY <1>3, <1>4, <2>2 DEF Layouts!AnchoredStart, Layouts!AnchoredExtent, Layouts!Larger
  <2> HIDE DEF r
  <2> QED BY <2>1, <2>3
<1> HIDE DEF r
<1>6. Layouts!KeepsDistance(r.x, r.width, size.w, child.x, child.width, was.w, "left" \in flags, "right" \in flags)
  BY <1>3, <1>4 DEF Layouts!KeepsDistance, Layouts!AnchoredStart, Layouts!AnchoredExtent, Layouts!Larger
<1>7. Layouts!KeepsDistance(r.y, r.height, size.h, child.y, child.height, was.h, "top" \in flags, "bottom" \in flags)
  BY <1>3, <1>4 DEF Layouts!KeepsDistance, Layouts!AnchoredStart, Layouts!AnchoredExtent, Layouts!Larger
<1> QED BY <1>2, <1>5, <1>6, <1>7 DEF Layouts!ChildIsAnchored

\* The child keeps its anchors in every state (anchor_layout).
THEOREM ChildStaysAnchored == Layouts!Spec => []Layouts!ChildIsAnchored
<1>1. IsLaid => Layouts!ChildIsAnchored
  BY LaidIsAnchored
<1> QED BY <1>1, LaidIsInvariant, PTL

-----------------------------------------------------------------------------
(* The items of a row and of a column.                                     *)

\* Every item up to the n-th begins a gap after the one before it ends.
Begins(from, start, extents, gap, n) ==
    from = [i \in 1..n |-> IF i = 1 THEN start ELSE from[i - 1] + extents[i - 1] + gap]

\* A set of numbers from 1 on that goes on as far as m holds all of them.
LEMMA Upward ==
  ASSUME NEW m \in Nat, NEW T, 1 \in T,
         \A n \in 1..m : n \in T /\ n < m => n + 1 \in T
  PROVE  \A n \in 1..m : n \in T
<1> DEFINE B == {n \in 1..m : n \notin T}
           R == OpToRel(<, Nat)
<1>1. SUFFICES ASSUME B # {} PROVE FALSE
  OBVIOUS
<1>2. PICK d \in B : \A e \in B : ~(<<e, d>> \in R)
  <2>1. IsWellFoundedOn(R, Nat)
    BY NatLessThanWellFounded
  <2>2. B \in SUBSET Nat
    OBVIOUS
  <2> HIDE DEF B, R
  <2> QED BY <1>1, <2>1, <2>2, WFMin
<1>3. d \in 1..m /\ d \notin T /\ d # 1
  BY <1>2
<1>4. d - 1 \in 1..m /\ d - 1 \in Nat /\ d \in Nat /\ d - 1 < d /\ (d - 1) + 1 = d /\ d - 1 < m
  BY <1>3
<1>5. <<d - 1, d>> \in R
  BY <1>4 DEF OpToRel
<1>6. d - 1 \notin B
  BY <1>2, <1>5
<1>7. d - 1 \in T
  BY <1>4, <1>6
<1> HIDE DEF B, R
<1> QED BY <1>3, <1>4, <1>7

\* Starts is a function that obeys its equation.
LEMMA StartsFollow ==
  ASSUME NEW start \in Int, NEW extents \in Seq(Int), NEW gap \in Int
  PROVE  /\ Layouts!Starts(start, extents, gap)[1] = start
         /\ \A i \in 1..Len(extents) :
                Layouts!Starts(start, extents, gap)[i + 1] =
                    Layouts!Starts(start, extents, gap)[i] + extents[i] + gap
<1> DEFINE m == Len(extents) + 1
           T == {n \in 1..m : \E from : Begins(from, start, extents, gap, n)}
<1>0. Len(extents) \in Nat /\ m \in Nat /\ m >= 1
  BY LenProperties
<1>1. \A n \in 1..m : n \in T <=> \E from : Begins(from, start, extents, gap, n)
  OBVIOUS
<1> HIDE DEF T
<1>2. 1 \in T
  <2> DEFINE from == [i \in 1..1 |-> start]
  <2>1. Begins(from, start, extents, gap, 1)
    BY DEF Begins
  <2> HIDE DEF from
  <2> QED BY <1>0, <1>1, <2>1
<1>3. ASSUME NEW n \in 1..m, n \in T, n < m PROVE n + 1 \in T
  <2>1. PICK from : Begins(from, start, extents, gap, n)
    BY <1>1, <1>3
  <2> DEFINE next == [i \in 1..(n + 1) |-> IF i = n + 1 THEN from[n] + extents[n] + gap ELSE from[i]]
  <2>2. \A i \in 1..n : from[i] = IF i = 1 THEN start ELSE from[i - 1] + extents[i - 1] + gap
    BY <2>1 DEF Begins
  <2>3. \A i \in 1..n : next[i] = from[i]
    BY <1>0
  <2>4. ASSUME NEW i \in 1..(n + 1)
        PROVE  next[i] = IF i = 1 THEN start ELSE next[i - 1] + extents[i - 1] + gap
    <3>1. CASE i = n + 1
      <4>1. next[i] = from[n] + extents[n] + gap
        BY <3>1
      <4>2. i # 1 /\ i - 1 = n /\ n \in 1..n
        BY <1>0, <3>1
      <4>3. next[n] = from[n]
        BY <2>3, <4>2
      <4> HIDE DEF next
      <4> QED BY <4>1, <4>2, <4>3
    <3>2. CASE i = 1
      <4>1. next[1] = from[1] /\ from[1] = start
        BY <1>0, <2>2, <2>3
      <4> HIDE DEF next
      <4> QED BY <3>2, <4>1
    <3>3. CASE i # n + 1 /\ i # 1
      <4>1. i \in 1..n /\ i - 1 \in 1..n
        BY <1>0, <3>3
      <4>2. next[i] = from[i] /\ next[i - 1] = from[i - 1]
        BY <2>3, <4>1
      <4>3. from[i] = from[i - 1] + extents[i - 1] + gap
        BY <2>2, <3>3, <4>1
      <4> HIDE DEF next
      <4> QED BY <3>3, <4>2, <4>3
    <3> QED BY <3>1, <3>2, <3>3
  <2>5. Begins(next, start, extents, gap, n + 1)
    <3>1. next = [i \in 1..(n + 1) |-> next[i]]
      OBVIOUS
    <3> HIDE DEF next
    <3> QED BY <2>4, <3>1 DEF Begins
  <2>6. n + 1 \in 1..m
    BY <1>0, <1>3
  <2> HIDE DEF next
  <2> QED BY <1>1, <2>5, <2>6
<1>4. m \in T
  <2>1. \A n \in 1..m : n \in T /\ n < m => n + 1 \in T
    BY <1>3
  <2>2. m \in 1..m
    BY <1>0
  <2> HIDE DEF m
  <2> QED BY <1>0, <1>2, <2>1, <2>2, Upward
<1>5. \E from : Begins(from, start, extents, gap, m)
  BY <1>0, <1>1, <1>4
<1>6. PICK from : Begins(from, start, extents, gap, m) /\ Layouts!Starts(start, extents, gap) = from
  BY <1>5 DEF Layouts!Starts, Begins
<1>7. \A i \in 1..m : from[i] = IF i = 1 THEN start ELSE from[i - 1] + extents[i - 1] + gap
  BY <1>6 DEF Begins
<1>8. from[1] = start
  BY <1>0, <1>7
<1>9. ASSUME NEW i \in 1..Len(extents) PROVE from[i + 1] = from[i] + extents[i] + gap
  <2>1. i + 1 \in 1..m /\ i + 1 # 1 /\ (i + 1) - 1 = i
    BY <1>0
  <2> HIDE DEF m
  <2> QED BY <1>7, <2>1
<1> QED BY <1>6, <1>8, <1>9

\* layout_horizontal: the items keep their gap.
THEOREM RowKeepsItsGap ==
    ASSUME NEW b, b.x \in Int, NEW widths \in Seq(Int), NEW gap \in Int
    PROVE  LET row == Layouts!LayoutHorizontal(b, widths, gap)
           IN \A i \in 1..(Len(widths) - 1) : row[i + 1].x = row[i].x + row[i].width + gap
<1> DEFINE row == Layouts!LayoutHorizontal(b, widths, gap)
           s == Layouts!Starts(b.x, widths, gap)
<1> SUFFICES ASSUME NEW i \in 1..(Len(widths) - 1)
             PROVE  row[i + 1].x = row[i].x + row[i].width + gap
  OBVIOUS
<1>1. Len(widths) \in Nat /\ DOMAIN widths = 1..Len(widths)
  BY LenProperties
<1>2. i \in DOMAIN widths /\ i + 1 \in DOMAIN widths /\ i \in 1..Len(widths)
  BY <1>1
<1>3. row[i + 1].x = s[i + 1] /\ row[i].x = s[i] /\ row[i].width = widths[i]
  BY <1>2 DEF Layouts!LayoutHorizontal, Layouts!At
<1>4. s[i + 1] = s[i] + widths[i] + gap
  BY <1>2, StartsFollow
<1> HIDE DEF row, s
<1> QED BY <1>3, <1>4

\* layout_vertical: the same from the top to the bottom.
THEOREM ColumnKeepsItsGap ==
    ASSUME NEW b, b.y \in Int, NEW heights \in Seq(Int), NEW gap \in Int
    PROVE  LET column == Layouts!LayoutVertical(b, heights, gap)
           IN \A i \in 1..(Len(heights) - 1) :
                  column[i + 1].y = column[i].y + column[i].height + gap
<1> DEFINE column == Layouts!LayoutVertical(b, heights, gap)
           s == Layouts!Starts(b.y, heights, gap)
<1> SUFFICES ASSUME NEW i \in 1..(Len(heights) - 1)
             PROVE  column[i + 1].y = column[i].y + column[i].height + gap
  OBVIOUS
<1>1. Len(heights) \in Nat /\ DOMAIN heights = 1..Len(heights)
  BY LenProperties
<1>2. i \in DOMAIN heights /\ i + 1 \in DOMAIN heights /\ i \in 1..Len(heights)
  BY <1>1
<1>3. column[i + 1].y = s[i + 1] /\ column[i].y = s[i] /\ column[i].height = heights[i]
  BY <1>2 DEF Layouts!LayoutVertical, Layouts!At
<1>4. s[i + 1] = s[i] + heights[i] + gap
  BY <1>2, StartsFollow
<1> HIDE DEF column, s
<1> QED BY <1>3, <1>4

\* In a window laid out for its size both keep their gaps.
LEMMA LaidIsSpaced ==
  ASSUME IsLaid
  PROVE  /\ \A i \in 1..(Len(win.row) - 1) : win.row[i + 1].x = win.row[i].x + win.row[i].width + 10
         /\ \A i \in 1..(Len(win.column) - 1) :
                win.column[i + 1].y = win.column[i].y + win.column[i].height + 8
<1>1. PICK size \in WindowSizes.layout, ratio \in Ratios, thickness \in Thicknesses, child \in Originals,
           was \in WindowSizes.layout, flags \in SUBSET Layouts!AnchorFlags :
              win = Layouts!Laid(size, ratio, thickness, child, was, flags)
  BY DEF IsLaid
<1> DEFINE first == Layouts!SplitHorizontally(Layouts!At(0, 0, size.w, size.h), ratio, thickness).first
           widths == <<100, 200, 300>>
           heights == <<100, 150>>
<1>2. win.row = Layouts!LayoutHorizontal(first, widths, 10) /\ win.column = Layouts!LayoutVertical(first, heights, 8)
  BY <1>1 DEF Layouts!Laid
<1>3. first.x = 0 /\ first.y = 0
  BY DEF Layouts!SplitHorizontally, Layouts!At
<1>4. /\ widths \in Seq(Int) /\ Len(widths) = 3 /\ DOMAIN widths = 1..3
      /\ heights \in Seq(Int) /\ Len(heights) = 2 /\ DOMAIN heights = 1..2
  OBVIOUS
<1> HIDE DEF first, widths, heights
<1>5. Len(win.row) = 3 /\ Len(win.column) = 2
  BY <1>2, <1>4 DEF Layouts!LayoutHorizontal, Layouts!LayoutVertical
<1>6. \A i \in 1..(Len(widths) - 1) : win.row[i + 1].x = win.row[i].x + win.row[i].width + 10
  <2>1. first.x \in Int /\ 10 \in Int
    BY <1>3
  <2> DEFINE row == Layouts!LayoutHorizontal(first, widths, 10)
  <2>2. \A i \in 1..(Len(widths) - 1) : row[i + 1].x = row[i].x + row[i].width + 10
    BY <1>4, <2>1, RowKeepsItsGap, Zenon
  <2> HIDE DEF row
  <2> QED BY <1>2, <2>2 DEF row
<1>7. \A i \in 1..(Len(heights) - 1) : win.column[i + 1].y = win.column[i].y + win.column[i].height + 8
  <2>1. first.y \in Int /\ 8 \in Int
    BY <1>3
  <2> DEFINE column == Layouts!LayoutVertical(first, heights, 8)
  <2>2. \A i \in 1..(Len(heights) - 1) : column[i + 1].y = column[i].y + column[i].height + 8
    BY <1>4, <2>1, ColumnKeepsItsGap, Zenon
  <2> HIDE DEF column
  <2> QED BY <1>2, <2>2 DEF column
<1> QED BY <1>4, <1>5, <1>6, <1>7

\* All of it.
LEMMA LaidIsLaidOut == ASSUME IsLaid PROVE Layouts!LaidOut
BY LaidIsTiled, LaidIsAnchored, LaidIsSpaced DEF Layouts!LaidOut

\* The window is laid out in every state, at every size and with the splitter
\* anywhere: its panes tile it, its child keeps its anchors, its items their gaps.
THEOREM WindowStaysLaidOut == Layouts!Spec => []Layouts!LaidOut
<1>1. IsLaid => Layouts!LaidOut
  BY LaidIsLaidOut
<1> QED BY <1>1, LaidIsInvariant, PTL

-----------------------------------------------------------------------------
(* Geometry at any size.  A thumb, a disc or a segment is placed by the    *)
(* quotient of a product, and both factors and the divisor are variables:  *)
(* the provers are led through that arithmetic by the lemmas that follow.  *)

\* A number lies between two multiples of its divisor.
LEMMA Quotient ==
  ASSUME NEW n \in Int, NEW d \in Nat \ {0}
  PROVE  n \div d \in Int /\ d * (n \div d) <= n /\ n < d * (n \div d) + d
OBVIOUS

\* A product grows with its factors.
LEMMA Product ==
  ASSUME NEW a \in Int, NEW b \in Int, NEW d \in Nat, a <= b
  PROVE  d * a \in Int /\ d * b \in Int /\ d * a <= d * b
OBVIOUS

\* There is one quotient.
LEMMA DivIs ==
  ASSUME NEW n \in Int, NEW d \in Nat \ {0}, NEW k \in Int, d * k <= n, n < d * k + d
  PROVE  n \div d = k
<1> PICK q : q = n \div d OBVIOUS
<1>1. q \in Int /\ d * q <= n /\ n < d * q + d
  BY Quotient
<1>2. CASE q < k
  <2>1. d * (q + 1) <= d * k
    BY <1>1, <1>2, Product
  <2>2. d * (q + 1) = d * q + d
    BY <1>1
  <2> QED BY <1>1, <2>1, <2>2
<1>3. CASE q > k
  <2>1. d * (k + 1) <= d * q
    BY <1>1, <1>3, Product
  <2>2. d * (k + 1) = d * k + d
    BY <1>1
  <2> QED BY <1>1, <2>1, <2>2
<1> QED BY <1>1, <1>2, <1>3

\* A quotient is bounded as the numerator is.
LEMMA DivWithin ==
  ASSUME NEW n \in Nat, NEW d \in Nat \ {0}, NEW m \in Nat, n <= d * m
  PROVE  n \div d \in 0..m
<1> PICK q : q = n \div d OBVIOUS
<1>1. q \in Int /\ d * q <= n /\ n < d * q + d
  BY Quotient
<1>2. CASE q < 0
  <2>1. d * (q + 1) <= d * 0
    BY <1>1, <1>2, Product
  <2>2. d * (q + 1) = d * q + d /\ d * 0 = 0
    BY <1>1
  <2> QED BY <1>1, <2>1, <2>2
<1>3. CASE q > m
  <2>1. d * (m + 1) <= d * q
    BY <1>1, <1>3, Product
  <2>2. d * (m + 1) = d * m + d
    OBVIOUS
  <2> QED BY <1>1, <2>1, <2>2
<1> QED BY <1>1, <1>2, <1>3

\* A part of a length, as a program computes it, is within the length and
\* reaches both of its ends.
LEMMA PartWithin ==
  ASSUME NEW part \in Nat, NEW whole \in Nat \ {0}, NEW m \in Nat, part <= whole
  PROVE  /\ Thumb!Div(part * m, whole) \in 0..m /\ Rail!Div(m * part, whole) \in 0..m
         /\ part = 0 => Thumb!Div(part * m, whole) = 0 /\ Rail!Div(m * part, whole) = 0
         /\ part = whole => Thumb!Div(part * m, whole) = m /\ Rail!Div(m * part, whole) = m
<1> PICK n : n = part * m
  OBVIOUS
<1>1. n \in Nat /\ n = m * part
  OBVIOUS
<1>2. n <= whole * m
  <2>1. m * part <= m * whole
    BY Product
  <2>2. m * whole = whole * m
    OBVIOUS
  <2> QED BY <1>1, <2>1, <2>2
<1>3. n \div whole \in 0..m
  BY <1>1, <1>2, DivWithin
<1>4. Thumb!Div(n, whole) = n \div whole /\ Rail!Div(n, whole) = n \div whole
  BY <1>1 DEF Thumb!Div, Rail!Div
<1>5. part = 0 => n \div whole = 0
  <2>1. ASSUME part = 0 PROVE n \div whole = 0
    <3>1. n = 0 /\ whole * 0 = 0
      BY <2>1
    <3> QED BY <3>1, DivIs
  <2> QED BY <2>1
<1>6. part = whole => n \div whole = m
  <2>1. ASSUME part = whole PROVE n \div whole = m
    <3>1. n = whole * m /\ whole * m \in Int
      BY <2>1
    <3> QED BY <3>1, DivIs
  <2> QED BY <2>1
<1> QED BY <1>1, <1>3, <1>4, <1>5, <1>6

\* A strip in the middle of a width is under the middle of a narrower one.
LEMMA MiddleIsCovered ==
  ASSUME NEW width \in Nat \ {0}, NEW a \in Nat \ {0}, NEW b \in Nat \ {0}, a <= b
  PROVE  LET s == Thumb!Smaller(a, width)
             t == Thumb!Smaller(b, width)
             middle == (Thumb!Div(width - s, 2) + (Thumb!Div(width - s, 2) + s)) \div 2
         IN Thumb!Div(width - t, 2) <= middle /\ middle < Thumb!Div(width - t, 2) + t
BY DEF Thumb!Smaller, Thumb!Div

-----------------------------------------------------------------------------
(* The thumb of a scroll bar *)

\* A scroll bar has a range that is not upside down, and any position at all.
ThumbState ==
    [size : WindowSizes.thumb, dpi : {dpi \in Nat : dpi >= 96}, vertical : BOOLEAN,
     low : Int, high : Int, position : Int, hovered : BOOLEAN, captured : BOOLEAN,
     palette : Thumb!Palettes, asked : SUBSET {Thumb!Bar}]

ThumbTyped == win \in ThumbState /\ win.low <= win.high

\* So it is made.
LEMMA ThumbTypedInit == Thumb!Init => ThumbTyped
<1> SUFFICES ASSUME Thumb!Init PROVE ThumbTyped
  OBVIOUS
<1>1. PICK size \in WindowSizes.thumb, dpi \in Dpi.thumb, vertical \in BOOLEAN, palette \in Thumb!Palettes :
          win = Thumb!Create(size, dpi, vertical, palette)
  BY DEF Thumb!Init
<1>2. dpi \in Nat /\ dpi >= 96
  BY SizesAssumption
<1> QED BY <1>1, <1>2 DEF Thumb!Create, ThumbTyped, ThumbState

\* And so every call and every message leaves it.
LEMMA ThumbTypedStep == ThumbTyped /\ Thumb!Next => ThumbTyped'
<1> SUFFICES ASSUME ThumbTyped, Thumb!Next PROVE ThumbTyped'
  OBVIOUS
<1> USE DEF Thumb!Asking, Thumb!Quiet
<1>1. CASE Thumb!SetRange
  <2>1. PICK r \in ThumbRanges : win' = Thumb!Asking([win EXCEPT !.low = r[1], !.high = r[2]])
    BY <1>1 DEF Thumb!SetRange
  <2>2. r[1] \in Int /\ r[2] \in Int /\ r[1] <= r[2]
    BY SizesAssumption
  <2> QED BY <2>1, <2>2 DEF ThumbTyped, ThumbState
<1>2. CASE Thumb!SetPosition
  BY <1>2, SizesAssumption DEF Thumb!SetPosition, ThumbTyped, ThumbState
<1>3. CASE Thumb!PaletteChanged
  BY <1>3 DEF Thumb!PaletteChanged, ThumbTyped, ThumbState
<1>4. CASE Thumb!Resize
  <2>1. PICK size \in WindowSizes.thumb, dpi \in Dpi.thumb :
            win' = Thumb!Asking([win EXCEPT !.size = size, !.dpi = dpi])
    BY <1>4 DEF Thumb!Resize
  <2>2. dpi \in Nat /\ dpi >= 96
    BY SizesAssumption
  <2> QED BY <2>1, <2>2 DEF ThumbTyped, ThumbState
<1>5. CASE Thumb!MouseMove
  <2>1. win' = [win EXCEPT !.asked = {}] \/ win' = [win EXCEPT !.hovered = ~win.hovered, !.asked = {Thumb!Bar}]
    BY <1>5 DEF Thumb!MouseMove, Thumb!SubclassMouseMove, ThumbTyped, ThumbState
  <2> QED BY <2>1 DEF ThumbTyped, ThumbState
<1>6. CASE Thumb!LButtonDown
  <2>1. win' = [win EXCEPT !.asked = {}] \/ win' = [win EXCEPT !.captured = TRUE, !.asked = {Thumb!Bar}]
    BY <1>6 DEF Thumb!LButtonDown, ThumbTyped, ThumbState
  <2> QED BY <2>1 DEF ThumbTyped, ThumbState
<1> QED BY <1>1, <1>2, <1>3, <1>4, <1>5, <1>6 DEF Thumb!Next

\* The thumb of a bar: how long it is, and where on its track.
LEMMA ThumbMeasured ==
  ASSUME ThumbTyped, NEW length \in Nat
  PROVE  /\ Thumb!LeastLength(win.dpi) \in Nat \ {0}
         /\ Thumb!ThumbLength(win.dpi, length) \in Nat \ {0}
         /\ Thumb!ThumbOffset(win, length) \in Int
         /\ Thumb!LeastLength(win.dpi) <= length =>
              /\ 0 <= Thumb!ThumbOffset(win, length)
              /\ Thumb!ThumbOffset(win, length) + Thumb!ThumbLength(win.dpi, length) <= length
              /\ win.position <= win.low => Thumb!ThumbOffset(win, length) = 0
              /\ win.low < win.high /\ win.position >= win.high =>
                     Thumb!ThumbOffset(win, length) + Thumb!ThumbLength(win.dpi, length) = length
<1> DEFINE least == Thumb!LeastLength(win.dpi)
           long == Thumb!ThumbLength(win.dpi, length)
           clamped == IF win.position < win.low THEN win.low ELSE Thumb!Smaller(win.position, win.high)
           part == clamped - win.low
           whole == Thumb!Larger(1, win.high - win.low)
<1>1. /\ win.dpi \in Nat /\ win.dpi >= 96 /\ win.low \in Int /\ win.high \in Int
      /\ win.position \in Int /\ win.low <= win.high
  BY DEF ThumbTyped, ThumbState
<1>2. least \in Nat \ {0}
  BY <1>1 DEF Thumb!LeastLength, Thumb!Scaled
<1>3. long \in Nat \ {0} /\ (least <= length => long <= length)
  <2> HIDE DEF least
  <2>1. long = Thumb!Larger(length \div 4, least)
    BY DEF Thumb!ThumbLength, least
  <2> HIDE DEF long
  <2> QED BY <1>2, <2>1 DEF Thumb!Larger
<1>4. part \in Nat /\ whole \in Nat \ {0} /\ part <= whole
  BY <1>1 DEF Thumb!Smaller, Thumb!Larger
<1>5. /\ win.position <= win.low => part = 0
      /\ win.low < win.high /\ win.position >= win.high => part = whole
  BY <1>1 DEF Thumb!Smaller, Thumb!Larger
<1>6. Thumb!ThumbOffset(win, length) = Thumb!Div(part * (length - long), whole)
  BY DEF Thumb!ThumbOffset
<1> HIDE DEF least, long, part, whole, clamped
<1>7. Thumb!Div(part * (length - long), whole) \in Int
  <2>1. part * (length - long) \in Int /\ -(part * (length - long)) \in Int
    BY <1>3, <1>4
  <2> QED BY <1>4, <2>1 DEF Thumb!Div
<1>8. ASSUME least <= length
      PROVE  /\ Thumb!Div(part * (length - long), whole) \in 0..length - long
             /\ part = 0 => Thumb!Div(part * (length - long), whole) = 0
             /\ part = whole => Thumb!Div(part * (length - long), whole) = length - long
  <2> PICK m : m = length - long
    OBVIOUS
  <2>1. m \in Nat
    BY <1>3, <1>8
  <2>2. /\ Thumb!Div(part * m, whole) \in 0..m
        /\ part = 0 => Thumb!Div(part * m, whole) = 0
        /\ part = whole => Thumb!Div(part * m, whole) = m
    BY <1>4, <2>1, PartWithin
  <2> QED BY <2>2
<1>9. /\ least <= length => Thumb!ThumbOffset(win, length) \in 0..length - long
      /\ least <= length /\ part = 0 => Thumb!ThumbOffset(win, length) = 0
      /\ least <= length /\ part = whole => Thumb!ThumbOffset(win, length) = length - long
      /\ Thumb!ThumbOffset(win, length) \in Int
  BY <1>6, <1>7, <1>8
<1> PICK offset : offset = Thumb!ThumbOffset(win, length)
  OBVIOUS
<1>10. least <= length => 0 <= offset /\ offset + long <= length
  BY <1>3, <1>9
<1>11. least <= length /\ part = whole => offset + long = length
  BY <1>3, <1>9
<1> QED BY <1>2, <1>3, <1>5, <1>9, <1>10, <1>11 DEF least, long

\* The thumb is in its track, where the mouse finds it.
LEMMA ThumbFound == ThumbTyped => Thumb!ThumbIsHit /\ Thumb!LaidOut
<1> SUFFICES ASSUME ThumbTyped PROVE Thumb!ThumbIsHit /\ Thumb!LaidOut
  OBVIOUS
<1> PICK w : w = win.size.w
  OBVIOUS
<1> PICK h : h = win.size.h
  OBVIOUS
<1>1. w \in Nat \ {0} /\ h \in Nat \ {0}
  BY SizesAssumption DEF ThumbTyped, ThumbState
<1>2. win.dpi \in Nat /\ win.dpi >= 96 /\ win.vertical \in BOOLEAN
  BY DEF ThumbTyped, ThumbState
<1> DEFINE narrow == Thumb!Scaled(win.dpi, 4)
           wide == Thumb!Scaled(win.dpi, IF win.hovered THEN 8 ELSE 4)
<1>3. narrow \in Nat \ {0} /\ wide \in Nat \ {0} /\ narrow <= wide
  BY <1>2 DEF Thumb!Scaled
<1>4. CASE win.vertical
  <2> PICK offset : offset = Thumb!ThumbOffset(win, h)
    OBVIOUS
  <2> PICK long : long = Thumb!ThumbLength(win.dpi, h)
    OBVIOUS
  <2>1. /\ offset \in Int /\ long \in Nat \ {0}
        /\ Thumb!LeastLength(win.dpi) <= h =>
              /\ 0 <= offset /\ offset + long <= h
              /\ win.position <= win.low => offset = 0
              /\ win.low < win.high /\ win.position >= win.high => offset + long = h
    BY <1>1, ThumbMeasured
  <2>2. ASSUME NEW width \in Nat
        PROVE  Thumb!ThumbRectFor(win, Thumb!Rect(0, 0, w, h), width)
                 = [left |-> Thumb!Div(w - Thumb!Smaller(width, w), 2), top |-> offset,
                    right |-> Thumb!Div(w - Thumb!Smaller(width, w), 2) + Thumb!Smaller(width, w),
                    bottom |-> offset + long]
    <3> PICK side : side = Thumb!Div(w - Thumb!Smaller(width, w), 2)
      OBVIOUS
    <3>1. w - 0 = w /\ h - 0 = h /\ 0 + offset = offset
      BY <1>1, <2>1
    <3>2. side \in Int /\ 0 + side = side
      BY <1>1 DEF Thumb!Div, Thumb!Smaller
    <3> QED BY <1>4, <3>1, <3>2 DEF Thumb!ThumbRectFor, Thumb!Rect, Thumb!Box
  <2> DEFINE s == Thumb!Smaller(narrow, w)
             t == Thumb!Smaller(wide, w)
  <2>3. Thumb!PaintedThumb(win) = [left |-> Thumb!Div(w - s, 2), top |-> offset,
                                   right |-> Thumb!Div(w - s, 2) + s, bottom |-> offset + long]
    BY <1>3, <2>2 DEF Thumb!PaintedThumb, Thumb!RestWidth
  <2>4. Thumb!ThumbRect(win) = [left |-> Thumb!Div(w - t, 2), top |-> offset,
                                right |-> Thumb!Div(w - t, 2) + t, bottom |-> offset + long]
    BY <1>3, <1>4, <2>2 DEF Thumb!ThumbRect, Thumb!TrackRectFor, Thumb!RestWidth, Thumb!HoverWidth
  <2>5. Thumb!ThumbIsHit
    <3> DEFINE x == (Thumb!Div(w - s, 2) + (Thumb!Div(w - s, 2) + s)) \div 2
               y == (offset + (offset + long)) \div 2
    <3>1. Thumb!Div(w - t, 2) <= x /\ x < Thumb!Div(w - t, 2) + t
      BY <1>1, <1>3, MiddleIsCovered
    <3>2. offset <= y /\ y < offset + long
      BY <2>1
    <3>3. Thumb!Middle(Thumb!PaintedThumb(win)) = [x |-> x, y |-> y]
      BY <2>3 DEF Thumb!Middle
    <3> HIDE DEF x, y, s, t, narrow, wide
    <3>4. Thumb!Contains(Thumb!ThumbRect(win), [x |-> x, y |-> y])
      BY <2>4, <3>1, <3>2 DEF Thumb!Contains
    <3> QED BY <3>3, <3>4 DEF Thumb!ThumbIsHit, Thumb!HitTestThumb
  <2>6. Thumb!LaidOut
    <3> HIDE DEF s
    <3> QED BY <1>4, <2>1, <2>3 DEF Thumb!LaidOut
  <2> QED BY <2>5, <2>6
<1>5. CASE ~win.vertical
  <2> PICK offset : offset = Thumb!ThumbOffset(win, w)
    OBVIOUS
  <2> PICK long : long = Thumb!ThumbLength(win.dpi, w)
    OBVIOUS
  <2>1. /\ offset \in Int /\ long \in Nat \ {0}
        /\ Thumb!LeastLength(win.dpi) <= w =>
              /\ 0 <= offset /\ offset + long <= w
              /\ win.position <= win.low => offset = 0
              /\ win.low < win.high /\ win.position >= win.high => offset + long = w
    BY <1>1, ThumbMeasured
  <2>2. Thumb!PaintedThumb(win).left = offset /\ Thumb!PaintedThumb(win).right = offset + long
    <3>1. w - 0 = w /\ h - 0 = h /\ 0 + offset = offset
      BY <1>1, <2>1
    <3> QED BY <1>5, <3>1 DEF Thumb!PaintedThumb, Thumb!ThumbRectFor, Thumb!Rect, Thumb!Box
  <2>3. Thumb!LaidOut
    BY <1>5, <2>1, <2>2 DEF Thumb!LaidOut
  <2>4. Thumb!ThumbIsHit
    BY <1>5 DEF Thumb!ThumbIsHit
  <2> QED BY <2>3, <2>4
<1> QED BY <1>2, <1>4, <1>5

-----------------------------------------------------------------------------
(* The rail of a slider *)

\* A slider has its position in its range.
RailState ==
    [size : WindowSizes.rail, dpi : {dpi \in Nat : dpi >= 96}, low : Int, high : Int, pos : Int,
     orientation : Rail!Orientations, radius : Nat, enabled : BOOLEAN, focus : BOOLEAN,
     palette : Rail!Palettes, asked : BOOLEAN]

RailTyped == win \in RailState /\ win.low <= win.pos /\ win.pos <= win.high

\* So it is made.
LEMMA RailTypedInit == Rail!Init => RailTyped
<1> SUFFICES ASSUME Rail!Init PROVE RailTyped
  OBVIOUS
<1>1. PICK size \in WindowSizes.rail, dpi \in Dpi.rail, palette \in Rail!Palettes :
          win = Rail!Create(size, dpi, palette)
  BY DEF Rail!Init
<1>2. dpi \in Nat /\ dpi >= 96
  BY SizesAssumption
<1> QED BY <1>1, <1>2 DEF Rail!Create, RailTyped, RailState, Rail!Orientations, Rail!Default

\* And so every call and every message leaves it.
LEMMA RailTypedStep == RailTyped /\ Rail!Next => RailTyped'
<1> SUFFICES ASSUME RailTyped, Rail!Next PROVE RailTyped'
  OBVIOUS
<1> USE DEF Rail!Asking
<1>0. ASSUME NEW w \in RailState, w.low <= w.high, NEW pos \in Int, win' = Rail!Moved(w, pos)
      PROVE  RailTyped'
  <2> PICK p : p = Rail!Larger(w.low, Rail!Smaller(pos, w.high))
    OBVIOUS
  <2>1. w.low \in Int /\ w.high \in Int
    BY DEF RailState
  <2>2. p \in Int /\ w.low <= p /\ p <= w.high
    BY <1>0, <2>1 DEF Rail!Larger, Rail!Smaller
  <2>3. win' = [w EXCEPT !.pos = p, !.asked = TRUE]
    BY <1>0 DEF Rail!Moved
  <2> QED BY <1>0, <2>2, <2>3 DEF RailTyped, RailState
<1>1. CASE Rail!SetOrientation
  BY <1>1 DEF Rail!SetOrientation, RailTyped, RailState
<1>2. CASE Rail!SetStyle
  <2>1. PICK radius \in Radii \cup {Rail!Default} : win' = Rail!Asking([win EXCEPT !.radius = radius])
    BY <1>2 DEF Rail!SetStyle
  <2>2. radius \in Nat
    BY SizesAssumption DEF Rail!Default
  <2> QED BY <2>1, <2>2 DEF RailTyped, RailState
<1>3. CASE Rail!SetRange
  <2>1. PICK r \in RailRanges : win' = Rail!Moved([win EXCEPT !.low = r[1], !.high = r[2]], win.pos)
    BY <1>3 DEF Rail!SetRange
  <2>2. r[1] \in Int /\ r[2] \in Int /\ r[1] <= r[2]
    BY SizesAssumption
  <2> PICK w : w = [win EXCEPT !.low = r[1], !.high = r[2]]
    OBVIOUS
  <2>3. w \in RailState /\ w.low <= w.high
    BY <2>2 DEF RailTyped, RailState
  <2>4. win.pos \in Int
    BY DEF RailTyped, RailState
  <2> QED BY <1>0, <2>1, <2>3, <2>4
<1>4. CASE Rail!SetPos
  <2>1. PICK pos \in RailPositions : win' = Rail!Moved(win, pos)
    BY <1>4 DEF Rail!SetPos
  <2>2. pos \in Int
    BY SizesAssumption
  <2>3. win \in RailState /\ win.low <= win.high
    BY DEF RailTyped, RailState
  <2> QED BY <1>0, <2>1, <2>2, <2>3
<1>5. CASE Rail!FocusChanged \/ Rail!Enable
  BY <1>5 DEF Rail!FocusChanged, Rail!Enable, RailTyped, RailState
<1>6. CASE Rail!PaletteChanged
  BY <1>6 DEF Rail!PaletteChanged, RailTyped, RailState
<1>7. CASE Rail!Resize
  <2>1. PICK size \in WindowSizes.rail, dpi \in Dpi.rail :
            win' = Rail!Asking([win EXCEPT !.size = size, !.dpi = dpi])
    BY <1>7 DEF Rail!Resize
  <2>2. dpi \in Nat /\ dpi >= 96
    BY SizesAssumption
  <2> QED BY <2>1, <2>2 DEF RailTyped, RailState
<1> QED BY <1>1, <1>2, <1>3, <1>4, <1>5, <1>6, <1>7 DEF Rail!Next

\* The disc is on the rail.
LEMMA RailMeasured == RailTyped => Rail!LaidOut
<1> SUFFICES ASSUME RailTyped, Rail!IsPainted(win) PROVE Rail!LaidOut
  BY DEF Rail!LaidOut
<1> PICK length : length = Rail!Length(win)
  OBVIOUS
<1> PICK inset : inset = Rail!Inset(win)
  OBVIOUS
<1> PICK radius : radius = Rail!ThumbRadius(win)
  OBVIOUS
<1>1. /\ win.dpi \in Nat /\ win.dpi >= 96 /\ win.low \in Int /\ win.high \in Int /\ win.pos \in Int
      /\ win.low <= win.pos /\ win.pos <= win.high /\ win.radius \in Nat
      /\ win.orientation \in {"horizontal", "vertical"}
  BY DEF RailTyped, RailState, Rail!Orientations
<1>2. length \in Nat /\ length > 2 * inset
  <2>1. win.size \in WindowSizes.rail
    BY DEF RailTyped, RailState
  <2> QED BY <2>1, SizesAssumption DEF Rail!Length, Rail!IsPainted
<1>3. inset \in Nat /\ radius \in Nat /\ radius <= inset
  <2>1. \A r \in Nat : (r * win.dpi + 48) \div 96 \in Nat /\ r <= (r * win.dpi + 48) \div 96
    <3> SUFFICES ASSUME NEW r \in Nat PROVE (r * win.dpi + 48) \div 96 \in Nat /\ r <= (r * win.dpi + 48) \div 96
      OBVIOUS
    <3> PICK n : n = r * win.dpi
      OBVIOUS
    <3>1. n \in Nat /\ n >= r * 96
      BY <1>1, Product
    <3> QED BY <3>1
  <2>2. Rail!AskedRadius(win) \in Nat
    BY <1>1 DEF Rail!AskedRadius, Rail!CornerRadiusControl
  <2>3. inset \in Nat /\ Rail!AskedRadius(win) <= inset
    BY <2>1, <2>2 DEF Rail!Inset, Rail!Scaled
  <2> QED BY <1>1, <2>3 DEF Rail!ThumbRadius, Rail!AskedRadius
<1> DEFINE span == Rail!Larger(1, win.high - win.low)
           done == IF win.orientation = "vertical" THEN win.high - win.pos ELSE win.pos - win.low
<1>4. span \in Nat \ {0} /\ done \in Nat /\ done <= span
  BY <1>1 DEF Rail!Larger
<1>5. win.low < win.high =>
         /\ win.pos = win.high => done = IF win.orientation = "vertical" THEN 0 ELSE span
         /\ win.pos = win.low => done = IF win.orientation = "vertical" THEN span ELSE 0
  BY <1>1 DEF Rail!Larger
<1> PICK m : m = (length - inset) - inset
  OBVIOUS
<1>6. m \in Nat
  BY <1>2, <1>3
<1> PICK part : part = Rail!Div(m * done, span)
  OBVIOUS
<1>7. part \in 0..m /\ (done = 0 => part = 0) /\ (done = span => part = m)
  BY <1>4, <1>6, PartWithin
<1>8. Rail!Along(win, length).centre = inset + part
  BY DEF Rail!Along
<1>9. /\ Rail!Along(win, length).start = inset /\ Rail!Along(win, length).end = length - inset
      /\ Rail!Along(win, length).filled = IF win.orientation = "vertical" THEN <<inset + part, length - inset>>
                                          ELSE <<inset, inset + part>>
  BY DEF Rail!Along
<1> DEFINE g == Rail!ComputeGeometry(win)
<1>10. g.along = Rail!Along(win, length) /\ g.radius = radius
  BY DEF Rail!ComputeGeometry
<1>11. /\ inset <= inset + part /\ inset + part <= length - inset
       /\ 0 <= (inset + part) - radius /\ (inset + part) + radius <= length
       /\ part = m => inset + part = length - inset
       /\ part = 0 => inset + part = inset
  BY <1>2, <1>3, <1>6, <1>7
<1> HIDE DEF g, done, span
<1>12. g.along.start = inset /\ g.along.end = length - inset /\ g.along.centre = inset + part
  BY <1>8, <1>9, <1>10
<1>13. CASE win.orientation = "vertical"
  <2>1. g.along.filled = <<inset + part, length - inset>>
    BY <1>9, <1>10, <1>13
  <2> QED BY <1>5, <1>7, <1>10, <1>11, <1>12, <1>13, <2>1 DEF Rail!LaidOut, g
<1>14. CASE win.orientation # "vertical"
  <2>1. g.along.filled = <<inset, inset + part>>
    BY <1>9, <1>10, <1>14
  <2> QED BY <1>5, <1>7, <1>10, <1>11, <1>12, <1>14, <2>1 DEF Rail!LaidOut, g
<1> QED BY <1>13, <1>14

-----------------------------------------------------------------------------
(* The segments of the settings *)

\* The theme has a place, and some height.
HasPlace(r) ==
    /\ r \in [left : Int, top : Int, right : Int, bottom : Int]
    /\ r.top < r.bottom

FormTyped ==
    /\ FormFields \subseteq DOMAIN win
    /\ win.size \in WindowSizes.form /\ win.dpi \in Dpi.form
    /\ win.laid = Form!Geometry(win.size, win.dpi)

\* Lengths scaled are whole, and none that was is lost.
LEMMA ScaledTyped ==
  ASSUME NEW dpi \in Nat, dpi >= 96, NEW v \in Nat
  PROVE  Form!Scaled(dpi, v) \in Nat /\ v <= Form!Scaled(dpi, v)
<1> PICK n : n = v * dpi
  OBVIOUS
<1>1. n \in Nat /\ n >= v * 96
  BY Product
<1> QED BY <1>1 DEF Form!Scaled

\* Below a field, and in it.
LEMMA FieldTyped ==
  ASSUME NEW dpi \in Nat, dpi >= 96, NEW x \in Int, NEW y \in Int, NEW width \in Int
  PROVE  HasPlace(Form!Field(dpi, x, y, width).input) /\ Form!Field(dpi, x, y, width).bottom \in Int
<1>1. /\ Form!Scaled(dpi, 18) \in Nat /\ Form!Scaled(dpi, 8) \in Nat
      /\ Form!Scaled(dpi, 32) \in Nat \ {0}
  BY ScaledTyped DEF Form!Scaled
<1> PICK top : top = y + Form!Scaled(dpi, 18) + Form!Scaled(dpi, 8)
  OBVIOUS
<1> PICK high : high = Form!Scaled(dpi, 32)
  OBVIOUS
<1>2. top \in Int /\ top + high \in Int /\ x + width \in Int /\ top < top + high
  BY <1>1
<1>3. Form!Field(dpi, x, y, width).input = [left |-> x, top |-> top, right |-> x + width, bottom |-> top + high]
  BY DEF Form!Field, Form!Box, Form!Rect
<1>4. Form!Field(dpi, x, y, width).bottom \in Int
  BY <1>1 DEF Form!Field
<1> QED BY <1>2, <1>3, <1>4 DEF HasPlace

\* The columns are somewhere.
LEMMA ColumnTyped ==
  ASSUME NEW size \in WindowSizes.form, NEW dpi \in Dpi.form
  PROVE  Form!Column(size, dpi).left \in Int /\ Form!Column(size, dpi).right \in Int
<1>1. size.w \in Nat /\ size.h \in Nat /\ dpi \in Nat /\ dpi >= 96
  BY SizesAssumption
<1> DEFINE S(v) == Form!Scaled(dpi, v)
<1>2. \A v \in Nat : S(v) \in Nat
  BY <1>1, ScaledTyped
<1> HIDE DEF S
<1> DEFINE width == Form!Larger(Form!Smaller(S(1040), size.w - 2 * S(24)), Form!Smaller(S(640), size.w))
<1>3. width \in Int
  BY <1>1, <1>2 DEF Form!Larger, Form!Smaller
<1> HIDE DEF width
<1>4. Form!Div(size.w - width, 2) \in Int
  BY <1>1, <1>3 DEF Form!Div
<1>5. /\ Form!Column(size, dpi).left = Form!Div(size.w - width, 2)
      /\ Form!Column(size, dpi).right = Form!Div(size.w - width, 2) + width
  BY DEF Form!Column, width, S
<1> QED BY <1>3, <1>4, <1>5

\* The layout of any window places the theme.
LEMMA ThemeIsPlaced ==
  ASSUME NEW size \in WindowSizes.form, NEW dpi \in Dpi.form
  PROVE  HasPlace(Form!Geometry(size, dpi).theme)
<1>1. size.w \in Nat /\ size.h \in Nat /\ dpi \in Nat /\ dpi >= 96
  BY SizesAssumption
<1> DEFINE S(v) == Form!Scaled(dpi, v)
<1>2. \A v \in Nat : S(v) \in Nat
  BY <1>1, ScaledTyped
<1> HIDE DEF S
<1>3. ASSUME NEW x \in Int, NEW right \in Int, NEW top \in Int
      PROVE  HasPlace(Form!Fields(dpi, x, right, top).theme)
  <2> DEFINE head == S(22) + S(12)
             intro == top + S(20) + S(16) + S(2) + S(26) + S(4) + S(18) + S(16)
                          + Form!Larger(1, S(1)) + S(16)
             wide == Form!Smaller(S(460), right - x)
             narrow == Form!Smaller(S(360), right - x)
             profile == Form!Field(dpi, x, intro + head, wide)
             root == Form!Field(dpi, x, profile.bottom + S(16), wide)
  <2>1. head \in Nat /\ S(16) \in Nat /\ S(24) \in Nat
    BY <1>2
  <2>2. intro \in Int
    <3>1. Form!Larger(1, S(1)) \in Nat
      BY <1>2 DEF Form!Larger
    <3> QED BY <1>2, <3>1
  <2>3. wide \in Int /\ narrow \in Int
    BY <1>2 DEF Form!Smaller
  <2> HIDE DEF head, intro, wide, narrow
  <2>4. profile.bottom \in Int
    <3>1. intro + head \in Int
      BY <2>1, <2>2
    <3> QED BY <1>1, <2>3, <3>1, FieldTyped
  <2> HIDE DEF profile
  <2>5. root.bottom \in Int
    <3>1. profile.bottom + S(16) \in Int
      BY <2>1, <2>4
    <3> QED BY <1>1, <2>3, <3>1, FieldTyped
  <2> HIDE DEF root
  <2>6. root.bottom + S(24) + head \in Int
    BY <2>1, <2>5
  <2>7. HasPlace(Form!Field(dpi, x, root.bottom + S(24) + head, narrow).input)
    BY <1>1, <2>3, <2>6, FieldTyped
  <2>8. Form!Fields(dpi, x, right, top).theme = Form!Field(dpi, x, root.bottom + S(24) + head, narrow).input
    BY DEF Form!Fields, S, head, intro, wide, narrow, profile, root
  <2> QED BY <2>7, <2>8
<1> DEFINE shell == Form!Shell(Form!Column(size, dpi), size, dpi)
           x == shell.card.left + Form!Scaled(dpi, 24)
           right == Form!Larger(x, shell.card.right - Form!Scaled(dpi, 24))
           fields == Form!Fields(dpi, x, right, shell.card.top)
<1>4. shell.card.left \in Int /\ shell.card.right \in Int /\ shell.card.top \in Int
  <2>1. Form!Column(size, dpi).left \in Int /\ Form!Column(size, dpi).right \in Int
    BY ColumnTyped
  <2>2. /\ shell.card.left = Form!Column(size, dpi).left + S(216) + S(16)
        /\ shell.card.right = Form!Column(size, dpi).right
        /\ shell.card.top = S(96) + S(24)
    BY DEF Form!Shell, Form!Rect, S
  <2> HIDE DEF shell
  <2> QED BY <1>2, <2>1, <2>2
<1>5. x \in Int /\ right \in Int
  <2> HIDE DEF shell
  <2>1. Form!Scaled(dpi, 24) \in Nat
    BY <1>2 DEF S
  <2> QED BY <1>4, <2>1 DEF Form!Larger
<1>6. Form!Geometry(size, dpi).theme = fields.theme
  <2>1. "theme" \notin DOMAIN shell
    BY DEF Form!Shell
  <2>2. "theme" \in DOMAIN fields
    BY DEF Form!Fields
  <2>3. Form!Geometry(size, dpi) = [part \in DOMAIN shell \cup DOMAIN fields |->
                                       IF part \in DOMAIN shell THEN shell[part] ELSE fields[part]]
    BY DEF Form!Geometry
  <2> HIDE DEF shell, fields
  <2> QED BY <2>1, <2>2, <2>3
<1> HIDE DEF shell, x, right
<1> QED BY <1>3, <1>4, <1>5, <1>6

\* A page is laid out when it is made, and again whenever it is resized.
LEMMA FormTypedInit == Form!Init => FormTyped
BY DEF Form!Init, FormTyped, FormFields

\* The layout is that of the present window.
LEMMA FormTypedStep == FormTyped /\ Form!Next => FormTyped'
<1> SUFFICES ASSUME FormTyped, Form!Next PROVE FormTyped'
  OBVIOUS
<1>1. ASSUME NEW w, FormFields \subseteq DOMAIN w, w.size \in WindowSizes.form, w.dpi \in Dpi.form
      PROVE  /\ FormFields \subseteq DOMAIN Form!LayoutControls(w)
             /\ Form!LayoutControls(w).size = w.size /\ Form!LayoutControls(w).dpi = w.dpi
             /\ Form!LayoutControls(w).laid = Form!Geometry(w.size, w.dpi)
  <2> PICK g : g = Form!Geometry(w.size, w.dpi)
    OBVIOUS
  <2>1. Form!LayoutControls(w) = Form!Asking([w EXCEPT !.laid = g], {"main"})
    BY DEF Form!LayoutControls
  <2> QED BY <1>1, <2>1 DEF Form!Asking, FormFields
<1>2. CASE Form!Resize
  <2>1. PICK size \in WindowSizes.form : win' = Form!LayoutControls([Form!Quiet(win) EXCEPT !.size = size])
    BY <1>2 DEF Form!Resize
  <2> PICK w : w = [Form!Quiet(win) EXCEPT !.size = size]
    OBVIOUS
  <2>2. FormFields \subseteq DOMAIN w /\ w.size = size /\ w.dpi = win.dpi
    BY DEF FormTyped, Form!Quiet, FormFields
  <2>3. w.size \in WindowSizes.form /\ w.dpi \in Dpi.form /\ win' = Form!LayoutControls(w)
    BY <2>1, <2>2 DEF FormTyped
  <2> QED BY <1>1, <2>2, <2>3 DEF FormTyped
<1>3. CASE Form!DpiChanged
  <2>1. PICK dpi \in Dpi.form, size \in WindowSizes.form :
            win' = Form!LayoutControls(Form!LayoutControls([Form!Quiet(win) EXCEPT !.dpi = dpi, !.size = size]))
    BY <1>3 DEF Form!DpiChanged
  <2> PICK w : w = [Form!Quiet(win) EXCEPT !.dpi = dpi, !.size = size]
    OBVIOUS
  <2> PICK v : v = Form!LayoutControls(w)
    OBVIOUS
  <2>2. FormFields \subseteq DOMAIN w /\ w.size = size /\ w.dpi = dpi
    BY DEF FormTyped, Form!Quiet, FormFields
  <2>3. FormFields \subseteq DOMAIN v /\ v.size \in WindowSizes.form /\ v.dpi \in Dpi.form
    BY <1>1, <2>2
  <2>4. win' = Form!LayoutControls(v)
    BY <2>1
  <2> QED BY <1>1, <2>3, <2>4 DEF FormTyped
<1>4. CASE \/ \E k \in {Form!None, 0, 1, 2} : Form!MouseMove(k)
           \/ Form!MouseLeave
  <2>1. /\ FormFields \subseteq DOMAIN win'
        /\ win'.size = win.size /\ win'.dpi = win.dpi /\ win'.laid = win.laid
    BY <1>4 DEF Form!MouseMove, Form!MouseLeave, Form!Tracked, Form!Quiet, Form!Asking, FormTyped,
                FormFields
  <2> QED BY <2>1 DEF FormTyped
<1> QED BY <1>2, <1>3, <1>4 DEF Form!Next

\* The hit test of a place d to the right of the left edge.
LEMMA SegmentAtPlace ==
  ASSUME NEW laid, HasPlace(laid.theme),
         NEW width \in Nat \ {0}, width = laid.theme.right - laid.theme.left,
         NEW d \in Nat, d < width, NEW k \in 0..2, (d * 3) \div width = k,
         NEW y \in Int, laid.theme.top <= y, y < laid.theme.bottom
  PROVE  Form!SegmentAt(laid, [x |-> laid.theme.left + d, y |-> y]) = k
<1> PICK r : r = laid.theme
  OBVIOUS
<1>1. r.left \in Int /\ r.right \in Int /\ width = r.right - r.left
  BY DEF HasPlace
<1>2. /\ r.left <= r.left + d /\ r.left + d < r.right
      /\ r.top <= y /\ y < r.bottom /\ ~(width <= 0)
  BY <1>1
<1>3. Form!Contains(r, [x |-> r.left + d, y |-> y])
  BY <1>2 DEF Form!Contains
<1>4. Form!Smaller(Form!Div(d * 3, width), 2) = k
  BY DEF Form!Div, Form!Smaller
<1>5. (r.left + d) - r.left = d
  BY <1>1
<1>6. Form!SegmentAt(laid, [x |-> r.left + d, y |-> y])
        = IF ~Form!Contains(r, [x |-> r.left + d, y |-> y]) \/ width <= 0 THEN Form!None
          ELSE Form!Smaller(Form!Div(((r.left + d) - r.left) * 3, width), 2)
  BY <1>1 DEF Form!SegmentAt
<1> QED BY <1>2, <1>3, <1>4, <1>5, <1>6

\* A place is in the k-th segment of a width if it is k thirds of the way, or
\* more but not the next.
LEMMA SegmentFound ==
  ASSUME NEW laid, HasPlace(laid.theme),
         NEW width \in Nat \ {0}, width = laid.theme.right - laid.theme.left,
         NEW k \in 0..2, NEW d \in Nat, width * k <= d * 3, d * 3 < width * k + width,
         NEW y \in Int, laid.theme.top <= y, y < laid.theme.bottom
  PROVE  Form!SegmentAt(laid, [x |-> laid.theme.left + d, y |-> y]) = k
<1>1. d < width
  <2>1. CASE k = 0
    BY <2>1
  <2>2. CASE k = 1
    BY <2>2
  <2>3. CASE k = 2
    BY <2>3
  <2> QED BY <2>1, <2>2, <2>3
<1>2. (d * 3) \div width = k
  <2>1. d * 3 \in Int /\ k \in Int
    OBVIOUS
  <2> QED BY <2>1, DivIs, Zenon
<1> QED BY <1>1, <1>2, SegmentAtPlace

\* A segment is found in the middle and at the edges of what is painted.
LEMMA SegmentsFound == FormTyped => Form!SegmentsAreHit
<1> SUFFICES ASSUME FormTyped, NEW k \in 0..2, win.laid.theme.right - win.laid.theme.left >= 5
             PROVE  LET r == Form!PaintedSegment(win.laid, k)
                    IN /\ Form!SegmentAt(win.laid, Form!Middle(r)) = k
                       /\ Form!SegmentAt(win.laid, [x |-> r.right - 1, y |-> r.top]) = k
                       /\ Form!SegmentAt(win.laid, [x |-> r.left + 1, y |-> r.top]) = k
  BY DEF Form!SegmentsAreHit
<1> PICK laid : laid = win.laid
  OBVIOUS
<1>1. PICK left, top, bottom, width :
          /\ left = laid.theme.left /\ top = laid.theme.top /\ bottom = laid.theme.bottom
          /\ width = laid.theme.right - laid.theme.left
  OBVIOUS
<1>2. /\ HasPlace(laid.theme) /\ left \in Int /\ top \in Int /\ bottom \in Int /\ top < bottom
      /\ width \in Nat /\ width \in Nat \ {0} /\ width >= 5
  <2>1. HasPlace(laid.theme)
    BY ThemeIsPlaced DEF FormTyped
  <2> QED BY <1>1, <2>1 DEF HasPlace
<1>3. PICK product : product = width * k
  OBVIOUS
<1>4. product \in Nat /\ width * (k + 1) = product + width
  BY <1>2, <1>3
<1>5. PICK from, to : from = product \div 3 /\ to = (product + width) \div 3
  OBVIOUS
<1>6. /\ from \in Nat /\ to \in Nat
      /\ from * 3 <= product /\ product <= from * 3 + 2
      /\ to * 3 <= product + width /\ product + width <= to * 3 + 2
  BY <1>2, <1>4, <1>5
<1>7. Form!PaintedSegment(laid, k) = [left |-> left + from, top |-> top, right |-> left + to, bottom |-> bottom]
  <2>1. Form!Div(product, 3) = from /\ Form!Div(product + width, 3) = to
    BY <1>2, <1>4, <1>5 DEF Form!Div
  <2> QED BY <1>1, <1>3, <1>4, <2>1 DEF Form!PaintedSegment, Form!Rect
<1>8. ASSUME NEW d \in Nat, product <= d * 3, d * 3 < product + width,
             NEW y \in Int, top <= y, y < bottom
      PROVE  Form!SegmentAt(laid, [x |-> left + d, y |-> y]) = k
  BY <1>1, <1>2, <1>3, <1>8, SegmentFound
<1>9. Form!SegmentAt(laid, [x |-> left + (from + 1), y |-> top]) = k
  <2>1. from + 1 \in Nat /\ product <= (from + 1) * 3 /\ (from + 1) * 3 < product + width
    BY <1>2, <1>4, <1>6
  <2> QED BY <1>2, <1>8, <2>1
<1>10. Form!SegmentAt(laid, [x |-> left + (to - 1), y |-> top]) = k
  <2>1. to - 1 \in Nat /\ product <= (to - 1) * 3 /\ (to - 1) * 3 < product + width
    BY <1>2, <1>4, <1>6
  <2> QED BY <1>2, <1>8, <2>1
<1>11. PICK middle, y : middle = (from + to) \div 2 /\ y = (top + bottom) \div 2
  OBVIOUS
<1>12. middle \in Nat /\ from + to <= middle * 2 + 1 /\ middle * 2 <= from + to
  BY <1>6, <1>11
<1>13. Form!SegmentAt(laid, [x |-> left + middle, y |-> y]) = k
  <2>1. product <= middle * 3 /\ middle * 3 < product + width
    BY <1>2, <1>4, <1>6, <1>12
  <2>2. y \in Int /\ top <= y /\ y < bottom
    BY <1>2, <1>11
  <2> QED BY <1>8, <1>12, <2>1, <2>2
<1>14. ((left + from) + (left + to)) \div 2 = left + middle
  BY <1>2, <1>6, <1>11
<1>15. Form!Middle(Form!PaintedSegment(laid, k)) = [x |-> left + middle, y |-> y]
  BY <1>7, <1>11, <1>14 DEF Form!Middle
<1>16. (left + to) - 1 = left + (to - 1) /\ (left + from) + 1 = left + (from + 1)
  BY <1>2, <1>6
<1> QED BY <1>7, <1>9, <1>10, <1>13, <1>15, <1>16

\* From the top of the card to the end of its last field.
FieldsHeight(dpi) ==
    LET S(v) == Form!Scaled(dpi, v)
        one == IF S(1) > 1 THEN S(1) ELSE 1
    IN 5 * S(24) + S(20) + 6 * S(16) + S(2) + S(26) + 4 * S(4) + 10 * S(18) + one
       + 3 * S(22) + 3 * S(12) + 6 * S(8) + 3 * S(32)

\* Whatever the rounding of so many lengths adds, the fields fit in the height
\* the sample asks for, and its header ends above the card.
LEMMA FormAddsUp ==
  ASSUME NEW dpi \in Nat, dpi >= 96
  PROVE  LET S(v) == Form!Scaled(dpi, v)
         IN /\ FieldsHeight(dpi) \in Int
            /\ S(26) + S(40) <= S(96) + S(24)
            /\ S(96) + 2 * S(24) + FieldsHeight(dpi) <= S(860)
BY DEF Form!Scaled, FieldsHeight

\* Fields that stand one below the other, from x on.
FieldsBelow(f, x, top) ==
    /\ \A part \in {"profile", "root", "theme", "autosave", "splash", "verbose"} :
           /\ f[part].left = x /\ f[part].right \in Int /\ f[part].top \in Int /\ f[part].bottom \in Int
    /\ top <= f.profile.top /\ f.profile.top <= f.profile.bottom
    /\ f.profile.bottom <= f.root.top /\ f.root.top <= f.root.bottom
    /\ f.root.bottom <= f.theme.top /\ f.theme.top <= f.theme.bottom
    /\ f.theme.bottom <= f.autosave.top /\ f.autosave.top <= f.autosave.bottom
    /\ f.autosave.bottom <= f.splash.top /\ f.splash.top <= f.splash.bottom
    /\ f.splash.bottom <= f.verbose.top /\ f.verbose.top <= f.verbose.bottom

\* So the settings do, and the last of them ends where their heights add up to.
LEMMA FieldsStacked ==
  ASSUME NEW dpi \in Nat, dpi >= 96, NEW x \in Int, NEW right \in Int, NEW top \in Int
  PROVE  /\ FieldsBelow(Form!Fields(dpi, x, right, top), x, top)
         /\ Form!Fields(dpi, x, right, top).bottom = top + FieldsHeight(dpi)
<1> DEFINE S(v) == Form!Scaled(dpi, v)
           one == IF S(1) > 1 THEN S(1) ELSE 1
           head == S(22) + S(12)
           intro == top + S(20) + S(16) + S(2) + S(26) + S(4) + S(18) + S(16) + Form!Larger(1, S(1)) + S(16)
           wide == Form!Smaller(S(460), right - x)
           narrow == Form!Smaller(S(360), right - x)
           f == Form!Fields(dpi, x, right, top)
<1>1. \A v \in Nat : S(v) \in Nat
  BY ScaledTyped
<1> HIDE DEF S
<1>2. /\ Form!Larger(1, S(1)) = one /\ one \in Nat
      /\ wide \in Int /\ narrow \in Int
  BY <1>1 DEF Form!Larger, Form!Smaller
<1>10. /\ S(18) \in Nat /\ S(8) \in Nat /\ S(32) \in Nat /\ S(24) \in Nat /\ S(4) \in Nat
       /\ S(20) \in Nat /\ S(16) \in Nat /\ S(2) \in Nat /\ S(26) \in Nat /\ S(22) \in Nat
       /\ S(12) \in Nat
  BY <1>1
<1>3. head \in Nat /\ intro \in Int
  BY <1>1, <1>2
<1>4. ASSUME NEW y \in Int, NEW width \in Int
      PROVE  LET r == Form!Field(dpi, x, y, width)
             IN /\ r.input = [left |-> x, top |-> y + S(18) + S(8), right |-> x + width,
                              bottom |-> y + S(18) + S(8) + S(32)]
                /\ r.bottom = y + 2 * S(18) + 2 * S(8) + S(32)
  <2>1. S(18) \in Nat /\ S(8) \in Nat /\ S(32) \in Nat
    BY <1>1
  <2>2. Form!Field(dpi, x, y, width) =
            [input |-> Form!Box(x, y + S(18) + S(8), width, S(32)),
             bottom |-> y + S(18) + S(8) + S(32) + S(8) + S(18)]
    BY DEF Form!Field, S
  <2> QED BY <2>1, <2>2 DEF Form!Box, Form!Rect
<1>5. ASSUME NEW y \in Int
      PROVE  LET r == Form!Check(dpi, x, right, y)
             IN /\ r.input = [left |-> x, top |-> y, right |-> right, bottom |-> y + S(24)]
                /\ r.bottom = y + S(24) + S(4) + S(18)
  BY DEF Form!Check, Form!Rect, S
<1> DEFINE a == intro + head
           profile == Form!Field(dpi, x, a, wide)
           b == a + 2 * S(18) + 2 * S(8) + S(32) + S(16)
           root == Form!Field(dpi, x, b, wide)
           c == b + 2 * S(18) + 2 * S(8) + S(32) + S(24) + head
           theme == Form!Field(dpi, x, c, narrow)
           d == c + 2 * S(18) + 2 * S(8) + S(32) + S(24) + head
           autosave == Form!Check(dpi, x, right, d)
           e == d + S(24) + S(4) + S(18) + S(16)
           splash == Form!Check(dpi, x, right, e)
           h == e + S(24) + S(4) + S(18) + S(16)
           verbose == Form!Check(dpi, x, right, h)
<1> HIDE DEF one, head, intro, wide, narrow
<1>6. a \in Int /\ b \in Int /\ c \in Int /\ d \in Int /\ e \in Int /\ h \in Int
  BY <1>1, <1>3
<1>7. /\ f.profile = profile.input /\ f.root = root.input /\ f.theme = theme.input
      /\ f.autosave = autosave.input /\ f.splash = splash.input /\ f.verbose = verbose.input
      /\ f.bottom = verbose.bottom
  <2> DEFINE T(v) == Form!Scaled(dpi, v)
             profile0 == Form!Field(dpi, x, intro + head, wide)
             root0 == Form!Field(dpi, x, profile0.bottom + S(16), wide)
             theme0 == Form!Field(dpi, x, root0.bottom + S(24) + head, narrow)
             autosave0 == Form!Check(dpi, x, right, theme0.bottom + S(24) + head)
             splash0 == Form!Check(dpi, x, right, autosave0.bottom + S(16))
             verbose0 == Form!Check(dpi, x, right, splash0.bottom + S(16))
  <2>1. f = [profile |-> profile0.input, root |-> root0.input, theme |-> theme0.input,
             autosave |-> autosave0.input, splash |-> splash0.input, verbose |-> verbose0.input,
             bottom |-> verbose0.bottom]
    BY DEF Form!Fields, S, intro, head, wide, narrow
  <2> HIDE DEF f, profile0, root0, theme0, autosave0, splash0, verbose0, a, b, c, d, e, h
  <2>2. profile0 = profile
    BY DEF profile0, a
  <2>3. root0 = root
    <3>1. profile.bottom + S(16) = b
      BY <1>2, <1>4, <1>6 DEF b
    <3> QED BY <2>2, <3>1 DEF root0
  <2>4. theme0 = theme
    <3>1. root.bottom + S(24) + head = c
      BY <1>2, <1>4, <1>6 DEF c
    <3> QED BY <2>3, <3>1 DEF theme0
  <2>5. autosave0 = autosave
    <3>1. theme.bottom + S(24) + head = d
      BY <1>2, <1>4, <1>6 DEF d
    <3> QED BY <2>4, <3>1 DEF autosave0
  <2>6. splash0 = splash
    <3>1. autosave.bottom + S(16) = e
      BY <1>5, <1>6 DEF e
    <3> QED BY <2>5, <3>1 DEF splash0
  <2>7. verbose0 = verbose
    <3>1. splash.bottom + S(16) = h
      BY <1>5, <1>6 DEF h
    <3> QED BY <2>6, <3>1 DEF verbose0
  <2> QED BY <2>1, <2>2, <2>3, <2>4, <2>5, <2>6, <2>7
<1>8. h + S(24) + S(4) + S(18)
        = top + (5 * S(24) + S(20) + 6 * S(16) + S(2) + S(26) + 4 * S(4) + 10 * S(18) + one
                     + 3 * S(22) + 3 * S(12) + 6 * S(8) + 3 * S(32))
  <2>1. h = d + 2 * S(24) + 2 * S(4) + 2 * S(18) + 2 * S(16)
    BY <1>6, <1>10
  <2>2. d = b + 4 * S(18) + 4 * S(8) + 2 * S(32) + 2 * S(24) + 2 * head
    BY <1>3, <1>6, <1>10
  <2>3. b = intro + head + 2 * S(18) + 2 * S(8) + S(32) + S(16)
    BY <1>3, <1>6, <1>10
  <2>4. intro = top + S(20) + 3 * S(16) + S(2) + S(26) + S(4) + S(18) + one
    BY <1>2, <1>10 DEF intro
  <2> HIDE DEF a, b, c, d, e, h
  <2> HIDE DEF S, one, head, intro
  <2> PICK k : k = intro + 3 * head
    OBVIOUS
  <2>5. h + S(24) + S(4) + S(18) = k + 5 * S(24) + 3 * S(4) + 9 * S(18) + 3 * S(16) + 6 * S(8) + 3 * S(32)
    <3>1. PICK s4, s8, s16, s18, s24, s32 \in Nat :
              /\ s4 = S(4) /\ s8 = S(8) /\ s16 = S(16) /\ s18 = S(18) /\ s24 = S(24) /\ s32 = S(32)
      BY <1>10
    <3>2. PICK i \in Int, n \in Nat : i = intro /\ n = head
      BY <1>3
    <3>3. k = i + 3 * n
      BY <3>2
    <3>4. h = i + 3 * n + 4 * s24 + 2 * s4 + 8 * s18 + 3 * s16 + 6 * s8 + 3 * s32
      BY <2>1, <2>2, <2>3, <3>1, <3>2
    <3> QED BY <3>1, <3>3, <3>4
  <2>6. k = top + S(20) + 3 * S(16) + S(2) + S(26) + S(4) + S(18) + one + 3 * S(22) + 3 * S(12)
    <3>1. head = S(22) + S(12)
      BY DEF head
    <3> QED BY <1>2, <1>10, <2>4, <3>1
  <2> QED BY <1>2, <1>10, <2>5, <2>6
<1>9. /\ top <= a /\ a + S(18) + S(8) + S(32) + S(18) + S(8) <= b
      /\ b + S(18) + S(8) + S(32) <= c /\ c + S(18) + S(8) + S(32) <= d
      /\ d + S(24) <= e /\ e + S(24) <= h
  <2>1. top <= a
    BY <1>2, <1>3, <1>10 DEF intro
  <2>2. a + S(18) + S(8) + S(32) + S(18) + S(8) <= b
    BY <1>6, <1>10
  <2>3. b + S(18) + S(8) + S(32) <= c /\ c + S(18) + S(8) + S(32) <= d
    BY <1>3, <1>6, <1>10
  <2>4. d + S(24) <= e /\ e + S(24) <= h
    BY <1>6, <1>10
  <2> QED BY <2>1, <2>2, <2>3, <2>4
<1> HIDE DEF f, profile, root, theme, autosave, splash, verbose, a, b, c, d, e, h
<1>11. /\ profile.input = [left |-> x, top |-> a + S(18) + S(8), right |-> x + wide,
                           bottom |-> a + S(18) + S(8) + S(32)]
       /\ root.input = [left |-> x, top |-> b + S(18) + S(8), right |-> x + wide,
                        bottom |-> b + S(18) + S(8) + S(32)]
       /\ theme.input = [left |-> x, top |-> c + S(18) + S(8), right |-> x + narrow,
                         bottom |-> c + S(18) + S(8) + S(32)]
  BY <1>2, <1>4, <1>6 DEF profile, root, theme
<1>12. /\ autosave.input = [left |-> x, top |-> d, right |-> right, bottom |-> d + S(24)]
       /\ splash.input = [left |-> x, top |-> e, right |-> right, bottom |-> e + S(24)]
       /\ verbose.input = [left |-> x, top |-> h, right |-> right, bottom |-> h + S(24)]
       /\ verbose.bottom = h + S(24) + S(4) + S(18)
  BY <1>5, <1>6 DEF autosave, splash, verbose
<1>13. f.bottom = top + FieldsHeight(dpi)
  <2>1. f.bottom = h + S(24) + S(4) + S(18)
    BY <1>7, <1>12
  <2>2. FieldsHeight(dpi) = 5 * S(24) + S(20) + 6 * S(16) + S(2) + S(26) + 4 * S(4) + 10 * S(18) + one
                                + 3 * S(22) + 3 * S(12) + 6 * S(8) + 3 * S(32)
    BY DEF FieldsHeight, S, one
  <2> QED BY <1>8, <2>1, <2>2
<1>14. \A part \in {"profile", "root", "theme", "autosave", "splash", "verbose"} :
           /\ f[part].left = x /\ f[part].right \in Int /\ f[part].top \in Int /\ f[part].bottom \in Int
  BY <1>2, <1>6, <1>7, <1>10, <1>11, <1>12
<1>15. /\ top <= f.profile.top /\ f.profile.top <= f.profile.bottom
       /\ f.profile.bottom <= f.root.top /\ f.root.top <= f.root.bottom
       /\ f.root.bottom <= f.theme.top /\ f.theme.top <= f.theme.bottom
       /\ f.theme.bottom <= f.autosave.top /\ f.autosave.top <= f.autosave.bottom
       /\ f.autosave.bottom <= f.splash.top /\ f.splash.top <= f.splash.bottom
       /\ f.splash.bottom <= f.verbose.top /\ f.verbose.top <= f.verbose.bottom
  BY <1>6, <1>7, <1>9, <1>10, <1>11, <1>12
<1>16. FieldsBelow(f, x, top)
  BY <1>14, <1>15 DEF FieldsBelow
<1> QED BY <1>13, <1>16 DEF S, one, f

\* The layout of the settings is that of the window: the inputs stand below
\* each other, beside the navigation and below the button.
LEMMA FormMeasured == FormTyped => Form!LaidOut
<1> SUFFICES ASSUME FormTyped PROVE Form!LaidOut
  OBVIOUS
<1>1. PICK size \in WindowSizes.form, dpi \in Dpi.form : size = win.size /\ dpi = win.dpi
  BY DEF FormTyped
<1>2. size.w \in Nat /\ size.h \in Nat /\ dpi \in Nat /\ dpi >= 96
  BY SizesAssumption
<1> PICK g : g = win.laid
  OBVIOUS
<1>3. g = Form!Geometry(size, dpi)
  BY <1>1 DEF FormTyped
<1> DEFINE S(v) == Form!Scaled(dpi, v)
<1>30. \A v \in Nat : S(v) \in Nat
  BY <1>2, ScaledTyped
<1> HIDE DEF S
<1>31. PICK s8, s16, s18, s24 \in Nat : s8 = S(8) /\ s16 = S(16) /\ s18 = S(18) /\ s24 = S(24)
  BY <1>30
<1>32. PICK s26, s40, s44, s96 \in Nat : s26 = S(26) /\ s40 = S(40) /\ s44 = S(44) /\ s96 = S(96)
  BY <1>30
<1>33. PICK s150, s216, s860 \in Nat : s150 = S(150) /\ s216 = S(216) /\ s860 = S(860)
  BY <1>30
<1>4. /\ s8 = S(8) /\ s16 = S(16) /\ s18 = S(18) /\ s24 = S(24) /\ s26 = S(26) /\ s40 = S(40)
      /\ s44 = S(44) /\ s96 = S(96) /\ s150 = S(150) /\ s216 = S(216) /\ s860 = S(860)
  BY <1>31, <1>32, <1>33
<1> USE DEF S
<1>5. PICK left, right \in Int : left = Form!Column(size, dpi).left /\ right = Form!Column(size, dpi).right
  BY ColumnTyped
<1>6. PICK high \in Nat : high = size.h
  BY <1>2
<1> DEFINE shell == Form!Shell(Form!Column(size, dpi), size, dpi)
           top == s96 + s24
           x == left + s216 + s16 + s24
           edge == Form!Larger(x, right - s24)
           fields == Form!Fields(dpi, x, edge, top)
           foot == IF top >= high - s24 THEN top ELSE high - s24
<1>7. shell = [nav |-> [left |-> left + s8, top |-> top + s18 + s16 + s8, right |-> left + s216 - s8,
                        bottom |-> top + s18 + s16 + s8 + 3 * s44],
               save |-> [left |-> right - s150, top |-> s26, right |-> right - s150 + s150, bottom |-> s26 + s40],
               card |-> [left |-> left + s216 + s16, top |-> top, right |-> right, bottom |-> foot]]
  BY <1>4, <1>5, <1>6 DEF Form!Shell, Form!Rect, Form!Box, Form!Larger
<1>8. g = [part \in DOMAIN shell \cup DOMAIN fields |-> IF part \in DOMAIN shell THEN shell[part] ELSE fields[part]]
  <2>1. shell.card.left + S(24) = x /\ shell.card.right - S(24) = right - s24 /\ shell.card.top = top
    <3> HIDE DEF shell, top, S
    <3> QED BY <1>4, <1>7
  <2>2. g = LET y == shell.card.left + S(24)
                f == Form!Fields(dpi, y, Form!Larger(y, shell.card.right - S(24)), shell.card.top)
            IN [part \in DOMAIN shell \cup DOMAIN f |-> IF part \in DOMAIN shell THEN shell[part] ELSE f[part]]
    BY <1>3 DEF Form!Geometry
  <2> HIDE DEF shell, top, S
  <2> QED BY <2>1, <2>2
<1>9. DOMAIN shell = {"nav", "save", "card"}
  <2> HIDE DEF shell, top, foot
  <2> QED BY <1>7
<1>10. DOMAIN fields = {"profile", "root", "theme", "autosave", "splash", "verbose", "bottom"}
  BY DEF Form!Fields
<1>11. top \in Int /\ x \in Int /\ edge \in Int /\ foot \in Int
  BY DEF Form!Larger
<1>12. FieldsBelow(fields, x, top) /\ fields.bottom = top + FieldsHeight(dpi)
  <2> HIDE DEF top, x, edge
  <2> QED BY <1>2, <1>11, FieldsStacked
<1>13. PICK sum \in Int : fields.bottom = top + sum /\ s26 + s40 <= top /\ top + sum + s24 <= s860
  <2>1. PICK sum \in Int : sum = FieldsHeight(dpi)
    BY <1>2, FormAddsUp
  <2>3. S(26) + S(40) <= S(96) + S(24) /\ S(96) + 2 * S(24) + FieldsHeight(dpi) <= S(860)
    BY <1>2, FormAddsUp
  <2> HIDE DEF S, fields
  <2>4. s26 + s40 <= s96 + s24 /\ s96 + 2 * s24 + sum <= s860
    BY <1>4, <2>1, <2>3
  <2> QED BY <1>12, <2>1, <2>4
<1> HIDE DEF fields, shell, S
<1>14. /\ g.nav = shell.nav /\ g.save = shell.save /\ g.card = shell.card
       /\ \A part \in {"profile", "root", "theme", "autosave", "splash", "verbose", "bottom"} : g[part] = fields[part]
  BY <1>8, <1>9, <1>10
<1>15. FieldsBelow(g, x, top)
  <2>1. /\ g.profile = fields.profile /\ g.root = fields.root /\ g.theme = fields.theme
        /\ g.autosave = fields.autosave /\ g.splash = fields.splash /\ g.verbose = fields.verbose
    BY <1>14
  <2> HIDE DEF top, x
  <2> QED BY <1>12, <2>1 DEF FieldsBelow
<1>16. /\ g.nav.right = left + s216 - s8 /\ g.nav.top = top + s18 + s16 + s8
       /\ g.save.bottom = s26 + s40 /\ g.card.bottom = foot
  <2> HIDE DEF top, foot
  <2> QED BY <1>7, <1>14
<1>17. /\ g.nav.right <= x /\ g.save.bottom <= top /\ top <= g.nav.top
       /\ g.nav.right \in Int /\ g.save.bottom \in Int /\ g.nav.top \in Int
  <2> HIDE DEF foot
  <2> QED BY <1>13, <1>16
<1>18. \A r, s \in {"profile", "root", "theme", "autosave", "splash", "verbose", "nav", "save"} :
           r # s => Form!Apart(g[r], g[s])
  <2> HIDE DEF top, x, foot
  <2> DEFINE inputs == {"profile", "root", "theme", "autosave", "splash", "verbose"}
  <2>1. \A r, s \in inputs : r # s => Form!Apart(g[r], g[s])
    BY <1>11, <1>15 DEF Form!Apart, FieldsBelow
  <2>2. \A r \in inputs : /\ Form!Apart(g[r], g.nav) /\ Form!Apart(g.nav, g[r])
                          /\ Form!Apart(g[r], g.save) /\ Form!Apart(g.save, g[r])
    BY <1>11, <1>15, <1>17 DEF Form!Apart, FieldsBelow
  <2>3. Form!Apart(g.save, g.nav) /\ Form!Apart(g.nav, g.save)
    BY <1>11, <1>17 DEF Form!Apart
  <2> QED BY <2>1, <2>2, <2>3
<1>19. high >= s860 => g.bottom <= g.card.bottom
  <2>1. g.bottom = top + sum
    BY <1>13, <1>14
  <2> QED BY <1>13, <1>16, <2>1
<1>20. win.size.h = high /\ Form!Scaled(win.dpi, 860) = s860 /\ win.laid = g
       /\ win.laid = Form!Geometry(win.size, win.dpi)
  BY <1>1, <1>3, <1>4, <1>6 DEF S
<1> HIDE DEF top, x, foot
<1>21. \A r, s \in {"profile", "root", "theme", "autosave", "splash", "verbose"} \cup {"nav", "save"} :
           r # s => Form!Apart(win.laid[r], win.laid[s])
  BY <1>18, <1>20
<1>22. win.size.h >= Form!Scaled(win.dpi, 860) => win.laid.bottom <= win.laid.card.bottom
  BY <1>19, <1>20
<1>23. win.laid = Form!Geometry(win.size, win.dpi)
  BY <1>20
<1> QED BY <1>21, <1>22, <1>23 DEF Form!LaidOut

-----------------------------------------------------------------------------
(* The panels of the dashboard, at any size *)

PanelsLaid ==
    /\ PanelFields \subseteq DOMAIN win
    /\ win.size \in WindowSizes.panels /\ win.compared \in BOOLEAN
    /\ win.shown = win.compared /\ win.laid = Panels!Geometry(win.size, win.compared)

\* The dashboard begins with both charts.
LEMMA PanelsLaidInit == Panels!Init => PanelsLaid
BY DEF Panels!Init, PanelsLaid, PanelFields

\* A change of the size or of the toggle lays the children out again, and
\* nothing else touches what the layout depends on.
LEMMA PanelsLaidStep == PanelsLaid /\ Panels!Next => PanelsLaid'
<1> SUFFICES ASSUME PanelsLaid, Panels!Next PROVE PanelsLaid'
  OBVIOUS
<1> DEFINE q == Panels!Quiet(win)
           Kept(v, w) == /\ PanelFields \subseteq DOMAIN w
                         /\ w.size = v.size /\ w.compared = v.compared
                         /\ w.shown = v.shown /\ w.laid = v.laid
<1>0. PanelFields \subseteq DOMAIN q /\ Kept(win, q)
  BY DEF PanelsLaid, Panels!Quiet, PanelFields
<1> HIDE DEF q
<1>1. Kept(q, win') => PanelsLaid'
  BY <1>0 DEF PanelsLaid
<1>2. ASSUME NEW w, PanelFields \subseteq DOMAIN w, w.shown = w.compared, w.compared \in BOOLEAN,
             w.size \in WindowSizes.panels,
             \/ win' = Panels!LayoutChildren(w)
             \/ win' = Panels!Asking(Panels!LayoutChildren(w), {"info"})
      PROVE  PanelsLaid'
  <2> DEFINE g == Panels!Geometry(w.size, w.compared)
             tiles == Panels!TileRow(g.kpi, w.tiles)
             v == Panels!LayoutChildren(w)
  <2>1. v = Panels!Asking([w EXCEPT !.laid = g, !.tiles = tiles], {"main", "info"})
    BY DEF Panels!LayoutChildren
  <2> HIDE DEF g, tiles, v
  <2>2. /\ PanelFields \subseteq DOMAIN v /\ v.size = w.size /\ v.compared = w.compared
        /\ v.shown = w.shown /\ v.laid = g
    BY <1>2, <2>1 DEF Panels!Asking, PanelFields
  <2>3. /\ PanelFields \subseteq DOMAIN win' /\ win'.size = w.size /\ win'.compared = w.compared
        /\ win'.shown = w.shown /\ win'.laid = g
    BY <1>2, <2>2 DEF Panels!Asking, PanelFields, v
  <2> QED BY <1>2, <2>3 DEF PanelsLaid, g
<1>3. CASE Panels!Resize
  <2>1. PICK size \in WindowSizes.panels : win' = Panels!LayoutChildren([q EXCEPT !.size = size])
    BY <1>3 DEF Panels!Resize, q
  <2> PICK w : w = [q EXCEPT !.size = size]
    OBVIOUS
  <2>2. /\ PanelFields \subseteq DOMAIN w /\ w.shown = w.compared /\ w.compared \in BOOLEAN
        /\ w.size = size
    BY <1>0 DEF PanelsLaid, PanelFields
  <2> QED BY <1>2, <2>1, <2>2
<1>4. CASE \E t : Panels!PanelPress(t)
  <2>1. \/ win' = q
        \/ \E row : win' = Panels!Asking([q EXCEPT !.checked[row] = ~@], {"info"})
        \/ win' = Panels!Asking(Panels!ToggleComparison([q EXCEPT !.compared = ~@]), {"info"})
    BY <1>4 DEF Panels!PanelPress, q
  <2>2. ASSUME NEW row, win' = Panels!Asking([q EXCEPT !.checked[row] = ~@], {"info"})
        PROVE  PanelsLaid'
    BY <1>0, <1>1, <2>2 DEF Panels!Asking, PanelFields
  <2>3. CASE win' = Panels!Asking(Panels!ToggleComparison([q EXCEPT !.compared = ~@]), {"info"})
    <3> PICK w : w = [[q EXCEPT !.compared = ~@] EXCEPT !.shown = ~q.compared]
      OBVIOUS
    <3>1. /\ PanelFields \subseteq DOMAIN w /\ w.shown = w.compared /\ w.compared \in BOOLEAN
          /\ w.size \in WindowSizes.panels
      BY <1>0 DEF PanelsLaid, PanelFields
    <3>2. Panels!ToggleComparison([q EXCEPT !.compared = ~@]) = Panels!LayoutChildren(w)
      BY <1>0 DEF Panels!ToggleComparison, PanelFields
    <3> QED BY <1>2, <2>3, <3>1, <3>2
  <2> QED BY <1>0, <1>1, <2>1, <2>2, <2>3
<1>5. CASE \/ \E b : Panels!MouseMove(b) \/ Panels!LButtonDown(b)
           \/ Panels!MouseLeave
           \/ \E t : Panels!PanelMove(t)
  <2>1. Kept(q, win')
    BY <1>0, <1>5 DEF Panels!MouseMove, Panels!Tracked, Panels!LButtonDown, Panels!MouseLeave, Panels!PanelMove,
                      Panels!Asking, PanelFields, q
  <2> QED BY <1>1, <2>1
<1>6. CASE \/ \E b : Panels!LButtonUp(b)
           \/ \E points : Panels!RangeSelected(points)
           \/ \E values : Panels!CursorMoved(values)
  <2>1. \E f \in {"pressed", "selection", "readout"} : \E x, asked :
           LET w == Panels!Asking([q EXCEPT ![f] = x], asked)
           IN win' = w \/ \E text : win' = Panels!SetStatusText(w, text)
    BY <1>6 DEF Panels!LButtonUp, Panels!RangeSelected, Panels!CursorMoved, Panels!Command, q
  <2>2. PICK f \in {"pressed", "selection", "readout"} : \E x, asked :
           LET w == Panels!Asking([q EXCEPT ![f] = x], asked)
           IN win' = w \/ \E text : win' = Panels!SetStatusText(w, text)
    BY <2>1
  <2> PICK x, asked :
           LET w == Panels!Asking([q EXCEPT ![f] = x], asked)
           IN win' = w \/ \E text : win' = Panels!SetStatusText(w, text)
    BY <2>2
  <2> PICK w : w = Panels!Asking([q EXCEPT ![f] = x], asked)
    OBVIOUS
  <2>3. Kept(q, w)
    BY <1>0 DEF Panels!Asking, PanelFields
  <2>4. win' = w \/ \E text : win' = Panels!SetStatusText(w, text)
    OBVIOUS
  <2>5. Kept(q, win')
    BY <2>3, <2>4 DEF Panels!SetStatusText, Panels!Asking, PanelFields
  <2> QED BY <1>1, <2>5
<1> QED BY <1>3, <1>4, <1>5, <1>6 DEF Panels!Next

\* The four buttons stand side by side, and the toggle above every row.
LEMMA ButtonsFound == PanelsLaid => Panels!ButtonsAreHit
<1> SUFFICES ASSUME PanelsLaid PROVE Panels!ButtonsAreHit
  OBVIOUS
<1> PICK wide : wide = win.size.w
  OBVIOUS
<1>1. wide \in Nat
  BY SizesAssumption DEF PanelsLaid
<1> DEFINE Left(b) == CASE b = "settings" -> wide - 34
                        [] b = "reset"    -> wide - 64
                        [] b = "export"   -> wide - 94
                        [] b = "theme"    -> wide - 178
           Width(b) == IF b = "theme" THEN 72 ELSE 22
<1>2. \A b \in Panels!Buttons :
          Panels!ButtonRect(win.size, b) = [left |-> Left(b), top |-> 5, right |-> Left(b) + Width(b), bottom |-> 27]
  BY <1>1 DEF Panels!Buttons, Panels!ButtonRect, Panels!Rect, Panels!Padding, Panels!Title
<1>3. \A b \in Panels!Buttons :
          Panels!Middle(Panels!ButtonRect(win.size, b)) = [x |-> Left(b) + (Width(b) \div 2), y |-> 16]
  BY <1>1, <1>2 DEF Panels!Middle, Panels!Buttons
<1>4. ASSUME NEW b \in Panels!Buttons, NEW c \in Panels!Buttons
      PROVE  Panels!Contains(Panels!ButtonRect(win.size, c), Panels!Middle(Panels!ButtonRect(win.size, b)))
                 <=> b = c
  BY <1>1, <1>2, <1>3 DEF Panels!Contains, Panels!Buttons
<1>5. ASSUME NEW b \in Panels!Buttons
      PROVE  Panels!HitToolbar(win.size, Panels!Middle(Panels!ButtonRect(win.size, b))) = b
  <2> PICK p : p = Panels!Middle(Panels!ButtonRect(win.size, b))
    OBVIOUS
  <2> DEFINE hits == {c \in Panels!Buttons : Panels!Contains(Panels!ButtonRect(win.size, c), p)}
  <2>1. hits = {b}
    BY <1>4
  <2>2. Panels!HitToolbar(win.size, p) = IF hits = {} THEN Panels!None ELSE CHOOSE c \in hits : TRUE
    BY DEF Panels!HitToolbar
  <2> HIDE DEF hits
  <2> QED BY <2>1, <2>2
<1>6. Panels!Middle(Panels!PaintedToggle) = [x |-> 19, y |-> 70]
  BY DEF Panels!Middle, Panels!PaintedToggle, Panels!Rect, Panels!Padding
<1>7. Panels!Contains(Panels!ToggleTarget, Panels!Middle(Panels!PaintedToggle))
  BY <1>6 DEF Panels!Contains, Panels!ToggleTarget, Panels!Rect, Panels!Padding
<1>8. ASSUME NEW row \in InfoRows
      PROVE  ~Panels!Contains(Panels!BoxTarget(row), Panels!Middle(Panels!PaintedToggle))
  <2>1. row \in Nat
    BY SizesAssumption
  <2> QED BY <1>6, <2>1 DEF Panels!Contains, Panels!BoxTarget, Panels!Rect, Panels!Padding
<1>9. Panels!HitBox(Panels!Middle(Panels!PaintedToggle)) = Panels!Nowhere
  BY <1>8 DEF Panels!HitBox
<1> QED BY <1>5, <1>7, <1>9 DEF Panels!ButtonsAreHit

\* The rectangles are those of the size, and leave a gap between them.
LEMMA PanelsMeasured == PanelsLaid => Panels!LaidOut
<1> SUFFICES ASSUME PanelsLaid PROVE Panels!LaidOut
  OBVIOUS
<1> PICK w : w = win.size.w
  OBVIOUS
<1> PICK h : h = win.size.h
  OBVIOUS
<1>1. w \in Nat /\ h \in Nat
  BY SizesAssumption DEF PanelsLaid
<1> DEFINE remaining == h - 228
           part == Panels!Div(remaining * 55, 100)
           height == IF win.compared THEN part ELSE remaining
           second == IF win.compared THEN remaining - height - 12 ELSE 0
<1>2. part \in Int
  BY <1>1 DEF Panels!Div
<1> PICK g : g = win.laid
  OBVIOUS
<1> HIDE DEF part
<1>3. /\ g.kpi = [left |-> 12, top |-> 44, right |-> w - 344, bottom |-> 176]
      /\ g.primary = [left |-> 12, top |-> 188, right |-> w - 344, bottom |-> 188 + height]
      /\ g.comparison = [left |-> 12, top |-> 188 + height + 12, right |-> w - 344,
                         bottom |-> 188 + height + 12 + second]
      /\ g.info = [left |-> w - 332, top |-> 32, right |-> w - 12, bottom |-> h - 28]
  BY <1>1, <1>2 DEF PanelsLaid, Panels!Geometry, Panels!Rect, Panels!Padding, Panels!Title, Panels!Status,
                    part
<1> HIDE DEF remaining
<1>4. remaining = h - 228
  BY DEF remaining
<1> QED BY <1>1, <1>2, <1>3, <1>4 DEF PanelsLaid, Panels!LaidOut, Panels!Padding

-----------------------------------------------------------------------------
(* The workbench, at any size *)

\* Once painted, the toolbar is where the present scale puts it.
WorkbenchLaid ==
    /\ WorkbenchFields \subseteq DOMAIN win
    /\ win.size \in WindowSizes.workbench /\ win.dpi \in Dpi.workbench
    /\ win.laid = Workbench!Geometry(win.size, win.dpi)
    /\ ~win.due => win.tools = win.dpi

\* It is created so.
LEMMA WorkbenchLaidInit == Workbench!Init => WorkbenchLaid
BY DEF Workbench!Init, Workbench!Created, WorkbenchLaid, WorkbenchFields

\* A new size or scale lays it out and asks for a paint; nothing else moves.
LEMMA WorkbenchLaidStep == WorkbenchLaid /\ Workbench!Next => WorkbenchLaid'
<1> SUFFICES ASSUME WorkbenchLaid, Workbench!Next PROVE WorkbenchLaid'
  OBVIOUS
<1> DEFINE q == Workbench!Quiet(win)
           Kept(v, w) == /\ WorkbenchFields \subseteq DOMAIN w
                         /\ w.size = v.size /\ w.dpi = v.dpi /\ w.laid = v.laid
                         /\ w.tools = v.tools
                         /\ ~w.due => ~v.due
<1>0. WorkbenchFields \subseteq DOMAIN q /\ Kept(win, q)
  BY DEF WorkbenchLaid, Workbench!Quiet, WorkbenchFields
<1> HIDE DEF q
<1>1. Kept(q, win') => WorkbenchLaid'
  BY <1>0 DEF WorkbenchLaid
<1>2. ASSUME NEW w, WorkbenchFields \subseteq DOMAIN w, w.size \in WindowSizes.workbench, w.dpi \in Dpi.workbench
      PROVE  LET v == Workbench!Layout(w)
             IN /\ WorkbenchFields \subseteq DOMAIN v /\ v.size = w.size /\ v.dpi = w.dpi /\ v.due
                /\ v.laid = Workbench!Geometry(w.size, w.dpi)
  <2> PICK g : g = Workbench!Geometry(w.size, w.dpi)
    OBVIOUS
  <2>1. Workbench!Layout(w) = Workbench!Asking([w EXCEPT !.laid = g], {"main", "inspector"})
    BY DEF Workbench!Layout
  <2> QED BY <1>2, <2>1 DEF Workbench!Asking, WorkbenchFields
<1>3. CASE Workbench!Paint
  <2>1. win' = [q EXCEPT !.due = FALSE, !.tools = win.dpi]
    BY <1>3 DEF Workbench!Paint, q
  <2> QED BY <1>0, <2>1 DEF WorkbenchLaid, WorkbenchFields
<1>4. CASE Workbench!Resize
  <2>1. PICK size \in WindowSizes.workbench : win' = Workbench!Layout([q EXCEPT !.size = size])
    BY <1>4 DEF Workbench!Resize, q
  <2> PICK w : w = [q EXCEPT !.size = size]
    OBVIOUS
  <2>2. WorkbenchFields \subseteq DOMAIN w /\ w.size \in WindowSizes.workbench /\ w.dpi \in Dpi.workbench
    BY <1>0 DEF WorkbenchLaid, WorkbenchFields
  <2> QED BY <1>2, <2>1, <2>2 DEF WorkbenchLaid
<1>5. CASE Workbench!DpiChanged
  <2>1. PICK dpi \in Dpi.workbench, size \in WindowSizes.workbench :
            win' = Workbench!Layout(Workbench!Layout([q EXCEPT !.dpi = dpi, !.size = size]))
    BY <1>5 DEF Workbench!DpiChanged, q
  <2> PICK w : w = [q EXCEPT !.dpi = dpi, !.size = size]
    OBVIOUS
  <2>2. WorkbenchFields \subseteq DOMAIN w /\ w.size \in WindowSizes.workbench /\ w.dpi \in Dpi.workbench
    BY <1>0 DEF WorkbenchLaid, WorkbenchFields
  <2> PICK v : v = Workbench!Layout(w)
    OBVIOUS
  <2>3. WorkbenchFields \subseteq DOMAIN v /\ v.size \in WindowSizes.workbench /\ v.dpi \in Dpi.workbench
    BY <1>2, <2>2
  <2> QED BY <1>2, <2>1, <2>3 DEF WorkbenchLaid
<1>6. CASE \/ \E t : Workbench!MouseMove(t) \/ Workbench!LButtonDown(t)
           \/ Workbench!MouseLeave \/ Workbench!ContextRefresh \/ Workbench!ThemeMenu
  <2>1. Kept(q, win')
    BY <1>0, <1>6 DEF Workbench!MouseMove, Workbench!Tracked, Workbench!MouseLeave, Workbench!LButtonDown,
                      Workbench!ContextRefresh, Workbench!ThemeMenu,
                      Workbench!SetCommand, Workbench!Asking, WorkbenchFields, q
  <2> QED BY <1>1, <2>1
<1>7. CASE Workbench!Scroll
  <2>1. PICK zoom : win' = Workbench!Asking(Workbench!SetStatus([q EXCEPT !.zoom = zoom], "ready"), {"main"})
    BY <1>7 DEF Workbench!Scroll, q
  <2>2. Kept(q, win')
    BY <1>0, <2>1 DEF Workbench!SetStatus, Workbench!Asking, WorkbenchFields
  <2> QED BY <1>1, <2>2
<1>8. CASE Workbench!SelectRow
  <2>1. PICK row : win' = Workbench!SetStatus(
                      Workbench!Asking([q EXCEPT !.selected = row], {"inspector"}), "row")
    BY <1>8 DEF Workbench!SelectRow, q
  <2>2. Kept(q, win')
    BY <1>0, <2>1 DEF Workbench!SetStatus, Workbench!Asking, WorkbenchFields
  <2> QED BY <1>1, <2>2
<1>9. CASE Workbench!ThemeChanged
  <2>1. \/ win' = q
        \/ \E mode : win' = Workbench!Asking(Workbench!SetStatus([q EXCEPT !.mode = mode], "ready"), {"main"})
    BY <1>9 DEF Workbench!ThemeChanged, Workbench!ApplyTheme, q
  <2>2. Kept(q, win')
    BY <1>0, <2>1 DEF Workbench!SetStatus, Workbench!Asking, WorkbenchFields
  <2> QED BY <1>1, <2>2
<1> QED BY <1>3, <1>4, <1>5, <1>6, <1>7, <1>8, <1>9 DEF Workbench!Next

\* The tools stand side by side.
LEMMA ToolsStand ==
  ASSUME NEW dpi \in Nat, dpi >= 96, NEW k \in 1..6, NEW j \in 1..6
  PROVE  Workbench!Contains(Workbench!ToolRect(dpi, dpi, j), Workbench!Middle(Workbench!ToolRect(dpi, dpi, k)))
             <=> j = k
<1> DEFINE S(v) == Workbench!Scaled(dpi, v)
<1>1. PICK s4, s8, s16, s32 \in Nat : s4 = S(4) /\ s8 = S(8) /\ s16 = S(16) /\ s32 = S(32)
  BY DEF Workbench!Scaled
<1>2. s32 >= 32
  BY <1>1 DEF Workbench!Scaled
<1>3. PICK top \in Int : top = Workbench!ToolTop(dpi)
  BY DEF Workbench!ToolTop, Workbench!Scaled, Workbench!Div
<1> HIDE DEF S
<1> DEFINE Left(i) == s8 + (i - 1) * s32 + (IF i <= 3 THEN (i - 1) * s4 ELSE (i - 2) * s4 + s16)
<1>4. \A i \in 1..6 : Workbench!ToolRect(dpi, dpi, i) =
          [left |-> Left(i), top |-> top, right |-> Left(i) + s32, bottom |-> top + s32]
  BY <1>1, <1>3 DEF Workbench!ToolRect, Workbench!ToolLeft, Workbench!Box, Workbench!Rect, S
<1>5. \A i \in 1..6 : Left(i) \in Int
  OBVIOUS
<1>6. \A i, l \in 1..6 : i < l => Left(i) + s32 <= Left(l)
  <2>1. /\ Left(1) = s8 /\ Left(2) = s8 + s32 + s4 /\ Left(3) = s8 + 2 * s32 + 2 * s4
        /\ Left(4) = s8 + 3 * s32 + 2 * s4 + s16 /\ Left(5) = s8 + 4 * s32 + 3 * s4 + s16
        /\ Left(6) = s8 + 5 * s32 + 4 * s4 + s16
    OBVIOUS
  <2> HIDE DEF Left
  <2> QED BY <1>2, <2>1
<1> HIDE DEF Left
<1> PICK a, b : a = Left(j) /\ b = Left(k)
  OBVIOUS
<1>7. a \in Int /\ b \in Int
  BY <1>5
<1>8. Workbench!Middle(Workbench!ToolRect(dpi, dpi, k)) = [x |-> (b + (b + s32)) \div 2, y |-> (top + (top + s32)) \div 2]
  BY <1>4 DEF Workbench!Middle
<1>9. j # k => a + s32 <= b \/ b + s32 <= a
  BY <1>6
<1>10. Workbench!ToolRect(dpi, dpi, j) = [left |-> a, top |-> top, right |-> a + s32, bottom |-> top + s32]
  BY <1>4
<1>11. /\ top <= (top + (top + s32)) \div 2 /\ (top + (top + s32)) \div 2 < top + s32
       /\ b <= (b + (b + s32)) \div 2 /\ (b + (b + s32)) \div 2 < b + s32
       /\ (b + (b + s32)) \div 2 \in Int
  BY <1>2, <1>7
<1>12. j = k => a = b
  OBVIOUS
<1> QED BY <1>2, <1>7, <1>8, <1>9, <1>10, <1>11, <1>12 DEF Workbench!Contains

\* So what is painted there is what is hit there.
LEMMA ToolsFound == WorkbenchLaid => Workbench!ToolsAreHit
<1> SUFFICES ASSUME WorkbenchLaid, ~win.due, NEW k \in DOMAIN Workbench!Tools
             PROVE  Workbench!HitTool(win, Workbench!Aimed(Workbench!Tools[k])) = Workbench!Tools[k]
  BY DEF Workbench!ToolsAreHit
<1>1. PICK dpi \in Nat : dpi >= 96 /\ win.dpi = dpi /\ win.tools = dpi
  BY SizesAssumption DEF WorkbenchLaid
<1>2. DOMAIN Workbench!Tools = 1..6
  BY DEF Workbench!Tools
<1>3. Workbench!Tools[k] # Workbench!NoTool /\ \A j \in 1..6 : Workbench!Tools[j] = Workbench!Tools[k] => j = k
  BY <1>2 DEF Workbench!Tools, Workbench!NoTool
<1> DEFINE p == Workbench!Middle(Workbench!ToolRect(dpi, dpi, k))
           hits == {j \in 1..6 : Workbench!Contains(Workbench!ToolRect(dpi, dpi, j), p)}
<1>4. Workbench!Aimed(Workbench!Tools[k]) = p
  <2> DEFINE i == CHOOSE j \in DOMAIN Workbench!Tools : Workbench!Tools[j] = Workbench!Tools[k]
  <2>1. i = k
    BY <1>2, <1>3
  <2>2. Workbench!Aimed(Workbench!Tools[k]) = Workbench!Middle(Workbench!ToolRect(win.tools, win.tools, i))
    BY <1>3 DEF Workbench!Aimed
  <2> HIDE DEF i
  <2> QED BY <1>1, <2>1, <2>2
<1>5. hits = {k}
  BY <1>1, <1>2, ToolsStand
<1>6. Workbench!HitTool(win, p) = IF hits = {} THEN Workbench!NoTool
                                  ELSE Workbench!Tools[CHOOSE i \in hits : \A j \in hits : i <= j]
  BY <1>1, <1>2 DEF Workbench!HitTool
<1> HIDE DEF hits, p
<1>7. (CHOOSE i \in {k} : \A j \in {k} : i <= j) = k
  BY <1>2
<1> QED BY <1>4, <1>5, <1>6, <1>7

\* The three columns stand side by side, and what is in one of them below each other.
LEMMA WorkbenchMeasured == WorkbenchLaid => Workbench!LaidOut
<1> SUFFICES ASSUME WorkbenchLaid PROVE Workbench!LaidOut
  OBVIOUS
<1>1. PICK dpi \in Nat, w \in Nat, h \in Nat : dpi = win.dpi /\ w = win.size.w /\ h = win.size.h /\ dpi >= 96
  BY SizesAssumption DEF WorkbenchLaid
<1> DEFINE S(v) == Workbench!Scaled(dpi, v)
<1>2. \A v \in Nat : S(v) \in Nat
  BY <1>1, ScaledTyped DEF Workbench!Scaled, Form!Scaled
<1> HIDE DEF S
<1>3. PICK s4, s8, s12, s20, s22, s24 \in Nat :
          s4 = S(4) /\ s8 = S(8) /\ s12 = S(12) /\ s20 = S(20) /\ s22 = S(22) /\ s24 = S(24)
  BY <1>2
<1>4. PICK s32, s56, s96, s220, s260 \in Nat :
          s32 = S(32) /\ s56 = S(56) /\ s96 = S(96) /\ s220 = S(220) /\ s260 = S(260)
  BY <1>2
<1> PICK g : g = win.laid
  OBVIOUS
<1> DEFINE row == s56 + s24 + s8
           height == h - 23
           center == s260 + s4 + s8
           width == w - s260 - s260 - 2 * s4 - 2 * s8
           below == row + s32 + s8
           room == Workbench!Larger(0, height - below - s8)
           right == w - s260
           inspector == row + s20 + 2 * s8 + s32 + s96 + s8
           card == s260 - 2 * s8
           list == Workbench!Smaller(s22 + 5 * s22 + s12, room)
           deep == Workbench!Larger(s220, Workbench!Larger(0, height - s8 - inspector))
           R(x, y, across, down) == [left |-> x, top |-> y, right |-> x + across, bottom |-> y + down]
<1>5. win.laid =
         [search |-> R(s8, row, card, s32), tree |-> R(s8, below, card, room),
          left |-> R(s260, 0, s4, height), tabs |-> R(center, row, width, s32),
          list |-> R(center, below, width, list), right |-> R(right - s4, 0, s4, height),
          slider |-> R(right + s8, row + s20 + s8, card, s32),
          inspector |-> R(right + s8, inspector, card, deep)]
  BY <1>1, <1>3, <1>4 DEF WorkbenchLaid, Workbench!Geometry, Workbench!Box, Workbench!Rect, Workbench!StatusHeight, S
<1>6. Workbench!BuildCard(win.size, win.dpi) = R(right + s8, row + s20 + 2 * s8 + s32, card, s96)
  BY <1>1, <1>3, <1>4 DEF Workbench!BuildCard, Workbench!Box, Workbench!Rect, S
<1>7. room \in Nat /\ list \in Nat /\ deep \in Nat
  BY DEF Workbench!Larger, Workbench!Smaller
<1> HIDE DEF room, list, deep
<1> DEFINE panes == {"search", "tree", "left", "tabs", "list", "right", "slider", "inspector"}
<1>8. ASSUME width >= 0, NEW r \in panes, NEW s \in panes, r # s
      PROVE  Workbench!Apart(win.laid[r], win.laid[s])
  BY <1>5, <1>7, <1>8 DEF Workbench!Apart
<1>9. ASSUME width >= 0, NEW r \in panes
      PROVE  Workbench!Apart(win.laid[r], Workbench!BuildCard(win.size, win.dpi))
  BY <1>5, <1>6, <1>7, <1>9 DEF Workbench!Apart
<1>10. win.laid.tabs.left <= win.laid.tabs.right => width >= 0
  BY <1>5
<1>11. win.laid = Workbench!Geometry(win.size, win.dpi)
  BY DEF WorkbenchLaid
<1> HIDE DEF width, R
<1> QED BY <1>8, <1>9, <1>10, <1>11 DEF Workbench!LaidOut

-----------------------------------------------------------------------------
(* The dark studio, at any size *)

StudioLaid ==
    /\ StudioFields \subseteq DOMAIN win
    /\ win.client \in WindowSizes.studio /\ win.dpi \in Dpi.studio

\* It is created so.
LEMMA StudioLaidInit == Studio!Init => StudioLaid
BY DEF Studio!Init, StudioLaid, StudioFields

\* A press changes neither the size nor the scale.
LEMMA StudioLaidStep == StudioLaid /\ Studio!Next => StudioLaid'
<1> SUFFICES ASSUME StudioLaid, Studio!Next PROVE StudioLaid'
  OBVIOUS
<1> DEFINE q == Studio!Quiet(win)
           Kept(v, w) == /\ StudioFields \subseteq DOMAIN w
                         /\ w.client = v.client /\ w.dpi = v.dpi
<1>0. StudioFields \subseteq DOMAIN q /\ Kept(win, q)
  BY DEF StudioLaid, Studio!Quiet, StudioFields
<1> HIDE DEF q
<1>1. Kept(q, win') => StudioLaid'
  BY <1>0 DEF StudioLaid
<1>2. ASSUME NEW w, NEW mode, StudioFields \subseteq DOMAIN w
      PROVE  Kept(w, Studio!ApplyTheme(w, mode))
  BY <1>2 DEF Studio!ApplyTheme, Studio!Asking, StudioFields
<1>3. CASE Studio!Resize
  BY <1>0, <1>3 DEF Studio!Resize, Studio!Asking, StudioLaid, StudioFields, q
<1>4. CASE Studio!DpiChanged
  BY <1>0, <1>4 DEF Studio!DpiChanged, Studio!Asking, StudioLaid, StudioFields, q
<1>5. CASE Studio!LButtonDown
  <2>1. PICK p : win' = Studio!Pressed(q, p)
    BY <1>5 DEF Studio!LButtonDown, q
  <2> PICK v : v = Studio!SelectNavigation(q, p)
    OBVIOUS
  <2>2. Kept(q, v)
    BY <1>0 DEF Studio!SelectNavigation, Studio!Asking, StudioFields
  <2>3. Kept(v, Studio!CycleTheme(v))
    <3> PICK mode : mode = Studio!Cycled(v.mode)
      OBVIOUS
    <3> PICK u : u = [v EXCEPT !.mode = mode, !.cycled = TRUE]
      OBVIOUS
    <3>1. Kept(v, u)
      BY <2>2 DEF StudioFields
    <3> PICK t : t = [u EXCEPT !.broker = mode]
      OBVIOUS
    <3>2. Kept(u, t)
      BY <3>1 DEF StudioFields
    <3>3. Studio!CycleTheme(v) = u \/ Studio!CycleTheme(v) = Studio!ApplyTheme(Studio!ApplyTheme(t, mode), mode)
      BY DEF Studio!CycleTheme, Studio!BrokerSet
    <3>4. Kept(t, Studio!ApplyTheme(t, mode))
      BY <1>2, <3>2
    <3>5. Kept(t, Studio!ApplyTheme(Studio!ApplyTheme(t, mode), mode))
      BY <1>2, <3>4
    <3> QED BY <3>1, <3>2, <3>3, <3>5
  <2>4. win' = v \/ win' = Studio!Asking(Studio!CycleTheme(v), {"main"})
    BY <2>1 DEF Studio!Pressed
  <2>5. Kept(v, Studio!Asking(Studio!CycleTheme(v), {"main"}))
    BY <2>3 DEF Studio!Asking, StudioFields
  <2>6. Kept(q, win')
    BY <2>2, <2>4, <2>5
  <2> QED BY <1>1, <2>6
<1>6. CASE Studio!ThemeChanged
  <2>1. win' = Studio!ApplyTheme(q, win.broker)
    BY <1>6 DEF Studio!ThemeChanged, q
  <2> QED BY <1>0, <1>1, <1>2, <2>1
<1> QED BY <1>3, <1>4, <1>5, <1>6 DEF Studio!Next

\* The rows of the column, the pill above them and the middle of the card.
LEMMA StudioPlaces ==
  ASSUME NEW dpi \in Nat, dpi >= 96, NEW w, w.dpi = dpi, w.client.w \in Nat
  PROVE  LET S(v) == Studio!Scaled(dpi, v)
             Row(k) == [left |-> S(24) + S(4), top |-> S(24) + S(124) + S(16) + k * (S(48) + S(4)),
                        right |-> S(24) + S(4) + (S(240) - 2 * S(4)),
                        bottom |-> S(24) + S(124) + S(16) + k * (S(48) + S(4)) + S(48)]
         IN /\ \A k \in 0..3 : Studio!NavigationRect(w, k) = Row(k)
            /\ Studio!ThemeToggleRect(w) =
                   [left |-> S(24) + S(240) - S(24) - S(80), top |-> S(24) + S(92),
                    right |-> S(24) + S(240) - S(24) - S(80) + S(80), bottom |-> S(24) + S(92) + S(24)]
            /\ Studio!Middle(Studio!DescriptionCard(w)).y = (S(24) + (S(24) + S(144))) \div 2
            /\ S(48) > 0 /\ S(240) > 2 * S(4) /\ S(80) > 0 /\ S(24) > 0 /\ S(92) + S(24) <= S(124)
            /\ S(144) < 2 * S(92)
<1> DEFINE S(v) == Studio!Scaled(dpi, v)
<1>1. S(48) > 0 /\ S(240) > 2 * S(4) /\ S(80) > 0 /\ S(24) > 0 /\ S(92) + S(24) <= S(124) /\ S(144) < 2 * S(92)
  BY DEF Studio!Scaled
<1>2. \A k \in 0..3 : Studio!NavigationRect(w, k) =
          [left |-> S(24) + S(4), top |-> S(24) + S(124) + S(16) + k * (S(48) + S(4)),
           right |-> S(24) + S(4) + (S(240) - 2 * S(4)),
           bottom |-> S(24) + S(124) + S(16) + k * (S(48) + S(4)) + S(48)]
  BY DEF Studio!NavigationRect, Studio!NavigationWidth, Studio!BrandHeight, Studio!Box, Studio!Rect
<1>3. Studio!ThemeToggleRect(w) =
          [left |-> S(24) + S(240) - S(24) - S(80), top |-> S(24) + S(92),
           right |-> S(24) + S(240) - S(24) - S(80) + S(80), bottom |-> S(24) + S(92) + S(24)]
  BY DEF Studio!ThemeToggleRect, Studio!NavigationWidth, Studio!Box, Studio!Rect
<1>4. Studio!Middle(Studio!DescriptionCard(w)).y = (S(24) + (S(24) + S(144))) \div 2
  BY DEF Studio!Middle, Studio!DescriptionCard, Studio!Main, Studio!Box, Studio!Rect
<1> HIDE DEF S
<1> QED BY <1>1, <1>2, <1>3, <1>4 DEF S

\* So the middle of each is in no other one.
LEMMA StudioApart ==
  ASSUME NEW dpi \in Nat, dpi >= 96, NEW w, w.dpi = dpi, w.client.w \in Nat
  PROVE  /\ \A k, j \in 0..3 : Studio!Contains(Studio!NavigationRect(w, j), Studio!Middle(Studio!NavigationRect(w, k)))
                                   <=> j = k
         /\ \A k \in 0..3 : /\ ~Studio!Contains(Studio!ThemeToggleRect(w), Studio!Middle(Studio!NavigationRect(w, k)))
                            /\ ~Studio!Contains(Studio!NavigationRect(w, k), Studio!Middle(Studio!ThemeToggleRect(w)))
                            /\ ~Studio!Contains(Studio!NavigationRect(w, k), Studio!Middle(Studio!DescriptionCard(w)))
         /\ Studio!Contains(Studio!ThemeToggleRect(w), Studio!Middle(Studio!ThemeToggleRect(w)))
         /\ ~Studio!Contains(Studio!ThemeToggleRect(w), Studio!Middle(Studio!DescriptionCard(w)))
<1> DEFINE S(v) == Studio!Scaled(dpi, v)
           Row(k) == [left |-> S(24) + S(4), top |-> S(24) + S(124) + S(16) + k * (S(48) + S(4)),
                      right |-> S(24) + S(4) + (S(240) - 2 * S(4)),
                      bottom |-> S(24) + S(124) + S(16) + k * (S(48) + S(4)) + S(48)]
<1>1. \A v \in Nat : S(v) \in Nat
  BY ScaledTyped DEF Studio!Scaled, Form!Scaled
<1>2. /\ \A k \in 0..3 : Studio!NavigationRect(w, k) = Row(k)
      /\ Studio!ThemeToggleRect(w) =
             [left |-> S(24) + S(240) - S(24) - S(80), top |-> S(24) + S(92),
              right |-> S(24) + S(240) - S(24) - S(80) + S(80), bottom |-> S(24) + S(92) + S(24)]
      /\ Studio!Middle(Studio!DescriptionCard(w)).y = (S(24) + (S(24) + S(144))) \div 2
      /\ S(48) > 0 /\ S(240) > 2 * S(4) /\ S(80) > 0 /\ S(24) > 0 /\ S(92) + S(24) <= S(124)
      /\ S(144) < 2 * S(92)
  BY StudioPlaces
<1> HIDE DEF S
<1>3. PICK s4, s16, s24, s48, s80 \in Nat : s4 = S(4) /\ s16 = S(16) /\ s24 = S(24) /\ s48 = S(48) /\ s80 = S(80)
  BY <1>1
<1>4. PICK s92, s124, s144, s240 \in Nat : s92 = S(92) /\ s124 = S(124) /\ s144 = S(144) /\ s240 = S(240)
  BY <1>1
<1> DEFINE top(k) == s24 + s124 + s16 + k * (s48 + s4)
           left == s24 + s4
           right == s24 + s4 + (s240 - 2 * s4)
           pill == s24 + s240 - s24 - s80
<1>5. \A k \in 0..3 : Studio!NavigationRect(w, k) = [left |-> left, top |-> top(k), right |-> right, bottom |-> top(k) + s48]
  BY <1>2, <1>3, <1>4
<1>6. Studio!ThemeToggleRect(w) = [left |-> pill, top |-> s24 + s92, right |-> pill + s80, bottom |-> s24 + s92 + s24]
  BY <1>2, <1>3, <1>4
<1>7. Studio!Middle(Studio!DescriptionCard(w)).y < s24 + s92 /\ Studio!Middle(Studio!DescriptionCard(w)).y \in Int
  BY <1>2, <1>3, <1>4
<1>8. s48 > 0 /\ s240 > 2 * s4 /\ s80 > 0 /\ s24 > 0 /\ s92 + s24 <= s124
  BY <1>2, <1>3, <1>4
<1>9. /\ top(0) = s24 + s124 + s16 /\ top(1) = top(0) + s48 + s4
      /\ top(2) = top(1) + s48 + s4 /\ top(3) = top(2) + s48 + s4
  OBVIOUS
<1>10. left \in Int /\ right \in Int /\ pill \in Int /\ left < right
  BY <1>8
<1>11. \A k \in 0..3 : top(k) \in Int /\ top(k) >= s24 + s92 + s24
  BY <1>8, <1>9
<1>12. \A k, j \in 0..3 : k < j => top(k) + s48 <= top(j)
  BY <1>9, <1>11
<1> HIDE DEF top, left, right, pill
<1>13. \A k \in 0..3 :
          LET m == Studio!Middle(Studio!NavigationRect(w, k))
          IN m.x \in Int /\ left <= m.x /\ m.x < right /\ m.y \in Int /\ top(k) <= m.y /\ m.y < top(k) + s48
  BY <1>5, <1>8, <1>10, <1>11 DEF Studio!Middle
<1>14. LET m == Studio!Middle(Studio!ThemeToggleRect(w))
       IN m.x \in Int /\ pill <= m.x /\ m.x < pill + s80 /\ m.y \in Int /\ s24 + s92 <= m.y /\ m.y < s24 + s92 + s24
  BY <1>6, <1>8, <1>10 DEF Studio!Middle
<1>15. ASSUME NEW k \in 0..3, NEW j \in 0..3
       PROVE  Studio!Contains(Studio!NavigationRect(w, j), Studio!Middle(Studio!NavigationRect(w, k))) <=> j = k
  <2> PICK m : m = Studio!Middle(Studio!NavigationRect(w, k))
    OBVIOUS
  <2>1. m.x \in Int /\ left <= m.x /\ m.x < right /\ m.y \in Int /\ top(k) <= m.y /\ m.y < top(k) + s48
    BY <1>13
  <2>2. Studio!Contains(Studio!NavigationRect(w, j), m) <=> top(j) <= m.y /\ m.y < top(j) + s48
    BY <1>5, <2>1 DEF Studio!Contains
  <2>3. k < j => top(k) + s48 <= top(j)
    BY <1>12
  <2>4. j < k => top(j) + s48 <= top(k)
    BY <1>12
  <2>5. top(k) \in Int /\ top(j) \in Int
    BY <1>11
  <2> QED BY <2>1, <2>2, <2>3, <2>4, <2>5
<1>16. ASSUME NEW k \in 0..3
       PROVE  /\ ~Studio!Contains(Studio!ThemeToggleRect(w), Studio!Middle(Studio!NavigationRect(w, k)))
              /\ ~Studio!Contains(Studio!NavigationRect(w, k), Studio!Middle(Studio!ThemeToggleRect(w)))
              /\ ~Studio!Contains(Studio!NavigationRect(w, k), Studio!Middle(Studio!DescriptionCard(w)))
  BY <1>5, <1>6, <1>7, <1>11, <1>13, <1>14 DEF Studio!Contains
<1>17. Studio!Contains(Studio!ThemeToggleRect(w), Studio!Middle(Studio!ThemeToggleRect(w)))
  BY <1>6, <1>14 DEF Studio!Contains
<1>18. ~Studio!Contains(Studio!ThemeToggleRect(w), Studio!Middle(Studio!DescriptionCard(w)))
  BY <1>6, <1>7 DEF Studio!Contains
<1> QED BY <1>15, <1>16, <1>17, <1>18

\* A press on a row or on the pill does what it says.
LEMMA StudioFound == StudioLaid => Studio!TargetsAreHit
<1> SUFFICES ASSUME StudioLaid PROVE Studio!TargetsAreHit
  OBVIOUS
<1>1. win.client.w \in Nat /\ win.dpi \in Nat /\ win.dpi >= 96
  BY SizesAssumption DEF StudioLaid
<1>2. StudioFields \subseteq DOMAIN win
  BY DEF StudioLaid
<1>3. ASSUME NEW k \in 0..3
      PROVE  LET v == Studio!Pressed(win, Studio!Aimed(win, k)) IN v.selected = k /\ v.mode = win.mode
  <2> PICK p : p = Studio!Middle(Studio!NavigationRect(win, k))
    OBVIOUS
  <2>1. Studio!Aimed(win, k) = p
    BY DEF Studio!Aimed, Studio!Target, Studio!Elsewhere, Studio!Pill
  <2> DEFINE hits == {j \in (0..3) \ {win.selected} : Studio!Contains(Studio!NavigationRect(win, j), p)}
             v == Studio!SelectNavigation(win, p)
  <2>2. hits = {k} \ {win.selected}
    BY <1>1, StudioApart
  <2>3. v = IF hits = {} THEN win
            ELSE Studio!Asking([win EXCEPT !.selected = CHOOSE i \in hits : \A j \in hits : i <= j], {"main", "status"})
    BY DEF Studio!SelectNavigation, Studio!Rows
  <2> HIDE DEF hits, v
  <2>4. v.selected = k /\ v.mode = win.mode /\ v.dpi = win.dpi /\ v.client = win.client
    <3>1. CASE win.selected = k
      BY <2>2, <2>3, <3>1
    <3>2. CASE win.selected # k
      <4>1. (CHOOSE i \in {k} : \A j \in {k} : i <= j) = k
        OBVIOUS
      <4>2. v = Studio!Asking([win EXCEPT !.selected = k], {"main", "status"})
        BY <2>2, <2>3, <3>2, <4>1
      <4> QED BY <1>2, <4>2 DEF Studio!Asking, StudioFields
    <3> QED BY <3>1, <3>2
  <2>5. ~Studio!Contains(Studio!ThemeToggleRect(v), p)
    BY <1>1, <2>4, StudioApart DEF Studio!ThemeToggleRect
  <2>6. Studio!Pressed(win, p) = v
    BY <2>5 DEF Studio!Pressed, v
  <2> QED BY <2>1, <2>4, <2>6
<1>4. ASSUME NEW p, \A k \in 0..3 : ~Studio!Contains(Studio!NavigationRect(win, k), p)
      PROVE  Studio!SelectNavigation(win, p) = win
  BY <1>4 DEF Studio!SelectNavigation, Studio!Rows
<1>5. LET v == Studio!Pressed(win, Studio!Aimed(win, 4)) IN v.mode # win.mode /\ v.selected = win.selected
  <2> PICK p : p = Studio!Middle(Studio!ThemeToggleRect(win))
    OBVIOUS
  <2>1. Studio!Aimed(win, 4) = p
    BY DEF Studio!Aimed, Studio!Target, Studio!Elsewhere, Studio!Pill
  <2>2. Studio!SelectNavigation(win, p) = win
    BY <1>1, <1>4, StudioApart
  <2>3. Studio!Contains(Studio!ThemeToggleRect(win), p)
    BY <1>1, StudioApart
  <2>4. Studio!Pressed(win, p) = Studio!Asking(Studio!CycleTheme(win), {"main"})
    BY <2>2, <2>3 DEF Studio!Pressed
  <2> PICK mode : mode = Studio!Cycled(win.mode)
    OBVIOUS
  <2>5. mode # win.mode
    BY DEF Studio!Cycled
  <2> PICK u : u = [win EXCEPT !.mode = mode, !.cycled = TRUE]
    OBVIOUS
  <2>6. StudioFields \subseteq DOMAIN u /\ u.mode = mode /\ u.selected = win.selected
    BY <1>2 DEF StudioFields
  <2> PICK t : t = [u EXCEPT !.broker = mode]
    OBVIOUS
  <2>7. StudioFields \subseteq DOMAIN t /\ t.mode = mode /\ t.selected = win.selected
    BY <2>6 DEF StudioFields
  <2>8. Studio!ApplyTheme(t, mode) = t
    BY <2>7 DEF Studio!ApplyTheme
  <2>9. Studio!CycleTheme(win) = u \/ Studio!CycleTheme(win) = t
    BY <2>8 DEF Studio!CycleTheme, Studio!BrokerSet
  <2>10. LET v == Studio!Asking(Studio!CycleTheme(win), {"main"}) IN v.mode = mode /\ v.selected = win.selected
    BY <2>6, <2>7, <2>9 DEF Studio!Asking, StudioFields
  <2> QED BY <2>1, <2>4, <2>5, <2>10
<1>6. Studio!Pressed(win, Studio!Aimed(win, 5)) = win
  <2> PICK p : p = Studio!Middle(Studio!DescriptionCard(win))
    OBVIOUS
  <2>1. Studio!Aimed(win, 5) = p
    BY DEF Studio!Aimed, Studio!Elsewhere
  <2>2. Studio!SelectNavigation(win, p) = win
    BY <1>1, <1>4, StudioApart
  <2>3. ~Studio!Contains(Studio!ThemeToggleRect(win), p)
    BY <1>1, StudioApart
  <2> QED BY <2>1, <2>2, <2>3 DEF Studio!Pressed
<1> QED BY <1>3, <1>5, <1>6 DEF Studio!TargetsAreHit, Studio!Rows, Studio!Pill, Studio!Elsewhere

\* The shell has room for its parts: the texts above the pill, the pill above
\* the rows, the code in its card.
LEMMA StudioAddsUp ==
  ASSUME NEW dpi \in Nat, dpi >= 96
  PROVE  LET S(v) == Studio!Scaled(dpi, v)
         IN /\ S(16) + S(28) + S(4) + S(24) <= S(92) /\ S(92) + S(24) <= S(124)
            /\ S(24) + S(80) <= S(240) /\ 2 * S(4) <= S(240) /\ S(16) <= S(48)
            /\ S(24) + S(28) + S(16) + 8 * S(20) + 2 * S(16) <= S(304)
BY DEF Studio!Scaled

\* The column, the cards beside it, and the code in one of them.
LEMMA StudioMeasured == StudioLaid => Studio!LaidOut
<1> SUFFICES ASSUME StudioLaid PROVE Studio!LaidOut
  OBVIOUS
<1>1. PICK dpi \in Nat, w \in Nat, h \in Nat : dpi = win.dpi /\ w = win.client.w /\ h = win.client.h /\ dpi >= 96
  BY SizesAssumption DEF StudioLaid
<1> DEFINE S(v) == Studio!Scaled(dpi, v)
<1>2. \A v \in Nat : S(v) \in Nat
  BY <1>1, ScaledTyped DEF Studio!Scaled, Form!Scaled
<1>3. /\ S(16) + S(28) + S(4) + S(24) <= S(92) /\ S(92) + S(24) <= S(124)
      /\ S(24) + S(80) <= S(240) /\ 2 * S(4) <= S(240) /\ S(16) <= S(48)
      /\ S(24) + S(28) + S(16) + 8 * S(20) + 2 * S(16) <= S(304)
  BY <1>1, StudioAddsUp
<1> HIDE DEF S
<1>4. PICK s4, s16, s20, s24, s28, s48 \in Nat :
          s4 = S(4) /\ s16 = S(16) /\ s20 = S(20) /\ s24 = S(24) /\ s28 = S(28) /\ s48 = S(48)
  BY <1>2
<1>5. PICK s80, s92, s124, s144, s160, s240, s304 \in Nat :
          s80 = S(80) /\ s92 = S(92) /\ s124 = S(124) /\ s144 = S(144) /\ s160 = S(160)
          /\ s240 = S(240) /\ s304 = S(304)
  BY <1>2
<1>6. /\ s16 + s28 + s4 + s24 <= s92 /\ s92 + s24 <= s124 /\ s24 + s80 <= s240 /\ 2 * s4 <= s240 /\ s16 <= s48
      /\ s24 + s28 + s16 + 8 * s20 + 2 * s16 <= s304
  BY <1>3, <1>4, <1>5
<1> DEFINE R(x, y, across, down) == [left |-> x, top |-> y, right |-> x + across, bottom |-> y + down]
           title == R(s24 + s24, s24 + s16, s240 - 2 * s24, s28)
           under == R(s24 + s24, s24 + s16 + s28 + s4, s240 - 2 * s24, s24)
           pill == R(s24 + s240 - s24 - s80, s24 + s92, s80, s24)
           Row(k) == R(s24 + s4, s24 + s124 + s16 + k * (s48 + s4), s240 - 2 * s4, s48)
           left == s24 + s240 + s16
           width == w - s240 - 2 * s24 - s16
           half == Studio!Div(width - s16, 2)
           about == R(left, s24, width, s144)
           preview == R(left, s24 + s144 + s16, width, s304)
           below == s24 + s144 + s16 + s304 + s16
           one == R(left, below, half, s160)
           two == R(left + half + s16, below, width - half - s16, s160)
\* What the operators of the window are.
<1>7. /\ Studio!BrandTexts(win) = {title, under}
      /\ Studio!ThemeToggleRect(win) = pill
      /\ \A k \in 0..3 : Studio!NavigationRect(win, k) = Row(k)
      /\ Studio!Sidebar(win).left = s24 /\ Studio!Sidebar(win).right = s24 + s240
  BY <1>1, <1>4, <1>5 DEF Studio!BrandTexts, Studio!ThemeToggleRect, Studio!NavigationRect, Studio!Sidebar,
     Studio!NavigationWidth, Studio!BrandHeight, Studio!Box, Studio!Rect, S
<1>8. half \in Int
  BY DEF Studio!Div
<1>9. /\ Studio!DescriptionCard(win) = about /\ Studio!PreviewCard(win) = preview
      /\ Studio!Main(win).left = left /\ Studio!Main(win).width = width
  BY <1>1, <1>4, <1>5 DEF Studio!DescriptionCard, Studio!PreviewCard, Studio!Main,
     Studio!NavigationWidth, Studio!Box, Studio!Rect, S
<1>10. Studio!StatCards(win) = {one, two}
  <2>1. Studio!PreviewCard(win).bottom + s16 = below
    BY <1>9
  <2> HIDE DEF left, width, half, below
  <2>2. Studio!Box(left, below, half, s160) = one
    BY DEF Studio!Box, Studio!Rect
  <2>3. Studio!StatCards(win) = {one, Studio!Box(one.right + s16, below, width - half - s16, s160)}
    BY <1>1, <1>4, <1>5, <1>9, <2>1, <2>2 DEF Studio!StatCards, S, half
  <2>4. Studio!Box(one.right + s16, below, width - half - s16, s160) = two
    BY DEF Studio!Box, Studio!Rect
  <2> QED BY <2>3, <2>4
<1>11. Studio!CodeBlock(win).bottom = s24 + s144 + s16 + s24 + s28 + s16 + (8 * s20 + 2 * s16)
  BY <1>1, <1>4, <1>5, <1>9 DEF Studio!CodeBlock, Studio!Box, Studio!Rect, S
<1> DEFINE three == {title, under, pill}
           cards == {about, preview, one, two}
           top(k) == s24 + s124 + s16 + k * (s48 + s4)
<1>12. /\ top(0) = s24 + s124 + s16 /\ top(1) = top(0) + s48 + s4
       /\ top(2) = top(1) + s48 + s4 /\ top(3) = top(2) + s48 + s4
  OBVIOUS
<1>13. \A k \in 0..3 : Row(k) = R(s24 + s4, top(k), s240 - 2 * s4, s48)
  OBVIOUS
<1> HIDE DEF Row, top
<1>14. \A k \in 0..3 : top(k) \in Int /\ top(k) >= s24 + s124 + s16
  BY <1>12
<1>15. \A k, j \in 0..3 : k < j => top(k) + s48 <= top(j)
  BY <1>12, <1>14
\* The column.
<1>16. \A r, s \in three : r # s => Studio!Apart(r, s)
  BY <1>6 DEF Studio!Apart
<1>17. \A r \in three, k \in 0..3 : Studio!Apart(r, Row(k)) /\ Studio!Apart(Row(k), r)
  BY <1>6, <1>13, <1>14 DEF Studio!Apart
<1>18. \A k, j \in 0..3 : Row(k) # Row(j) => Studio!Apart(Row(k), Row(j))
  <2> SUFFICES ASSUME NEW k \in 0..3, NEW j \in 0..3, k # j PROVE Studio!Apart(Row(k), Row(j))
    OBVIOUS
  <2>1. top(k) \in Int /\ top(j) \in Int /\ (top(k) + s48 <= top(j) \/ top(j) + s48 <= top(k))
    BY <1>14, <1>15
  <2>2. Row(k).top = top(k) /\ Row(k).bottom = top(k) + s48 /\ Row(j).top = top(j) /\ Row(j).bottom = top(j) + s48
    BY <1>13
  <2> QED BY <2>1, <2>2 DEF Studio!Apart
<1>19. \A r \in three : s24 <= r.left /\ r.right <= s24 + s240
  BY <1>6
<1>20. \A k \in 0..3 : s24 <= Row(k).left /\ Row(k).right <= s24 + s240
  BY <1>13
\* The cards.
<1>21. ASSUME width >= s48
       PROVE  /\ \A r, s \in cards : r # s => Studio!Apart(r, s)
              /\ \A r \in cards : left <= r.left /\ r.left \in Int
  <2>1. half >= 0 /\ half + s16 <= width
    BY <1>6, <1>21 DEF Studio!Div
  <2> HIDE DEF half, width
  <2> QED BY <1>8, <2>1 DEF Studio!Apart
<1>22. ASSUME width >= s48 PROVE \A r \in cards, s \in three : Studio!Apart(r, s)
  <2>1. \A s \in three : s.right <= left /\ s.right \in Int
    BY <1>6
  <2>2. left \in Int
    OBVIOUS
  <2>3. \A r \in cards : left <= r.left /\ r.left \in Int
    BY <1>21, <1>22
  <2> HIDE DEF three, cards, left
  <2> QED BY <2>1, <2>2, <2>3 DEF Studio!Apart
<1>23. ASSUME width >= s48 PROVE \A r \in cards, k \in 0..3 : Studio!Apart(r, Row(k))
  <2>1. \A k \in 0..3 : Row(k).right <= left /\ Row(k).right \in Int
    BY <1>6, <1>13
  <2>2. left \in Int
    OBVIOUS
  <2>3. \A r \in cards : left <= r.left /\ r.left \in Int
    BY <1>21, <1>23
  <2> HIDE DEF cards, left
  <2> QED BY <2>1, <2>2, <2>3 DEF Studio!Apart
<1>24. Studio!CodeBlock(win).bottom <= preview.bottom
  BY <1>6, <1>11
<1>25. Studio!Scaled(win.dpi, 48) = s48
  BY <1>1, <1>4 DEF S
<1> DEFINE column == {title, under} \cup {pill} \cup {Row(k) : k \in 0..3}
<1> HIDE DEF title, under, pill, about, preview, one, two, width
<1>26. /\ Studio!BrandTexts(win) \cup {Studio!ThemeToggleRect(win)}
              \cup {Studio!NavigationRect(win, k) : k \in Studio!Rows} = column
       /\ {Studio!DescriptionCard(win), Studio!PreviewCard(win)} \cup Studio!StatCards(win) = cards
  BY <1>7, <1>9, <1>10 DEF Studio!Rows
<1>27. \A r \in column : r \in three \/ \E k \in 0..3 : r = Row(k)
  OBVIOUS
<1> HIDE DEF column, cards, three
<1>28. \A r, s \in column : r # s => Studio!Apart(r, s)
  BY <1>16, <1>17, <1>18, <1>27
<1>29. \A r \in column : s24 <= r.left /\ r.right <= s24 + s240
  BY <1>19, <1>20, <1>27
<1>30. width >= s48 => /\ \A r, s \in cards : r # s => Studio!Apart(r, s)
                       /\ \A r \in cards, s \in column : Studio!Apart(r, s)
  BY <1>21, <1>22, <1>23, <1>27
<1> QED BY <1>7, <1>9, <1>24, <1>25, <1>26, <1>28, <1>29, <1>30 DEF Studio!LaidOut

-----------------------------------------------------------------------------
(* The dialog tour, at any size *)

TourPlaces == {"size", "dpi", "laid", "stage"}
TourKinds == TourFields \cup {"size", "dpi", "capture"}

\* A minimized window is empty.
TourWindow(w) ==
    /\ TourKinds \subseteq DOMAIN w
    /\ w.size \in WindowSizes.tour \cup {[w |-> 0, h |-> 0]} /\ w.dpi \in Dpi.tour

TourLaid == TourWindow(win) /\ win.laid = Tour!LayoutCard(win.size, win.dpi, win.stage)

\* The card is laid out when the window is made.
LEMMA TourLaidInit == Tour!Init => TourLaid
<1> SUFFICES ASSUME NEW size \in WindowSizes.tour, NEW dpi \in Dpi.tour, NEW mode \in Tour!ParseTheme,
                    win = Tour!CreateMain(size, dpi, mode)
             PROVE  TourLaid
  BY DEF Tour!Init
<1> PICK g : g = Tour!LayoutCard(size, dpi, "ready")
  OBVIOUS
<1>1. /\ TourKinds \subseteq DOMAIN win /\ win.size = size /\ win.dpi = dpi /\ win.stage = "ready"
      /\ win.laid = g
  BY DEF Tour!CreateMain, Tour!Layout, TourKinds, TourFields
<1> QED BY <1>1 DEF TourLaid, TourWindow

\* Whoever changes the stage, the size or the scale lays the card out again.
LEMMA TourLaidStep == TourLaid /\ Tour!Next => TourLaid'
<1> SUFFICES ASSUME TourLaid, Tour!Next PROVE TourLaid'
  OBVIOUS
<1> DEFINE q == Tour!Quiet(win)
           Kept(v, w) == /\ TourKinds \subseteq DOMAIN w
                         /\ \A f \in TourPlaces : w[f] = v[f]
<1>0. TourKinds \subseteq DOMAIN q /\ Kept(win, q)
  BY DEF TourLaid, TourWindow, Tour!Quiet, TourKinds, TourFields, TourPlaces
<1> HIDE DEF q
<1>1. Kept(win, win') => TourLaid'
  BY DEF TourLaid, TourWindow, TourPlaces
<1>2. ASSUME NEW w, TourWindow(w), win' = Tour!InvalidateRedraw(w)
      PROVE  TourLaid'
  <2> PICK g : g = Tour!LayoutCard(w.size, w.dpi, w.stage)
    OBVIOUS
  <2>1. win' = Tour!Asking([w EXCEPT !.laid = g])
    BY <1>2 DEF Tour!InvalidateRedraw, Tour!Layout
  <2>2. TourKinds \subseteq DOMAIN win' /\ win'.size = w.size /\ win'.dpi = w.dpi /\ win'.stage = w.stage /\ win'.laid = g
    BY <1>2, <2>1 DEF TourWindow, Tour!Asking, TourKinds, TourFields
  <2> QED BY <1>2, <2>2 DEF TourLaid, TourWindow
<1>3. TourWindow(q)
  BY <1>0 DEF TourLaid, TourWindow, TourPlaces
<1>4. CASE Tour!Resize
  <2>1. PICK size \in WindowSizes.tour \cup {[w |-> 0, h |-> 0]} : win' = Tour!InvalidateRedraw([q EXCEPT !.size = size])
    BY <1>4 DEF Tour!Resize, q
  <2> PICK w : w = [q EXCEPT !.size = size]
    OBVIOUS
  <2>2. TourWindow(w)
    BY <1>3 DEF TourWindow, TourKinds, TourFields
  <2> QED BY <1>2, <2>1, <2>2
<1>5. CASE Tour!DpiChanged
  <2>1. PICK dpi \in Dpi.tour : win' = Tour!InvalidateRedraw([q EXCEPT !.dpi = dpi])
    BY <1>5 DEF Tour!DpiChanged, q
  <2> PICK w : w = [q EXCEPT !.dpi = dpi]
    OBVIOUS
  <2>2. TourWindow(w)
    BY <1>3 DEF TourWindow, TourKinds, TourFields
  <2> QED BY <1>2, <2>1, <2>2
<1>6. ASSUME NEW w, NEW mode, Kept(win, w) PROVE Kept(win, Tour!ApplyTheme(w, mode))
  BY <1>6 DEF Tour!ApplyTheme, Tour!Asking, TourKinds, TourFields, TourPlaces
<1>7. CASE Tour!ThemeChanged
  <2>1. win' = Tour!ApplyTheme(q, win.broker)
    BY <1>7 DEF Tour!ThemeChanged, q
  <2> QED BY <1>0, <1>1, <1>6, <2>1
<1>8. CASE Tour!MouseMove
  <2>1. PICK p : \E granted \in BOOLEAN : win' = Tour!UpdateHover(q, p, granted)
    BY <1>8 DEF Tour!MouseMove, q
  <2> PICK granted \in BOOLEAN : win' = Tour!UpdateHover(q, p, granted)
    BY <2>1
  <2> PICK hit : hit = Tour!HitTest(q, p)
    OBVIOUS
  <2> DEFINE hovered == IF hit = q.hover THEN q ELSE Tour!Asking([q EXCEPT !.hover = hit])
  <2>2. win' = IF hit = Tour!None THEN hovered ELSE Tour!Tracked(hovered, granted)
    BY DEF Tour!UpdateHover
  <2>3. Kept(win, hovered)
    BY <1>0 DEF Tour!Asking, TourKinds, TourFields, TourPlaces
  <2> HIDE DEF hovered
  <2>4. Kept(win, win')
    BY <2>2, <2>3 DEF Tour!Tracked, TourKinds, TourFields, TourPlaces
  <2> QED BY <1>1, <2>4
<1>9. CASE Tour!MouseLeave \/ Tour!LButtonDown \/ Tour!PrefsCancel
  <2>1. Kept(win, win')
    BY <1>0, <1>9 DEF Tour!MouseLeave, Tour!LButtonDown, Tour!PrefsCancel, Tour!Gone, Tour!Asking,
                      TourKinds, TourFields, TourPlaces, q
  <2> QED BY <1>1, <2>1
<1>10. CASE Tour!LButtonUp
  <2> DEFINE w == [q EXCEPT !.capture = FALSE]
  <2>0. \/ win' = Tour!LaunchAbout(w) \/ win' \in Tour!LaunchPrefs(w)
        \/ win' = Tour!CloseActive(w) \/ win' = w
        \/ \E hit : win' = Tour!BrokerSet(w, hit)
    BY <1>10 DEF Tour!LButtonUp, q
  <2>1. TourWindow(w) /\ Kept(win, w)
    BY <1>0, <1>3 DEF TourWindow, TourKinds, TourFields, TourPlaces
  <2> HIDE DEF w
  <2>2. CASE win' = Tour!LaunchAbout(w)
    <3> PICK v : v = [w EXCEPT !.stage = "about_opened", !.about = TRUE]
      OBVIOUS
    <3>1. TourWindow(v)
      BY <2>1 DEF TourWindow, TourKinds, TourFields
    <3> QED BY <1>2, <2>2, <3>1 DEF Tour!LaunchAbout
  <2>3. CASE win' \in Tour!LaunchPrefs(w)
    <3>1. CASE win' = w
      BY <1>1, <2>1, <3>1
    <3>2. CASE win' # w
      <4>1. PICK handle : win' = Tour!InvalidateRedraw([Tour!ShowModeless(w, handle) EXCEPT
                               !.routed = handle, !.prefsOpen = TRUE, !.stage = "prefs_opened"])
        BY <2>3, <3>2 DEF Tour!LaunchPrefs
      <4> PICK v : v = [Tour!ShowModeless(w, handle) EXCEPT
                               !.routed = handle, !.prefsOpen = TRUE, !.stage = "prefs_opened"]
        OBVIOUS
      <4>2. TourWindow(v)
        BY <2>1 DEF Tour!ShowModeless, TourWindow, TourKinds, TourFields
      <4> QED BY <1>2, <4>1, <4>2
    <3> QED BY <3>1, <3>2
  <2>4. CASE win' = Tour!CloseActive(w)
    <3> PICK e : e = IF Tour!IsOpen(w) THEN Tour!EndModeless(w) ELSE w
      OBVIOUS
    <3>1. TourWindow(e)
      BY <2>1 DEF Tour!EndModeless, TourWindow, TourKinds, TourFields
    <3> PICK v : v = [e EXCEPT !.routed = Tour!None, !.prefsOpen = FALSE, !.stage = "prefs_closed"]
      OBVIOUS
    <3>2. TourWindow(v)
      BY <3>1 DEF TourWindow, TourKinds, TourFields
    <3>3. win' = Tour!InvalidateRedraw(v)
      BY <2>4 DEF Tour!CloseActive
    <3> QED BY <1>2, <3>2, <3>3
  <2>5. ASSUME NEW hit, win' = Tour!BrokerSet(w, hit) PROVE TourLaid'
    <3> PICK v : v = [w EXCEPT !.broker = hit]
      OBVIOUS
    <3>1. Kept(win, v)
      BY <2>1 DEF TourKinds, TourFields, TourPlaces
    <3>2. win' = w \/ win' = Tour!ApplyTheme(Tour!ApplyTheme(v, hit), hit)
      BY <2>5 DEF Tour!BrokerSet
    <3>3. Kept(win, Tour!ApplyTheme(v, hit))
      BY <1>6, <3>1
    <3>4. Kept(win, Tour!ApplyTheme(Tour!ApplyTheme(v, hit), hit))
      BY <1>6, <3>3
    <3> QED BY <1>1, <2>1, <3>2, <3>4
  <2> QED BY <1>1, <2>0, <2>1, <2>2, <2>3, <2>4, <2>5
<1>11. CASE Tour!AboutEnds
  <2>1. PICK result : win' = Tour!AboutReturns(q, result)
    BY <1>11 DEF Tour!AboutEnds, q
  <2> PICK v : v = [q EXCEPT !.about = FALSE, !.result = result,
                             !.stage = IF result = "ok" THEN "about_ok" ELSE "about_cancel"]
    OBVIOUS
  <2>2. TourWindow(v)
    BY <1>3 DEF TourWindow, TourKinds, TourFields
  <2> QED BY <1>2, <2>1, <2>2 DEF Tour!AboutReturns
<1>12. CASE Tour!PrefsOk
  <2>1. PICK payload : win' = Tour!PrefsSubmitted(q, payload)
    BY <1>12 DEF Tour!PrefsOk, q
  <2> PICK v : v = [q EXCEPT !.payload = payload, !.stage = "prefs_submitted"]
    OBVIOUS
  <2>2. TourWindow(v)
    BY <1>3 DEF TourWindow, TourKinds, TourFields
  <2> PICK g : g = Tour!LayoutCard(v.size, v.dpi, v.stage)
    OBVIOUS
  <2>3. win' = [Tour!Asking([v EXCEPT !.laid = g]) EXCEPT !.alive = Tour!None, !.routed = Tour!None]
    BY <2>1 DEF Tour!PrefsSubmitted, Tour!Gone, Tour!InvalidateRedraw, Tour!Layout
  <2>4. TourKinds \subseteq DOMAIN win' /\ win'.size = v.size /\ win'.dpi = v.dpi /\ win'.stage = v.stage /\ win'.laid = g
    BY <2>2, <2>3 DEF TourWindow, Tour!Asking, TourKinds, TourFields
  <2> QED BY <2>2, <2>4 DEF TourLaid, TourWindow
<1> QED BY <1>4, <1>5, <1>7, <1>8, <1>9, <1>10, <1>11, <1>12 DEF Tour!Next

\* The card has room for its parts, and its status for the chips and the texts.
LEMMA TourAddsUp ==
  ASSUME NEW dpi \in Nat, dpi >= 96
  PROVE  LET S(v) == Tour!Scaled(dpi, v)
         IN /\ S(24) > 0 /\ S(32) > 0 /\ S(40) > 0 /\ S(72) > 0 /\ S(180) > 0
            /\ 2 * S(24) + S(180) <= S(560) /\ 2 * S(24) + S(32) + S(16) <= S(560)
            /\ S(8) + S(24) <= S(152)
            /\ 4 * S(8) + 3 * S(12) + 2 * S(14) + S(16) + S(8) + S(24) <= S(152)
            /\ S(16) + 3 * S(72) + 2 * S(4) + 2 * S(24) <= S(560)
            /\ S(16) + S(16) + 2 * S(24) <= S(560)
            /\ 4 * S(24) + 3 * S(32) + 2 * S(16) + 2 * S(40) + 2 * S(8) + S(1) + S(152) <= S(480)
BY DEF Tour!Scaled

\* Where everything on the card is, from its left and top edges.
LEMMA TourMeasured == TourLaid => Tour!TargetsAreHit /\ Tour!LaidOut
<1> SUFFICES ASSUME TourLaid PROVE Tour!TargetsAreHit /\ Tour!LaidOut
  OBVIOUS
<1>1. PICK dpi \in Nat, w \in Nat, h \in Nat : dpi = win.dpi /\ w = win.size.w /\ h = win.size.h /\ dpi >= 96
  BY SizesAssumption DEF TourLaid, TourWindow
<1> DEFINE S(v) == Tour!Scaled(dpi, v)
<1>2. \A v \in Nat : S(v) \in Nat
  BY <1>1, ScaledTyped DEF Tour!Scaled, Form!Scaled
<1>3. /\ S(24) > 0 /\ S(32) > 0 /\ S(40) > 0 /\ S(72) > 0 /\ S(180) > 0
      /\ 2 * S(24) + S(180) <= S(560) /\ 2 * S(24) + S(32) + S(16) <= S(560)
      /\ S(8) + S(24) <= S(152)
      /\ 4 * S(8) + 3 * S(12) + 2 * S(14) + S(16) + S(8) + S(24) <= S(152)
      /\ S(16) + 3 * S(72) + 2 * S(4) + 2 * S(24) <= S(560)
      /\ S(16) + S(16) + 2 * S(24) <= S(560)
      /\ 4 * S(24) + 3 * S(32) + 2 * S(16) + 2 * S(40) + 2 * S(8) + S(1) + S(152) <= S(480)
  BY <1>1, TourAddsUp
<1> HIDE DEF S
<1>4. PICK s1, s4, s8, s12, s14, s16 \in Nat :
          s1 = S(1) /\ s4 = S(4) /\ s8 = S(8) /\ s12 = S(12) /\ s14 = S(14) /\ s16 = S(16)
  BY <1>2
<1>5. PICK s24, s32, s40, s72 \in Nat : s24 = S(24) /\ s32 = S(32) /\ s40 = S(40) /\ s72 = S(72)
  BY <1>2
<1>6. PICK s152, s180, s480, s560 \in Nat : s152 = S(152) /\ s180 = S(180) /\ s480 = S(480) /\ s560 = S(560)
  BY <1>2
<1>7. /\ s24 > 0 /\ s32 > 0 /\ s40 > 0 /\ s72 > 0 /\ s180 > 0
      /\ 2 * s24 + s180 <= s560 /\ 2 * s24 + s32 + s16 <= s560 /\ s8 + s24 <= s152
      /\ 4 * s8 + 3 * s12 + 2 * s14 + s16 + s8 + s24 <= s152
      /\ s16 + 3 * s72 + 2 * s4 + 2 * s24 <= s560 /\ s16 + s16 + 2 * s24 <= s560
      /\ 4 * s24 + 3 * s32 + 2 * s16 + 2 * s40 + 2 * s8 + s1 + s152 <= s480
  BY <1>3, <1>4, <1>5, <1>6
<1>8. PICK x, y \in Int : x = Tour!Div(w - s560, 2) /\ y = Tour!Div(h - s480, 2)
  BY DEF Tour!Div
<1> PICK l : l = win.laid
  OBVIOUS
<1> PICK shown \in BOOLEAN : shown = Tour!ShowCloseAction(win.stage)
  BY DEF Tour!ShowCloseAction
<1> DEFINE card == [left |-> x, top |-> y, right |-> x + s560, bottom |-> y + s480]
<1>9. l = Tour!CardParts(card, dpi, win.stage)
  BY <1>1, <1>6, <1>8 DEF TourLaid, Tour!LayoutCard, Tour!Box, Tour!Rect, S
<1> DEFINE left == x + s24
           right == x + s560 - s24
           L(top, high) == [left |-> left, top |-> top, right |-> right, bottom |-> top + high]
           brand == y + s24
           desc == brand + s32 + s16
           about == desc + s40 + s24
           prefs == about + s40 + s8
           close == prefs + s32 + s8
           divider == (IF shown THEN close + s32 ELSE prefs + s32) + s24
           status == divider + s1 + s16
           inner == Tour!LayoutStatusCard(dpi, L(status, s152))
<1>10. l = [card |-> card, brand |-> [left |-> left, top |-> brand, right |-> left + s32, bottom |-> brand + s32],
            title |-> [left |-> left + s32 + s16, top |-> brand, right |-> right, bottom |-> brand + s32],
            desc |-> L(desc, s40), divider |-> L(divider, s1), status |-> L(status, s152), texts |-> inner.texts,
            buttons |-> [b \in Tour!Buttons |-> CASE b = "about" -> L(about, s40) [] b = "prefs" -> L(prefs, s32)
                                                  [] b = "close" -> L(close, s32) [] OTHER -> inner[b]]]
  <2> DEFINE Line(at1, high) == Tour!Rect(card.left + S(24), at1, card.right - S(24), at1 + high)
             Brand == Tour!Box(card.left + S(24), card.top + S(24), S(32), S(32))
             Desc == Line(Brand.bottom + S(16), S(40))
             About == Line(Desc.bottom + S(24), S(40))
             Prefs == Line(About.bottom + S(8), S(32))
             Close == Line(Prefs.bottom + S(8), S(32))
             Divider == Line((IF Tour!ShowCloseAction(win.stage) THEN Close ELSE Prefs).bottom + S(24), S(1))
             Status == Line(Divider.bottom + S(16), S(152))
             Inner == Tour!LayoutStatusCard(dpi, Status)
  <2>1. l = [card |-> card, brand |-> Brand, title |-> Tour!Rect(Brand.right + S(16), Brand.top, card.right - S(24), Brand.bottom),
             desc |-> Desc, divider |-> Divider, status |-> Status, texts |-> Inner.texts,
             buttons |-> [b \in Tour!Buttons |-> CASE b = "about" -> About [] b = "prefs" -> Prefs
                                                   [] b = "close" -> Close [] OTHER -> Inner[b]]]
    BY <1>9 DEF Tour!CardParts, S
  <2> HIDE DEF Inner
  <2>2. /\ card.left = x /\ card.top = y /\ card.right = x + s560
        /\ \A at1, high : Line(at1, high) = [left |-> left, top |-> at1, right |-> right, bottom |-> at1 + high]
    BY <1>5 DEF Tour!Rect
  <2> HIDE DEF Line, L, left, right
  <2>3. Brand = [left |-> left, top |-> brand, right |-> left + s32, bottom |-> brand + s32]
    BY <1>5, <2>2 DEF Tour!Box, Tour!Rect, left
  <2> HIDE DEF Brand, brand, card
  <2>4. Desc = L(desc, s40)
    BY <1>4, <1>5, <2>2, <2>3 DEF L
  <2> HIDE DEF Desc, desc
  <2>5. About = L(about, s40)
    BY <1>4, <1>5, <2>2, <2>4 DEF L
  <2> HIDE DEF About, about
  <2>6. Prefs = L(prefs, s32)
    BY <1>4, <1>5, <2>2, <2>5 DEF L
  <2> HIDE DEF Prefs, prefs
  <2>7. Close = L(close, s32)
    BY <1>4, <1>5, <2>2, <2>6 DEF L
  <2> HIDE DEF Close, close
  <2>8. Divider = L(divider, s1)
    BY <1>4, <1>5, <2>2, <2>6, <2>7 DEF L
  <2> HIDE DEF Divider, divider
  <2>9. Status = L(status, s152)
    BY <1>4, <1>6, <2>2, <2>8 DEF L
  <2> HIDE DEF Status, status
  <2>10. Inner = inner
    BY <2>9 DEF Inner
  <2> HIDE DEF inner
  <2>11. Tour!Rect(Brand.right + S(16), Brand.top, card.right - S(24), Brand.bottom)
            = [left |-> left + s32 + s16, top |-> brand, right |-> right, bottom |-> brand + s32]
    BY <1>4, <1>5, <2>2, <2>3 DEF Tour!Rect, right
  <2> QED BY <2>1, <2>3, <2>4, <2>5, <2>6, <2>7, <2>8, <2>9, <2>10, <2>11
<1> DEFINE themes == status + s152 - s8 - s24
           T(top, high) == [left |-> left + s16, top |-> top, right |-> right - s16, bottom |-> top + high]
           C(k) == [left |-> left + s16 + k * (s72 + s4), top |-> themes,
                    right |-> left + s16 + k * (s72 + s4) + s72, bottom |-> themes + s24]
           label == status + s8 + s12 + s8
           eyebrow == label + s14 + s16
           texts == {T(status + s8, s12), T(label, s14), T(eyebrow, s12), T(eyebrow + s12 + s8, s14),
                     T(themes - s12 - s8, s12)}
<1>11. inner = [texts |-> texts, light |-> C(0), dark |-> C(1), high_contrast |-> C(2)]
  <2> DEFINE place == L(status, s152)
             Line(at1, high) == Tour!Rect(place.left + S(16), at1, place.right - S(16), at1 + high)
             top == place.top + S(8) + S(12) + S(8)
             over == top + S(14) + S(16)
             foot == place.bottom - S(8) - S(24)
             Chip(k) == Tour!Box(place.left + S(16) + k * (S(72) + S(4)), foot, S(72), S(24))
  <2>1. inner = [texts |-> {Line(place.top + S(8), S(12)), Line(top, S(14)), Line(over, S(12)),
                            Line(over + S(12) + S(8), S(14)), Line(foot - S(12) - S(8), S(12))},
                 light |-> Chip(0), dark |-> Chip(1), high_contrast |-> Chip(2)]
    BY DEF Tour!LayoutStatusCard, S
  <2>0. status \in Int
    OBVIOUS
  <2> HIDE DEF inner, status, left, right
  <2>2. place.left = left /\ place.top = status /\ place.right = right /\ place.bottom = status + s152
    OBVIOUS
  <2> HIDE DEF place
  <2>3. \A at1, high : Line(at1, high) = T(at1, high)
    BY <1>4, <2>2 DEF Tour!Rect
  <2>4. top = label /\ over = eyebrow /\ foot = themes
    BY <1>4, <1>5, <2>0, <2>2
  <2> HIDE DEF Line, T, top, over, foot, label, eyebrow, themes
  <2>5. Chip(0) = C(0) /\ Chip(1) = C(1) /\ Chip(2) = C(2)
    BY <1>4, <1>5, <2>2, <2>4 DEF Tour!Box, Tour!Rect
  <2> HIDE DEF Chip, C
  <2> QED BY <1>4, <2>1, <2>2, <2>3, <2>4, <2>5
<1> HIDE DEF inner
<1>12. /\ l.buttons["about"] = L(about, s40) /\ l.buttons["prefs"] = L(prefs, s32)
       /\ l.buttons["close"] = L(close, s32) /\ l.buttons["light"] = C(0)
       /\ l.buttons["dark"] = C(1) /\ l.buttons["high_contrast"] = C(2)
  <2> PICK other : other = inner
    OBVIOUS
  <2>1. l.buttons = [b \in Tour!Buttons |-> CASE b = "about" -> L(about, s40) [] b = "prefs" -> L(prefs, s32)
                                                  [] b = "close" -> L(close, s32) [] OTHER -> other[b]]
    BY <1>10
  <2>2. other.light = C(0) /\ other.dark = C(1) /\ other.high_contrast = C(2)
    BY <1>11
  <2> HIDE DEF L, C
  <2> QED BY <2>1, <2>2 DEF Tour!Buttons, Tour!Modes
<1>13. /\ l.card = card /\ l.brand = [left |-> left, top |-> brand, right |-> left + s32, bottom |-> brand + s32]
       /\ l.title = [left |-> left + s32 + s16, top |-> brand, right |-> right, bottom |-> brand + s32]
       /\ l.desc = L(desc, s40) /\ l.divider = L(divider, s1) /\ l.status = L(status, s152)
       /\ l.texts = texts
  BY <1>10, <1>11
\* One below the other.
<1>14. /\ left \in Int /\ right \in Int /\ brand \in Int /\ desc \in Int /\ about \in Int /\ prefs \in Int
       /\ close \in Int /\ divider \in Int /\ status \in Int /\ themes \in Int
       /\ brand >= y /\ desc >= brand + s32 /\ about >= desc + s40 /\ prefs >= about + s40
       /\ close >= prefs + s32 /\ divider >= prefs + s32 /\ (shown => divider >= close + s32)
       /\ status >= divider + s1
  OBVIOUS
<1>15. /\ status + s152 <= y + s480 /\ themes >= status /\ themes + s24 <= status + s152
       /\ left + s180 <= right /\ left + s32 + s16 <= right
       /\ left + s16 + 3 * s72 + 2 * s4 <= right /\ x <= left /\ right <= x + s560
       /\ left + s16 <= right - s16
  BY <1>7
<1>16. /\ status <= status + s8 /\ status + s8 + s12 <= label /\ label + s14 <= eyebrow
       /\ eyebrow + s12 <= eyebrow + s12 + s8 /\ eyebrow + s12 + s8 + s14 <= themes - s12 - s8
       /\ label \in Int /\ eyebrow \in Int
  BY <1>7
<1> HIDE DEF brand, desc, about, prefs, close, divider, status, themes, left, right, label, eyebrow
\* The buttons, as they are painted.
<1> DEFINE painted == Tour!Painted(win)
           live == IF shown THEN Tour!Buttons ELSE Tour!Buttons \ {"close"}
<1>17. /\ DOMAIN painted = live
       /\ \A b \in live \ {"close"} : painted[b] = l.buttons[b]
       /\ shown => painted["close"] = [left |-> right - s180, top |-> close, right |-> right, bottom |-> close + s32]
  BY <1>1, <1>6, <1>12 DEF Tour!Painted, Tour!Buttons, S
<1> HIDE DEF painted
<1>18. ASSUME NEW b \in live, NEW c \in live
       PROVE  Tour!Contains(l.buttons[c], Tour!Middle(painted[b])) <=> b = c
  <2> PICK m : m = Tour!Middle(painted[b])
    OBVIOUS
  <2> DEFINE Top(a) == CASE a = "about" -> about [] a = "prefs" -> prefs [] a = "close" -> close [] OTHER -> themes
             High(a) == CASE a = "about" -> s40 [] a \in {"prefs", "close"} -> s32 [] OTHER -> s24
             Index(a) == CASE a = "dark" -> 1 [] a = "high_contrast" -> 2 [] OTHER -> 0
             From(a) == IF a \in Tour!Modes THEN left + s16 + Index(a) * (s72 + s4) ELSE left
             To(a) == IF a \in Tour!Modes THEN From(a) + s72 ELSE right
  <2>0. /\ Top("about") = about /\ Top("prefs") = prefs /\ Top("close") = close
        /\ Top("light") = themes /\ Top("dark") = themes /\ Top("high_contrast") = themes
        /\ High("about") = s40 /\ High("prefs") = s32 /\ High("close") = s32
        /\ High("light") = s24 /\ High("dark") = s24 /\ High("high_contrast") = s24
    OBVIOUS
  <2>1. /\ From("about") = left /\ From("prefs") = left /\ From("close") = left
        /\ From("light") = left + s16 /\ From("dark") = left + s16 + s72 + s4
        /\ From("high_contrast") = left + s16 + 2 * s72 + 2 * s4
        /\ To("about") = right /\ To("prefs") = right /\ To("close") = right
        /\ To("light") = left + s16 + s72 /\ To("dark") = left + s16 + s72 + s4 + s72
        /\ To("high_contrast") = left + s16 + 2 * s72 + 2 * s4 + s72
    BY <1>14 DEF Tour!Modes
  <2> HIDE DEF Top, High, Index, From, To
  <2>2. \A a \in Tour!Buttons :
            l.buttons[a] = [left |-> From(a), top |-> Top(a), right |-> To(a), bottom |-> Top(a) + High(a)]
    BY <1>12, <1>14, <2>0, <2>1 DEF Tour!Buttons, Tour!Modes
  <2>6. b \in Tour!Buttons /\ c \in Tour!Buttons
    BY DEF live
  <2>3. /\ painted[b].top = Top(b) /\ painted[b].bottom = Top(b) + High(b) /\ painted[b].right = To(b)
        /\ painted[b].left = IF b = "close" THEN right - s180 ELSE From(b)
    <3>1. CASE b = "close"
      BY <1>17, <2>0, <2>1, <3>1
    <3>2. CASE b # "close"
      <4>1. painted[b] = l.buttons[b]
        BY <1>17, <3>2
      <4>2. l.buttons[b] = [left |-> From(b), top |-> Top(b), right |-> To(b), bottom |-> Top(b) + High(b)]
        BY <2>2, <2>6
      <4> QED BY <3>2, <4>1, <4>2
    <3> QED BY <3>1, <3>2
  <2>4. \A a \in Tour!Buttons : /\ Top(a) \in Int /\ High(a) \in Nat /\ High(a) > 0 /\ From(a) \in Int /\ To(a) \in Int
                                 /\ From(a) < To(a)
    BY <1>7, <1>14, <1>15, <2>0, <2>1 DEF Tour!Buttons, Tour!Modes
  <2>5. painted[b].left \in Int /\ From(b) <= painted[b].left /\ painted[b].left < To(b)
    BY <1>7, <1>14, <1>15, <2>1, <2>3, <2>4
  <2>7. /\ m.x \in Int /\ From(b) <= m.x /\ m.x < To(b)
        /\ m.y \in Int /\ Top(b) <= m.y /\ m.y < Top(b) + High(b)
    BY <2>3, <2>4, <2>5, <2>6 DEF Tour!Middle
  <2>8. \A a, d \in live : a # d =>
            \/ Top(a) + High(a) <= Top(d) \/ Top(d) + High(d) <= Top(a)
            \/ From(a) >= To(d) \/ From(d) >= To(a)
    <3>1. about + s40 <= prefs /\ prefs + s32 <= close
      BY <1>14
    <3>2. prefs + s32 <= themes /\ (shown => close + s32 <= themes)
      BY <1>14, <1>15
    <3>3. about + s40 <= close /\ about + s40 <= themes
      BY <1>14, <3>1, <3>2
    <3> QED BY <1>14, <2>0, <2>1, <3>1, <3>2, <3>3 DEF Tour!Buttons, Tour!Modes
  <2> HIDE DEF live
  <2>9. b # c => \/ Top(b) + High(b) <= Top(c) \/ Top(c) + High(c) <= Top(b)
                 \/ From(b) >= To(c) \/ From(c) >= To(b)
    BY <2>8
  <2>10. l.buttons[c] = [left |-> From(c), top |-> Top(c), right |-> To(c), bottom |-> Top(c) + High(c)]
    BY <2>2, <2>6
  <2>11. /\ Top(b) \in Int /\ Top(c) \in Int /\ High(b) \in Nat /\ High(c) \in Nat
         /\ From(b) \in Int /\ From(c) \in Int /\ To(b) \in Int /\ To(c) \in Int
    BY <2>4, <2>6
  <2>12. ASSUME b = c PROVE Tour!Contains(l.buttons[c], m)
    BY <2>7, <2>10, <2>12 DEF Tour!Contains
  <2>13. ASSUME b # c PROVE ~Tour!Contains(l.buttons[c], m)
    BY <2>7, <2>9, <2>10, <2>11, <2>13 DEF Tour!Contains
  <2> QED BY <2>12, <2>13
<1>19. Tour!TargetsAreHit
  <2> SUFFICES ASSUME NEW b \in DOMAIN painted PROVE Tour!HitTest(win, Tour!Middle(painted[b])) = b
    BY DEF Tour!TargetsAreHit, painted
  <2> DEFINE hit == {c \in Tour!Buttons : (c # "close" \/ Tour!ShowCloseAction(win.stage))
                                            /\ Tour!Contains(win.laid.buttons[c], Tour!Middle(painted[b]))}
  <2>1. hit = {b}
    BY <1>17, <1>18
  <2>2. Tour!HitTest(win, Tour!Middle(painted[b])) = IF hit = {} THEN Tour!None ELSE CHOOSE c \in hit : TRUE
    BY DEF Tour!HitTest
  <2> HIDE DEF hit
  <2> QED BY <2>1, <2>2
\* The parts of the card, and those of its status.
<1> DEFINE chips == {painted["light"], painted["dark"], painted["high_contrast"]}
           lines == texts \cup chips
           actions == {painted[b] : b \in DOMAIN painted \ Tour!Modes}
           parts == {l.brand, l.title, l.desc, l.divider, l.status} \cup actions
           Inside(r, s) == s.left <= r.left /\ s.top <= r.top /\ r.right <= s.right /\ r.bottom <= s.bottom
<1>20. /\ painted["light"] = C(0) /\ painted["dark"] = C(1) /\ painted["high_contrast"] = C(2)
       /\ painted["about"] = L(about, s40) /\ painted["prefs"] = L(prefs, s32)
       /\ painted["light"] = [left |-> left + s16, top |-> themes, right |-> left + s16 + s72, bottom |-> themes + s24]
       /\ painted["dark"] = [left |-> left + s16 + s72 + s4, top |-> themes,
                             right |-> left + s16 + s72 + s4 + s72, bottom |-> themes + s24]
       /\ painted["high_contrast"] = [left |-> left + s16 + 2 * s72 + 2 * s4, top |-> themes,
                                      right |-> left + s16 + 2 * s72 + 2 * s4 + s72, bottom |-> themes + s24]
  <2>1. /\ painted["light"] = C(0) /\ painted["dark"] = C(1) /\ painted["high_contrast"] = C(2)
        /\ painted["about"] = L(about, s40) /\ painted["prefs"] = L(prefs, s32)
    <3> HIDE DEF C, L
    <3> QED BY <1>12, <1>17 DEF Tour!Buttons, Tour!Modes
  <2>2. 0 * (s72 + s4) = 0 /\ 1 * (s72 + s4) = s72 + s4 /\ 2 * (s72 + s4) = 2 * s72 + 2 * s4
    OBVIOUS
  <2> QED BY <1>14, <2>1, <2>2
<1>21. actions = {L(about, s40), L(prefs, s32)} \cup
                     (IF shown THEN {[left |-> right - s180, top |-> close, right |-> right, bottom |-> close + s32]} ELSE {})
  <2>1. DOMAIN painted \ Tour!Modes = {"about", "prefs"} \cup (IF shown THEN {"close"} ELSE {})
    BY <1>17 DEF Tour!Buttons, Tour!Modes
  <2> HIDE DEF L
  <2> QED BY <1>17, <1>20, <2>1
<1> HIDE DEF actions
<1>22. \A r, s \in parts : r # s => Tour!Apart(r, s)
  <2> SUFFICES ASSUME NEW r \in parts, NEW s \in parts, r # s PROVE Tour!Apart(r, s)
    OBVIOUS
  <2> QED BY <1>13, <1>14, <1>15, <1>21 DEF Tour!Apart
<1>23. \A r, s \in lines : r # s => Tour!Apart(r, s)
  <2> SUFFICES ASSUME NEW r \in lines, NEW s \in lines, r # s PROVE Tour!Apart(r, s)
    OBVIOUS
  <2> HIDE DEF C
  <2> QED BY <1>14, <1>15, <1>16, <1>20 DEF Tour!Apart
<1>24. \A r \in parts : Inside(r, l.card)
  BY <1>7, <1>13, <1>14, <1>15, <1>21
<1>25. \A r \in lines : Inside(r, l.status)
  <2> HIDE DEF C
  <2> QED BY <1>7, <1>13, <1>14, <1>15, <1>16, <1>20
<1>26. w >= s560 /\ h >= s480 => Inside(l.card, Tour!Box(0, 0, w, h))
  BY <1>8, <1>13 DEF Tour!Div, Tour!Box, Tour!Rect
<1>27. Tour!LaidOut
  <2>1. l.texts \cup {painted[b] : b \in Tour!Modes} = lines
    BY <1>13 DEF Tour!Modes
  <2>2. {l.brand, l.title, l.desc, l.divider, l.status} \cup {painted[b] : b \in DOMAIN painted \ Tour!Modes} = parts
    BY DEF actions
  <2>3. win.size.w >= Tour!Scaled(win.dpi, 560) /\ win.size.h >= Tour!Scaled(win.dpi, 480)
            => Inside(l.card, Tour!Box(0, 0, win.size.w, win.size.h))
    BY <1>1, <1>6, <1>26 DEF S
  <2> HIDE DEF lines, parts
  <2> QED BY <1>22, <1>23, <1>24, <1>25, <2>1, <2>2, <2>3 DEF Tour!LaidOut, painted
<1> QED BY <1>19, <1>27

-----------------------------------------------------------------------------
(* The resource gallery, at any size *)

ResourcePlaced(w) ==
    /\ ResourceFields \subseteq DOMAIN w
    /\ w.size \in WindowSizes.resources /\ w.dpi \in Dpi.resources /\ w.group \in 1..6

\* What is laid out may be the rows of a group that was left.
ResourceLaid ==
    /\ ResourcePlaced(win)
    /\ \E n \in Nat : win.laid = Resources!LayoutControls(win.size, win.dpi, n)

\* The first group is laid out when the window is made.
LEMMA ResourceLaidInit == Resources!Init => ResourceLaid
<1> SUFFICES ASSUME NEW size \in WindowSizes.resources, NEW dpi \in Dpi.resources, NEW mode,
                    win = Resources!CreateMain(size, dpi, mode)
             PROVE  ResourceLaid
  BY DEF Resources!Init
<1> PICK g : g = Resources!LayoutControls(size, dpi, 12)
  OBVIOUS
<1>0. Resources!Count[1] = 12
  BY DEF Resources!Count
<1>1. /\ ResourceFields \subseteq DOMAIN win /\ win.size = size /\ win.dpi = dpi /\ win.group = 1
      /\ win.laid = g
  BY <1>0 DEF Resources!CreateMain, Resources!Quiet, Resources!Layout, Resources!Asking, ResourceFields
<1> QED BY <1>1 DEF ResourceLaid, ResourcePlaced

\* The click finds a group, or none.
LEMMA GroupIsFound ==
  ASSUME NEW size, NEW dpi, NEW n, NEW p
  PROVE  Resources!HitTestNav(Resources!LayoutControls(size, dpi, n), p) \in 0..6
<1> PICK rects : rects = Resources!LayoutControls(size, dpi, n).groups
  OBVIOUS
<1>1. DOMAIN rects = 1..6
  BY DEF Resources!LayoutControls, Resources!ComputeLayoutRects, Resources!Groups
<1> DEFINE hit == {i \in DOMAIN rects : Resources!Contains(rects[i], p)}
<1>2. Resources!FirstHit(rects, p) = IF hit = {} THEN 0 ELSE CHOOSE i \in hit : \A j \in hit : i <= j
  BY DEF Resources!FirstHit, Resources!Nothing
<1>3. hit \subseteq 1..6
  BY <1>1
<1>4. hit # {} => \E i \in hit : \A j \in hit : i <= j
  <2> HIDE DEF hit
  <2>1. ASSUME hit # {} PROVE \E i \in hit : \A j \in hit : i <= j
    <3>1. CASE 1 \in hit
      BY <1>3, <3>1
    <3>2. CASE 1 \notin hit /\ 2 \in hit
      BY <1>3, <3>2
    <3>3. CASE {1, 2} \cap hit = {} /\ 3 \in hit
      BY <1>3, <3>3
    <3>4. CASE {1, 2, 3} \cap hit = {} /\ 4 \in hit
      BY <1>3, <3>4
    <3>5. CASE {1, 2, 3, 4} \cap hit = {} /\ 5 \in hit
      BY <1>3, <3>5
    <3>6. CASE {1, 2, 3, 4, 5} \cap hit = {}
      <4>1. hit = {6}
        <5>1. \A i \in hit : i = 6
          BY <1>3, <3>6
        <5> QED BY <2>1, <5>1
      <4> QED BY <4>1
    <3> QED BY <3>1, <3>2, <3>3, <3>4, <3>5, <3>6
  <2> QED BY <2>1
<1> HIDE DEF hit
<1>5. Resources!FirstHit(rects, p) \in 0..6
  <2>1. CASE hit = {}
    BY <1>2, <2>1
  <2>2. CASE hit # {}
    <3> DEFINE first == CHOOSE i \in hit : \A j \in hit : i <= j
    <3>1. first \in hit
      BY <1>4, <2>2
    <3> HIDE DEF first
    <3>2. Resources!FirstHit(rects, p) = first
      BY <1>2, <2>2 DEF first
    <3> QED BY <1>3, <3>1, <3>2
  <2> QED BY <2>1, <2>2
<1> QED BY <1>5 DEF Resources!HitTestNav

\* Every layout is that of the size and the scale, and no handler leaves another.
LEMMA ResourceLaidStep == ResourceLaid /\ Resources!Next => ResourceLaid'
<1> SUFFICES ASSUME ResourceLaid, Resources!Next PROVE ResourceLaid'
  OBVIOUS
<1> DEFINE q == Resources!Quiet(win)
           Kept(v, w) == /\ ResourceFields \subseteq DOMAIN w
                         /\ w.size = v.size /\ w.dpi = v.dpi /\ w.laid = v.laid /\ w.group \in 1..6
<1>0. ResourceFields \subseteq DOMAIN q /\ Kept(win, q) /\ ResourcePlaced(q)
  BY DEF ResourceLaid, ResourcePlaced, Resources!Quiet, ResourceFields
<1> HIDE DEF q
<1>1. Kept(win, win') => ResourceLaid'
  BY DEF ResourceLaid, ResourcePlaced
<1> DEFINE Laid(w) == ResourcePlaced(w) /\ \E n \in Nat : w.laid = Resources!LayoutControls(w.size, w.dpi, n)
<1>2. ASSUME NEW w, ResourcePlaced(w) PROVE Laid(Resources!Layout(w))
  <2>1. PICK n \in Nat : n = Resources!Count[w.group]
    BY <1>2 DEF ResourcePlaced, Resources!Count
  <2> PICK g : g = Resources!LayoutControls(w.size, w.dpi, n)
    OBVIOUS
  <2> PICK v : v = Resources!Layout(w)
    OBVIOUS
  <2>2. v = Resources!Asking([w EXCEPT !.laid = g], {"main"})
    BY <2>1 DEF Resources!Layout
  <2>3. ResourceFields \subseteq DOMAIN v /\ v.size = w.size /\ v.dpi = w.dpi /\ v.group = w.group /\ v.laid = g
    BY <1>2, <2>2 DEF ResourcePlaced, Resources!Asking, ResourceFields
  <2> QED BY <1>2, <2>3 DEF ResourcePlaced
<1>3. ASSUME NEW w, NEW surfaces, Laid(w) PROVE Laid(Resources!Asking(w, surfaces))
  <2> PICK v : v = Resources!Asking(w, surfaces)
    OBVIOUS
  <2>1. ResourceFields \subseteq DOMAIN v /\ v.size = w.size /\ v.dpi = w.dpi /\ v.group = w.group /\ v.laid = w.laid
    BY <1>3 DEF ResourcePlaced, Resources!Asking, ResourceFields
  <2> QED BY <1>3, <2>1 DEF ResourcePlaced
<1>4. Laid(win') => ResourceLaid'
  BY DEF ResourceLaid, ResourcePlaced
<1> HIDE DEF Laid
<1>5. ASSUME win' = Resources!Reload(q) PROVE ResourceLaid'
  BY <1>0, <1>2, <1>3, <1>4, <1>5 DEF Resources!Reload
<1>6. ASSUME NEW g \in 1..6, win' = Resources!SelectGroup(q, g) PROVE ResourceLaid'
  <2>1. win' = q \/ win' = Resources!Asking([q EXCEPT !.group = g, !.hoverRow = Resources!Nothing], {"main", "status"})
    BY <1>6 DEF Resources!SelectGroup
  <2>2. Kept(win, win')
    BY <1>0, <2>1 DEF Resources!Asking, ResourceFields
  <2> QED BY <1>1, <2>2
<1>7. CASE Resources!Resize
  <2>1. PICK size \in WindowSizes.resources : win' = Resources!Asking(Resources!Layout([q EXCEPT !.size = size]), {"main"})
    BY <1>7 DEF Resources!Resize, q
  <2> PICK w : w = [q EXCEPT !.size = size]
    OBVIOUS
  <2>2. ResourcePlaced(w)
    BY <1>0 DEF ResourcePlaced, ResourceFields
  <2> QED BY <1>2, <1>3, <1>4, <2>1, <2>2
<1>8. ASSUME NEW w, ResourcePlaced(w) PROVE ResourcePlaced(Resources!ApplyFonts(w))
  BY <1>8 DEF ResourcePlaced, Resources!ApplyFonts, Resources!Asking, ResourceFields
<1>9. CASE Resources!DpiChanged
  <2>1. PICK dpi \in Dpi.resources, size \in WindowSizes.resources :
            win' = Resources!Asking(Resources!Layout(Resources!ApplyFonts(
                            Resources!Layout([q EXCEPT !.dpi = dpi, !.size = size]))), {"main"})
    BY <1>9 DEF Resources!DpiChanged, q
  <2> PICK w : w = [q EXCEPT !.dpi = dpi, !.size = size]
    OBVIOUS
  <2>2. ResourcePlaced(w)
    BY <1>0 DEF ResourcePlaced, ResourceFields
  <2>3. ResourcePlaced(Resources!Layout(w))
    BY <1>2, <2>2 DEF Laid
  <2>4. ResourcePlaced(Resources!ApplyFonts(Resources!Layout(w)))
    BY <1>8, <2>3
  <2> QED BY <1>2, <1>3, <1>4, <2>1, <2>4
<1>10. ASSUME NEW w, NEW mode, Laid(w) PROVE Laid(Resources!ApplyTheme(w, mode))
  <2>1. CASE w.mode = mode
    BY <1>10, <2>1 DEF Resources!ApplyTheme
  <2>2. CASE w.mode # mode
    <3> PICK v : v = [w EXCEPT !.mode = mode, !.palette = mode, !.menu = mode, !.bar = mode]
      OBVIOUS
    <3>1. ResourcePlaced(v)
      BY <1>10 DEF Laid, ResourcePlaced, ResourceFields
    <3>2. Resources!ApplyTheme(w, mode) = Resources!Asking(Resources!Layout(Resources!ApplyFonts(v)), {"main", "menu", "status"})
      BY <2>2 DEF Resources!ApplyTheme
    <3> QED BY <1>2, <1>3, <1>8, <3>1, <3>2
  <2> QED BY <2>1, <2>2
<1>11. Laid(q)
  <2>1. \E n \in Nat : q.laid = Resources!LayoutControls(q.size, q.dpi, n)
    BY <1>0 DEF ResourceLaid
  <2> QED BY <1>0, <2>1 DEF Laid
<1>12. CASE Resources!ThemeChanged
  <2>1. win' = Resources!ApplyTheme(q, win.broker)
    BY <1>12 DEF Resources!ThemeChanged, q
  <2> QED BY <1>4, <1>10, <1>11, <2>1
<1>13. CASE Resources!MouseMove
  <2>1. PICK p : \E granted \in BOOLEAN : win' = Resources!TrackHover(q, p, granted)
    BY <1>13 DEF Resources!MouseMove, q
  <2>2. Kept(win, win')
    BY <1>0, <2>1 DEF Resources!TrackHover, Resources!Tracked, Resources!Asking, ResourceFields
  <2> QED BY <1>1, <2>2
<1>14. CASE Resources!MouseLeave
  <2>1. Kept(win, win')
    BY <1>0, <1>14 DEF Resources!MouseLeave, Resources!Asking, ResourceFields, q
  <2> QED BY <1>1, <2>1
<1>15. CASE Resources!LButtonUp
  <2>1. PICK p : win' = Resources!HandleClick(q, p)
    BY <1>15 DEF Resources!LButtonUp, q
  <2> PICK g : g = Resources!HitTestNav(q.laid, p)
    OBVIOUS
  <2>2. g \in 0..6
    BY <1>11, GroupIsFound DEF Laid
  <2>3. \/ win' = q \/ win' = Resources!Reload(q)
        \/ g \in 1..6 /\ win' = Resources!SelectGroup(q, g)
        \/ \E i : win' = Resources!Asking([q EXCEPT !.row = i], {"main"})
    <3>1. CASE g # 0
      <4>1. win' = Resources!SelectGroup(q, g)
        BY <2>1, <3>1 DEF Resources!HandleClick, Resources!Nothing
      <4> QED BY <2>2, <3>1, <4>1
    <3>2. CASE g = 0
      BY <2>1, <3>2 DEF Resources!HandleClick, Resources!Nothing
    <3> QED BY <3>1, <3>2
  <2>4. ASSUME NEW i, win' = Resources!Asking([q EXCEPT !.row = i], {"main"})
        PROVE  ResourceLaid'
    <3>1. Kept(win, win')
      BY <1>0, <2>4 DEF Resources!Asking, ResourceFields
    <3> QED BY <1>1, <3>1
  <2> QED BY <1>0, <1>1, <1>5, <1>6, <2>3, <2>4
<1>16. CASE Resources!Command
  <2>1. \/ win' = Resources!Reload(q)
        \/ \E mode : win' = Resources!BrokerSet(q, mode)
        \/ \E g \in 1..6 : win' = Resources!SelectGroup(q, g)
    BY <1>16, SizesAssumption DEF Resources!Command, Resources!Groups, q
  <2>2. ASSUME NEW mode, win' = Resources!BrokerSet(q, mode) PROVE ResourceLaid'
    <3> PICK v : v = [q EXCEPT !.broker = mode]
      OBVIOUS
    <3>1. Laid(v)
      BY <1>11 DEF Laid, ResourcePlaced, ResourceFields
    <3>2. win' = q \/ win' = Resources!ApplyTheme(Resources!ApplyTheme(v, mode), mode)
      BY <2>2 DEF Resources!BrokerSet
    <3> QED BY <1>4, <1>10, <1>11, <3>1, <3>2
  <2> QED BY <1>5, <1>6, <2>1, <2>2
<1> QED BY <1>7, <1>9, <1>12, <1>13, <1>14, <1>15, <1>16 DEF Resources!Next

\* What stands at equal steps is a step apart.
LEMMA StepsApart ==
  ASSUME NEW base \in Int, NEW step \in Nat, NEW i \in Int, NEW j \in Int, i < j
  PROVE  /\ base + (i - 1) * step \in Int /\ base + (j - 1) * step \in Int
         /\ base + (i - 1) * step + step <= base + (j - 1) * step
<1>1. step * ((i - 1) + 1) <= step * (j - 1) /\ step * (i - 1) \in Int /\ step * (j - 1) \in Int
  BY Product
<1>2. step * ((i - 1) + 1) = step * (i - 1) + step /\ step * (i - 1) = (i - 1) * step /\ step * (j - 1) = (j - 1) * step
  OBVIOUS
<1> QED BY <1>1, <1>2

\* The gallery has room for six groups, and for the parts of a group and of an asset.
LEMMA ResourceAddsUp ==
  ASSUME NEW dpi \in Nat, dpi >= 96
  PROVE  LET S(v) == Resources!Scaled(dpi, v)
         IN /\ S(36) > 0 /\ S(36) <= S(40) /\ S(36) <= S(56) /\ S(40) > 0 /\ S(56) > 0
            /\ 2 * S(16) <= S(120) /\ S(12) <= S(16) /\ 2 * S(16) + 2 * S(120) + 2 <= S(300)
            /\ 2 * S(24) + S(232) + S(12) + 4 * S(12) + S(8) + S(36) + S(120) + S(12) <= S(924)
            /\ 2 * S(24) + (S(36) + S(18) + S(12)) + S(8) + S(40) + S(12) + S(28) + 6 * S(4) + 6 * S(40) + S(23) <= S(581)
            /\ (S(12) \div 2) + (S(3) \div 2) <= S(12) /\ 4 * S(12) + S(18) + S(36) <= S(232)
            /\ S(12) > 0 /\ S(232) > 2 * S(12)
BY DEF Resources!Scaled

\* Where everything is.
LEMMA ResourceMeasured == ResourceLaid => Resources!TargetsAreHit /\ Resources!LaidOut
<1> SUFFICES ASSUME ResourceLaid PROVE Resources!TargetsAreHit /\ Resources!LaidOut
  OBVIOUS
<1>1. PICK dpi \in Nat, w \in Nat, h \in Nat : dpi = win.dpi /\ w = win.size.w /\ h = win.size.h /\ dpi >= 96
  BY SizesAssumption DEF ResourceLaid, ResourcePlaced
<1>0. PICK n \in Nat : win.laid = Resources!LayoutControls(win.size, dpi, n)
  BY <1>1 DEF ResourceLaid
<1> DEFINE S(v) == Resources!Scaled(dpi, v)
<1>2. \A v \in Nat : S(v) \in Nat
  BY <1>1, ScaledTyped DEF Resources!Scaled, Form!Scaled
<1>3. /\ S(36) > 0 /\ S(36) <= S(40) /\ S(36) <= S(56) /\ S(40) > 0 /\ S(56) > 0
      /\ 2 * S(16) <= S(120) /\ S(12) <= S(16) /\ 2 * S(16) + 2 * S(120) + 2 <= S(300)
      /\ 2 * S(24) + S(232) + S(12) + 4 * S(12) + S(8) + S(36) + S(120) + S(12) <= S(924)
      /\ 2 * S(24) + (S(36) + S(18) + S(12)) + S(8) + S(40) + S(12) + S(28) + 6 * S(4) + 6 * S(40) + S(23) <= S(581)
      /\ (S(12) \div 2) + (S(3) \div 2) <= S(12) /\ 4 * S(12) + S(18) + S(36) <= S(232)
      /\ S(12) > 0 /\ S(232) > 2 * S(12)
  BY <1>1, ResourceAddsUp
<1> HIDE DEF S
<1>4. PICK s2, s3, s4, s8, s12, s14 \in Nat :
          s2 = S(2) /\ s3 = S(3) /\ s4 = S(4) /\ s8 = S(8) /\ s12 = S(12) /\ s14 = S(14)
  BY <1>2
<1>5. PICK s16, s18, s20, s23, s24, s28 \in Nat :
          s16 = S(16) /\ s18 = S(18) /\ s20 = S(20) /\ s23 = S(23) /\ s24 = S(24) /\ s28 = S(28)
  BY <1>2
<1>6. PICK s36, s40, s56, s120, s232, s300 \in Nat :
          s36 = S(36) /\ s40 = S(40) /\ s56 = S(56) /\ s120 = S(120) /\ s232 = S(232) /\ s300 = S(300)
  BY <1>2
<1>7. PICK s581, s924 \in Nat : s581 = S(581) /\ s924 = S(924)
  BY <1>2
<1>8. /\ s36 > 0 /\ s36 <= s40 /\ s36 <= s56 /\ s40 > 0 /\ s56 > 0
      /\ 2 * s16 <= s120 /\ s12 <= s16 /\ 2 * s16 + 2 * s120 + 2 <= s300
      /\ 2 * s24 + s232 + s12 + 4 * s12 + s8 + s36 + s120 + s12 <= s924
      /\ 2 * s24 + (s36 + s18 + s12) + s8 + s40 + s12 + s28 + 6 * s4 + 6 * s40 + s23 <= s581
      /\ (s12 \div 2) + (s3 \div 2) <= s12 /\ 4 * s12 + s18 + s36 <= s232
      /\ s12 > 0 /\ s232 > 2 * s12
  BY <1>3, <1>4, <1>5, <1>6, <1>7
<1> PICK l : l = win.laid
  OBVIOUS
<1> DEFINE R(x, y, across, down) == [left |-> x, top |-> y, right |-> x + across, bottom |-> y + down]
           across == IF w - 2 * s24 >= 0 THEN w - 2 * s24 ELSE 0
           bar == s24 + (s36 + s18 + s12) + s8
           top == bar + s40 + s12
           down == IF h - s23 - s24 - top >= 0 THEN h - s23 - s24 - top ELSE 0
           from == s24 + s232 + s12
           wide == IF across - s232 - s12 >= 0 THEN across - s232 - s12 ELSE 0
           Group(g) == R(s24, top + s28 + s4 + (g - 1) * (s40 + s4), s232, s40)
           Row(i) == R(from, top + s40 + s8 + (i - 1) * (s56 + s8), wide, s56)
<1>9. across \in Nat /\ down \in Nat /\ wide \in Nat /\ bar \in Nat /\ top \in Nat /\ from \in Nat
  OBVIOUS
<1>10. ASSUME NEW x, NEW y, NEW a \in Int, NEW d \in Int
       PROVE  Resources!MakeRect(x, y, a, d) = R(x, y, IF a >= 0 THEN a ELSE 0, IF d >= 0 THEN d ELSE 0)
  BY DEF Resources!MakeRect, Resources!Larger, Resources!Box, Resources!Rect
<1>11. /\ l.header = R(s24, s24, across, s36 + s18 + s12) /\ l.toolbar = R(s24, bar, across, s40)
       /\ l.rail = R(s24, top, s232, down) /\ l.list = R(from, top, wide, down)
       /\ l.railHeader = R(s24, top, s232, s28) /\ l.listHeader = R(from, top, wide, s40)
       /\ l.groups = [g \in 1..6 |-> Group(g)] /\ l.rows = [i \in 1..n |-> Row(i)]
       /\ l.dpi = dpi /\ l.size = win.size
  <2> DEFINE M(x, y, a, d) == Resources!MakeRect(x, y, a, d)
             header == M(S(24), S(24), win.size.w - 2 * S(24), S(36) + S(18) + S(12))
             toolbar == M(S(24), header.bottom + S(8), win.size.w - 2 * S(24), S(40))
             under == toolbar.bottom + S(12)
             body == M(S(24), under, win.size.w - 2 * S(24), win.size.h - S(23) - S(24) - under)
             rail == M(body.left, under, S(232), Resources!Height(body))
             list == M(rail.right + S(12), under, Resources!Width(body) - S(232) - S(12), Resources!Height(body))
             parts == Resources!ComputeLayoutRects(dpi, rail, list, n)
  <2>1. l = [size |-> win.size, dpi |-> dpi, header |-> header, toolbar |-> toolbar, rail |-> rail, list |-> list,
             railHeader |-> parts.railHeader, listHeader |-> parts.listHeader, groups |-> parts.groups,
             rows |-> parts.rows]
    BY <1>0 DEF Resources!LayoutControls, S
  <2> HIDE DEF parts, R
  <2>2. header = R(s24, s24, across, s36 + s18 + s12)
    BY <1>1, <1>4, <1>5, <1>6, <1>10
  <2>3. toolbar = R(s24, bar, across, s40)
    <3>1. header.bottom + S(8) = bar
      BY <1>4, <2>2 DEF R
    <3> HIDE DEF header, bar
    <3> QED BY <1>1, <1>5, <1>6, <1>10, <3>1
  <2>4. under = top
    <3> HIDE DEF toolbar
    <3> QED BY <1>4, <2>3 DEF R
  <2> HIDE DEF header, toolbar, under, top
  <2>5. body = R(s24, top, across, down)
    BY <1>1, <1>5, <1>9, <1>10, <2>4
  <2> HIDE DEF body, across, down
  <2>6. body.left = s24 /\ Resources!Width(body) = across /\ Resources!Height(body) = down
    BY <1>9, <2>5 DEF R, Resources!Width, Resources!Height
  <2>7. rail = R(s24, top, s232, down)
    BY <1>6, <1>9, <1>10, <2>4, <2>6
  <2>8. rail.right + S(12) = from
    BY <1>4, <2>7 DEF R
  <2> HIDE DEF rail, from
  <2>9. list = R(from, top, wide, down)
    BY <1>4, <1>6, <1>9, <1>10, <2>4, <2>6, <2>8
  <2> HIDE DEF list, wide
  <2>10. /\ rail.left = s24 /\ rail.top = top /\ Resources!Width(rail) = s232
         /\ list.left = from /\ list.top = top /\ Resources!Width(list) = wide
    BY <1>9, <2>7, <2>9 DEF R, Resources!Width
  <2>11. M(rail.left, rail.top, Resources!Width(rail), S(28)) = R(s24, top, s232, s28)
    BY <1>5, <1>10, <2>10
  <2>12. M(list.left, list.top, Resources!Width(list), S(40)) = R(from, top, wide, s40)
    BY <1>6, <1>9, <1>10, <2>10
  <2>13. ASSUME NEW i \in Int
         PROVE  M(rail.left, top + s28 + S(4) + (i - 1) * (S(40) + S(4)), Resources!Width(rail), S(40)) = Group(i)
    BY <1>4, <1>6, <1>10, <2>10
  <2>14. ASSUME NEW i \in Int
         PROVE  M(list.left, top + s40 + S(8) + (i - 1) * (S(56) + S(8)), Resources!Width(list), S(56)) = Row(i)
    BY <1>4, <1>6, <1>9, <1>10, <2>10
  <2>15. R(s24, top, s232, s28).bottom = top + s28 /\ R(from, top, wide, s40).bottom = top + s40
    BY DEF R
  <2>16. /\ parts.railHeader = R(s24, top, s232, s28) /\ parts.listHeader = R(from, top, wide, s40)
         /\ parts.groups = [g \in 1..6 |-> M(rail.left, top + s28 + S(4) + (g - 1) * (S(40) + S(4)), Resources!Width(rail), S(40))]
         /\ parts.rows = [i \in 1..n |-> M(list.left, top + s40 + S(8) + (i - 1) * (S(56) + S(8)), Resources!Width(list), S(56))]
    <3> PICK railHeader, listHeader :
            /\ railHeader = M(rail.left, rail.top, Resources!Width(rail), S(28))
            /\ listHeader = M(list.left, list.top, Resources!Width(list), S(40))
      OBVIOUS
    <3>1. parts = [railHeader |-> railHeader, listHeader |-> listHeader,
                   groups |-> [g \in 1..6 |-> M(rail.left, railHeader.bottom + S(4) + (g - 1) * (S(40) + S(4)), Resources!Width(rail), S(40))],
                   rows |-> [i \in 1..n |-> M(list.left, listHeader.bottom + S(8) + (i - 1) * (S(56) + S(8)), Resources!Width(list), S(56))]]
      BY DEF parts, Resources!ComputeLayoutRects, Resources!Groups, S
    <3>2. railHeader.bottom = top + s28 /\ listHeader.bottom = top + s40
      BY <2>11, <2>12, <2>15
    <3> HIDE DEF M
    <3> QED BY <2>11, <2>12, <3>1, <3>2
  <2> HIDE DEF M, Group, Row
  <2>17. parts.groups = [g \in 1..6 |-> Group(g)] /\ parts.rows = [i \in 1..n |-> Row(i)]
    BY <2>13, <2>14, <2>16
  <2> QED BY <2>1, <2>2, <2>3, <2>7, <2>9, <2>16, <2>17
<1>12. DOMAIN l.groups = 1..6 /\ DOMAIN l.rows = 1..n /\ Len(l.rows) = n
  <2> HIDE DEF Group, Row, R
  <2> PICK rows : rows = l.rows
    OBVIOUS
  <2>1. rows = [i \in 1..n |-> Row(i)]
    BY <1>11
  <2> DEFINE T == {Row(i) : i \in 1..n}
  <2>2. rows \in [1..n -> T]
    BY <2>1
  <2> HIDE DEF T
  <2>3. Len(rows) = n
    BY <2>2
  <2> QED BY <1>11, <2>3
<1>13. \A i \in Resources!PaintedRows(win) : i \in 1..n
  <2> PICK shown : shown = Resources!Count[win.group]
    OBVIOUS
  <2>1. shown \in Nat
    BY DEF ResourceLaid, ResourcePlaced, Resources!Count
  <2>2. Resources!PaintedRows(win) = 1..(IF shown <= n THEN shown ELSE n)
    BY <1>12 DEF Resources!PaintedRows, Resources!Smaller
  <2> QED BY <2>1, <2>2
<1> DEFINE Stack(g) == top + s28 + s4 + (g - 1) * (s40 + s4)
           Line(i) == top + s40 + s8 + (i - 1) * (s56 + s8)
<1>14. /\ \A g \in Int : Stack(g) \in Int
       /\ \A g, k \in Int : g < k => Stack(g) + s40 + s4 <= Stack(k)
  <2>1. s40 + s4 \in Nat /\ top + s28 + s4 \in Int
    BY <1>9
  <2> SUFFICES ASSUME NEW g \in Int
               PROVE  Stack(g) \in Int /\ \A k \in Int : g < k => Stack(g) + s40 + s4 <= Stack(k)
    OBVIOUS
  <2>2. Stack(g) \in Int
    BY <2>1, StepsApart, g < g + 1
  <2>3. ASSUME NEW k \in Int, g < k PROVE Stack(g) + s40 + s4 <= Stack(k)
    <3>1. Stack(g) + (s40 + s4) <= Stack(k)
      BY <2>1, <2>3, StepsApart
    <3> HIDE DEF Stack
    <3> QED BY <2>2, <3>1
  <2> QED BY <2>2, <2>3
<1>15. /\ \A i \in Int : Line(i) \in Int
       /\ \A i, k \in Int : i < k => Line(i) + s56 + s8 <= Line(k)
  <2>1. s56 + s8 \in Nat /\ top + s40 + s8 \in Int
    BY <1>9
  <2> SUFFICES ASSUME NEW i \in Int
               PROVE  Line(i) \in Int /\ \A k \in Int : i < k => Line(i) + s56 + s8 <= Line(k)
    OBVIOUS
  <2>2. Line(i) \in Int
    BY <2>1, StepsApart, i < i + 1
  <2>3. ASSUME NEW k \in Int, i < k PROVE Line(i) + s56 + s8 <= Line(k)
    <3>1. Line(i) + (s56 + s8) <= Line(k)
      BY <2>1, <2>3, StepsApart
    <3> HIDE DEF Line
    <3> QED BY <2>2, <3>1
  <2> QED BY <2>2, <2>3
<1>16. /\ \A g \in 1..6 : l.groups[g] = R(s24, Stack(g), s232, s40)
       /\ \A i \in 1..n : l.rows[i] = R(from, Line(i), wide, s56)
  BY <1>11
<1>17. /\ Stack(1) = top + s28 + s4 /\ Line(1) = top + s40 + s8
       /\ \A g \in Int : Stack(g) = Stack(g - 1) + s40 + s4
       /\ \A i \in Int : Line(i) = Line(i - 1) + s56 + s8
       /\ Stack(6) + s40 = top + s28 + 6 * s4 + 6 * s40
  <2>1. ASSUME NEW g \in Int, NEW d \in Int PROVE (g - 1) * d = ((g - 1) - 1) * d + d /\ (1 - 1) * d = 0 /\ (6 - 1) * d = 5 * d
    OBVIOUS
  <2>2. \A g \in Int : (g - 1) * (s40 + s4) = ((g - 1) - 1) * (s40 + s4) + (s40 + s4)
                        /\ ((g - 1) - 1) * (s40 + s4) \in Int
    BY <2>1
  <2>3. \A i \in Int : (i - 1) * (s56 + s8) = ((i - 1) - 1) * (s56 + s8) + (s56 + s8)
                        /\ ((i - 1) - 1) * (s56 + s8) \in Int
    BY <2>1
  <2>4. \A g \in Int : Stack(g) = Stack(g - 1) + s40 + s4
    BY <1>9, <2>2
  <2>5. \A i \in Int : Line(i) = Line(i - 1) + s56 + s8
    BY <1>9, <2>3
  <2>6. Stack(1) = top + s28 + s4 /\ Line(1) = top + s40 + s8 /\ Stack(6) + s40 = top + s28 + 6 * s4 + 6 * s40
    BY <1>9
  <2> QED BY <2>4, <2>5, <2>6
<1> HIDE DEF Stack, Line, Group, Row, across, bar, down
<1>18. l.dpi = dpi /\ Resources!Scaled(dpi, 12) = s12 /\ Resources!Scaled(dpi, 300) = s300
       /\ Resources!Scaled(win.dpi, 924) = s924 /\ Resources!Scaled(win.dpi, 581) = s581
  BY <1>1, <1>4, <1>6, <1>7, <1>11 DEF S
<1> HIDE DEF top, from, wide
\* The groups.
<1>19. ASSUME NEW g \in 1..6
       PROVE  Resources!PaintedGroup(l, g) = [left |-> s24 + s12, top |-> Stack(g), right |-> s24 + s232 - s12, bottom |-> Stack(g) + s40]
  <2>1. l.groups[g] = [left |-> s24, top |-> Stack(g), right |-> s24 + s232, bottom |-> Stack(g) + s40]
    BY <1>16
  <2> PICK group : group = l.groups[g]
    OBVIOUS
  <2>2. Resources!PaintedGroup(l, g) = [group EXCEPT !.left = @ + s12, !.right = @ - s12]
    BY <1>18 DEF Resources!PaintedGroup
  <2>3. group = [left |-> s24, top |-> Stack(g), right |-> s24 + s232, bottom |-> Stack(g) + s40]
    BY <2>1
  <2> PICK y \in Int : y = Stack(g)
    BY <1>14
  <2> PICK moved : moved = [group EXCEPT !.left = @ + s12]
    OBVIOUS
  <2>4. moved = [left |-> s24 + s12, top |-> y, right |-> s24 + s232, bottom |-> y + s40]
    BY <2>3
  <2>5. Resources!PaintedGroup(l, g) = [moved EXCEPT !.right = group.right - s12]
    BY <2>2
  <2>6. group.right = s24 + s232
    BY <2>3
  <2> QED BY <2>4, <2>5, <2>6
<1>20. ASSUME NEW g \in 1..6 PROVE Resources!HitTestNav(l, Resources!Middle(Resources!PaintedGroup(l, g))) = g
  <2> PICK m : m = Resources!Middle(Resources!PaintedGroup(l, g))
    OBVIOUS
  <2>1. m.x \in Int /\ m.y \in Int /\ s24 <= m.x /\ m.x < s24 + s232 /\ Stack(g) <= m.y /\ m.y < Stack(g) + s40
    <3> PICK y \in Int : y = Stack(g)
      BY <1>14
    <3>1. m = [x |-> (s24 + s12 + (s24 + s232 - s12)) \div 2, y |-> (y + (y + s40)) \div 2]
      BY <1>19 DEF Resources!Middle
    <3> QED BY <1>8, <3>1
  <2> DEFINE hit == {k \in DOMAIN l.groups : Resources!Contains(l.groups[k], m)}
  <2>2. ASSUME NEW k \in 1..6 PROVE Resources!Contains(l.groups[k], m) <=> k = g
    <3>1. l.groups[k] = [left |-> s24, top |-> Stack(k), right |-> s24 + s232, bottom |-> Stack(k) + s40]
      BY <1>16
    <3>2. Stack(k) \in Int /\ (k < g => Stack(k) + s40 + s4 <= Stack(g)) /\ (g < k => Stack(g) + s40 + s4 <= Stack(k))
      BY <1>14
    <3>3. Resources!Contains(l.groups[k], m) <=> Stack(k) <= m.y /\ m.y < Stack(k) + s40
      BY <2>1, <3>1 DEF Resources!Contains
    <3> QED BY <1>14, <2>1, <3>2, <3>3
  <2>3. hit = {g}
    BY <1>12, <2>2
  <2>4. Resources!HitTestNav(l, m) = IF hit = {} THEN 0 ELSE CHOOSE i \in hit : \A j \in hit : i <= j
    BY DEF Resources!HitTestNav, Resources!FirstHit, Resources!Nothing
  <2> HIDE DEF hit
  <2> QED BY <2>3, <2>4
\* The rows.
<1>21. ASSUME wide >= s300, NEW i \in 1..n
       PROVE  LET open == Resources!Middle(Resources!PaintedButton(l, i))
              IN /\ Resources!HitTestNav(l, open) = 0 /\ Resources!HitTestRow(l, open) = i
                 /\ Resources!PointInActionButton(dpi, open, l.rows[i])
                 /\ ~Resources!PointInActionButton(dpi, Resources!Middle(l.rows[i]), l.rows[i])
  <2> PICK y \in Int : y = Line(i)
    BY <1>15
  <2> PICK row : row = l.rows[i]
    OBVIOUS
  <2>1. row = [left |-> from, top |-> y, right |-> from + wide, bottom |-> y + s56]
    BY <1>16
  <2> PICK high \in Nat : high = (s56 - s36) \div 2
    BY <1>8
  <2>2. 2 * high <= s56 - s36
    BY <1>8
  <2>3. Resources!Div(s56 - s36, 2) = high
    BY <1>8 DEF Resources!Div
  <2>4. Resources!Height(row) = s56
    BY <2>1 DEF Resources!Height
  <2>5. ASSUME NEW margin, S(margin) \in Nat
        PROVE  Resources!Button(dpi, row, margin) =
                   [left |-> from + wide - S(margin) - s120, top |-> y + high,
                    right |-> from + wide - S(margin) - s120 + s120, bottom |-> y + high + s36]
    <3>1. Resources!Button(dpi, row, margin) =
              Resources!Box(row.right - S(margin) - S(120), row.top + Resources!Div(Resources!Height(row) - S(36), 2), S(120), S(36))
      BY DEF Resources!Button, S
    <3>2. row.right = from + wide /\ row.top = y /\ Resources!Div(Resources!Height(row) - S(36), 2) = high
      BY <1>6, <2>1, <2>3, <2>4
    <3> PICK d \in Nat : d = S(margin)
      BY <2>5
    <3>3. Resources!Button(dpi, row, margin) = Resources!Box(from + wide - d - s120, y + high, s120, s36)
      BY <1>6, <1>9, <3>1, <3>2
    <3> QED BY <3>3 DEF Resources!Box, Resources!Rect
  <2> PICK open : open = Resources!Middle(Resources!PaintedButton(l, i))
    OBVIOUS
  <2>6. open = Resources!Middle([left |-> from + wide - s12 - s120, top |-> y + high,
                                 right |-> from + wide - s12 - s120 + s120, bottom |-> y + high + s36])
    BY <1>4, <1>18, <2>5 DEF Resources!PaintedButton
  <2>7. /\ open.x \in Int /\ open.y \in Int /\ from <= open.x /\ open.x < from + wide - s16
        /\ from + wide - s16 - s120 <= open.x /\ y + high <= open.y /\ open.y < y + high + s36
    BY <1>8, <1>9, <1>21, <2>6 DEF Resources!Middle
  <2> PICK mid : mid = Resources!Middle(row)
    OBVIOUS
  <2>8. mid.x \in Int /\ mid.x < from + wide - s16 - s120
    BY <1>8, <1>9, <1>21, <2>1 DEF Resources!Middle
  <2>9. Resources!Button(dpi, row, 16) = [left |-> from + wide - s16 - s120, top |-> y + high,
                                          right |-> from + wide - s16 - s120 + s120, bottom |-> y + high + s36]
    BY <1>5, <2>5
  <2>10. Resources!PointInActionButton(dpi, open, row)
    BY <1>9, <2>9, <2>7 DEF Resources!PointInActionButton, Resources!Contains
  <2>11. ~Resources!PointInActionButton(dpi, mid, row)
    BY <1>9, <2>9, <2>8 DEF Resources!PointInActionButton, Resources!Contains
  <2>12. Resources!HitTestNav(l, open) = 0
    <3> DEFINE hit == {k \in DOMAIN l.groups : Resources!Contains(l.groups[k], open)}
    <3>1. from >= s24 + s232
      BY <1>9 DEF from
    <3>2. ASSUME NEW k \in 1..6 PROVE ~Resources!Contains(l.groups[k], open)
      <4>1. l.groups[k].right = s24 + s232
        BY <1>16
      <4> QED BY <1>9, <2>7, <3>1, <4>1 DEF Resources!Contains
    <3>3. hit = {}
      BY <1>12, <3>2
    <3>4. Resources!HitTestNav(l, open) = IF hit = {} THEN 0 ELSE CHOOSE k \in hit : \A j \in hit : k <= j
      BY DEF Resources!HitTestNav, Resources!FirstHit, Resources!Nothing
    <3> HIDE DEF hit
    <3> QED BY <3>3, <3>4
  <2>13. Resources!HitTestRow(l, open) = i
    <3> DEFINE hit == {k \in DOMAIN l.rows : Resources!Contains(l.rows[k], open)}
    <3>1. ASSUME NEW k \in 1..n PROVE Resources!Contains(l.rows[k], open) <=> k = i
      <4>1. l.rows[k] = [left |-> from, top |-> Line(k), right |-> from + wide, bottom |-> Line(k) + s56]
        BY <1>16
      <4>2. Line(k) \in Int /\ (k < i => Line(k) + s56 + s8 <= y) /\ (i < k => y + s56 + s8 <= Line(k))
        BY <1>15
      <4>3. y <= open.y /\ open.y < y + s56
        BY <2>2, <2>7
      <4> QED BY <1>9, <2>7, <4>1, <4>2, <4>3 DEF Resources!Contains
    <3>2. hit = {i}
      BY <1>12, <3>1
    <3>3. Resources!HitTestRow(l, open) = IF hit = {} THEN 0 ELSE CHOOSE k \in hit : \A j \in hit : k <= j
      BY DEF Resources!HitTestRow, Resources!FirstHit, Resources!Nothing
    <3> HIDE DEF hit
    <3> QED BY <3>2, <3>3
  <2> QED BY <2>10, <2>11, <2>12, <2>13
<1>22. Resources!TargetsAreHit
  <2>1. Resources!Width(l.list) = wide
    BY <1>9, <1>11 DEF Resources!Width
  <2> HIDE DEF R
  <2> QED BY <1>13, <1>18, <1>20, <1>21, <2>1 DEF Resources!TargetsAreHit, Resources!Groups, Resources!Nothing

\* The columns, and what is in one of them.
<1>23. ASSUME w >= s924, h >= s581
       PROVE  /\ across = w - 2 * s24 /\ down = h - s23 - s24 - top
              /\ wide = across - s232 - s12 /\ wide >= 4 * s12 + s8 + s36 + s120
              /\ top + s28 + 6 * s4 + 6 * s40 <= top + down
  <2>1. top = s24 + s36 + s18 + s12 + s8 + s40 + s12
    BY DEF top, bar
  <2>2. down = h - s23 - s24 - top /\ top + s28 + 6 * s4 + 6 * s40 <= top + down
    <3>1. h - s23 - s24 - top >= s28 + 6 * s4 + 6 * s40
      BY <1>8, <1>23, <2>1
    <3>2. h - s23 - s24 - top >= 0
      BY <1>9, <3>1
    <3>3. down = h - s23 - s24 - top
      BY <3>2 DEF down
    <3> QED BY <1>9, <3>1, <3>3
  <2>3. across = w - 2 * s24
    BY <1>8, <1>23 DEF across
  <2>4. wide = across - s232 - s12 /\ wide >= 4 * s12 + s8 + s36 + s120
    BY <1>8, <1>23, <2>3 DEF wide
  <2> QED BY <2>2, <2>3, <2>4
<1>24. ASSUME w >= s924, h >= s581, NEW r \in {l.header, l.toolbar, l.rail, l.list},
              NEW s \in {l.header, l.toolbar, l.rail, l.list}, r # s
       PROVE  Resources!Apart(r, s)
  <2>1. /\ l.header.bottom <= l.toolbar.top /\ l.toolbar.bottom <= l.rail.top /\ l.toolbar.bottom <= l.list.top
        /\ l.header.bottom <= l.rail.top /\ l.header.bottom <= l.list.top /\ l.rail.right <= l.list.left
    <3>1. s24 + (s36 + s18 + s12) <= bar /\ bar + s40 <= top /\ s24 + (s36 + s18 + s12) <= top /\ s24 + s232 <= from
      BY DEF bar, top, from
    <3> QED BY <1>11, <3>1
  <2> QED BY <1>24, <2>1 DEF Resources!Apart
<1>25. ASSUME w >= s924, h >= s581 PROVE l.groups[6].bottom <= l.rail.bottom
  <2>1. l.groups[6] = R(s24, Stack(6), s232, s40)
    BY <1>16
  <2>2. Stack(6) + s40 <= top + down
    BY <1>17, <1>23, <1>25
  <2> QED BY <1>11, <2>1, <2>2
<1>26. \A g \in 1..6 : l.groups[g].top >= IF g = 1 THEN l.railHeader.bottom ELSE l.groups[g - 1].bottom
  <2> SUFFICES ASSUME NEW g \in 1..6
               PROVE  l.groups[g].top >= IF g = 1 THEN l.railHeader.bottom ELSE l.groups[g - 1].bottom
    OBVIOUS
  <2>1. CASE g = 1
    BY <1>9, <1>11, <1>16, <1>17, <2>1
  <2>2. CASE g # 1
    <3>1. g - 1 \in 1..6 /\ g - 1 < g
      BY <2>2
    <3> HIDE DEF R
    <3>2. R(s24, Stack(g), s232, s40).top = Stack(g) /\ R(s24, Stack(g - 1), s232, s40).bottom = Stack(g - 1) + s40
      BY DEF R
    <3>3. Stack(g - 1) + s40 + s4 <= Stack(g) /\ Stack(g - 1) \in Int /\ Stack(g) \in Int
      BY <1>14, <3>1
    <3>4. Stack(g) >= Stack(g - 1) + s40
      BY <3>3
    <3> QED BY <1>16, <2>2, <3>1, <3>2, <3>4
  <2> QED BY <2>1, <2>2
<1>27. \A i \in 1..n : l.rows[i].top >= IF i = 1 THEN l.listHeader.bottom ELSE l.rows[i - 1].bottom
  <2> SUFFICES ASSUME NEW i \in 1..n
               PROVE  l.rows[i].top >= IF i = 1 THEN l.listHeader.bottom ELSE l.rows[i - 1].bottom
    OBVIOUS
  <2>1. CASE i = 1
    <3>1. l.rows[1] = R(from, Line(1), wide, s56) /\ l.listHeader.bottom = top + s40
      BY <1>11, <1>16, <2>1
    <3>2. Line(1) >= top + s40
      BY <1>9, <1>17
    <3> QED BY <2>1, <3>1, <3>2
  <2>2. CASE i # 1
    <3>1. i - 1 \in 1..n /\ i - 1 < i
      BY <2>2
    <3> HIDE DEF R
    <3>2. R(from, Line(i), wide, s56).top = Line(i) /\ R(from, Line(i - 1), wide, s56).bottom = Line(i - 1) + s56
      BY DEF R
    <3>3. Line(i - 1) + s56 + s8 <= Line(i) /\ Line(i - 1) \in Int /\ Line(i) \in Int
      BY <1>15, <3>1
    <3>4. Line(i) >= Line(i - 1) + s56
      BY <3>3
    <3> QED BY <1>16, <2>2, <3>1, <3>2, <3>4
  <2> QED BY <2>1, <2>2
<1>28. ASSUME NEW g \in 1..6, NEW r \in Resources!GroupParts(l, g), NEW s \in Resources!GroupParts(l, g), r # s
       PROVE  Resources!Apart(r, s)
  <2> PICK y \in Int : y = Stack(g)
    BY <1>14
  <2> PICK group : group = Resources!PaintedGroup(l, g)
    OBVIOUS
  <2>1. /\ group.left = s24 + s12 /\ group.right = s24 + s232 - s12 /\ group.top = y /\ group.bottom = y + s40
        /\ l.groups[g].left = s24
    <3>1. l.groups[g].left = s24
      BY <1>16
    <3> HIDE DEF R
    <3> QED BY <1>19, <3>1
  <2> PICK half \in Nat, thin \in Nat : half = s12 \div 2 /\ thin = s3 \div 2
    OBVIOUS
  <2>2. /\ Resources!Div(S(12), 2) = half /\ Resources!Div(S(3), 2) = thin /\ half + thin <= s12
    BY <1>4, <1>8 DEF Resources!Div
  <2> DEFINE box == Resources!Box(group.left + S(12), group.top + Resources!Div(Resources!Height(group) - S(18), 2), S(18), S(18))
             mark == Resources!Rect(l.groups[g].left + Resources!Div(S(12), 2) - Resources!Div(S(3), 2), group.top + S(8),
                                    l.groups[g].left + Resources!Div(S(12), 2) + Resources!Div(S(3), 2), group.bottom - S(8))
             name == Resources!Rect(box.right + S(12), group.top, group.right - S(40), group.bottom)
             count == Resources!Rect(group.right - S(36), group.top, group.right - S(8), group.bottom)
  <2>3. Resources!GroupParts(l, g) = {mark, box, name, count}
    BY <1>18 DEF Resources!GroupParts, S
  <2>4. box.left = s24 + s12 + s12 /\ box.right = s24 + s12 + s12 + s18
    BY <1>4, <1>5, <2>1 DEF Resources!Box, Resources!Rect
  <2> HIDE DEF box
  <2>5. mark.right = s24 + half + thin
    BY <1>4, <2>1, <2>2 DEF Resources!Rect
  <2>6. /\ name.left = s24 + s12 + s12 + s18 + s12 /\ name.right = s24 + s232 - s12 - s40
        /\ count.left = s24 + s232 - s12 - s36
    BY <1>4, <1>6, <2>1, <2>4 DEF Resources!Rect
  <2> HIDE DEF mark, name, count
  <2>7. /\ mark.right <= box.left /\ mark.right <= name.left /\ mark.right <= count.left
        /\ box.right <= name.left /\ box.right <= count.left /\ name.right <= count.left
    BY <1>8, <2>2, <2>4, <2>5, <2>6
  <2> QED BY <1>28, <2>3, <2>7 DEF Resources!Apart
<1>29. ASSUME wide >= 4 * s12 + s8 + s36 + s120, NEW i \in 1..n,
              NEW r \in Resources!RowParts(l, i), NEW s \in Resources!RowParts(l, i), r # s
       PROVE  Resources!Apart(r, s)
  <2> PICK y \in Int : y = Line(i)
    BY <1>15
  <2> PICK row : row = l.rows[i]
    OBVIOUS
  <2>1. row.left = from /\ row.right = from + wide /\ row.top = y /\ row.bottom = y + s56
    <3>1. row = [left |-> from, top |-> Line(i), right |-> from + wide, bottom |-> Line(i) + s56]
      BY <1>16
    <3>2. row = [left |-> from, top |-> y, right |-> from + wide, bottom |-> y + s56]
      BY <3>1
    <3> QED BY <3>2
  <2> DEFINE top1 == row.top + Resources!Div(Resources!Height(row) - S(18) - S(14), 2)
             right1 == row.right - S(120) - 2 * S(12) - S(20)
             dot == Resources!Rect(row.left + S(12), row.top + Resources!Div(Resources!Height(row) - S(8), 2),
                                   row.left + S(12) + S(8), row.top + Resources!Div(Resources!Height(row) + S(8), 2))
             thumb == Resources!Box(dot.right + S(12), row.top + Resources!Div(Resources!Height(row) - S(36), 2), S(36), S(36))
             name == Resources!Rect(thumb.right + S(12), top1, right1, top1 + S(18))
             kind == Resources!Rect(thumb.right + S(12), top1 + S(18), right1, row.bottom - S(2))
             open == Resources!PaintedButton(l, i)
  <2>2. Resources!RowParts(l, i) = {dot, thumb, name, kind, open}
    BY <1>18 DEF Resources!RowParts, S
  <2>3. dot.left = from + s12 /\ dot.right = from + s12 + s8
    BY <1>4, <2>1 DEF Resources!Rect
  <2> HIDE DEF dot
  <2>4. thumb.left = from + s12 + s8 + s12 /\ thumb.right = from + s12 + s8 + s12 + s36
    BY <1>4, <1>6, <2>3 DEF Resources!Rect, Resources!Box
  <2> HIDE DEF thumb
  <2>5. right1 = from + wide - s120 - 2 * s12 - s20
    BY <1>4, <1>5, <1>6, <1>9, <2>1
  <2>6. Resources!Div(Resources!Height(row) - S(18) - S(14), 2) \in Int /\ top1 \in Int
    <3>1. Resources!Height(row) - S(18) - S(14) \in Int
      BY <1>4, <1>5, <2>1 DEF Resources!Height
    <3> QED BY <2>1, <3>1 DEF Resources!Div
  <2> HIDE DEF top1, right1
  <2>7. /\ name.left = from + s12 + s8 + s12 + s36 + s12 /\ name.right = right1 /\ name.bottom = top1 + s18
        /\ kind.left = from + s12 + s8 + s12 + s36 + s12 /\ kind.right = right1 /\ kind.top = top1 + s18
    BY <1>4, <1>5, <2>4, <2>6 DEF Resources!Rect
  <2>8. open.left = from + wide - s12 - s120
    <3>1. open.left = row.right - S(12) - S(120)
      BY <1>18 DEF Resources!PaintedButton, Resources!Button, Resources!Box, Resources!Rect, S
    <3> QED BY <1>4, <1>6, <1>9, <2>1, <3>1
  <2> HIDE DEF name, kind, open
  <2>9. /\ dot.right <= thumb.left /\ dot.right <= name.left /\ dot.right <= kind.left /\ dot.right <= open.left
        /\ thumb.right <= name.left /\ thumb.right <= kind.left /\ thumb.right <= open.left
        /\ name.right <= open.left /\ kind.right <= open.left /\ name.bottom <= kind.top
    BY <1>9, <1>29, <2>3, <2>4, <2>5, <2>6, <2>7, <2>8
  <2> QED BY <1>29, <2>2, <2>9 DEF Resources!Apart
<1>30. Resources!LaidOut
  <2>1. ASSUME w >= s924, h >= s581 PROVE wide >= 4 * s12 + s8 + s36 + s120
    BY <1>23, <2>1
  <2>2. win.size.w = w /\ win.size.h = h /\ l.dpi = win.dpi /\ l.size = win.size /\ win.laid = l
    BY <1>1, <1>11
  <2> HIDE DEF R
  <2> SUFFICES ASSUME w >= s924, h >= s581
               PROVE  /\ \A r, s \in {l.header, l.toolbar, l.rail, l.list} : r # s => Resources!Apart(r, s)
                      /\ \A i \in DOMAIN l.groups : l.groups[i].top >= IF i = 1 THEN l.railHeader.bottom ELSE l.groups[i - 1].bottom
                      /\ l.groups[6].bottom <= l.rail.bottom
                      /\ \A i \in DOMAIN l.rows : l.rows[i].top >= IF i = 1 THEN l.listHeader.bottom ELSE l.rows[i - 1].bottom
                      /\ \A g \in 1..6 : \A r, s \in Resources!GroupParts(l, g) : r # s => Resources!Apart(r, s)
                      /\ \A i \in Resources!PaintedRows(win) : \A r, s \in Resources!RowParts(l, i) : r # s => Resources!Apart(r, s)
    BY <1>18, <2>2 DEF Resources!LaidOut, Resources!Groups
  <2>3. \A r, s \in {l.header, l.toolbar, l.rail, l.list} : r # s => Resources!Apart(r, s)
    BY <1>24
  <2>4. \A i \in Resources!PaintedRows(win) : \A r, s \in Resources!RowParts(l, i) : r # s => Resources!Apart(r, s)
    BY <1>13, <1>29, <2>1
  <2>5. \A g \in 1..6 : \A r, s \in Resources!GroupParts(l, g) : r # s => Resources!Apart(r, s)
    BY <1>28
  <2> QED BY <1>12, <1>25, <1>26, <1>27, <2>3, <2>4, <2>5
<1> QED BY <1>22, <1>30

-----------------------------------------------------------------------------
(* The points of a chart, in a window and with labels of any size *)

\* Quotients are no further from each other than what is divided.
LEMMA QuotientsClose ==
  ASSUME NEW m \in Int, NEW n \in Int, NEW d \in Nat \ {0}, NEW k \in Nat, m <= n, n <= m + d * k
  PROVE  m \div d <= n \div d /\ n \div d <= (m \div d) + k
<1> PICK p : p = m \div d
  OBVIOUS
<1> PICK q : q = n \div d
  OBVIOUS
<1>1. p \in Int /\ d * p <= m /\ m < d * p + d /\ d * p \in Int
  BY Quotient
<1>2. q \in Int /\ d * q <= n /\ n < d * q + d /\ d * q \in Int
  BY Quotient
<1>3. CASE q < p
  <2>1. d * (q + 1) <= d * p
    BY <1>1, <1>2, <1>3, Product
  <2>2. d * (q + 1) = d * q + d
    BY <1>2
  <2> QED BY <1>1, <1>2, <2>1, <2>2
<1>4. CASE q > p + k
  <2>1. d * (p + k + 1) <= d * q
    BY <1>1, <1>2, <1>4, Product
  <2>2. d * (p + k + 1) = d * p + d * k + d /\ d * k \in Int
    BY <1>1
  <2> QED BY <1>1, <1>2, <2>1, <2>2
<1> QED BY <1>1, <1>2, <1>3, <1>4

\* Where the axis is upside down or a point, everything is at its start.
IsRange(range) == range[1] \in Int /\ range[2] \in Int
IsOn(v, range) == v \in Int /\ (range[1] < range[2] => range[1] <= v /\ v <= range[2])

\* The same value on two spans is as far apart at most as they differ.
LEMMA SpansClose ==
  ASSUME NEW range, IsRange(range), NEW v, IsOn(v, range), NEW a \in Nat, NEW b \in Nat, b <= a
  PROVE  /\ Chart!OnSpan(v, range, a) \in Int /\ Chart!OnSpan(v, range, b) \in Int
         /\ Chart!OnSpan(v, range, b) <= Chart!OnSpan(v, range, a)
         /\ Chart!OnSpan(v, range, a) <= Chart!OnSpan(v, range, b) + (a - b)
<1>1. CASE range[2] <= range[1]
  BY <1>1 DEF Chart!OnSpan
<1>2. CASE range[1] < range[2]
  <2> PICK r \in Nat \ {0} : r = range[2] - range[1]
    BY <1>2 DEF IsRange
  <2> PICK t \in Nat : t = v - range[1] /\ t <= r
    BY <1>2 DEF IsRange, IsOn
  <2>1. ASSUME NEW s \in Nat
        PROVE  2 * t * s + r \in Nat /\ Chart!OnSpan(v, range, s) = (2 * t * s + r) \div (2 * r)
    <3>1. 2 * t * s + r \in Nat
      <4>1. t * s \in Nat /\ 2 * t * s = 2 * (t * s)
        OBVIOUS
      <4> QED BY <4>1
    <3>2. Chart!OnSpan(v, range, s) = Chart!Div(2 * t * s + r, 2 * r)
      BY <1>2 DEF Chart!OnSpan, IsRange
    <3> PICK n \in Nat : n = 2 * t * s + r
      BY <3>1
    <3> QED BY <3>2 DEF Chart!Div
  <2>2. PICK m \in Nat : m = 2 * t * b + r
    BY <2>1
  <2>3. PICK n \in Nat : n = 2 * t * a + r
    BY <2>1
  <2>4. PICK k \in Nat : k = a - b
    OBVIOUS
  <2>5. PICK d \in Nat \ {0} : d = 2 * r
    OBVIOUS
  <2>6. n = m + 2 * (t * k)
    BY <2>2, <2>3, <2>4
  <2>7. 0 <= t * k /\ t * k <= r * k /\ t * k \in Int /\ r * k \in Int
    <3>1. k * t <= k * r /\ k * 0 <= k * t
      BY Product
    <3>2. k * t = t * k /\ k * r = r * k /\ k * 0 = 0
      OBVIOUS
    <3> QED BY <3>1, <3>2
  <2>8. m <= n /\ n <= m + d * k
    <3>1. d * k = 2 * (r * k)
      BY <2>5
    <3> QED BY <2>6, <2>7, <3>1
  <2>9. m \div d <= n \div d /\ n \div d <= (m \div d) + k
    BY <2>8, QuotientsClose
  <2>10. m \div d \in Int /\ n \div d \in Int
    BY Quotient
  <2>11. Chart!OnSpan(v, range, a) = n \div d /\ Chart!OnSpan(v, range, b) = m \div d
    BY <2>1, <2>2, <2>3, <2>5
  <2> QED BY <2>4, <2>9, <2>10, <2>11
<1> QED BY <1>1, <1>2 DEF IsRange

\* A set of numbers that is not empty has a least one.
LEMMA LeastIn ==
  ASSUME NEW T, T \subseteq Nat, T # {}
  PROVE  \E d \in T : \A e \in T : d <= e
<1> DEFINE R == OpToRel(<, Nat)
<1>1. IsWellFoundedOn(R, Nat)
  BY NatLessThanWellFounded
<1>2. T \in SUBSET Nat
  OBVIOUS
<1> HIDE DEF R
<1>3. PICK d \in T : \A e \in T : ~(<<e, d>> \in R)
  BY <1>1, <1>2, WFMin
<1>4. ASSUME NEW e \in T PROVE d <= e
  <2>1. ~(e < d)
    BY <1>3 DEF R, OpToRel
  <2> QED BY <2>1
<1> QED BY <1>4

ChartPoint == [x : Int, y : Int]

ChartTyped ==
    /\ {"kind", "size", "tick", "series", "x", "y"} \subseteq DOMAIN win
    /\ win.size \in WindowSizes.chart /\ win.tick \in Ticks /\ <<win.x, win.y>> \in Axes
    /\ win.series \in Seq([visible : BOOLEAN, points : Seq(ChartPoint)])

\* A chart shows all of its series at first, and whenever they are replaced.
LEMMA AllShownTyped ==
  ASSUME NEW data \in ChartData
  PROVE  Chart!AllShown(data) \in Seq([visible : BOOLEAN, points : Seq(ChartPoint)])
<1>1. data \in Seq(Seq(ChartPoint))
  BY SizesAssumption DEF ChartPoint
<1> PICK n \in Nat : DOMAIN data = 1..n /\ data \in [1..n -> Seq(ChartPoint)]
  BY <1>1
<1> DEFINE T == [visible : BOOLEAN, points : Seq(ChartPoint)]
<1>2. Chart!AllShown(data) \in [1..n -> T]
  BY DEF Chart!AllShown
<1> HIDE DEF T
<1>3. Chart!AllShown(data) \in Seq(T)
  BY <1>2
<1> QED BY <1>3 DEF T

\* A chart that a host makes has integer data in a window with an area.
LEMMA ChartTypedInit == Chart!Init => ChartTyped
<1> SUFFICES ASSUME NEW kind, NEW stacked, NEW tension, NEW size \in WindowSizes.chart, NEW tick \in Ticks,
                    NEW data \in ChartData, NEW axes \in Axes,
                    win = [kind |-> kind, stacked |-> stacked, size |-> size, tick |-> tick,
                           series |-> Chart!AllShown(data), x |-> axes[1], y |-> axes[2], tension |-> tension]
             PROVE  ChartTyped
  BY DEF Chart!Init
<1>1. axes = <<axes[1], axes[2]>>
  BY SizesAssumption
<1>2. Chart!AllShown(data) \in Seq([visible : BOOLEAN, points : Seq(ChartPoint)])
  BY AllShownTyped
<1> PICK series : series = Chart!AllShown(data)
  OBVIOUS
<1> QED BY <1>1, <1>2 DEF ChartTyped

\* It keeps them when it is resized or given other axes or series, and when
\* series are shown or hidden.
LEMMA ChartTypedStep == ChartTyped /\ Chart!Next => ChartTyped'
<1> SUFFICES ASSUME ChartTyped, Chart!Next PROVE ChartTyped'
  OBVIOUS
<1> DEFINE T == [visible : BOOLEAN, points : Seq(ChartPoint)]
<1>1. CASE Chart!SetSeries
  <2>1. PICK data \in ChartData : win' = [win EXCEPT !.series = Chart!AllShown(data)]
    BY <1>1 DEF Chart!SetSeries
  <2> PICK series \in Seq(T) : series = Chart!AllShown(data)
    BY AllShownTyped
  <2> QED BY <2>1 DEF ChartTyped
<1>2. CASE Chart!SetSeriesVisible
  <2>1. PICK s \in DOMAIN win.series, visible \in BOOLEAN :
            win' = [win EXCEPT !.series = [win.series EXCEPT ![s] = [visible |-> visible, points |-> Chart!PointsOf(win, s)]]]
    BY <1>2 DEF Chart!SetSeriesVisible
  <2> PICK was \in Seq(T) : was = win.series
    BY DEF ChartTyped
  <2> PICK one : one = [visible |-> visible, points |-> Chart!PointsOf(win, s)]
    OBVIOUS
  <2>2. one \in T
    <3>1. was[s] \in T
      <4>1. s \in 1..Len(was)
        OBVIOUS
      <4> HIDE DEF T
      <4> QED BY <4>1, ElementOfSeq
    <3>2. one = [visible |-> visible, points |-> was[s].points]
      BY DEF Chart!PointsOf
    <3> QED BY <3>1, <3>2
  <2> HIDE DEF T
  <2> PICK now : now = [was EXCEPT ![s] = one]
    OBVIOUS
  <2>3. now \in Seq(T)
    BY <2>2
  <2>4. win' = [win EXCEPT !.series = now]
    BY <2>1
  <2> QED BY <2>3, <2>4 DEF ChartTyped, T
<1>3. CASE Chart!SetAxes
  <2>1. PICK axes \in Axes, tick \in Ticks : win' = [win EXCEPT !.x = axes[1], !.y = axes[2], !.tick = tick]
    BY <1>3 DEF Chart!SetAxes
  <2>2. axes = <<axes[1], axes[2]>>
    BY SizesAssumption
  <2> QED BY <2>1, <2>2 DEF ChartTyped
<1>4. CASE Chart!Resize
  BY <1>4 DEF Chart!Resize, ChartTyped
<1> QED BY <1>1, <1>2, <1>3, <1>4 DEF Chart!Next

\* What the renderer goes by and what the mouse goes by begin at most eight
\* pixels apart and end together on the right; they begin together at the
\* top and end at most six pixels apart.
LEMMA PlotsClose ==
  ASSUME ChartTyped, Chart!IsPainted(win), win.tick.w <= 40, win.tick.h <= 28
  PROVE  \E a, b, high, low \in Nat, left \in Int, bottom \in Int :
             /\ b <= a /\ a <= b + 8 /\ low <= high /\ high <= low + 6
             /\ Chart!Plot(win).left = left /\ Chart!Plot(win).bottom = bottom
             /\ Chart!Width(Chart!Plot(win)) = a /\ Chart!Height(Chart!Plot(win)) = high
             /\ Chart!CurrentLayout(win).bottom = bottom - (high - low) /\ Chart!Height(Chart!CurrentLayout(win)) = low
             /\ left + (a - b) <= Chart!CurrentLayout(win).left /\ Chart!CurrentLayout(win).left <= left + 8
             /\ Chart!Width(Chart!CurrentLayout(win)) = b /\ Chart!CurrentLayout(win).left \in Int
<1>1. PICK w, h, x, y \in Nat : w = win.size.w /\ h = win.size.h /\ x = win.tick.w /\ y = win.tick.h
  BY SizesAssumption DEF ChartTyped
<1>8. PICK legend \in Nat : legend = IF Len(win.series) > 1 THEN Chart!LegendWidth ELSE 0
  BY DEF Chart!LegendWidth
<1>9. PICK right \in Nat : right = IF Len(win.series) <= 1 /\ win.kind # "hbar" THEN Chart!kAxisGutter ELSE 0
  BY DEF Chart!kAxisGutter
<1> DEFINE Gutter(tick) == IF 40 >= tick + 8 THEN 40 ELSE tick + 8
           Foot(tick) == IF 28 >= tick + 6 THEN 28 ELSE tick + 6
           Across(tick) == IF 0 >= w - (legend + Gutter(tick) + right) THEN 0 ELSE w - (legend + Gutter(tick) + right)
           Down(tick) == IF 0 >= h - (24 + Foot(tick) + 2 * 16) THEN 0 ELSE h - (24 + Foot(tick) + 2 * 16)
<1>2. ASSUME NEW tick, tick.w \in Nat, tick.h \in Nat
      PROVE  Chart!ComputeChartLayout(win, tick)
                 = [left |-> Gutter(tick.w), top |-> 40, right |-> Gutter(tick.w) + Across(tick.w), bottom |-> 40 + Down(tick.h)]
  BY <1>1, <1>2, <1>8, <1>9 DEF Chart!ComputeChartLayout, Chart!Larger, Chart!Box, Chart!Rect, Chart!kAxisGutter, Chart!kBottomGutter,
                    Chart!kTopGutter, Chart!kAxisTitleHeight
<1>3. Chart!Plot(win) = [left |-> Gutter(x), top |-> 40, right |-> Gutter(x) + Across(x), bottom |-> 40 + Down(y)]
  BY <1>1, <1>2 DEF Chart!Plot
<1>4. Chart!CurrentLayout(win) = [left |-> Gutter(40), top |-> 40, right |-> Gutter(40) + Across(40), bottom |-> 40 + Down(28)]
  <2> PICK tick : tick = [w |-> 40, h |-> 28]
    OBVIOUS
  <2>1. Chart!CurrentLayout(win) = Chart!ComputeChartLayout(win, tick)
    BY DEF Chart!CurrentLayout, Chart!kAxisGutter, Chart!kBottomGutter
  <2>2. tick.w = 40 /\ tick.h = 28
    OBVIOUS
  <2> HIDE DEF Gutter, Across, Down
  <2> QED BY <1>2, <2>1, <2>2
<1> PICK plot : plot = Chart!Plot(win)
  OBVIOUS
<1> PICK other : other = Chart!CurrentLayout(win)
  OBVIOUS
<1>5. /\ Gutter(x) \in Nat /\ Gutter(40) = 48 /\ 40 <= Gutter(x) /\ Gutter(x) <= 48
      /\ Across(x) \in Nat /\ Across(40) \in Nat /\ Down(y) \in Nat /\ Down(28) \in Nat
      /\ Across(40) <= Across(x) /\ Down(28) <= Down(y) /\ Down(y) <= Down(28) + 6
      /\ Across(x) <= Across(40) + (48 - Gutter(x))
  <2>1. 40 <= Gutter(x) /\ Gutter(x) <= 48 /\ Gutter(x) \in Nat /\ Gutter(40) = 48
    BY <1>1
  <2>2. 28 <= Foot(y) /\ Foot(y) <= 34 /\ Foot(y) \in Nat /\ Foot(28) = 34
    BY <1>1
  <2>3. /\ Across(x) \in Nat /\ Across(40) \in Nat /\ Across(40) <= Across(x)
        /\ Across(x) <= Across(40) + (48 - Gutter(x))
    <3> PICK g \in Nat, k \in Nat : g = Gutter(x) /\ g <= 48 /\ k = legend + right
      BY <2>1
    <3> HIDE DEF Gutter
    <3> QED BY <2>1
  <2>4. Down(y) \in Nat /\ Down(28) \in Nat /\ Down(28) <= Down(y) /\ Down(y) <= Down(28) + 6
    <3> HIDE DEF Foot
    <3> QED BY <2>2
  <2> QED BY <2>1, <2>3, <2>4
<1> HIDE DEF Gutter, Across, Down
<1>6. /\ Chart!Width(plot) = Across(x) /\ Chart!Height(plot) = Down(y)
      /\ Chart!Width(other) = Across(40) /\ Chart!Height(other) = Down(28)
  <2>1. plot.right - plot.left = Across(x) /\ plot.bottom - plot.top = Down(y)
    <3> PICK a, b, c \in Nat : a = Gutter(x) /\ b = Across(x) /\ c = Down(y)
      BY <1>5
    <3>1. plot = [left |-> a, top |-> 40, right |-> a + b, bottom |-> 40 + c]
      BY <1>3
    <3> QED BY <3>1
  <2>2. other.right - other.left = Across(40) /\ other.bottom - other.top = Down(28)
    <3> PICK a, b, c \in Nat : a = Gutter(40) /\ b = Across(40) /\ c = Down(28)
      BY <1>5
    <3>1. other = [left |-> a, top |-> 40, right |-> a + b, bottom |-> 40 + c]
      BY <1>4
    <3> QED BY <3>1
  <2> QED BY <2>1, <2>2 DEF Chart!Width, Chart!Height
<1>7. plot.left = Gutter(x) /\ plot.bottom = 40 + Down(y) /\ other.left = 48 /\ other.bottom = 40 + Down(28)
  <2>1. plot.left = Gutter(x) /\ plot.bottom = 40 + Down(y)
    BY <1>3
  <2>2. other.left = Gutter(40) /\ other.bottom = 40 + Down(28)
    BY <1>4
  <2>3. Gutter(40) = 48
    BY <1>5
  <2> QED BY <2>1, <2>2, <2>3
<1>10. /\ Across(40) <= Across(x) /\ Across(x) <= Across(40) + 8 /\ Down(28) <= Down(y) /\ Down(y) <= Down(28) + 6
       /\ plot.left = Gutter(x) /\ plot.bottom = 40 + Down(y)
       /\ Chart!Width(plot) = Across(x) /\ Chart!Height(plot) = Down(y)
       /\ other.bottom = 40 + Down(y) - (Down(y) - Down(28)) /\ Chart!Height(other) = Down(28)
       /\ Gutter(x) + (Across(x) - Across(40)) <= other.left /\ other.left <= Gutter(x) + 8
       /\ Chart!Width(other) = Across(40) /\ other.left \in Int
  BY <1>5, <1>6, <1>7
<1>11. /\ Across(x) \in Nat /\ Across(40) \in Nat /\ Down(y) \in Nat /\ Down(28) \in Nat
       /\ Gutter(x) \in Int /\ 40 + Down(y) \in Int
  BY <1>5
<1> USE <1>11
<1> WITNESS Across(x) \in Nat, Across(40) \in Nat, Down(y) \in Nat, Down(28) \in Nat,
            Gutter(x) \in Int, 40 + Down(y) \in Int
<1> QED BY <1>10

\* The marker is aside by what the two plots differ in, and if that is near enough
\* the nearest point is among those near enough.
LEMMA MarkersFound == ChartTyped => Chart!TargetsAreHit
<1> SUFFICES ASSUME ChartTyped, Chart!IsPainted(win), win.tick.w <= 40, win.tick.h <= 28,
                    NEW s \in Chart!Drawn(win), NEW p \in Chart!Range(Chart!PointsOf(win, s)), Chart!InRange(p, win)
             PROVE  LET d == Chart!Aside(win, p)
                    IN /\ d.x \in -8..8 /\ d.y \in -6..6
                       /\ Tolerance >= 10 \/ d.x * d.x + d.y * d.y <= Tolerance * Tolerance =>
                              Chart!HitTestPoint(win, Chart!NormalizePoint(win, p)) # {}
  BY DEF Chart!TargetsAreHit, Chart!Markers, Chart!kAxisGutter, Chart!kBottomGutter
<1>20. PICK series : series = win.series /\ series \in Seq([visible : BOOLEAN, points : Seq(ChartPoint)])
  BY DEF ChartTyped
<1>1. s \in Chart!Shown(win) /\ s \in DOMAIN series
  BY <1>20 DEF Chart!Drawn, Chart!Shown
<1>2. PICK i \in DOMAIN Chart!PointsOf(win, s) : Chart!PointsOf(win, s)[i] = p
  BY DEF Chart!Range
<1>3. \A t \in DOMAIN series : \A k \in DOMAIN Chart!PointsOf(win, t) : Chart!PointsOf(win, t)[k] \in ChartPoint
  <2> SUFFICES ASSUME NEW t \in DOMAIN series, NEW k \in DOMAIN Chart!PointsOf(win, t)
               PROVE  Chart!PointsOf(win, t)[k] \in ChartPoint
    OBVIOUS
  <2> DEFINE T == [visible : BOOLEAN, points : Seq(ChartPoint)]
  <2>1. series[t] \in T
    <3>1. t \in 1..Len(series) /\ series \in Seq(T)
      BY <1>20
    <3> HIDE DEF T
    <3> QED BY <3>1, ElementOfSeq
  <2> PICK points \in Seq(ChartPoint) : points = Chart!PointsOf(win, t)
    BY <1>20, <2>1 DEF Chart!PointsOf
  <2> QED OBVIOUS
<1>4. p \in ChartPoint
  BY <1>1, <1>2, <1>3
<1> PICK rx, ry : rx = win.x /\ ry = win.y
  OBVIOUS
<1>5. IsRange(rx) /\ IsRange(ry)
  BY SizesAssumption DEF ChartTyped, IsRange
<1>6. /\ IsOn(p.x, rx) /\ IsOn(p.y, ry)
      /\ p.x = Chart!Clamped(p.x, win.x) /\ p.y = Chart!Clamped(p.y, win.y)
  BY <1>4, <1>5 DEF Chart!InRange, Chart!Clamped, Chart!Larger, Chart!Smaller, IsOn, IsRange, ChartPoint
<1>7. PICK a, b, high, low \in Nat, left \in Int, bottom \in Int :
             /\ b <= a /\ a <= b + 8 /\ low <= high /\ high <= low + 6
             /\ Chart!Plot(win).left = left /\ Chart!Plot(win).bottom = bottom
             /\ Chart!Width(Chart!Plot(win)) = a /\ Chart!Height(Chart!Plot(win)) = high
             /\ Chart!CurrentLayout(win).bottom = bottom - (high - low) /\ Chart!Height(Chart!CurrentLayout(win)) = low
             /\ left + (a - b) <= Chart!CurrentLayout(win).left /\ Chart!CurrentLayout(win).left <= left + 8
             /\ Chart!Width(Chart!CurrentLayout(win)) = b /\ Chart!CurrentLayout(win).left \in Int
  BY PlotsClose
<1> PICK r : r = Chart!CurrentLayout(win)
  OBVIOUS
<1> DEFINE Pixel(t, k) == Chart!PixelIn(r, win, Chart!PointsOf(win, t)[k])
           Square(d) == d * d
           c == Chart!NormalizePoint(win, p)
<1>8. PICK from \in Int : from = r.left /\ left + (a - b) <= from /\ from <= left + 8
  BY <1>7
<1>9. PICK ax, bx \in Int : ax = Chart!OnSpan(p.x, rx, a) /\ bx = Chart!OnSpan(p.x, rx, b) /\ bx <= ax /\ ax <= bx + (a - b)
  BY <1>5, <1>6, <1>7, SpansClose
<1>10. PICK ay, by \in Int : ay = Chart!OnSpan(p.y, ry, high) /\ by = Chart!OnSpan(p.y, ry, low) /\ by <= ay /\ ay <= by + (high - low)
  BY <1>5, <1>6, <1>7, SpansClose
<1>11. c.x = left + ax /\ c.y = bottom - ay
  BY <1>6, <1>7, <1>9, <1>10 DEF Chart!NormalizePoint, Chart!PixelIn
<1>12. Pixel(s, i).x = from + bx /\ Pixel(s, i).y = bottom - (high - low) - by
  BY <1>2, <1>7, <1>8, <1>9, <1>10 DEF Chart!PixelIn
<1>13. PICK dx \in 0..8, dy \in 0..6 : c.x = Pixel(s, i).x - dx /\ c.y = Pixel(s, i).y + dy
  <2> HIDE DEF c, Pixel
  <2>1. PICK d \in 0..8 : left + ax = from + bx - d
    <3>1. from + bx - (left + ax) \in 0..8
      <4>1. ax - bx <= a - b /\ 0 <= ax - bx
        BY <1>7, <1>9
      <4>2. a - b <= from - left /\ from - left <= 8 /\ from \in Int
        BY <1>7, <1>8
      <4> QED BY <4>1, <4>2
    <3> QED BY <3>1
  <2>2. PICK e \in 0..6 : bottom - ay = bottom - (high - low) - by + e
    <3>1. (high - low) + by - ay \in 0..6
      <4>1. 0 <= ay - by /\ ay - by <= high - low
        BY <1>7, <1>10
      <4>2. 0 <= high - low /\ high - low <= 6
        BY <1>7
      <4> QED BY <4>1, <4>2
    <3> QED BY <3>1
  <2>3. c.x = Pixel(s, i).x - d /\ c.y = Pixel(s, i).y + e
    BY <1>11, <1>12, <2>1, <2>2
  <2> QED BY <2>3
<1>21. c.x - Pixel(s, i).x = -dx /\ c.y - Pixel(s, i).y = dy
  <2> PICK x, y : x = Pixel(s, i).x /\ y = Pixel(s, i).y
    OBVIOUS
  <2>1. x \in Int /\ y \in Int
    BY <1>8, <1>9, <1>10, <1>12
  <2> HIDE DEF c, Pixel
  <2> QED BY <1>13, <2>1
<1>22. Chart!Aside(win, p).x = -dx /\ Chart!Aside(win, p).y = dy
  <2>1. /\ Chart!Aside(win, p).x = c.x - Pixel(s, i).x
        /\ Chart!Aside(win, p).y = c.y - Pixel(s, i).y
    BY <1>2 DEF Chart!Aside
  <2> HIDE DEF c, Pixel
  <2> QED BY <1>21, <2>1
<1>23. -dx \in -8..8 /\ dy \in -6..6
  OBVIOUS
<1>24. SUFFICES ASSUME Tolerance >= 10 \/ (-dx) * (-dx) + dy * dy <= Tolerance * Tolerance
                PROVE  Chart!HitTestPoint(win, c) # {}
  <2> PICK d : d = Chart!Aside(win, p)
    OBVIOUS
  <2>1. d.x = -dx /\ d.y = dy
    BY <1>22
  <2> HIDE DEF Pixel
  <2> QED BY <1>23, <2>1
<1>14. Square(c.x - Pixel(s, i).x) + Square(c.y - Pixel(s, i).y) <= Tolerance * Tolerance
  <2>0. CASE (-dx) * (-dx) + dy * dy <= Tolerance * Tolerance
    <3> HIDE DEF Pixel, c
    <3>1. /\ Square(c.x - Pixel(s, i).x) = (-dx) * (-dx)
          /\ Square(c.y - Pixel(s, i).y) = dy * dy
      BY <1>21
    <3> HIDE DEF Square
    <3> QED BY <2>0, <3>1
  <2> SUFFICES ASSUME Tolerance >= 10
               PROVE  Square(c.x - Pixel(s, i).x) + Square(c.y - Pixel(s, i).y) <= Tolerance * Tolerance
    BY <1>24, <2>0
  <2>1. ASSUME NEW d \in 0..8 PROVE (-d) * (-d) \in 0..64
    BY <2>1
  <2>2. ASSUME NEW d \in 0..6 PROVE d * d \in 0..36
    BY <2>2
  <2>3. PICK far \in Int : far = Tolerance * Tolerance /\ 100 <= far
    <3>0. Tolerance \in Nat /\ Tolerance >= 10
      BY SizesAssumption
    <3>1. 10 * 10 <= 10 * Tolerance /\ Tolerance * 10 <= Tolerance * Tolerance
      BY <3>0, Product
    <3>2. PICK far : far = Tolerance * Tolerance
      OBVIOUS
    <3>3. far \in Int
      BY <3>0, <3>2
    <3>4. Tolerance * 10 <= far
      BY <3>1, <3>2
    <3>5. 100 <= far
      BY <3>0, <3>3, <3>4
    <3> QED BY <3>2, <3>3, <3>5
  <2>5. PICK xx \in 0..64, yy \in 0..36 : xx = (-dx) * (-dx) /\ yy = dy * dy
    BY <2>1, <2>2
  <2> HIDE DEF Pixel, c
  <2>6. Square(c.x - Pixel(s, i).x) = xx /\ Square(c.y - Pixel(s, i).y) = yy
    BY <1>21, <2>5
  <2>7. xx + yy <= far
    BY <2>3
  <2> QED BY <2>3, <2>6, <2>7
<1>0. c.x \in Int /\ c.y \in Int
  BY <1>9, <1>10, <1>11
<1> DEFINE Far(h) == LET q == Chart!PixelIn(Chart!CurrentLayout(win), win, Chart!PointsOf(win, h[1])[h[2]])
                     IN (c.x - q.x) * (c.x - q.x) + (c.y - q.y) * (c.y - q.y)
           all == UNION {{t} \X (DOMAIN Chart!PointsOf(win, t)) : t \in Chart!Shown(win)}
           near == {h \in all : Far(h) <= Tolerance * Tolerance}
<1>15. Chart!HitTestPoint(win, c) = {h \in near : \A k \in near : Far(h) <= Far(k)}
  BY DEF Chart!HitTestPoint
<1>16. <<s, i>> \in near
  <2>1. <<s, i>> \in all
    BY <1>1, <1>2
  <2>2. Far(<<s, i>>) <= Tolerance * Tolerance
    BY <1>14
  <2> HIDE DEF Far, all
  <2> QED BY <2>1, <2>2
<1>17. ASSUME NEW h \in all PROVE Far(h) \in Nat
  <2>1. PICK t \in Chart!Shown(win) : \E k \in DOMAIN Chart!PointsOf(win, t) : h = <<t, k>>
    OBVIOUS
  <2> PICK k \in DOMAIN Chart!PointsOf(win, t) : h = <<t, k>>
    BY <2>1
  <2>2. t \in DOMAIN series
    BY <1>20 DEF Chart!Shown
  <2> PICK point : point = Chart!PointsOf(win, t)[k]
    OBVIOUS
  <2>3. point \in ChartPoint
    BY <1>3, <2>2
  <2> PICK q : q = Chart!PixelIn(r, win, point)
    OBVIOUS
  <2>4. ASSUME NEW v \in Int, NEW range, IsRange(range), NEW span \in Nat PROVE Chart!OnSpan(v, range, span) \in Int
    <3>1. CASE range[2] <= range[1]
      BY <3>1 DEF Chart!OnSpan
    <3>2. CASE range[1] < range[2]
      <4> PICK d \in Nat \ {0} : d = range[2] - range[1]
        BY <2>4, <3>2 DEF IsRange
      <4>0. PICK n \in Int : n = 2 * (v - range[1]) * span + d
        BY <2>4 DEF IsRange
      <4>1. n \div (2 * d) \in Int /\ (-n) \div (2 * d) \in Int
        <5> PICK e, m : e = 2 * d /\ m = -n
          OBVIOUS
        <5>1. e \in Nat \ {0} /\ m \in Int
          OBVIOUS
        <5>2. n \div e \in Int /\ m \div e \in Int
          BY <5>1, Quotient
        <5> QED BY <5>2
      <4>2. Chart!OnSpan(v, range, span) = Chart!Div(n, 2 * d)
        BY <2>4, <3>2, <4>0 DEF Chart!OnSpan, IsRange
      <4> QED BY <4>1, <4>2 DEF Chart!Div
    <3> QED BY <2>4, <3>1, <3>2 DEF IsRange
  <2>5. q.x \in Int /\ q.y \in Int
    <3>1. /\ Chart!OnSpan(point.x, rx, b) \in Int /\ Chart!OnSpan(point.y, ry, low) \in Int
      BY <1>5, <2>3, <2>4 DEF ChartPoint
    <3> QED BY <1>7, <1>8, <3>1 DEF Chart!PixelIn
  <2>6. Far(h) = (c.x - q.x) * (c.x - q.x) + (c.y - q.y) * (c.y - q.y)
    OBVIOUS
  <2>7. ASSUME NEW d \in Int PROVE d * d \in Nat
    OBVIOUS
  <2>8. c.x - q.x \in Int /\ c.y - q.y \in Int
    BY <1>0, <2>5
  <2>9. (c.x - q.x) * (c.x - q.x) \in Nat /\ (c.y - q.y) * (c.y - q.y) \in Nat
    BY <2>7, <2>8
  <2> QED BY <2>6, <2>9
<1>18. \E h \in near : \A k \in near : Far(h) <= Far(k)
  <2> DEFINE T == {Far(h) : h \in near}
  <2> HIDE DEF Far, all
  <2>1. T \subseteq Nat /\ T # {}
    BY <1>16, <1>17
  <2>2. \E d \in T : \A e \in T : d <= e
    <3> HIDE DEF T
    <3> QED BY <2>1, LeastIn
  <2> QED BY <2>2
<1> HIDE DEF Far, all, near, c
<1> QED BY <1>15, <1>18 DEF c

-----------------------------------------------------------------------------
(* Every window *)

\* The windows whose geometry is proved are laid out for their size.
GeometryInv ==
    /\ program = "settings form" => FormTyped
    /\ program = "scroll bar" => ThumbTyped
    /\ program = "slider" => RailTyped
    /\ program = "layout" => IsLaid
    /\ program = "panels" => PanelsLaid
    /\ program = "workbench" => WorkbenchLaid
    /\ program = "dark studio" => StudioLaid
    /\ program = "dialog tour" => TourLaid
    /\ program = "resource gallery" => ResourceLaid
    /\ program = "chart" => ChartTyped

\* Each of their handlers keeps them so.
LEMMA GeometryInvariance == ProgramSpec => []GeometryInv
<1>1. ProgramInit => GeometryInv
  <2> SUFFICES ASSUME ProgramInit PROVE GeometryInv
    OBVIOUS
  <2>1. program = "settings form" => FormTyped
    <3>1. program = "settings form" => Form!Init
      BY DEF ProgramInit
    <3> QED BY <3>1, FormTypedInit
  <2>2. program = "scroll bar" => ThumbTyped
    <3>1. program = "scroll bar" => Thumb!Init
      BY DEF ProgramInit
    <3> QED BY <3>1, ThumbTypedInit
  <2>3. program = "slider" => RailTyped
    <3>1. program = "slider" => Rail!Init
      BY DEF ProgramInit
    <3> QED BY <3>1, RailTypedInit
  <2>4. program = "layout" => IsLaid
    <3>1. program = "layout" => Layouts!Init
      BY DEF ProgramInit
    <3> QED BY <3>1, LaidAtFirst
  <2>5. program = "panels" => PanelsLaid
    <3>1. program = "panels" => Panels!Init
      BY DEF ProgramInit
    <3> QED BY <3>1, PanelsLaidInit
  <2>6. program = "workbench" => WorkbenchLaid
    <3>1. program = "workbench" => Workbench!Init
      BY DEF ProgramInit
    <3> QED BY <3>1, WorkbenchLaidInit
  <2>7. program = "dark studio" => StudioLaid
    <3>1. program = "dark studio" => Studio!Init
      BY DEF ProgramInit
    <3> QED BY <3>1, StudioLaidInit
  <2>8. program = "dialog tour" => TourLaid
    <3>1. program = "dialog tour" => Tour!Init
      BY DEF ProgramInit
    <3> QED BY <3>1, TourLaidInit
  <2>9. program = "resource gallery" => ResourceLaid
    <3>1. program = "resource gallery" => Resources!Init
      BY DEF ProgramInit
    <3> QED BY <3>1, ResourceLaidInit
  <2>10. program = "chart" => ChartTyped
    <3>1. program = "chart" => Chart!Init
      BY DEF ProgramInit
    <3> QED BY <3>1, ChartTypedInit
  <2> QED BY <2>1, <2>2, <2>3, <2>4, <2>5, <2>6, <2>7, <2>8, <2>9, <2>10 DEF GeometryInv
<1>2. GeometryInv /\ [ProgramNext]_<<program, board, brokerVars, win>> => GeometryInv'
  <2> SUFFICES ASSUME GeometryInv, [ProgramNext]_<<program, board, brokerVars, win>>
               PROVE  GeometryInv'
    OBVIOUS
  <2>0. program' = program
    BY DEF ProgramNext
  <2>1. ASSUME program = "settings form" PROVE FormTyped'
    <3>1. FormTyped
      BY <2>1 DEF GeometryInv
    <3>2. Form!Next \/ UNCHANGED win
      BY <2>1 DEF ProgramNext
    <3>3. CASE UNCHANGED win
      BY <3>1, <3>3 DEF FormTyped
    <3> QED BY <3>1, <3>2, <3>3, FormTypedStep
  <2>2. ASSUME program = "scroll bar" PROVE ThumbTyped'
    <3>1. ThumbTyped
      BY <2>2 DEF GeometryInv
    <3>2. Thumb!Next \/ UNCHANGED win
      BY <2>2 DEF ProgramNext
    <3>3. CASE UNCHANGED win
      BY <3>1, <3>3 DEF ThumbTyped
    <3> QED BY <3>1, <3>2, <3>3, ThumbTypedStep
  <2>3. ASSUME program = "slider" PROVE RailTyped'
    <3>1. RailTyped
      BY <2>3 DEF GeometryInv
    <3>2. Rail!Next \/ UNCHANGED win
      BY <2>3 DEF ProgramNext
    <3>3. CASE UNCHANGED win
      BY <3>1, <3>3 DEF RailTyped
    <3> QED BY <3>1, <3>2, <3>3, RailTypedStep
  <2>4. ASSUME program = "layout" PROVE IsLaid'
    <3>1. IsLaid
      BY <2>4 DEF GeometryInv
    <3>2. Layouts!Next \/ UNCHANGED win
      BY <2>4 DEF ProgramNext
    <3>3. CASE UNCHANGED win
      BY <3>1, <3>3 DEF IsLaid
    <3> QED BY <3>1, <3>2, <3>3, LaidAgain
  <2>5. ASSUME program = "panels" PROVE PanelsLaid'
    <3>1. PanelsLaid
      BY <2>5 DEF GeometryInv
    <3>2. Panels!Next \/ UNCHANGED win
      BY <2>5 DEF ProgramNext
    <3>3. CASE UNCHANGED win
      BY <3>1, <3>3 DEF PanelsLaid
    <3> QED BY <3>1, <3>2, <3>3, PanelsLaidStep
  <2>6. ASSUME program = "workbench" PROVE WorkbenchLaid'
    <3>1. WorkbenchLaid
      BY <2>6 DEF GeometryInv
    <3>2. Workbench!Next \/ UNCHANGED win
      BY <2>6 DEF ProgramNext
    <3>3. CASE UNCHANGED win
      BY <3>1, <3>3 DEF WorkbenchLaid
    <3> QED BY <3>1, <3>2, <3>3, WorkbenchLaidStep
  <2>7. ASSUME program = "dark studio" PROVE StudioLaid'
    <3>1. StudioLaid
      BY <2>7 DEF GeometryInv
    <3>2. Studio!Next \/ UNCHANGED win
      BY <2>7 DEF ProgramNext
    <3>3. CASE UNCHANGED win
      BY <3>1, <3>3 DEF StudioLaid
    <3> QED BY <3>1, <3>2, <3>3, StudioLaidStep
  <2>8. ASSUME program = "dialog tour" PROVE TourLaid'
    <3>1. TourLaid
      BY <2>8 DEF GeometryInv
    <3>2. Tour!Next \/ UNCHANGED win
      BY <2>8 DEF ProgramNext
    <3>3. CASE UNCHANGED win
      BY <3>1, <3>3 DEF TourLaid, TourWindow
    <3> QED BY <3>1, <3>2, <3>3, TourLaidStep
  <2>9. ASSUME program = "resource gallery" PROVE ResourceLaid'
    <3>1. ResourceLaid
      BY <2>9 DEF GeometryInv
    <3>2. Resources!Next \/ UNCHANGED win
      BY <2>9 DEF ProgramNext
    <3>3. CASE UNCHANGED win
      BY <3>1, <3>3 DEF ResourceLaid, ResourcePlaced
    <3> QED BY <3>1, <3>2, <3>3, ResourceLaidStep
  <2>10. ASSUME program = "chart" PROVE ChartTyped'
    <3>1. ChartTyped
      BY <2>10 DEF GeometryInv
    <3>2. Chart!Next \/ UNCHANGED win
      BY <2>10 DEF ProgramNext
    <3>3. CASE UNCHANGED win
      BY <3>1, <3>3 DEF ChartTyped
    <3> QED BY <3>1, <3>2, <3>3, ChartTypedStep
  <2> QED BY <2>0, <2>1, <2>2, <2>3, <2>4, <2>5, <2>6, <2>7, <2>8, <2>9, <2>10 DEF GeometryInv
<1> QED BY <1>1, <1>2, PTL DEF ProgramSpec

\* Where a button, a tool, a segment, a row or a vertical thumb is painted, the
\* click and the pointer find it, however large its window is and at whatever
\* resolution (the hit tests of the samples and of DarkScrollBar).  A marker of a
\* chart whose labels fit is at most 8 and 6 pixels from where HitTest.cpp looks for
\* it, and is found if that is no farther than the tolerance, whatever it is.
THEOREM TargetsAlwaysHit == ProgramSpec => []TargetsAreHit
<1>1. GeometryInv => TargetsAreHit
  BY SegmentsFound, ThumbFound, ButtonsFound, ToolsFound, StudioFound, TourMeasured, ResourceMeasured,
     MarkersFound
     DEF GeometryInv, TargetsAreHit
<1> QED BY <1>1, GeometryInvariance, PTL

\* The part of LaidOut that holds in a window of any size, of every program
\* but the theme demo, the component gallery, the playground and the charts.
ControlsLaidOut ==
    /\ program = "panels" => Panels!LaidOut
    /\ program = "workbench" => Workbench!LaidOut
    /\ program = "settings form" => Form!LaidOut
    /\ program = "dark studio" => Studio!LaidOut
    /\ program = "resource gallery" => Resources!LaidOut
    /\ program = "dialog tour" => Tour!LaidOut
    /\ program = "layout" => Layouts!LaidOut
    /\ program = "scroll bar" => Thumb!LaidOut
    /\ program = "slider" => Rail!LaidOut

\* A thumb or a disc stays on its track at every position of every range, and
\* what a layout places tiles the window, however small that is; nothing that
\* a window of these samples lays out covers anything else of it (Slider.cpp,
\* DarkScrollBar.cpp, Layout.cpp, and the layouts of the samples).
THEOREM ControlsLaidOutAtAnySize == ProgramSpec => []ControlsLaidOut
<1>1. GeometryInv => ControlsLaidOut
  BY ThumbFound, RailMeasured, LaidIsLaidOut, PanelsMeasured, WorkbenchMeasured, FormMeasured,
     StudioMeasured, ResourceMeasured, TourMeasured
     DEF GeometryInv, ControlsLaidOut
<1> QED BY <1>1, GeometryInvariance, PTL
=============================================================================
