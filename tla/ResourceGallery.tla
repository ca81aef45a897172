--------------------------- MODULE ResourceGallery --------------------------
(***************************************************************************)
(* The resource gallery (samples/NativeFrameUIResourceGallery): a rail of  *)
(* six groups and the list of the assets of one of them, all painted and   *)
(* hit by the window itself, over a status bar and under a menu.           *)
(***************************************************************************)
EXTENDS Pixels, Sequences

CONSTANTS
    Sizes, Scales,
    Chosen,    \* The groups that the user goes to.
    PointedAt  \* The rows of the list that the user points at.

Groups == 1..6
Count == <<12, 6, 8, 24, 4, 3>>
Modes == {"light", "dark", "high_contrast"}
Nothing == 0

VARIABLE win
(***************************************************************************)
(* size, dpi, fonts: the client area, its scale and that of the fonts.     *)
(* laid: where everything was laid out last.                               *)
(* group, row: selected_group_ and selected_row_; hoverGroup, hoverRow,    *)
(*   tracking: what is pointed at; Nothing for the -1 of the code.         *)
(* refused (a history): the last request for the leave message failed.     *)
(* broker, mode, palette, menu, bar: the theme of the process, of the      *)
(*   window, of its painting, of its menu and of its status bar.           *)
(* asked: the surfaces the last handler asked to repaint.                  *)
(***************************************************************************)
Quiet(w) == [w EXCEPT !.asked = {}]
Asking(w, surfaces) == [w EXCEPT !.asked = @ \cup surfaces]

-----------------------------------------------------------------------------
(* Where everything is.                                                    *)

Width(r) == r.right - r.left
Height(r) == r.bottom - r.top
MakeRect(x, y, width, height) == Box(x, y, Larger(width, 0), Larger(height, 0))

ComputeLayoutRects(dpi, rail, list, count) ==
    LET S(v) == Scaled(dpi, v)
        railHeader == MakeRect(rail.left, rail.top, Width(rail), S(28))
        listHeader == MakeRect(list.left, list.top, Width(list), S(40))
    IN [railHeader |-> railHeader, listHeader |-> listHeader,
        groups |-> [g \in Groups |-> MakeRect(rail.left, railHeader.bottom + S(4) + (g - 1) * (S(40) + S(4)),
                                              Width(rail), S(40))],
        rows |-> [i \in 1..count |-> MakeRect(list.left, listHeader.bottom + S(8) + (i - 1) * (S(56) + S(8)),
                                              Width(list), S(56))]]

\* A header, a toolbar and, under them, the rail and the list.
LayoutControls(size, dpi, count) ==
    LET S(v) == Scaled(dpi, v)
        header == MakeRect(S(24), S(24), size.w - 2 * S(24), S(36) + S(18) + S(12))
        toolbar == MakeRect(S(24), header.bottom + S(8), size.w - 2 * S(24), S(40))
        top == toolbar.bottom + S(12)
        body == MakeRect(S(24), top, size.w - 2 * S(24), size.h - S(23) - S(24) - top)
        rail == MakeRect(body.left, top, S(232), Height(body))
        list == MakeRect(rail.right + S(12), top, Width(body) - S(232) - S(12), Height(body))
        parts == ComputeLayoutRects(dpi, rail, list, count)
    IN [size |-> size, dpi |-> dpi, header |-> header, toolbar |-> toolbar, rail |-> rail, list |-> list,
        railHeader |-> parts.railHeader, listHeader |-> parts.listHeader, groups |-> parts.groups, rows |-> parts.rows]

Layout(w) == Asking([w EXCEPT !.laid = LayoutControls(w.size, w.dpi, Count[w.group])], {"main"})

\* The button of a row, this far from its right edge.
Button(dpi, row, margin) ==
    LET S(v) == Scaled(dpi, v)
    IN Box(row.right - S(margin) - S(120), row.top + Div(Height(row) - S(36), 2), S(120), S(36))

PointInActionButton(dpi, p, row) == Contains(Button(dpi, row, 16), p)

\* The first of these rectangles that has the point; they do not overlap.
FirstHit(rects, p) == LET hit == {i \in DOMAIN rects : Contains(rects[i], p)}
                      IN IF hit = {} THEN Nothing ELSE CHOOSE i \in hit : \A j \in hit : i <= j

HitTestNav(l, p) == FirstHit(l.groups, p)
HitTestRow(l, p) == FirstHit(l.rows, p)

-----------------------------------------------------------------------------
(* What paint_gallery puts there.                                          *)

PaintedGroup(l, g) == LET gap == Scaled(l.dpi, 12)
                      IN [l.groups[g] EXCEPT !.left = @ + gap, !.right = @ - gap]

\* The mark of the selected group, and the glyph, the label and the count of any.
GroupParts(l, g) ==
    LET S(v) == Scaled(l.dpi, v)
        r == PaintedGroup(l, g)
        icon == Box(r.left + S(12), r.top + Div(Height(r) - S(18), 2), S(18), S(18))
    IN {Rect(l.groups[g].left + Div(S(12), 2) - Div(S(3), 2), r.top + S(8),
             l.groups[g].left + Div(S(12), 2) + Div(S(3), 2), r.bottom - S(8)),
        icon, Rect(icon.right + S(12), r.top, r.right - S(40), r.bottom),
        Rect(r.right - S(36), r.top, r.right - S(8), r.bottom)}

\* The rows of another group may be laid out: see SelectGroup.
PaintedRows(w) == 1..Smaller(Count[w.group], Len(w.laid.rows))

PaintedButton(l, i) == Button(l.dpi, l.rows[i], 12)

\* The dot, the thumbnail, the name, the type and the state of an asset.
RowParts(l, i) ==
    LET S(v) == Scaled(l.dpi, v)
        r == l.rows[i]
        dot == Rect(r.left + S(12), r.top + Div(Height(r) - S(8), 2),
                    r.left + S(12) + S(8), r.top + Div(Height(r) + S(8), 2))
        thumb == Box(dot.right + S(12), r.top + Div(Height(r) - S(36), 2), S(36), S(36))
        left == thumb.right + S(12)
        right == r.right - S(120) - 2 * S(12) - S(20)
        top == r.top + Div(Height(r) - S(18) - S(14), 2)
    IN {dot, thumb, Rect(left, top, right, top + S(18)),
        Rect(left, top + S(18), right, r.bottom - S(2)), PaintedButton(l, i)}

-----------------------------------------------------------------------------
(* The assets.                                                             *)

\* The table is always the same: load_gallery_assets and layout_controls.
Reload(w) == Asking(Layout(w), {"main"})

\* The rectangles of the rows stay those of the group that was left.
SelectGroup(w, g) ==
    IF g = w.group THEN w
    ELSE Asking([w EXCEPT !.group = g, !.hoverRow = Nothing], {"main", "status"})

-----------------------------------------------------------------------------
(* Themes.                                                                 *)

ApplyFonts(w) == Asking([w EXCEPT !.fonts = w.dpi], {"status"})

ApplyTheme(w, mode) ==
    IF w.mode = mode THEN w
    ELSE Asking(Layout(ApplyFonts([w EXCEPT !.mode = mode, !.palette = mode, !.menu = mode, !.bar = mode])),
                {"main", "menu", "status"})

\* Every registered window gets the message, and then its handler is called.
BrokerSet(w, mode) ==
    IF w.broker = mode THEN w
    ELSE LET told == [w EXCEPT !.broker = mode] IN ApplyTheme(ApplyTheme(told, mode), mode)

-----------------------------------------------------------------------------
(* The window.                                                             *)

ParseTheme == Modes

\* set_initial_theme and create_main.
CreateMain(size, dpi, mode) ==
    Quiet(Layout([size |-> size, dpi |-> dpi, fonts |-> dpi, laid |-> <<>>, group |-> 1, row |-> Nothing,
                  hoverGroup |-> Nothing, hoverRow |-> Nothing, tracking |-> FALSE, refused |-> FALSE,
                  broker |-> mode,
                  mode |-> mode, palette |-> mode, menu |-> mode, bar |-> mode, asked |-> {}]))

Init == \E size \in Sizes, dpi \in Scales, mode \in ParseTheme : win = CreateMain(size, dpi, mode)

Resize == \E size \in Sizes : win' = Asking(Layout([Quiet(win) EXCEPT !.size = size]), {"main"})

DpiChanged ==
    \E dpi \in Scales \ {win.dpi}, size \in Sizes :
        win' = Asking(Layout(ApplyFonts(Layout([Quiet(win) EXCEPT !.dpi = dpi, !.size = size]))), {"main"})

ThemeChanged == win' = ApplyTheme(Quiet(win), win.broker)

\* Groups, rows, buttons, and the corner of the window.
Aimed(l) == {Middle(PaintedGroup(l, g)) : g \in Chosen}
            \cup UNION {{Middle(l.rows[i]), Middle(PaintedButton(l, i))} : i \in PointedAt \cap DOMAIN l.rows}
            \cup {[x |-> 0, y |-> 0]}

\* The leave message is asked for unless it is due; the request may fail, and
\* then the next movement repeats it.
Tracked(w, granted) ==
    IF w.tracking THEN w ELSE [w EXCEPT !.tracking = granted, !.refused = ~granted]

TrackHover(w, p, granted) ==
    LET g == HitTestNav(w.laid, p)
        i == IF g = Nothing THEN HitTestRow(w.laid, p) ELSE Nothing
        tracked == Tracked(w, granted)
    IN IF g = w.hoverGroup /\ i = w.hoverRow THEN tracked
       ELSE Asking([tracked EXCEPT !.hoverGroup = g, !.hoverRow = i], {"main"})

MouseMove ==
    \E p \in Aimed(win.laid), granted \in {g \in BOOLEAN : win.tracking => g} :
        win' = TrackHover(Quiet(win), p, granted)

\* Only a window that asked for it gets it.
MouseLeave ==
    /\ win.tracking
    /\ LET w == [Quiet(win) EXCEPT !.tracking = FALSE]
       IN win' = IF w.hoverRow = Nothing /\ w.hoverGroup = Nothing THEN w
                 ELSE Asking([w EXCEPT !.hoverRow = Nothing, !.hoverGroup = Nothing], {"main"})

HandleClick(w, p) ==
    LET g == HitTestNav(w.laid, p)
        i == HitTestRow(w.laid, p)
    IN IF g # Nothing THEN SelectGroup(w, g)
       ELSE IF i = Nothing THEN w
       ELSE IF PointInActionButton(w.laid.dpi, p, w.laid.rows[i]) THEN Reload(w)
       ELSE Asking([w EXCEPT !.row = i], {"main"})

LButtonUp == \E p \in Aimed(win.laid) : win' = HandleClick(Quiet(win), p)

Command == \/ win' = Reload(Quiet(win))
           \/ \E mode \in Modes : win' = BrokerSet(Quiet(win), mode)
           \/ \E g \in Chosen : win' = SelectGroup(Quiet(win), g)

Next == Resize \/ DpiChanged \/ ThemeChanged \/ MouseMove \/ MouseLeave \/ LButtonUp \/ Command

Spec == Init /\ [][Next]_win

-----------------------------------------------------------------------------
(* Properties.                                                             *)

\* What paint_gallery and the status bar show.
PageFace(w) == <<w.palette, w.laid, PaintedRows(w), w.group, w.row, w.hoverGroup, w.hoverRow>>
StatusFace(w) == <<w.bar, w.fonts>>

\* Every group and every row painted answers at its middle, the button of a
\* row there where it is painted, unless the window leaves no room for them.
TargetsAreHit ==
    LET l == win.laid
    IN /\ \A g \in Groups : HitTestNav(l, Middle(PaintedGroup(l, g))) = g
       /\ Width(l.list) >= Scaled(l.dpi, 300) =>
              \A i \in PaintedRows(win) :
                  LET row == l.rows[i]
                      open == Middle(PaintedButton(l, i))
                  IN /\ HitTestNav(l, open) = Nothing /\ HitTestRow(l, open) = i
                     /\ PointInActionButton(l.dpi, open, row)
                     /\ ~PointInActionButton(l.dpi, Middle(row), row)

\* What looks pointed at is still to be told that the pointer left, or the
\* request for that failed and the next movement makes it again.
HoverEnds == win.hoverGroup # Nothing \/ win.hoverRow # Nothing => win.tracking \/ win.refused

\* The parts of the page, of a group and of an asset do not cover each other,
\* and the rail ends above the status bar, in a window of the size it is
\* created with.
LaidOut ==
    LET l == win.laid
        Separate(parts) == \A r, s \in parts : r # s => Apart(r, s)
        Stacked(top, rects) == \A i \in DOMAIN rects : rects[i].top >= IF i = 1 THEN top ELSE rects[i - 1].bottom
    IN /\ l.size = win.size /\ l.dpi = win.dpi
       /\ win.size.w >= Scaled(win.dpi, 924) /\ win.size.h >= Scaled(win.dpi, 581) =>
              /\ Separate({l.header, l.toolbar, l.rail, l.list})
              /\ Stacked(l.railHeader.bottom, l.groups) /\ l.groups[6].bottom <= l.rail.bottom
              /\ Stacked(l.listHeader.bottom, l.rows)
              /\ \A g \in Groups : Separate(GroupParts(l, g))
              /\ \A i \in PaintedRows(win) : Separate(RowParts(l, i))

\* The window, its menu and its status bar have the theme of the process.
ThemesAgree == {win.mode, win.palette, win.menu, win.bar} = {win.broker}

\* What changes on a surface is repainted.
Repainted == /\ PageFace(win) # PageFace(win') => "main" \in win'.asked
             /\ StatusFace(win) # StatusFace(win') => "status" \in win'.asked
             /\ win.menu # win'.menu => "menu" \in win'.asked
=============================================================================
