-------------------------- MODULE ComponentGallery -------------------------
(***************************************************************************)
(* The gallery of controls (samples/NativeFrameUIComponentGallery): the    *)
(* page of the theme sample with other columns, and a property grid whose  *)
(* edits are told in the status bar.                                       *)
(*                                                                         *)
(* The first size of the window is for its 1120 lines at 96 dots per inch, *)
(* and for 900 at any other scale: Sizes has both.                         *)
(***************************************************************************)
EXTENDS StateMatrix

CONSTANTS Sizes, Scales

VARIABLE win \* As in ThemeDemo, with status, what the status bar says.

Demo == INSTANCE ThemeDemo

Quiet(w) == [w EXCEPT !.asked = {}]
Asking(w, surfaces) == [w EXCEPT !.asked = @ \cup surfaces]

-----------------------------------------------------------------------------
(* compute_layout.                                                         *)

StatusHeight(dpi) == Scaled(dpi, 23)

HeaderChips(size, dpi) == Demo!HeaderChips(size, dpi)

\* When the middle column has not its least width the matrix gives way.
Columns(size, dpi) ==
    LET S(v) == Scaled(dpi, v)
        room == size.w - 2 * S(16) - S(288) - 2 * S(24)
        lacking == Larger(0, S(240) - (room - S(560)))
        third == IF lacking = 0 THEN S(560) ELSE Larger(S(24), S(560) - lacking)
        second == Larger(0, room - third)
    IN [x |-> <<S(16), S(16) + S(288) + S(24), S(16) + S(288) + second + 2 * S(24)>>,
        width |-> <<S(288), second, third>>]

ContentBottom(size, dpi, bar) == size.h - bar - Scaled(dpi, 16)

\* Two boxes side by side and a third below, as the check boxes and the radio
\* buttons are.
Trio(dpi, x, y, width) ==
    LET half == Div(width - Scaled(dpi, 8), 2)
        height == Scaled(dpi, 24)
    IN {Box(x, y, half, height),
        Rect(x + half + Scaled(dpi, 8), y, x + width, y + height),
        Box(x, y + height + Scaled(dpi, 4), width, height)}

InputsColumn(columns, dpi, end) ==
    LET S(v) == Scaled(dpi, v)
        left == columns.x[1]
        x == left + S(16)
        width == S(288) - 2 * S(16)
        head == S(16) + S(4)
        button == Demo!ContentTop(dpi) + S(16) + S(24) + S(8) + head
        check == button + S(32) + S(16) + head
        radio == check + 2 * S(24) + S(4) + S(16) + head
        edit == radio + 2 * S(24) + S(4) + S(16) + head
        combo == edit + S(32) + S(8)
        static == combo + S(32) + S(16) + head
        inputs == static + 3 * S(24) + S(16)
        progress == inputs + S(16) + S(16) + S(24) + S(8) + head
        icon == progress + S(24) + S(16) + head
    IN [inputs |-> Rect(left, Demo!ContentTop(dpi), left + S(288), inputs),
        feedback |-> Rect(left, inputs + S(16), left + S(288),
                          Smaller(icon + S(32) + S(16), end)),
        children |-> {Demo!Side(x, button, width, S(32), S(8), 3, k) : k \in 1..3}
            \cup Trio(dpi, x, check, width) \cup Trio(dpi, x, radio, width)
            \cup {Box(x, edit, width, S(32)), Box(x, combo, width, S(32))}
            \cup {Box(x, static + k * S(24), width, S(24)) : k \in 0..2},
        shown |-> {Box(x, progress, width, S(24)), Box(x, icon, S(32), S(32))}]

CollectionsColumn(columns, dpi) ==
    LET S(v) == Scaled(dpi, v)
        left == columns.x[2]
        right == left + columns.width[2]
        x == left + S(16)
        width == right - S(16) - x
        head == S(16) + S(4)
        listbox == Demo!ContentTop(dpi) + S(16) + S(24) + S(8) + head
        listview == listbox + S(120) + S(16) + head
        treeview == listview + S(116) + S(16) + head
        bottom == treeview + S(116) + S(16)
        panel == bottom + S(16) + S(16) + S(24) + S(8) + head
        splitter == x + width - (S(8) - S(2))
    IN [collections |-> Rect(left, Demo!ContentTop(dpi), right, bottom),
        containers |-> Rect(left, bottom + S(16), right, panel + S(64) + S(16)),
        lists |-> {Box(x, listbox, width, S(120)), Box(x, listview, width, S(116)),
                   Box(x, treeview, width, S(116))},
        panels |-> {Rect(splitter, panel, x + width, panel + S(64)),
                    Rect(x, panel, splitter - S(8), panel + S(64))}]

\* The property grid takes the rest of the height, and at least 80.
GridCard(above, dpi, end) ==
    LET S(v) == Scaled(dpi, v)
        grid == above.bottom + S(16) + S(16) + S(24) + S(8) + S(16) + S(4)
        bottom == Larger(grid + S(80), end - S(16))
    IN [grid |-> Rect(above.left + S(16), grid, above.right - S(16), bottom),
        card |-> Rect(above.left, above.bottom + S(16), above.right,
                      Smaller(bottom + S(16), end))]

\* As paint_matrix divides it; below, the tabs take the rest, and at least 40.
MatrixColumn(columns, dpi, end) ==
    LET S(v) == Scaled(dpi, v)
        left == columns.x[3]
        right == left + columns.width[3]
        grid == Box(left + S(16), Demo!ContentTop(dpi) + S(16) + S(24) + S(8),
                    right - left - 2 * S(16), S(16) + S(8) + 7 * S(44) + 6 * S(8))
        tabs == grid.bottom + S(16) + S(16) + S(16) + S(24) + S(8) + S(16) + S(4)
        bottom == Larger(tabs + S(40), end - S(16))
    IN [states |-> Rect(left, Demo!ContentTop(dpi), right, grid.bottom + S(16)),
        chrome |-> Rect(left, grid.bottom + 2 * S(16), right,
                        Smaller(bottom + S(16), end)),
        tabs |-> Rect(left + S(16), tabs, right - S(16), bottom), grid |-> grid]

MatrixCells(grid, dpi) ==
    {Demo!MatrixCell(grid, dpi, s, c) : s \in {1, 2, 6}, c \in {1, 7}}

Geometry(size, dpi, bar) ==
    LET columns == Columns(size, dpi)
        end == ContentBottom(size, dpi, bar)
        collections == CollectionsColumn(columns, dpi)
    IN [chips |-> HeaderChips(size, dpi), inputs |-> InputsColumn(columns, dpi, end),
        collections |-> collections, property |-> GridCard(collections.containers, dpi, end),
        matrix |-> MatrixColumn(columns, dpi, end)]

-----------------------------------------------------------------------------
(* The window.                                                             *)

ApplyFonts(w) == Asking([w EXCEPT !.fonts = w.dpi], {"children"})

LayoutChildren(w) ==
    LET bar == StatusHeight(w.fonts)
    IN Asking([w EXCEPT !.bar = bar, !.laid = Geometry(w.size, w.dpi, bar)], {"main"})

RefreshChips(w) == Asking([w EXCEPT !.active = w.mode], {"children"})

SetStatusText(w) == Asking([w EXCEPT !.status = "ready"], {"children"})

CreateChildren(w) == RefreshChips(SetStatusText(w))

\* An edit that is accepted stays in the status bar until the theme changes.
UpdateGridStatus(w) == Asking([w EXCEPT !.status = "edited"], {"children"})

ApplyTheme(w, mode) ==
    IF w.mode = mode THEN w
    ELSE Asking(SetStatusText(ApplyFonts(RefreshChips(
             [w EXCEPT !.mode = mode, !.palette = mode]))), {"main", "children"})

BrokerSet(w, mode) ==
    IF mode = w.broker THEN w
    ELSE ApplyTheme(ApplyTheme([w EXCEPT !.broker = mode], mode), mode)

ParseTheme == {Demo!Chips[k] : k \in DOMAIN Demo!Chips}

CreateMain(size, dpi, mode) ==
    Quiet(LayoutChildren(ApplyFonts(CreateChildren(
        [size |-> size, dpi |-> dpi, fonts |-> dpi, bar |-> 0, laid |-> <<>>, status |-> "none",
         mode |-> mode, palette |-> mode, active |-> "none", broker |-> mode, asked |-> {}]))))

Init == \E size \in Sizes, dpi \in Scales, mode \in ParseTheme : win = CreateMain(size, dpi, mode)

Resize == \E size \in Sizes : win' = LayoutChildren([Quiet(win) EXCEPT !.size = size])

\* WM_SIZE comes from inside SetWindowPos, before the fonts have changed.
DpiChanged ==
    \E dpi \in Scales \ {win.dpi}, size \in Sizes :
        win' = LayoutChildren(ApplyFonts(LayoutChildren(
                   [Quiet(win) EXCEPT !.dpi = dpi, !.size = size])))

Command == \E mode \in ParseTheme : win' = BrokerSet(Quiet(win), mode)

ThemeChanged == win' = ApplyTheme(Quiet(win), win.broker)

ValueChanged == win' = UpdateGridStatus(Quiet(win))

Next == Resize \/ DpiChanged \/ Command \/ ThemeChanged \/ ValueChanged

Spec == Init /\ [][Next]_win

-----------------------------------------------------------------------------
(* Properties.                                                             *)

\* What paint_background and the controls show.
PageFace(w) == <<w.palette, w.size, w.dpi, w.bar>>
ChildrenFace(w) == <<w.palette, w.active, w.fonts, w.status>>

\* As in the theme sample, in a window that has the size of the page: the cards
\* are around their controls, and nothing covers anything else.
LaidOut ==
    LET g == win.laid
        chips == {g.chips[k] : k \in 1..3}
        children == chips \cup g.inputs.children \cup g.inputs.shown \cup g.collections.lists
                        \cup g.collections.panels \cup {g.matrix.tabs, g.property.grid}
        cards == {g.inputs.inputs, g.inputs.feedback, g.collections.collections,
                  g.collections.containers, g.property.card, g.matrix.states, g.matrix.chrome}
        cells == MatrixCells(g.matrix.grid, win.dpi)
    IN /\ win.bar = StatusHeight(win.dpi)
       /\ g = Geometry(win.size, win.dpi, win.bar)
       /\ \A r \in g.inputs.children : Within(r, g.inputs.inputs)
       /\ \A r \in g.collections.lists : Within(r, g.collections.collections)
       /\ win.size.w >= Scaled(win.dpi, 1224) /\ win.size.h >= Scaled(win.dpi, 1081) =>
              /\ \A r, s \in children : r # s => Apart(r, s)
              /\ \A r, s \in cards : r # s => Apart(r, s)
              /\ \A r \in chips, s \in cards : Apart(r, s)
              /\ \A r \in g.inputs.shown : Within(r, g.inputs.feedback)
              /\ \A r \in g.collections.panels : Within(r, g.collections.containers)
              /\ Within(g.property.grid, g.property.card)
              /\ Within(g.matrix.tabs, g.matrix.chrome)
              /\ \A r \in children : r.bottom <= win.size.h - win.bar
              /\ \A r, s \in cells : r # s => Apart(r, s)
              /\ \A r \in cells : Within(r, g.matrix.grid)
              /\ \A r \in cells, control \in Controls : Legible(control, r, win.dpi)

\* The window, its chips and the process have one theme.
ThemesAgree == {win.mode, win.palette, win.active} = {win.broker}

\* What changes on a surface is repainted.
Repainted == /\ PageFace(win) # PageFace(win') => "main" \in win'.asked
             /\ ChildrenFace(win) # ChildrenFace(win') => "children" \in win'.asked
=============================================================================
