------------------------------ MODULE ThemeDemo ----------------------------
(***************************************************************************)
(* The theme sample (samples/NativeFrameUIThemeDemo): three columns of     *)
(* live controls on painted cards, and three chips that set the theme.     *)
(*                                                                         *)
(* The page is computed twice, when the controls are moved and when the    *)
(* cards are painted; both depend on the height of the status bar, which   *)
(* follows its font only when it is told to.                               *)
(***************************************************************************)
EXTENDS StateMatrix

CONSTANTS Sizes, Scales

Chips == <<"light", "dark", "high_contrast">>

VARIABLE win
(***************************************************************************)
(* size, dpi: the client area and its scale; fonts: the scale of the fonts *)
(*   given to the controls; bar: the height of the status bar.             *)
(* laid: where the controls are.                                           *)
(* mode, palette, active: the theme, the one resolved, that of the chip    *)
(*   that looks active; broker: that of the process.                       *)
(* asked: the surfaces the last handler asked to repaint.                  *)
(***************************************************************************)
Quiet(w) == [w EXCEPT !.asked = {}]
Asking(w, surfaces) == [w EXCEPT !.asked = @ \cup surfaces]

-----------------------------------------------------------------------------
(* compute_layout.                                                         *)

StatusHeight(dpi) == Scaled(dpi, 23)

\* The three columns.  When the matrix has not its width, the middle column
\* gives way, down to a least width of its own.
Columns(size, dpi) ==
    LET S(v) == Scaled(dpi, v)
        room == size.w - 2 * S(16) - S(304) - 2 * S(24)
        lacking == Larger(0, S(560) - (room - S(320)))
        second == IF lacking = 0 THEN S(320) ELSE Larger(S(240), S(320) - lacking)
    IN [x |-> <<S(16), S(16) + S(304) + S(24), S(16) + S(304) + second + 2 * S(24)>>,
        width |-> <<S(304), second, Larger(0, room - second)>>]

\* n boxes side by side.
Side(x, y, width, height, gap, n, k) ==
    LET each == Div(width - gap * (n - 1), n)
    IN Box(x + (k - 1) * (each + gap), y, each, height)

ContentTop(dpi) == Scaled(dpi, 16) + Scaled(dpi, 56) + Scaled(dpi, 16)

HeaderChips(size, dpi) ==
    LET S(v) == Scaled(dpi, v)
    IN [k \in 1..3 |-> Box(size.w - S(16) - (4 - k) * S(72) - (3 - k) * S(8),
                           S(16) + Div(S(56) - S(24), 2), S(72), S(24))]

ControlsColumn(columns, dpi) ==
    LET S(v) == Scaled(dpi, v)
        x == columns.x[1] + S(16)
        width == S(304) - 2 * S(16)
        head == S(16) + S(4)
        button == ContentTop(dpi) + S(16) + S(24) + S(8) + head
        check == button + S(32) + S(16) + head
        radio == check + S(24) + S(16) + head
        edit == radio + S(24) + S(16) + head
        combo == edit + S(32) + S(8)
        static == combo + S(32) + S(16) + head
    IN [card |-> Rect(x - S(16), ContentTop(dpi), x + width + S(16), static + 3 * S(24) + S(16)),
        children |-> {Side(x, button, width, S(32), S(8), 2, k) : k \in 1..2}
               \cup {Side(x, check, width, S(24), S(8), 3, k) : k \in 1..3}
               \cup {Side(x, radio, width, S(24), S(8), 3, k) : k \in 1..3}
               \cup {Box(x, edit, width, S(32)), Box(x, combo, width, S(32))}
               \cup {Box(x, static + k * S(24), width, S(24)) : k \in 0..2}]

CollectionsColumn(columns, dpi) ==
    LET S(v) == Scaled(dpi, v)
        x == columns.x[2] + S(16)
        width == columns.width[2] - 2 * S(16)
        listbox == ContentTop(dpi) + S(16) + S(24) + S(8)
        listview == listbox + S(72) + S(16)
        treeview == listview + S(124) + S(16)
        icon == treeview + S(124) + S(16)
    IN [card |-> Rect(x - S(16), ContentTop(dpi), x + width + S(16), icon + S(32) + S(16)),
        children |-> {Box(x, listbox, width, S(72)), Box(x, listview, width, S(124)),
                      Box(x, treeview, width, S(124)), Box(x, icon, S(32), S(32)),
                      Box(x + S(40), icon + Div(S(24), 2), width - S(40), S(8))}]

\* Below the card of the collections, what is left of the height.
ChromeCard(above, size, dpi, bar) ==
    LET S(v) == Scaled(dpi, v)
        x == above.left + S(16)
        width == above.right - above.left - 2 * S(16)
        top == above.bottom + S(16)
        head == S(16) + S(4)
        tabs == top + S(16) + S(24) + S(8) + head
        panel == tabs + S(40) + S(48) + S(16) + head
        bottom == size.h - bar - S(16)
        height == Larger(S(40), bottom - S(16) - panel)
        splitter == x + width - (S(8) - S(2))
    IN [card |-> Rect(x - S(16), top, x + width + S(16), Smaller(panel + height + S(16), bottom)),
        children |-> {Box(x, tabs, width, S(40) + S(48)),
                      Rect(splitter, panel, x + width, panel + height),
                      Rect(x, panel, splitter - S(8), panel + height)}]

MatrixColumn(c, dpi) ==
    LET S(v) == Scaled(dpi, v)
        grid == Box(c.x[3] + S(16), ContentTop(dpi) + S(16) + S(24) + S(8),
                    c.width[3] - 2 * S(16), S(16) + S(8) + 7 * S(44) + 6 * S(8))
    IN [card |-> Rect(c.x[3], ContentTop(dpi), c.x[3] + c.width[3], grid.bottom + S(16)),
        grid |-> grid]

\* paint_matrix: a gutter for the names, six states, seven controls.
MatrixCell(grid, dpi, state, control) ==
    LET S(v) == Scaled(dpi, v)
        left == grid.left + S(104)
        width == Div(grid.right - left - 5 * S(8), 6)
    IN Box(left + (state - 1) * (width + S(8)),
           grid.top + S(16) + S(8) + (control - 1) * (S(44) + S(8)), width, S(44))

Geometry(size, dpi, bar) ==
    LET columns == Columns(size, dpi)
        collections == CollectionsColumn(columns, dpi)
    IN [chips |-> HeaderChips(size, dpi), controls |-> ControlsColumn(columns, dpi),
        collections |-> collections, chrome |-> ChromeCard(collections.card, size, dpi, bar),
        matrix |-> MatrixColumn(columns, dpi)]

-----------------------------------------------------------------------------
(* The window.                                                             *)

ApplyFonts(w) == Asking([w EXCEPT !.fonts = w.dpi], {"children"})

\* The status bar first, whose height the page depends on.
LayoutChildren(w) ==
    LET bar == StatusHeight(w.fonts)
    IN Asking([w EXCEPT !.bar = bar, !.laid = Geometry(w.size, w.dpi, bar)], {"main"})

RefreshChips(w) == Asking([w EXCEPT !.active = w.mode], {"children"})

ApplyTheme(w, mode) ==
    IF w.mode = mode THEN w
    ELSE Asking(ApplyFonts(RefreshChips([w EXCEPT !.mode = mode, !.palette = mode])),
                {"main", "children"})

\* ThemeBroker::set_theme: the message and the handler of this window.
BrokerSet(w, mode) ==
    IF mode = w.broker THEN w
    ELSE ApplyTheme(ApplyTheme([w EXCEPT !.broker = mode], mode), mode)

\* The controls get the palette of the window; the chip of its theme is active.
CreateChildren(w) == RefreshChips(w)

\* parse_theme of the command line, set_initial_theme and create_main.
CreateMain(size, dpi, mode) ==
    Quiet(LayoutChildren(ApplyFonts(CreateChildren(
        [size |-> size, dpi |-> dpi, fonts |-> dpi, bar |-> 0, laid |-> <<>>,
         mode |-> mode, palette |-> mode, active |-> "none", broker |-> mode, asked |-> {}]))))

ParseTheme == {Chips[k] : k \in DOMAIN Chips}

Init == \E size \in Sizes, dpi \in Scales, mode \in ParseTheme : win = CreateMain(size, dpi, mode)

Resize == \E size \in Sizes : win' = LayoutChildren([Quiet(win) EXCEPT !.size = size])

\* WM_SIZE comes from inside SetWindowPos, before the fonts have changed.
DpiChanged ==
    \E dpi \in Scales \ {win.dpi}, size \in Sizes :
        win' = LayoutChildren(ApplyFonts(LayoutChildren(
                   [Quiet(win) EXCEPT !.dpi = dpi, !.size = size])))

Command == \E k \in DOMAIN Chips : win' = BrokerSet(Quiet(win), Chips[k])

\* WM_THEMECHANGED of the system.
ThemeChanged == win' = ApplyTheme(Quiet(win), win.broker)

Next == Resize \/ DpiChanged \/ Command \/ ThemeChanged

Spec == Init /\ [][Next]_win

-----------------------------------------------------------------------------
(* Properties.                                                             *)

\* What paint_background and the controls show.
PageFace(w) == <<w.palette, w.size, w.dpi, w.bar>>
ChildrenFace(w) == <<w.palette, w.active, w.fonts>>

\* The cards are painted around the controls, and nothing covers anything else
\* in a window that has the width of the columns and the height of the page;
\* the thumbnails of the matrix are then whole.
LaidOut ==
    LET g == win.laid
        chips == {g.chips[k] : k \in 1..3}
        children == chips \cup g.controls.children \cup g.collections.children
                        \cup g.chrome.children
        cards == {g.controls.card, g.collections.card, g.chrome.card, g.matrix.card}
        cells == {MatrixCell(g.matrix.grid, win.dpi, s, c) : s \in {1, 2, 6}, c \in {1, 7}}
    IN /\ win.bar = StatusHeight(win.dpi)
       /\ g = Geometry(win.size, win.dpi, win.bar)
       /\ \A r, s \in children : r # s => Apart(r, s)
       /\ \A c \in {g.controls, g.collections} : \A r \in c.children : Within(r, c.card)
       /\ win.size.w >= Scaled(win.dpi, 1224) /\ win.size.h >= Scaled(win.dpi, 861) =>
              /\ \A r, s \in cards : r # s => Apart(r, s)
              /\ \A r \in chips, s \in cards : Apart(r, s)
              /\ \A r \in g.chrome.children : Within(r, g.chrome.card)
              /\ \A r, s \in cells : r # s => Apart(r, s)
              /\ \A r \in cells : Within(r, g.matrix.grid)
              /\ \A r \in cells, control \in Controls : Legible(control, r, win.dpi)

\* The window, its chips and the process have one theme.
ThemesAgree == {win.mode, win.palette, win.active} = {win.broker}

\* What changes on a surface is repainted.
Repainted == /\ PageFace(win) # PageFace(win') => "main" \in win'.asked
             /\ ChildrenFace(win) # ChildrenFace(win') => "children" \in win'.asked
=============================================================================
