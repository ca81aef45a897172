----------------------------- MODULE DarkStudio ----------------------------
(***************************************************************************)
(* The dark studio sample (samples/NativeFrameUIDarkStudio): a shell that  *)
(* its window draws by itself, with a column of navigation rows and a pill *)
(* that goes through the themes, above a native status bar.                *)
(***************************************************************************)
EXTENDS Pixels

CONSTANTS Sizes, Scales

Rows == 0..3
Pill == 4
Elsewhere == 5

VARIABLE win
(***************************************************************************)
(* client, dpi: client_rect_ and the scale.                                *)
(* mode, palette: the theme the window thinks it has, and the one its      *)
(*   colours were resolved from; broker: that of the process.              *)
(* cycled (a history): the pill changed the mode, and no theme was applied *)
(*   since.                                                                *)
(* selected: the row.  fonts: the scale of the status bar's font.          *)
(* asked: the surfaces the last handler asked to repaint.                  *)
(***************************************************************************)
Quiet(w) == [w EXCEPT !.asked = {}]
Asking(w, surfaces) == [w EXCEPT !.asked = @ \cup surfaces]

-----------------------------------------------------------------------------
(* Geometry, for both painting and hitting.                                *)

StatusHeight(dpi) == Scaled(dpi, 23)

ContentRect(w) == Rect(0, 0, w.client.w, w.client.h - StatusHeight(w.dpi))

NavigationWidth(dpi) == Scaled(dpi, 240)
BrandHeight(dpi) == Scaled(dpi, 124)

NavigationRect(w, k) ==
    LET S(v) == Scaled(w.dpi, v)
    IN Box(S(24) + S(4), S(24) + BrandHeight(w.dpi) + S(16) + k * (S(48) + S(4)),
           NavigationWidth(w.dpi) - 2 * S(4), S(48))

ThemeToggleRect(w) ==
    LET S(v) == Scaled(w.dpi, v)
    IN Box(S(24) + NavigationWidth(w.dpi) - S(24) - S(80), S(24) + S(92), S(80), S(24))

Sidebar(w) == Box(Scaled(w.dpi, 24), Scaled(w.dpi, 24), NavigationWidth(w.dpi),
                  Larger(0, ContentRect(w).bottom - 2 * Scaled(w.dpi, 24)))

\* Title and subtitle above the pill.
BrandTexts(w) ==
    LET S(v) == Scaled(w.dpi, v)
        title == Box(S(24) + S(24), S(24) + S(16), NavigationWidth(w.dpi) - 2 * S(24), S(28))
    IN {title, Box(title.left, title.bottom + S(4), NavigationWidth(w.dpi) - 2 * S(24), S(24))}

Main(w) ==
    LET S(v) == Scaled(w.dpi, v)
    IN [left |-> S(24) + NavigationWidth(w.dpi) + S(16), top |-> S(24),
        width |-> w.client.w - NavigationWidth(w.dpi) - 2 * S(24) - S(16)]

DescriptionCard(w) ==
    Box(Main(w).left, Main(w).top, Main(w).width, Scaled(w.dpi, 144))

PreviewCard(w) ==
    Box(Main(w).left, DescriptionCard(w).bottom + Scaled(w.dpi, 16),
        Main(w).width, Scaled(w.dpi, 304))

\* The code, eight lines of it, below the title of its card.
CodeBlock(w) ==
    LET S(v) == Scaled(w.dpi, v)
        card == PreviewCard(w)
    IN Box(card.left + S(24), card.top + S(24) + S(28) + S(16),
           card.right - card.left - 2 * S(24), 8 * S(20) + 2 * S(16))

StatCards(w) ==
    LET S(v) == Scaled(w.dpi, v)
        top == PreviewCard(w).bottom + S(16)
        one == Box(Main(w).left, top, Div(Main(w).width - S(16), 2), S(160))
    IN {one, Box(one.right + S(16), top,
                 Main(w).width - Div(Main(w).width - S(16), 2) - S(16), S(160))}

Target(w, t) == IF t = Pill THEN ThemeToggleRect(w) ELSE NavigationRect(w, t)

-----------------------------------------------------------------------------
(* Themes.                                                                 *)

ApplyTheme(w, mode) ==
    IF w.mode = mode THEN w
    ELSE Asking([w EXCEPT !.mode = mode, !.palette = mode, !.fonts = w.dpi, !.cycled = FALSE],
                {"main", "status"})

\* ThemeBroker::set_theme: the message and the handler of this window.
BrokerSet(w, mode) ==
    IF mode = w.broker THEN w
    ELSE ApplyTheme(ApplyTheme([w EXCEPT !.broker = mode], mode), mode)

Cycled(mode) ==
    CASE mode = "light" -> "dark"
      [] mode = "dark" -> "high_contrast"
      [] OTHER -> "light"

\* The window takes the new mode before it tells the broker: when the broker
\* tells it in turn, there seems to be nothing to do.
CycleTheme(w) == BrokerSet([w EXCEPT !.mode = Cycled(w.mode), !.cycled = TRUE], Cycled(w.mode))

-----------------------------------------------------------------------------
(* The window.                                                             *)

\* set_initial_theme and create_main.
Init ==
    \E size \in Sizes, dpi \in Scales, mode \in {"light", "dark", "high_contrast"} :
        win = [client |-> size, dpi |-> dpi, mode |-> mode, palette |-> mode,
               broker |-> mode, cycled |-> FALSE, selected |-> 0, fonts |-> dpi, asked |-> {}]

Resize == \E size \in Sizes :
              win' = Asking([Quiet(win) EXCEPT !.client = size], {"main"})

\* The new scale, the suggested size, the font and the layout.
DpiChanged ==
    \E dpi \in Scales \ {win.dpi}, size \in Sizes :
        win' = Asking([Quiet(win) EXCEPT !.dpi = dpi, !.client = size, !.fonts = dpi],
                      {"main", "status"})

SelectNavigation(w, p) ==
    LET hits == {k \in Rows \ {w.selected} : Contains(NavigationRect(w, k), p)}
    IN IF hits = {} THEN w
       ELSE Asking([w EXCEPT !.selected = CHOOSE k \in hits : \A j \in hits : k <= j],
                   {"main", "status"})

\* The user points at what is painted, or at the card.
Aimed(w, t) == IF t = Elsewhere THEN Middle(DescriptionCard(w)) ELSE Middle(Target(w, t))

\* A press asks both of the rows and of the pill.
Pressed(w, p) ==
    LET v == SelectNavigation(w, p)
    IN IF Contains(ThemeToggleRect(v), p) THEN Asking(CycleTheme(v), {"main"}) ELSE v

LButtonDown == \E t \in Rows \cup {Pill, Elsewhere} : win' = Pressed(Quiet(win), Aimed(win, t))

\* WM_THEMECHANGED of the system.
ThemeChanged == win' = ApplyTheme(Quiet(win), win.broker)

Next == Resize \/ DpiChanged \/ LButtonDown \/ ThemeChanged

Spec == Init /\ [][Next]_win

-----------------------------------------------------------------------------
(* Properties.                                                             *)

ShellFace(w) == <<w.client, w.dpi, w.palette, w.mode>>
RowsFace(w) == <<w.selected, w.palette>>
StatusFace(w) == <<w.palette, w.fonts>>

\* A press on what is painted does what it says and nothing else.
TargetsAreHit ==
    /\ \A k \in Rows :
           Pressed(win, Aimed(win, k)).selected = k /\ Pressed(win, Aimed(win, k)).mode = win.mode
    /\ LET v == Pressed(win, Aimed(win, Pill))
       IN v.mode # win.mode /\ v.selected = win.selected
    /\ Pressed(win, Aimed(win, Elsewhere)) = win

\* The parts of the shell do not cover one another.  A lower window cuts them.
LaidOut ==
    LET column == BrandTexts(win) \cup {ThemeToggleRect(win)}
                      \cup {NavigationRect(win, k) : k \in Rows}
        cards == {DescriptionCard(win), PreviewCard(win)} \cup StatCards(win)
        code == CodeBlock(win)
    IN /\ \A r, s \in column : r # s => Apart(r, s)
       /\ \A r \in column : Sidebar(win).left <= r.left /\ r.right <= Sidebar(win).right
       /\ Main(win).width >= Scaled(win.dpi, 48) =>
              /\ \A r, s \in cards : r # s => Apart(r, s)
              /\ \A r \in cards, s \in column : Apart(r, s)
              /\ code.bottom <= PreviewCard(win).bottom

\* The window and the process have one theme, and the window is painted in it
\* until the pill is pressed (see PaintedAsLabelled for what is painted then).
ThemesAgree == win.mode = win.broker /\ (~win.cycled => win.palette = win.mode)

\* The label of the pill, and "every change to the theme shows up here": the
\* window is painted in the theme it says it has.
PaintedAsLabelled == win.palette = win.mode

\* What changes on a surface is repainted.
Repainted ==
    /\ <<ShellFace(win), RowsFace(win)>> # <<ShellFace(win'), RowsFace(win')>> =>
           "main" \in win'.asked
    /\ StatusFace(win) # StatusFace(win') => "status" \in win'.asked
=============================================================================
