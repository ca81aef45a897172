----------------------------- MODULE Playground ----------------------------
(***************************************************************************)
(* The playground (samples/NativeFrameUIControlsPlayground): controls that *)
(* come and go, a row that can be disabled, and themes that fade into one  *)
(* another.  Its tiles are in NavTiles.                                    *)
(*                                                                         *)
(* A timer may elapse once more after it was killed, if its message is     *)
(* already in the queue.                                                   *)
(***************************************************************************)
EXTENDS Pixels, FiniteSets

CONSTANTS Sizes, Scales, MostControls \* The most controls that are added.

Modes == {"light", "dark", "high_contrast"}
Blend == "between two themes"

VARIABLE win
(***************************************************************************)
(* size, dpi, fonts, laid: the client area, its scale, that of the fonts,  *)
(*   and where everything is.                                              *)
(* mode: the theme chosen; palette: what is shown; from, to, fading: the   *)
(*   fade; animated: whether the system wants animations.                  *)
(* dynamic: how many controls were added; enabled: the sample row.         *)
(* status, label: what the status bar and the label of the controls say.   *)
(* asked: the surfaces the last handler asked to repaint.                  *)
(***************************************************************************)
Quiet(w) == [w EXCEPT !.asked = {}]
Asking(w, surfaces) == [w EXCEPT !.asked = @ \cup surfaces]

-----------------------------------------------------------------------------
(* Where everything is.                                                    *)

Dynamic(dpi, k) == Box(Scaled(dpi, 16), Scaled(dpi, 120) + 2 * Scaled(dpi, 32) + Scaled(dpi, 8)
                           + Scaled(dpi, 4) + (k - 1) * Scaled(dpi, 28),
                       Scaled(dpi, 300), Scaled(dpi, 24))

\* The list of what was done has the rest of the column, and at least 80.
LogList(size, dpi, dynamic) ==
    LET S(v) == Scaled(dpi, v)
        top == Larger(Dynamic(dpi, dynamic + 1).top + S(8), Dynamic(dpi, 1).top + S(112))
    IN Box(S(16), top, S(300), Larger(S(80), size.h - S(24) - S(16) - top))

Tile(dpi, k) == Box(Scaled(dpi, 16) + Scaled(dpi, 300) + Scaled(dpi, 24) + k * (Scaled(dpi, 48) + Scaled(dpi, 8)),
                    Scaled(dpi, 120) + Scaled(dpi, 44), Scaled(dpi, 48), Scaled(dpi, 52))

ThemeButtons(size, dpi) ==
    LET S(v) == Scaled(dpi, v)
        x == size.w - S(16) - (2 * S(110) + S(150) + 2 * S(8))
    IN {Box(x, S(16), S(110), S(32)), Box(x + S(110) + S(8), S(16), S(110), S(32)),
        Box(x + 2 * (S(110) + S(8)), S(16), S(150), S(32))}

\* Where paint_state_strip puts its swatches and their caption.
Strip(dpi) ==
    LET S(v) == Scaled(dpi, v)
        x == Tile(dpi, 0).left
        y == Tile(dpi, 0).bottom + S(24)
    IN {Box(x + k * (S(48) + S(8)), y, S(48), S(44)) : k \in 0..4}
       \cup {Rect(x, y + S(44) + S(4), x + S(280), y + S(44) + S(24))}

SampleRow(dpi) ==
    LET S(v) == Scaled(dpi, v)
        x == Tile(dpi, 0).left
        toggle == Tile(dpi, 0).bottom + S(24) + S(96)
        row == toggle + S(32) + S(8)
        edit == row + S(32) + S(8)
    IN {Box(x, toggle, S(160), S(32)), Box(x, row, S(90), S(32)), Box(x + S(100), row, S(90), S(32)),
        Box(x + S(196), row, S(50), S(32)), Box(x + S(248), row, S(50), S(32)),
        Box(x, edit, S(180), S(32)), Box(x + S(190), edit, S(120), S(220))}

\* The last column has what is left of the width, up to 440.
Wrappers(size, dpi) ==
    LET S(v) == Scaled(dpi, v)
        x == Tile(dpi, 0).left + S(300) + S(16)
        width == Smaller(S(440), size.w - S(16) - x)
        tabs == S(120) + S(120) + S(16)
        icon == tabs + S(72)
    IN {Box(x, S(120), width, S(110)), Box(x, tabs, width, S(68)), Box(x, icon, S(40), S(40)),
        Box(x + S(52), icon, width - S(80), S(40)), Box(x + width - S(20), icon, S(6), S(40)),
        Box(x, icon + S(72), width, S(20))}

Geometry(size, dpi, dynamic) ==
    LET S(v) == Scaled(dpi, v)
        x == S(16)
        second == Tile(dpi, 0).left
    IN [themes |-> ThemeButtons(size, dpi),
        head |-> {Box(x + k * (S(92) + S(8)), S(120), S(92), S(32)) : k \in 0..2}
            \cup {Box(x, S(120) + S(32) + S(8), S(300), S(32))},
        dynamic |-> [k \in 1..dynamic |-> Dynamic(dpi, k)], log |-> LogList(size, dpi, dynamic),
        hint |-> Box(second, S(120), S(300), S(36)), tiles |-> [k \in 0..4 |-> Tile(dpi, k)],
        sample |-> SampleRow(dpi), wrappers |-> Wrappers(size, dpi)]

Layout(w) == [w EXCEPT !.laid = Geometry(w.size, w.dpi, w.dynamic)]

-----------------------------------------------------------------------------
(* The controls and the status bar.                                        *)

RefreshStatus(w) ==
    Asking([w EXCEPT !.status = [mode |-> w.mode, dynamic |-> w.dynamic, enabled |-> w.enabled]],
           {"status"})

AfterDynamicChange(w) ==
    Asking(Layout(RefreshStatus([w EXCEPT !.label = w.dynamic])), {"main", "children"})

\* A control that cannot be created is not added.
AddDynamic == /\ win.dynamic < MostControls
              /\ \/ win' = AfterDynamicChange([Quiet(win) EXCEPT !.dynamic = @ + 1])
                 \/ win' = Quiet(win)

RemoveDynamic == win' = IF win.dynamic = 0 THEN Quiet(win)
                        ELSE AfterDynamicChange([Quiet(win) EXCEPT !.dynamic = @ - 1])

ClearDynamic == win' = IF win.dynamic = 0 THEN Quiet(win)
                       ELSE AfterDynamicChange([Quiet(win) EXCEPT !.dynamic = 0])

\* Slip: the status bar is forgotten.
ToggleSampleEnabled_untold(w) == Asking([w EXCEPT !.enabled = ~@], {"children"})

ToggleSampleEnabled(w) == RefreshStatus(Asking([w EXCEPT !.enabled = ~@], {"children"}))

-----------------------------------------------------------------------------
(* Themes.                                                                 *)

ApplyPaletteToAll(w) == Asking(w, {"children"})

IsHighContrast(palette) == palette = "high_contrast"

SwitchMode(w, mode) ==
    LET chosen == [w EXCEPT !.mode = mode]
    IN IF mode = w.mode THEN w
       ELSE IF IsHighContrast(w.palette) \/ IsHighContrast(mode) \/ ~w.animated
       THEN Asking(RefreshStatus(ApplyPaletteToAll(
                [chosen EXCEPT !.fading = FALSE, !.palette = mode])), {"main"})
       ELSE RefreshStatus([chosen EXCEPT !.from = w.palette, !.to = mode, !.fading = TRUE])

\* over: the 200 ms of the fade are up.
StepThemeFade(w, over) ==
    IF ~w.fading THEN {w}
    ELSE IF over
    THEN {Asking(ApplyPaletteToAll([w EXCEPT !.palette = w.to, !.fading = FALSE]), {"main"})}
    ELSE {Asking(ApplyPaletteToAll([w EXCEPT !.palette = p]), {"main"}) : p \in {w.from, Blend}}

Timer == \E over \in BOOLEAN : win' \in StepThemeFade(Quiet(win), over)

SystemSetting == win' = [Quiet(win) EXCEPT !.animated = ~@]

-----------------------------------------------------------------------------
(* The window.                                                             *)

ApplyFonts(w) == Asking([w EXCEPT !.fonts = w.dpi], {"children"})

ParseTheme == Modes

BuildPersistent(size, dpi, mode) ==
    [size |-> size, dpi |-> dpi, fonts |-> 96, laid |-> <<>>, mode |-> mode, palette |-> mode,
     from |-> mode, to |-> mode, fading |-> FALSE, animated |-> TRUE, dynamic |-> 0,
     enabled |-> TRUE, status |-> <<>>, label |-> 0, asked |-> {}]

\* set_initial_theme and create_main.
CreateMain(size, dpi, mode) ==
    Quiet(Layout(RefreshStatus(ApplyFonts(BuildPersistent(size, dpi, mode)))))

Init == \E size \in Sizes, dpi \in Scales, mode \in ParseTheme : win = CreateMain(size, dpi, mode)

\* The class of the window redraws it when its size changes.
Resize == \E size \in Sizes : win' = Asking(Layout([Quiet(win) EXCEPT !.size = size]), {"main"})

DpiChanged ==
    \E dpi \in Scales \ {win.dpi}, size \in Sizes :
        win' = Asking(Layout(ApplyFonts([Quiet(win) EXCEPT !.dpi = dpi, !.size = size])), {"main"})

Command == \/ \E mode \in Modes : win' = SwitchMode(Quiet(win), mode)
           \/ AddDynamic
           \/ RemoveDynamic
           \/ ClearDynamic
           \/ win' = ToggleSampleEnabled(Quiet(win))

Next == Resize \/ DpiChanged \/ Command \/ Timer \/ SystemSetting

Spec == Init /\ [][Next]_win

-----------------------------------------------------------------------------
(* Properties.                                                             *)

\* What paint_background and the controls show.
PageFace(w) == <<w.palette, w.size, w.dpi>>
ChildrenFace(w) == <<w.palette, w.fonts, w.enabled, w.label>>

\* Nothing covers anything else in a window that has the width of the columns,
\* neither a control that was added nor the swatches painted between the
\* others, and the list ends above the status bar.
LaidOut ==
    LET g == win.laid
        dynamic == {g.dynamic[k] : k \in DOMAIN g.dynamic}
        tiles == {g.tiles[k] : k \in 0..4}
        body == g.head \cup dynamic \cup {g.log, g.hint} \cup tiles \cup g.sample
        painted == Strip(win.dpi)
    IN /\ Cardinality(dynamic) = win.dynamic
       /\ \A r, s \in body : r # s => Apart(r, s)
       /\ \A r \in painted, s \in body : Apart(r, s)
       /\ \A r, s \in painted : r # s => Apart(r, s)
       /\ win.size.w >= Scaled(win.dpi, 924) =>
              /\ \A r \in g.wrappers, s \in body : Apart(r, s)
              /\ \A r, s \in g.wrappers : r # s => Apart(r, s)
              /\ \A r \in g.themes, s \in body \cup g.wrappers : Apart(r, s)
       /\ win.size.h >= Scaled(win.dpi, 661) => g.log.bottom <= win.size.h - Scaled(win.dpi, 23)

\* When no fade goes on, the window is painted in the theme that was chosen,
\* and a fade that goes on ends there.
ThemesAgree == IF win.fading THEN win.to = win.mode /\ ~IsHighContrast(win.to)
               ELSE win.palette = win.mode

\* The status bar and the label say what there is.
StatusIsTrue ==
    /\ win.status = [mode |-> win.mode, dynamic |-> win.dynamic, enabled |-> win.enabled]
    /\ win.label = win.dynamic

\* What changes on a surface is repainted.
Repainted == /\ PageFace(win) # PageFace(win') => "main" \in win'.asked
             /\ ChildrenFace(win) # ChildrenFace(win') => "children" \in win'.asked
             /\ win.status # win'.status => "status" \in win'.asked
=============================================================================
