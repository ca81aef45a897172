----------------------------- MODULE Workbench -----------------------------
(***************************************************************************)
(* The workbench sample (samples/NativeFrameUIWorkbench): a toolbar drawn  *)
(* by the window itself, five panes in three columns, a status bar, and    *)
(* a theme menu that goes through the broker.                              *)
(*                                                                         *)
(* The toolbar is hit where it was last painted: the positions are kept by *)
(* the paint handler, the size of a button is that of the present scale.   *)
(***************************************************************************)
EXTENDS Pixels

CONSTANTS Sizes,      \* client areas, [w, h], at 96 dots per inch
          Scales,     \* resolutions of the monitors the window moves between
          Modes,      \* themes
          Zooms,      \* positions of the slider
          Artefacts,  \* rows of the list, 0 .. n - 1
          PointedTools   \* numbers of the tools that the pointer goes to

Tools == <<"new", "open", "save", "run", "debug", "search">>
NoTool == "none"
StatusHeight == 23

VARIABLE win
(***************************************************************************)
(* size, dpi, laid: the client area, its scale, the rectangles of children;*)
(*   tools: the scale at which the toolbar was painted, 0 before that;     *)
(*   due: the window is to be painted.                                     *)
(* hovered, tracking: the toolbar, the leave message was asked for.        *)
(* refused (a history): that request failed.                               *)
(* mode: the theme of the window; broker: that of the process.             *)
(* selected, zoom, status: the row shown by the inspector, the slider, the *)
(*   kind of text in the status bar and the resolution it names.           *)
(* asked: the surfaces the last handler asked to repaint.                  *)
(***************************************************************************)

Quiet(w) == [w EXCEPT !.asked = {}]
Asking(w, surfaces) ==
    [w EXCEPT !.asked = @ \cup surfaces, !.due = @ \/ "main" \in surfaces]

-----------------------------------------------------------------------------
(* Geometry.                                                               *)

\* Left edge of a tool: the gap after "save" separates two groups.
ToolLeft(dpi, k) ==
    Scaled(dpi, 8) + (k - 1) * Scaled(dpi, 32)
        + IF k <= 3 THEN (k - 1) * Scaled(dpi, 4)
          ELSE (k - 2) * Scaled(dpi, 4) + Scaled(dpi, 16)

ToolTop(dpi) == Scaled(dpi, 8) + Div(Scaled(dpi, 40) - Scaled(dpi, 32), 2)

\* The tools as painted at one scale, with the size of another.
ToolRect(painted, dpi, k) ==
    IF painted = 0 THEN Box(0, 0, Scaled(dpi, 32), Scaled(dpi, 32))
    ELSE Box(ToolLeft(painted, k), ToolTop(painted), Scaled(dpi, 32), Scaled(dpi, 32))

HitTool(w, p) ==
    LET hits == {k \in DOMAIN Tools : Contains(ToolRect(w.tools, w.dpi, k), p)}
    IN IF hits = {} THEN NoTool ELSE Tools[CHOOSE k \in hits : \A j \in hits : k <= j]

\* The children, as layout moves them.
Geometry(size, dpi) ==
    LET S(v) == Scaled(dpi, v)
        margin == S(8)
        row == S(56) + S(24) + margin
        height == size.h - StatusHeight
        center == S(260) + S(4) + S(8)
        width == size.w - S(260) - S(260) - 2 * S(4) - 2 * S(8)
        below == row + S(32) + margin
        room == Larger(0, height - below - margin)
        right == size.w - S(260)
        inspector == row + S(20) + 2 * margin + S(32) + S(96) + margin
        card == S(260) - 2 * margin
    IN [search |-> Box(margin, row, card, S(32)),
        tree |-> Box(margin, below, card, room),
        left |-> Box(S(260), 0, S(4), height),
        tabs |-> Box(center, row, width, S(32)),
        list |-> Box(center, below, width, Smaller(S(22) + 5 * S(22) + S(12), room)),
        right |-> Box(right - S(4), 0, S(4), height),
        slider |-> Box(right + margin, row + S(20) + margin, card, S(32)),
        inspector |-> Box(right + margin, inspector, card,
                          Larger(S(220), Larger(0, height - margin - inspector)))]

\* Where the window paints the card of the build beneath the slider.
BuildCard(size, dpi) ==
    LET S(v) == Scaled(dpi, v)
    IN Box(size.w - S(260) + S(8), S(56) + S(24) + S(8) + S(20) + 2 * S(8) + S(32),
           S(260) - 2 * S(8), S(96))

Layout(w) == Asking([w EXCEPT !.laid = Geometry(w.size, w.dpi)],
                    {"main", "inspector"})

-----------------------------------------------------------------------------
(* Texts.                                                                  *)

SetStatus(w, kind) == Asking([w EXCEPT !.status = [kind |-> kind, dpi |-> w.dpi]],
                             {"status"})

\* The texts of the commands do not name the resolution.
SetCommand(w) == Asking([w EXCEPT !.status = [kind |-> "command", dpi |-> 0]],
                        {"status"})

\* create_children: the first row of the list is selected, the slider at 60.
Created(size, dpi, mode) ==
    [size |-> size, dpi |-> dpi, laid |-> Geometry(size, dpi),
     tools |-> dpi, due |-> FALSE,
     hovered |-> NoTool, tracking |-> FALSE, refused |-> FALSE,
     mode |-> mode, broker |-> mode,
     selected |-> 0, zoom |-> 60,
     status |-> [kind |-> "ready", dpi |-> dpi],
     asked |-> {}]

\* The theme of the command line is set before the window is created and shown.
Init == \E size \in Sizes, dpi \in Scales, mode \in Modes : win = Created(size, dpi, mode)

-----------------------------------------------------------------------------
(* Messages of the window.                                                 *)

Paint ==
    /\ win.due
    /\ win' = [Quiet(win) EXCEPT !.due = FALSE, !.tools = win.dpi]

Resize ==
    \E size \in Sizes : win' = Layout([Quiet(win) EXCEPT !.size = size])

\* The window is moved to another monitor and takes the size suggested for it:
\* WM_SIZE comes from inside SetWindowPos.
DpiChanged ==
    \E dpi \in Scales \ {win.dpi}, size \in Sizes :
        win' = Layout(Layout([Quiet(win) EXCEPT !.dpi = dpi, !.size = size]))

\* The pointer is over what the toolbar shows, or left of it.
Aimed(t) ==
    IF t = NoTool THEN [x |-> 1, y |-> 1]
    ELSE LET k == CHOOSE j \in DOMAIN Tools : Tools[j] = t
         IN Middle(ToolRect(win.tools, win.tools, k))

\* The leave message is asked for once.  The flag is set although the request
\* may have failed, and then no message comes and none is asked for again.
Tracked(w, granted) ==
    IF w.tracking THEN w ELSE [w EXCEPT !.tracking = TRUE, !.refused = ~granted]

MouseMove(t) ==
    \E hit \in {HitTool(win, Aimed(t))}, granted \in {g \in BOOLEAN : win.tracking => g} :
        LET w == Tracked(Quiet(win), granted)
        IN win' = IF hit = w.hovered THEN w
                  ELSE Asking([w EXCEPT !.hovered = hit], {"main"})

MouseLeave ==
    /\ win.tracking /\ ~win.refused
    /\ win' = Asking([Quiet(win) EXCEPT !.tracking = FALSE, !.hovered = NoTool],
                     IF win.hovered = NoTool THEN {} ELSE {"main"})

\* A press acts at once, with the command of the menu.
LButtonDown(t) ==
    win' = IF HitTool(win, Aimed(t)) = NoTool THEN Quiet(win)
           ELSE SetCommand(Quiet(win))

\* The slider: the status line goes back to "Ready".
Scroll ==
    \E zoom \in Zooms \ {win.zoom} :
        win' = Asking(SetStatus([Quiet(win) EXCEPT !.zoom = zoom], "ready"), {"main"})

ContextRefresh == win' = SetCommand(Quiet(win))

\* Only a row that becomes selected is noted.
SelectRow ==
    \E row \in Artefacts :
        win' = SetStatus(Asking([Quiet(win) EXCEPT !.selected = row], {"inspector"}), "row")

-----------------------------------------------------------------------------
(* Themes.                                                                 *)

\* The palette is shared with the children by its address.
\* Slip: nothing is asked of the window.
ApplyTheme_unpainted(w, mode) ==
    IF w.mode = mode THEN w ELSE SetStatus([w EXCEPT !.mode = mode], "ready")

ApplyTheme(w, mode) ==
    IF w.mode = mode THEN w
    ELSE Asking(SetStatus([w EXCEPT !.mode = mode], "ready"), {"main"})

\* View > Theme tells the broker, which tells who has registered: the tree, the
\* tabs and the list have, the window has not.
ThemeMenu ==
    \E mode \in Modes :
        win' = IF mode = win.broker THEN Quiet(win)
               ELSE Asking([Quiet(win) EXCEPT !.broker = mode], {"lists"})

\* WM_THEMECHANGED of the system.
ThemeChanged == win' = ApplyTheme(Quiet(win), win.broker)

-----------------------------------------------------------------------------
Next ==
    \/ Paint
    \/ Resize
    \/ DpiChanged
    \/ \E t \in {Tools[k] : k \in PointedTools} \cup {NoTool} : MouseMove(t)
    \/ MouseLeave
    \/ \E t \in {Tools[k] : k \in PointedTools} \cup {NoTool} : LButtonDown(t)
    \/ Scroll
    \/ ContextRefresh
    \/ SelectRow
    \/ ThemeMenu
    \/ ThemeChanged

Spec == Init /\ [][Next]_win

-----------------------------------------------------------------------------
(* Properties.                                                             *)

\* What the parts painted by the window depend on.
ToolbarFace(w) == <<w.dpi, w.mode, w.hovered>>
HeaderFace(w) == <<w.dpi, w.mode>>
RightPaneFace(w) == <<w.size, w.dpi, w.mode, w.zoom>>

\* The inspector shows the data of a row.  Its colours are left out: it keeps
\* the surface it was created with and is not repainted with a new theme.
InspectorFace(w) == <<w.laid.inspector, w.dpi, w.selected>>

Face(w) ==
    [main |-> <<ToolbarFace(w), HeaderFace(w), RightPaneFace(w)>>,
     inspector |-> InspectorFace(w),
     status |-> w.status]

\* Once the window has been painted, a press on a tool it shows hits that tool.
ToolsAreHit ==
    ~win.due => \A k \in DOMAIN Tools : HitTool(win, Aimed(Tools[k])) = Tools[k]

\* The window of a hovered tool will be told that the pointer left, unless its
\* only request for that failed.
HoverEnds == win.hovered # NoTool => win.tracking \/ win.refused

\* The children have their places, and do not cover one another nor the card
\* painted between them, in a window that is wide enough for three columns.
LaidOut ==
    LET g == win.laid
        panes == {"search", "tree", "left", "tabs", "list", "right", "slider", "inspector"}
    IN /\ g = Geometry(win.size, win.dpi)
       /\ g.tabs.left <= g.tabs.right =>
             /\ \A r, s \in panes : r # s => Apart(g[r], g[s])
             /\ \A r \in panes : Apart(g[r], BuildCard(win.size, win.dpi))

\* What changes on a surface is repainted.
Repainted ==
    \A s \in {"main", "inspector", "status"} :
        Face(win)[s] # Face(win')[s] => s \in win'.asked
=============================================================================
