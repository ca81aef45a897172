----------------------------- MODULE DialogTour -----------------------------
(***************************************************************************)
(* The dialog tour (samples/NativeFrameUIDialogTour) over the wrapper of   *)
(* dialogs: a modal one, whose own message loop runs inside the handler    *)
(* that opened it, and a modeless one, which may be open before, during    *)
(* and after, and which the main loop gives its keys to.                   *)
(*                                                                         *)
(* A handle is not given again to the next window.                         *)
(***************************************************************************)
EXTENDS Pixels

CONSTANTS Sizes, Scales, Payloads

Handles == {"one", "other"}
None == "none"
Modes == {"light", "dark", "high_contrast"}
Buttons == {"about", "prefs", "close"} \cup Modes

VARIABLE win
(***************************************************************************)
(* size, dpi, laid: the client area, its scale, and where everything is.   *)
(* broker, mode, palette: the theme of the process, of the window and of   *)
(*   its painting.                                                         *)
(* hover, tracking, capture: of the mouse.  refused (a history): the       *)
(*   request for the leave message failed.                                 *)
(* about: whether the modal dialog runs; result: of the last time it did.  *)
(* prefs, modal: of the wrapper of the modeless one; alive: that window,   *)
(*   None if it was destroyed; routed: g_modeless_dlg.                     *)
(* stage, payload, prefsOpen: what the window remembers of them.           *)
(* asked: whether the last handler asked to repaint.                       *)
(***************************************************************************)
Quiet(w) == [w EXCEPT !.asked = FALSE]
Asking(w) == [w EXCEPT !.asked = TRUE]

ShowCloseAction(stage) == stage = "prefs_opened"

-----------------------------------------------------------------------------
(* Where everything is: a card in the middle, whatever its size.           *)

LayoutStatusCard(dpi, card) ==
    LET S(v) == Scaled(dpi, v)
        Line(y, h) == Rect(card.left + S(16), y, card.right - S(16), y + h)
        label == card.top + S(8) + S(12) + S(8)
        eyebrow == label + S(14) + S(16)
        themes == card.bottom - S(8) - S(24)
        Chip(k) == Box(card.left + S(16) + k * (S(72) + S(4)), themes, S(72), S(24))
    IN [texts |-> {Line(card.top + S(8), S(12)), Line(label, S(14)), Line(eyebrow, S(12)),
                   Line(eyebrow + S(12) + S(8), S(14)), Line(themes - S(12) - S(8), S(12))},
        light |-> Chip(0), dark |-> Chip(1), high_contrast |-> Chip(2)]

CardParts(card, dpi, stage) ==
    LET S(v) == Scaled(dpi, v)
        Line(y, h) == Rect(card.left + S(24), y, card.right - S(24), y + h)
        brand == Box(card.left + S(24), card.top + S(24), S(32), S(32))
        desc == Line(brand.bottom + S(16), S(40))
        about == Line(desc.bottom + S(24), S(40))
        prefs == Line(about.bottom + S(8), S(32))
        close == Line(prefs.bottom + S(8), S(32))
        divider == Line((IF ShowCloseAction(stage) THEN close ELSE prefs).bottom + S(24), S(1))
        status == Line(divider.bottom + S(16), S(152))
        inner == LayoutStatusCard(dpi, status)
    IN [card |-> card, brand |-> brand, title |-> Rect(brand.right + S(16), brand.top, card.right - S(24), brand.bottom),
        desc |-> desc, divider |-> divider, status |-> status, texts |-> inner.texts,
        buttons |-> [b \in Buttons |-> CASE b = "about" -> about [] b = "prefs" -> prefs
                                         [] b = "close" -> close [] OTHER -> inner[b]]]

LayoutCard(size, dpi, stage) ==
    LET S(v) == Scaled(dpi, v)
    IN CardParts(Box(Div(size.w - S(560), 2), Div(size.h - S(480), 2), S(560), S(480)), dpi, stage)

Layout(w) == [w EXCEPT !.laid = LayoutCard(w.size, w.dpi, w.stage)]

InvalidateRedraw(w) == Asking(Layout(w))

HitTest(w, p) ==
    LET Live(b) == b # "close" \/ ShowCloseAction(w.stage)
        hit == {b \in Buttons : Live(b) /\ Contains(w.laid.buttons[b], p)}
    IN IF hit = {} THEN None ELSE CHOOSE b \in hit : TRUE

\* The link is painted at the right end of what is hit.
Painted(w) ==
    [b \in IF ShowCloseAction(w.stage) THEN Buttons ELSE Buttons \ {"close"} |->
        IF b = "close" THEN [w.laid.buttons[b] EXCEPT !.left = w.laid.buttons[b].right - Scaled(w.dpi, 180)]
        ELSE w.laid.buttons[b]]

-----------------------------------------------------------------------------
(* The wrapper of the modeless dialog.                                     *)

IsOpen(w) == w.prefs # None /\ w.alive = w.prefs

\* What the wrapper had before is destroyed, if it still is there.
ShowModeless(w, handle) == [w EXCEPT !.prefs = handle, !.alive = handle, !.modal = FALSE]

EndModeless(w) == IF w.prefs = None \/ w.modal THEN w
                  ELSE [w EXCEPT !.prefs = None, !.alive = None]

-----------------------------------------------------------------------------
(* The buttons of the window.                                              *)

\* The handler is then inside DialogBoxParam, or goes on if that fails.
LaunchAbout(w) == InvalidateRedraw([w EXCEPT !.stage = "about_opened", !.about = TRUE])

AboutReturns(w, result) ==
    InvalidateRedraw([w EXCEPT !.about = FALSE, !.result = result,
                               !.stage = IF result = "ok" THEN "about_ok" ELSE "about_cancel"])

\* Another click brings the dialog to the front. It may fail to be created.
LaunchPrefs(w) ==
    IF IsOpen(w) THEN {w}
    ELSE {w} \cup {InvalidateRedraw([ShowModeless(w, handle) EXCEPT
                       !.routed = handle, !.prefsOpen = TRUE, !.stage = "prefs_opened"]) :
                   handle \in Handles \ {w.prefs}}

CloseActive(w) ==
    InvalidateRedraw([(IF IsOpen(w) THEN EndModeless(w) ELSE w) EXCEPT
                          !.routed = None, !.prefsOpen = FALSE, !.stage = "prefs_closed"])

-----------------------------------------------------------------------------
(* Themes.                                                                 *)

ApplyTheme(w, mode) ==
    IF w.mode = mode THEN w ELSE Asking([w EXCEPT !.mode = mode, !.palette = mode])

\* The window gets the message, and then its handler is called.
BrokerSet(w, mode) ==
    IF w.broker = mode THEN w
    ELSE ApplyTheme(ApplyTheme([w EXCEPT !.broker = mode], mode), mode)

ThemeChanged == win' = ApplyTheme(Quiet(win), win.broker)

-----------------------------------------------------------------------------
(* The window. While the modal dialog runs it is disabled, and has no more *)
(* messages of the mouse than that of the pointer that left.               *)

\* set_initial_theme and create_main.
CreateMain(size, dpi, mode) ==
    Layout([size |-> size, dpi |-> dpi, laid |-> <<>>, broker |-> mode, mode |-> mode, palette |-> mode,
            hover |-> None, tracking |-> FALSE, refused |-> FALSE, capture |-> FALSE, about |-> FALSE, result |-> None,
            prefs |-> None, modal |-> FALSE, alive |-> None, routed |-> None, stage |-> "ready",
            payload |-> None, prefsOpen |-> FALSE, asked |-> FALSE])

ParseTheme == Modes

Init == \E size \in Sizes, dpi \in Scales, mode \in ParseTheme : win = CreateMain(size, dpi, mode)

\* Minimized and restored: the frame cannot be dragged.
Resize == \E size \in Sizes \cup {[w |-> 0, h |-> 0]} : win' = InvalidateRedraw([Quiet(win) EXCEPT !.size = size])

\* The size that the system suggests is not taken.
DpiChanged == \E dpi \in Scales \ {win.dpi} : win' = InvalidateRedraw([Quiet(win) EXCEPT !.dpi = dpi])

Aimed(w) == {Middle(Painted(w)[b]) : b \in DOMAIN Painted(w)} \cup {[x |-> -1, y |-> -1]}

\* The leave message is asked for once.  The flag is set although the request
\* may have failed, and then no message comes and none is asked for again.
Tracked(w, granted) ==
    IF w.tracking THEN w ELSE [w EXCEPT !.tracking = TRUE, !.refused = ~granted]

UpdateHover(w, p, granted) ==
    LET hit == HitTest(w, p)
        hovered == IF hit = w.hover THEN w ELSE Asking([w EXCEPT !.hover = hit])
    IN IF hit = None THEN hovered ELSE Tracked(hovered, granted)

MouseMove ==
    /\ ~win.about
    /\ \E p \in Aimed(win), granted \in {g \in BOOLEAN : win.tracking => g} :
           win' = UpdateHover(Quiet(win), p, granted)

MouseLeave ==
    /\ win.tracking /\ ~win.refused
    /\ LET w == [Quiet(win) EXCEPT !.tracking = FALSE]
       IN win' = IF w.hover = None THEN w ELSE Asking([w EXCEPT !.hover = None])

LButtonDown == ~win.about /\ win' = [Quiet(win) EXCEPT !.capture = TRUE]

LButtonUp ==
    /\ ~win.about
    /\ \E p \in Aimed(win) :
           LET w == [Quiet(win) EXCEPT !.capture = FALSE]
               hit == HitTest(w, p)
           IN CASE hit = "about" -> win' = LaunchAbout(w)
                [] hit = "prefs" -> win' \in LaunchPrefs(w)
                [] hit = "close" -> win' = CloseActive(w)
                [] hit = None -> win' = w
                [] OTHER -> win' = BrokerSet(w, hit)

-----------------------------------------------------------------------------
(* The dialogs.                                                            *)

\* OK, Cancel, the cross, or a dialog that could not be created.
AboutEnds == win.about /\ \E result \in {"ok", "cancel"} : win' = AboutReturns(Quiet(win), result)

\* DestroyWindow; the wrapper is not told.
Gone(w) == [w EXCEPT !.alive = None, !.routed = None]

\* Slip: the loop goes on giving its messages to the dialog.
PrefsSubmitted_routed(w, payload) ==
    [InvalidateRedraw([w EXCEPT !.payload = payload, !.stage = "prefs_submitted"]) EXCEPT !.alive = None]

\* The message to the window, and then the end of the dialog.
PrefsSubmitted(w, payload) ==
    Gone(InvalidateRedraw([w EXCEPT !.payload = payload, !.stage = "prefs_submitted"]))

PrefsOk == win.alive # None /\ \E payload \in Payloads : win' = PrefsSubmitted(Quiet(win), payload)

\* Cancel or the cross.
PrefsCancel == win.alive # None /\ win' = Gone(Quiet(win))

Next == \/ Resize \/ DpiChanged \/ ThemeChanged \/ MouseMove \/ MouseLeave \/ LButtonDown \/ LButtonUp
        \/ AboutEnds \/ PrefsOk \/ PrefsCancel

Spec == Init /\ [][Next]_win

-----------------------------------------------------------------------------
(* Properties.                                                             *)

\* What paint_surface shows.
PageFace(w) == <<w.palette, w.mode, w.laid, w.stage, w.payload, w.hover>>

\* Every button painted is hit at its middle, and answers as itself.
TargetsAreHit == \A b \in DOMAIN Painted(win) : HitTest(win, Middle(Painted(win)[b])) = b

\* A button that looks pointed at is still to be told that the pointer left,
\* unless the only request for that failed.
HoverEnds == win.hover # None => win.tracking \/ win.refused

\* The parts of the card are apart and inside it, with the link or without,
\* and the card is inside a window that has room for it.
LaidOut ==
    LET l == win.laid
        buttons == Painted(win)
        status == l.texts \cup {buttons[b] : b \in Modes}
        parts == {l.brand, l.title, l.desc, l.divider, l.status}
                 \cup {buttons[b] : b \in DOMAIN buttons \ Modes}
        Inside(r, s) == s.left <= r.left /\ s.top <= r.top /\ r.right <= s.right /\ r.bottom <= s.bottom
    IN /\ \A r, s \in parts : r # s => Apart(r, s)
       /\ \A r, s \in status : r # s => Apart(r, s)
       /\ \A r \in parts : Inside(r, l.card)
       /\ \A r \in status : Inside(r, l.status)
       /\ win.size.w >= Scaled(win.dpi, 560) /\ win.size.h >= Scaled(win.dpi, 480) =>
              Inside(l.card, Box(0, 0, win.size.w, win.size.h))

\* The window is painted in the theme of the process.
ThemesAgree == {win.mode, win.palette} = {win.broker}

\* The main loop gives the keys to the modeless dialog exactly while there is
\* one, and that one is then the one that the wrapper would close.
DialogIsRouted == /\ win.routed = win.alive
                  /\ win.alive # None => win.prefs = win.alive /\ ~win.modal /\ win.prefsOpen

\* The status card says that the modal dialog runs just while it does, unless
\* preferences were submitted meanwhile, and never calls closed or submitted
\* what is open.
StatusIsTrue == /\ win.stage = "about_opened" => win.about
                /\ win.about => win.stage \in {"about_opened", "prefs_submitted"}
                /\ win.alive # None => win.stage \in {"prefs_opened", "about_opened", "about_ok", "about_cancel"}
                /\ win.stage \in {"about_ok", "about_cancel"} => win.result = IF win.stage = "about_ok" THEN "ok" ELSE "cancel"

\* What changes on the card is repainted.
Repainted == PageFace(win) # PageFace(win') => win'.asked
=============================================================================
