------------------------------ MODULE NavTiles -----------------------------
(***************************************************************************)
(* The tiles of the playground (samples/NativeFrameUIControlsPlayground):  *)
(* five child windows that the keyboard goes through, one of them disabled.*)
(* A tile is pressed by the mouse or by a key and acts when it is let go.  *)
(***************************************************************************)
EXTENDS Integers, FiniteSets

CONSTANTS MostActs \* The bound on the activations counted.

Tiles == 0..4
Locked == 3
None == -1
StatusBar == 5

VARIABLE win
(***************************************************************************)
(* pointer: the tile under the mouse; capture: the tile that has it;       *)
(* focus: the tile with the focus, None if something else has it.          *)
(* hover, tracking, pressed: of HoverState and NavTile, as sets of tiles.  *)
(* told, acts: focused_tile_ and the sum of tile_activations_.             *)
(* status: what the status bar says of them.                               *)
(* asked: what the last handler asked to repaint.                          *)
(***************************************************************************)
Quiet(w) == [w EXCEPT !.asked = {}]
Asking(w, t) == [w EXCEPT !.asked = @ \cup {t}]

RefreshStatus(w) == Asking([w EXCEPT !.status = [focus |-> w.told, acts |-> w.acts]], StatusBar)

-----------------------------------------------------------------------------
(* The focus.                                                              *)

\* Slip: the tile that loses the focus stays pressed.
KillFocus_pressed(w) == IF w.focus = None THEN w ELSE Asking(w, w.focus)

KillFocus(w) ==
    IF w.focus = None THEN w
    ELSE Asking([w EXCEPT !.pressed = @ \ {w.focus}], w.focus)

\* on_tile_focus.
SetFocus(w, t) ==
    IF w.focus = t THEN w
    ELSE Asking(RefreshStatus([KillFocus(w) EXCEPT !.focus = t, !.told = t]), t)

\* on_tile_activated.
Activated(w) == RefreshStatus([w EXCEPT !.acts = @ + 1])

\* The next tile that is not disabled; % in C++ keeps the sign.
MoveTileFocus(w, delta) ==
    LET Next(step) == (w.focus + delta * step + 5) % 5
        first == CHOOSE step \in 1..5 : /\ Next(step) # Locked
                                        /\ \A earlier \in 1..(step - 1) : Next(earlier) = Locked
    IN SetFocus(w, Next(first))

-----------------------------------------------------------------------------
(* tile_proc.                                                              *)

Init == win = [pointer |-> None, capture |-> None, focus |-> None, hover |-> {}, tracking |-> {},
               pressed |-> {}, told |-> None, acts |-> 0,
               status |-> [focus |-> None, acts |-> 0], asked |-> {}]

\* Who gets the messages of the mouse: a disabled window does not.
Target(w) == IF w.capture # None THEN w.capture
             ELSE IF w.pointer = Locked THEN None ELSE w.pointer

MouseMove ==
    \E t \in Tiles \cup {None} :
        LET w == [Quiet(win) EXCEPT !.pointer = t]
        IN win' = IF Target(w) = None THEN w
                  ELSE Asking([w EXCEPT !.hover = @ \cup {Target(w)},
                                        !.tracking = @ \cup {Target(w)}], Target(w))

\* Posted to a tile that asked for it once the pointer is elsewhere.
MouseLeave ==
    \E t \in win.tracking \ {win.pointer} :
        win' = Asking([Quiet(win) EXCEPT !.hover = @ \ {t}, !.tracking = @ \ {t}], t)

LButtonDown ==
    LET t == Target(win)
    IN /\ t # None
       /\ win' = Asking([SetFocus([Quiet(win) EXCEPT !.pressed = @ \cup {t}], t)
                            EXCEPT !.capture = t], t)

\* Wherever the pointer is.
LButtonUp ==
    LET t == Target(win)
        w == [Quiet(win) EXCEPT !.pressed = @ \ {t}, !.capture = None]
    IN /\ t # None /\ win.acts < MostActs
       /\ win' = Asking(IF t \in win.pressed THEN Activated(w) ELSE w, t)

\* Tab and the arrows.
MoveKey ==
    \E delta \in {-1, 1} : win.focus # None /\ win' = MoveTileFocus(Quiet(win), delta)

\* Space or Enter, and their repeats.
PressKey ==
    /\ win.focus # None
    /\ win' = Asking([Quiet(win) EXCEPT !.pressed = @ \cup {win.focus}], win.focus)

ReleaseKey ==
    /\ win.focus \in win.pressed /\ win.acts < MostActs
    /\ win' = Asking(Activated([Quiet(win) EXCEPT !.pressed = @ \ {win.focus}]), win.focus)

\* A click on another control, or another window: the capture is lost.
FocusElsewhere ==
    /\ win.focus # None
    /\ win' = [KillFocus(Quiet(win)) EXCEPT !.focus = None, !.capture = None]

Next == MouseMove \/ MouseLeave \/ LButtonDown \/ LButtonUp \/ MoveKey \/ PressKey
        \/ ReleaseKey \/ FocusElsewhere

Spec == Init /\ [][Next]_win

-----------------------------------------------------------------------------
(* Properties.                                                             *)

\* paint_tile; a pressed tile shows neither the focus nor the pointer.
TileFace(w, t) == IF t \in w.pressed THEN <<TRUE, FALSE, FALSE>>
                  ELSE <<FALSE, t = w.focus, t \in w.hover>>

\* A tile is pressed only while it has the focus, so that no key or button let
\* go over another acts on it, and the disabled one never has it.
PressIsHeld == /\ win.pressed \subseteq {win.focus}
               /\ Locked \notin win.pressed \cup win.hover \cup {win.focus, win.capture}

\* A tile that looks pointed at is still to be told that the pointer left.
HoverEnds == win.hover \subseteq win.tracking

\* The status bar counts every activation and names the last tile that had
\* the focus.
StatusIsTrue == /\ win.status = [focus |-> win.told, acts |-> win.acts]
                /\ win.focus \in {None, win.told}

\* What changes on a tile, or in the status bar, is repainted.
Repainted == /\ \A t \in Tiles : TileFace(win, t) # TileFace(win', t) => t \in win'.asked
             /\ win.status # win'.status => StatusBar \in win'.asked
=============================================================================
