------------------------------ MODULE Control ------------------------------
(***************************************************************************)
(* One control of the library with the window beneath it: the base class   *)
(* (Controls.cpp, HoverState.cpp) and the leaves that keep a state of      *)
(* their own in its hooks: Button with its hover cross-fade, CheckBox,     *)
(* RadioButton, and Splitter with its pulse while it is dragged.           *)
(*                                                                         *)
(* The object outlives its window: the parent may destroy it and the host  *)
(* may create another one.  A step is a call of the host, a message, or    *)
(* something the mouse, the keyboard or the window manager does.  What is  *)
(* painted is reduced to the inputs it is computed from, a record; a frame *)
(* of a cross-fade is its destination in the state Between.                *)
(***************************************************************************)
EXTENDS Naturals

CONSTANTS
    Kinds,          \* the classes to consider, of ButtonKinds \cup {"splitter"}
    Palettes,       \* what set_palette injects
    HighContrast,   \* those for which is_high_contrast holds
    Frames          \* bound: the frames of a cross-fade (120 ms, 16 ms each)

ButtonKinds == {"button", "check", "radio"}   \* BS_OWNERDRAW buttons
Toggles == {"check", "radio"}
Marks == {"off", "on", "mixed"}               \* BST_UNCHECKED, ...

ASSUME KindsAssumption == Kinds \subseteq ButtonKinds \cup {"splitter"}
ASSUME PaletteAssumption == HighContrast \subseteq Palettes
ASSUME FramesAssumption == Frames \in Nat \ {0}

VARIABLES
    kind,           \* the class of the object
    window,         \* hwnd_ is valid
    hover, tracking, pressed,       \* HoverState
    timer,          \* anim_timer_ # 0
    palette,        \* *palette_
    fade,           \* Button::hover_anim_
    lastHover,      \* Button::last_hover_
    secondary,      \* Button::style_.secondary
    mark,           \* CheckBox::checked_ and indeterminate_, RadioButton::checked_
    dragging,       \* Splitter::dragging_
    \* of the window manager
    enabled, focus, dirty,          \* the window's flags and its update region
    inside,         \* the mouse is over the window
    grip,           \* what holds the native button with the capture
    owed, posted,   \* TrackMouseEvent is pending; WM_MOUSELEAVE is queued
    due,            \* WM_TIMER is queued
    smooth,         \* SPI_GETCLIENTAREAANIMATION
    \* history
    shown,          \* what was painted last
    inherited,      \* the window was created over an object not at rest
    cut,            \* the capture was lost in a press
    unasked         \* something else changed than a paint was asked for

hoverVars == <<hover, tracking, pressed>>
fadeVars == <<fade, lastHover>>
mouseVars == <<inside, grip>>
leaveVars == <<owed, posted>>
hostVars == <<palette, secondary, dragging, enabled, smooth, unasked>>
timerVars == <<timer, due>>
lifeVars == <<kind, window, inherited>>
vars == <<lifeVars, hoverVars, timerVars, fadeVars, mark, hostVars,
          focus, dirty, mouseVars, leaveVars, shown, cut>>

\* The endpoints are read only while the animation is active.
NoFade == [active |-> FALSE, to |-> "rest",
           palette |-> CHOOSE p \in Palettes : TRUE, left |-> 0]
Pushed == grip = "space" \/ (grip = "mouse" /\ inside)      \* ODS_SELECTED

(***************************************************************************)
(* What a paint shows.                                                     *)
(***************************************************************************)
\* Control::visual_state, of which Button uses less
Visual ==
    IF kind = "splitter" THEN IF dragging THEN "drag" ELSE "rest"
    ELSE IF ~enabled THEN "disabled"
    ELSE IF kind = "button" /\ Pushed THEN "pressed"
    ELSE IF kind \in Toggles /\ pressed THEN "pressed"
    ELSE IF kind \in Toggles /\ focus THEN "focused"
    ELSE IF hover THEN "hover" ELSE "rest"

Look == [palette |-> palette, state |-> Visual, mark |-> mark]
Nothing == [Look EXCEPT !.state = "nothing"]

CanAnimate ==
    /\ palette \notin HighContrast
    /\ enabled
    /\ ~Pushed
    /\ ~secondary
    /\ smooth

\* ColorAnimation::sample ends the animation when its time is over
Sampled(f) == IF f.left = 0 THEN NoFade ELSE f

Begun == [active |-> TRUE, to |-> Visual, palette |-> palette, left |-> Frames]

\* the animation after the transition is detected in on_paint
Turned ==
    IF hover = lastHover THEN fade
    ELSE IF CanAnimate THEN Begun ELSE NoFade

PaintButton ==
    /\ lastHover' = hover
    /\ IF CanAnimate /\ Turned.active
       THEN /\ fade' = Sampled(Turned)
            /\ shown' = [Look EXCEPT !.palette = Turned.palette,
                            !.state = IF fade'.active THEN "between" ELSE Turned.to]
       ELSE /\ fade' = NoFade
            /\ shown' = Look
    /\ timer' = (timer \/ (hover # lastHover /\ CanAnimate))

Paint ==
    /\ window /\ dirty
    /\ dirty' = FALSE
    /\ unasked' = FALSE
    /\ cut' = (cut /\ pressed)
    /\ \/ kind = "button" /\ PaintButton
       \/ kind # "button" /\ shown' = Look /\ UNCHANGED <<fadeVars, timer>>
    /\ UNCHANGED <<lifeVars, hoverVars, due, mark, palette, secondary,
                   dragging, enabled, smooth, focus, mouseVars, leaveVars>>

(***************************************************************************)
(* Hover.                                                                  *)
(***************************************************************************)
\* OnMouseMove, slip: no WM_MOUSELEAVE is posted when TrackMouseEvent fails
OnMouseMove_unposted(ok) ==
    IF hover THEN UNCHANGED <<hover, tracking, leaveVars>>
    ELSE /\ hover' = TRUE
         /\ tracking' = (tracking \/ ok)
         /\ owed' = (owed \/ (~tracking /\ ok))
         /\ posted' = posted

\* HoverState::on_mouse_move; ok is what TrackMouseEvent returns
OnMouseMove(ok) ==
    IF hover THEN UNCHANGED <<hover, tracking, leaveVars>>
    ELSE /\ hover' = TRUE
         /\ tracking' = (tracking \/ ok)
         /\ owed' = (owed \/ (~tracking /\ ok))
         /\ posted' = (posted \/ (~tracking /\ ~ok))

\* WM_MOUSEMOVE, over the window or with the capture outside of it
MouseMove(here, ok) ==
    /\ window /\ enabled /\ kind \in ButtonKinds
    /\ here \/ grip # "none"
    /\ inside' = here
    /\ OnMouseMove(ok)
    /\ dirty' = (dirty \/ ~hover \/ (grip = "mouse" /\ inside # here))
    /\ UNCHANGED <<lifeVars, pressed, timerVars, fadeVars, mark, hostVars,
                   focus, grip, shown, cut>>

\* The mouse goes where the window does not hear of it.
MouseUnseen ==
    /\ grip # "mouse"
    /\ inside \/ (window /\ ~enabled)
    /\ inside' = ~inside
    /\ UNCHANGED <<lifeVars, hoverVars, timerVars, fadeVars, mark, hostVars,
                   focus, dirty, grip, leaveVars, shown, cut>>

\* The window manager posts the WM_MOUSELEAVE that it owes.
LeavePosted ==
    /\ owed
    /\ ~inside \/ ~enabled
    /\ owed' = FALSE
    /\ posted' = TRUE
    /\ UNCHANGED <<lifeVars, hoverVars, timerVars, fadeVars, mark, hostVars,
                   focus, dirty, mouseVars, shown, cut>>

MouseLeave ==
    /\ posted
    /\ posted' = FALSE
    /\ hover' = FALSE
    /\ tracking' = FALSE
    /\ dirty' = TRUE
    /\ UNCHANGED <<lifeVars, pressed, timerVars, fadeVars, mark, hostVars,
                   focus, mouseVars, owed, shown, cut>>

(***************************************************************************)
(* Presses and toggles.                                                    *)
(***************************************************************************)
\* on_subclass_lbutton_up and on_subclass_key_down of the two toggles
Flipped ==
    IF kind = "check" THEN IF mark = "on" THEN "off" ELSE "on"
    ELSE IF kind = "radio" THEN "on" ELSE mark

\* The second press of a double click, WM_LBUTTONDBLCLK, changes nothing: the
\* base class does not handle it and an owner-drawn button does not push.
LButtonDown ==
    /\ window /\ enabled /\ inside /\ grip = "none"
    /\ kind \in ButtonKinds
    /\ pressed' = TRUE
    /\ grip' = "mouse"
    /\ focus' = TRUE
    /\ dirty' = TRUE
    /\ UNCHANGED <<lifeVars, hover, tracking, timerVars, fadeVars, mark,
                   hostVars, inside, leaveVars, shown, cut>>

\* HoverState::on_lbutton_up
OnLButtonUp == pressed' = FALSE

\* With the capture; or here for a press made elsewhere, or for the second
\* press of a double click.  A radio button that was on and is let go outside
\* is not painted again.
LButtonUp ==
    /\ window /\ kind \in ButtonKinds
    /\ grip = "mouse" \/ (inside /\ enabled)
    /\ OnLButtonUp
    /\ grip' = IF grip = "mouse" THEN "none" ELSE grip
    /\ mark' = Flipped
    /\ dirty' = (dirty \/ mark' # mark \/ (grip = "mouse" /\ inside))
    /\ unasked' = (unasked \/ (pressed /\ ~dirty'))
    /\ UNCHANGED <<lifeVars, hover, tracking, timerVars, fadeVars, palette,
                   secondary, dragging, enabled, smooth, focus, inside,
                   leaveVars, shown, cut>>

\* WM_KEYDOWN of the space bar, and its automatic repeat
SpaceDown ==
    /\ window /\ enabled /\ focus /\ grip # "mouse"
    /\ kind \in ButtonKinds
    /\ mark' = Flipped
    /\ grip' = "space"
    /\ dirty' = (dirty \/ mark' # mark \/ grip # "space")
    /\ UNCHANGED <<lifeVars, hoverVars, timerVars, fadeVars, hostVars, focus,
                   inside, leaveVars, shown, cut>>

SpaceUp ==
    /\ grip = "space"
    /\ grip' = "none"
    /\ dirty' = TRUE
    /\ UNCHANGED <<lifeVars, hoverVars, timerVars, fadeVars, mark, hostVars,
                   focus, inside, leaveVars, shown, cut>>

\* The native button lets go; the base class does not hear of it.
LetGo == grip' = "none" /\ cut' = (cut \/ (pressed /\ grip = "mouse"))

CaptureLost ==
    /\ grip # "none"
    /\ LetGo
    /\ dirty' = TRUE
    /\ UNCHANGED <<lifeVars, hoverVars, timerVars, fadeVars, mark, hostVars,
                   focus, inside, leaveVars, shown>>

FocusChange ==
    /\ window /\ kind \in ButtonKinds
    /\ focus \/ enabled
    /\ focus' = ~focus
    /\ LetGo
    /\ dirty' = TRUE
    /\ UNCHANGED <<lifeVars, hoverVars, timerVars, fadeVars, mark, hostVars,
                   inside, leaveVars, shown>>

(***************************************************************************)
(* The animation timer.                                                    *)
(***************************************************************************)
TimePasses ==
    /\ fade.active /\ fade.left > 0
    /\ fade' = [fade EXCEPT !.left = @ - 1]
    /\ UNCHANGED <<lifeVars, hoverVars, timerVars, lastHover, mark, hostVars,
                   focus, dirty, mouseVars, leaveVars, shown, cut>>

TimerElapses ==
    /\ timer /\ ~due
    /\ due' = TRUE
    /\ UNCHANGED <<lifeVars, hoverVars, timer, fadeVars, mark, hostVars,
                   focus, dirty, mouseVars, leaveVars, shown, cut>>

\* TickButton, slip: one frame only
TickButton_once ==
    /\ fade' = IF fade.active THEN Sampled(fade) ELSE fade
    /\ timer' = FALSE
    /\ dirty' = (dirty \/ fade.active)

\* TickButton, slip: the timer is left to run
TickButton_forever ==
    /\ fade' = IF fade.active THEN Sampled(fade) ELSE fade
    /\ timer' = timer
    /\ dirty' = (dirty \/ fade.active)

\* on_animation_tick; the timer may have been killed since the message was
\* queued
TickButton ==
    /\ fade' = IF fade.active THEN Sampled(fade) ELSE fade
    /\ timer' = (timer /\ fade'.active)
    /\ dirty' = (dirty \/ fade.active)

TickSplitter ==
    /\ timer' = (timer /\ dragging)
    /\ dirty' = (dirty \/ dragging)
    /\ UNCHANGED fade

AnimationTick ==
    /\ due
    /\ due' = FALSE
    /\ \/ kind = "button" /\ TickButton
       \/ kind = "splitter" /\ TickSplitter
    /\ UNCHANGED <<lifeVars, hoverVars, lastHover, mark, hostVars, focus,
                   mouseVars, leaveVars, shown, cut>>

(***************************************************************************)
(* The host.                                                               *)
(***************************************************************************)
\* The window may appear under the mouse.
Create(under) ==
    /\ ~window
    /\ window' = TRUE
    /\ inherited' = (hover \/ pressed \/ fade.active)
    /\ enabled' = TRUE
    /\ inside' = under
    /\ dirty' = TRUE
    /\ cut' = FALSE
    /\ shown' = Nothing
    /\ UNCHANGED <<kind, hoverVars, timerVars, fadeVars, mark, palette,
                   secondary, dragging, smooth, unasked, focus, grip,
                   leaveVars>>

\* The window goes, with its queue; detach_destroyed_hwnd
Destroy ==
    /\ window
    /\ window' = FALSE
    /\ timer' = FALSE
    /\ due' = FALSE
    /\ owed' = FALSE
    /\ posted' = FALSE
    /\ dirty' = FALSE
    /\ focus' = FALSE
    /\ inside' = FALSE
    /\ grip' = "none"
    /\ UNCHANGED <<kind, inherited, hoverVars, fadeVars, mark, hostVars,
                   shown, cut>>

\* OnPaletteChanged, slip: the fade goes on in the old colours
OnPaletteChanged_kept == UNCHANGED fade

\* A leaf other than Button has no animation to cancel.
OnPaletteChanged == fade' = IF kind = "button" THEN NoFade ELSE fade

\* set_palette
SetPalette(p) ==
    /\ palette' = p
    /\ IF window THEN OnPaletteChanged ELSE UNCHANGED fade
    /\ dirty' = window
    /\ UNCHANGED <<lifeVars, hoverVars, timerVars, lastHover, mark, secondary,
                   dragging, enabled, smooth, unasked, focus, mouseVars,
                   leaveVars, shown, cut>>

\* Button::set_style does not ask for a paint.
SetStyle ==
    /\ kind = "button"
    /\ secondary' = ~secondary
    /\ unasked' = TRUE
    /\ UNCHANGED <<lifeVars, hoverVars, timerVars, fadeVars, mark, palette,
                   dragging, enabled, smooth, focus, dirty, mouseVars,
                   leaveVars, shown, cut>>

\* set_checked, set_indeterminate and BM_SETCHECK
SetMark(m) ==
    /\ kind = "check" \/ (kind = "radio" /\ m # "mixed")
    /\ mark' = m
    /\ dirty' = (dirty \/ (window /\ mark # m))
    /\ UNCHANGED <<lifeVars, hoverVars, timerVars, fadeVars, hostVars,
                   focus, mouseVars, leaveVars, shown, cut>>

\* set_tristate(false).  Beyond this tristate_ only decides which mark
\* BM_SETCHECK sets, which SetMark leaves open.
SetTwoState ==
    /\ kind = "check" /\ mark = "mixed"
    /\ mark' = "off"
    /\ dirty' = window
    /\ UNCHANGED <<lifeVars, hoverVars, timerVars, fadeVars, hostVars, focus,
                   mouseVars, leaveVars, shown, cut>>

SetDragging(on) ==
    /\ kind = "splitter" /\ dragging # on
    /\ dragging' = on
    /\ timer' = (on /\ palette \notin HighContrast /\ smooth /\ window)
    /\ dirty' = window
    /\ UNCHANGED <<lifeVars, hoverVars, due, fadeVars, mark, palette,
                   secondary, enabled, smooth, unasked, focus, mouseVars,
                   leaveVars, shown, cut>>

\* EnableWindow sends WM_CANCELMODE to a window that it disables.
Enable ==
    /\ window /\ kind \in ButtonKinds
    /\ enabled' = ~enabled
    /\ LetGo
    /\ focus' = (focus /\ ~enabled)
    /\ dirty' = TRUE
    /\ UNCHANGED <<lifeVars, hoverVars, timerVars, fadeVars, mark, palette,
                   secondary, dragging, smooth, unasked, inside,
                   leaveVars, shown>>

\* read by Button and Splitter only
SystemSetting ==
    /\ kind \notin Toggles
    /\ smooth' = ~smooth
    /\ UNCHANGED <<lifeVars, hoverVars, timerVars, fadeVars, mark, palette,
                   secondary, dragging, enabled, unasked, focus, dirty,
                   mouseVars, leaveVars, shown, cut>>

Init ==
    /\ kind \in Kinds
    /\ palette \in Palettes
    /\ smooth = TRUE
    /\ window = FALSE /\ enabled = TRUE /\ focus = FALSE /\ dirty = FALSE
    /\ hover = FALSE /\ tracking = FALSE /\ pressed = FALSE
    /\ timer = FALSE /\ due = FALSE /\ owed = FALSE /\ posted = FALSE
    /\ inside = FALSE /\ grip = "none"
    /\ secondary = FALSE /\ dragging = FALSE /\ lastHover = FALSE /\ fade = NoFade
    /\ mark = "off"
    /\ inherited = FALSE /\ cut = FALSE /\ unasked = FALSE /\ shown = Nothing

UserStep ==
    \/ \E here, ok \in BOOLEAN : MouseMove(here, ok)
    \/ MouseUnseen
    \/ LButtonDown \/ LButtonUp
    \/ SpaceDown \/ SpaceUp
    \/ CaptureLost \/ FocusChange

HostStep ==
    \/ \E under \in BOOLEAN : Create(under)
    \/ Destroy
    \/ \E p \in Palettes : SetPalette(p)
    \/ SetStyle
    \/ \E m \in Marks : SetMark(m)
    \/ SetTwoState
    \/ \E on \in BOOLEAN : SetDragging(on)
    \/ Enable \/ SystemSetting

\* What the message loop and the clock do of themselves
LoopStep ==
    LeavePosted \/ MouseLeave \/ TimePasses \/ TimerElapses \/ AnimationTick \/ Paint

Next == UserStep \/ HostStep \/ LoopStep

\* Queued messages are handled and the clock goes on.  A step named together
\* with another cannot happen twice without it.
Fairness ==
    /\ WF_vars(LeavePosted \/ MouseLeave)
    /\ WF_vars(TimePasses)
    /\ WF_vars(TimerElapses \/ AnimationTick)
    /\ WF_vars(Paint)

Spec == Init /\ [][Next]_vars
FairSpec == Spec /\ Fairness

(***************************************************************************)
(* Properties.                                                             *)
(***************************************************************************)
Animations ==
    [active : BOOLEAN, to : {"rest", "hover"}, palette : Palettes, left : 0..Frames]

States == {"rest", "hover", "pressed", "disabled", "focused", "drag", "between",
           "nothing"}

Looks == [palette : Palettes, state : States, mark : Marks]

DataOK ==
    /\ kind \in Kinds
    /\ palette \in Palettes
    /\ mark \in Marks
    /\ fade \in Animations
    /\ grip \in {"none", "mouse", "space"}
    /\ shown \in Looks

SwitchesOK ==
    /\ window \in BOOLEAN /\ enabled \in BOOLEAN /\ focus \in BOOLEAN
    /\ dirty \in BOOLEAN /\ inside \in BOOLEAN
    /\ hover \in BOOLEAN /\ tracking \in BOOLEAN /\ pressed \in BOOLEAN
    /\ timer \in BOOLEAN /\ due \in BOOLEAN /\ owed \in BOOLEAN
    /\ posted \in BOOLEAN /\ lastHover \in BOOLEAN /\ secondary \in BOOLEAN
    /\ dragging \in BOOLEAN /\ smooth \in BOOLEAN /\ inherited \in BOOLEAN
    /\ cut \in BOOLEAN /\ unasked \in BOOLEAN

TypeOK == DataOK /\ SwitchesOK

(* A control that shows hover will be told that the mouse left it: a        *)
(* WM_MOUSELEAVE is on order or in the queue, whether or not                *)
(* TrackMouseEvent worked, with the capture and without (HoverState.cpp).   *)
HoverEnds == window /\ hover /\ ~inherited => owed \/ posted

(* A cross-fade never stands still: while one is active the timer that      *)
(* repaints it runs; and no timer runs without a window (Button.cpp,        *)
(* Controls.cpp:91).                                                        *)
FadeIsDriven ==
    /\ window /\ fade.active /\ ~inherited => timer
    /\ timer => window

(* The base class thinks the control pressed only while the native button   *)
(* holds the capture for the mouse, unless the capture was taken away.      *)
PressEnds == pressed /\ window => grip = "mouse" \/ cut \/ inherited

(* Hover and press end with the mouse that caused them.                     *)
TransientsEnd == HoverEnds /\ PressEnds

(* When no paint is requested and no animation runs, what is on the screen  *)
(* is what the present state asks for: no change forgets to invalidate, no  *)
(* fade ends on a colour that is out of date.                               *)
ShownIsCurrent ==
    window /\ ~dirty /\ ~timer /\ ~inherited /\ ~cut /\ ~unasked
        => shown = Look

AtRest ==
    /\ timer \/ dirty => dragging
    /\ window /\ hover /\ ~inherited => inside

(* A control that is left alone comes to rest: its animation timer stops,   *)
(* unless a splitter is being dragged, nothing is left to paint, and it     *)
(* shows hover only when the mouse is over it.                              *)
ComesToRest == <>[]AtRest \/ []<><<UserStep \/ HostStep>>_vars

=============================================================================
