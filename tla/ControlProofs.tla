--------------------------- MODULE ControlProofs ---------------------------
(***************************************************************************)
(* Proofs about Control, for all palettes and any length of a fade.        *)
(***************************************************************************)
EXTENDS Control, TLAPS

-----------------------------------------------------------------------------
(* The invariant *)

\* Nothing of a window survives it.
NothingSurvives ==
    ~window => ~(timer \/ due \/ owed \/ posted) /\ grip = "none"

\* The window manager is asked for WM_MOUSELEAVE only while hover is shown, so
\* the next hover asks again.
TrackingIsHover == tracking => hover

\* A fade leads to what would be painted without it.
FadeLeadsHome ==
    window /\ fade.active /\ ~inherited
        => /\ kind = "button"
           /\ fade.palette = palette
           /\ fade.to = IF lastHover THEN "hover" ELSE "rest"

\* As ShownIsCurrent, for any time at which no fade is under way.
PaintIsCurrent ==
    window /\ ~dirty /\ ~fade.active /\ ~inherited /\ ~cut /\ ~unasked
        => shown = Look

ControlInv ==
    /\ DataOK
    /\ NothingSurvives
    /\ TrackingIsHover
    /\ HoverEnds
    /\ FadeIsDriven
    /\ FadeLeadsHome
    /\ PressEnds
    /\ PaintIsCurrent

-----------------------------------------------------------------------------
(* Lemmas *)

\* The cleared animation is an animation, and not under way.
LEMMA NoFadeType ==
  ASSUME DataOK
  PROVE  NoFade \in Animations /\ ~NoFade.active
<1>1. (CHOOSE p \in Palettes : TRUE) \in Palettes
  BY DEF DataOK
<1>2. 0 \in 0..Frames
  BY FramesAssumption
<1> QED BY <1>1, <1>2 DEF NoFade, Animations

\* What is painted depends on these variables only.
LEMMA LookFrame ==
  ASSUME UNCHANGED <<kind, palette, mark, enabled, focus, dragging>>,
         hover' <=> hover, pressed' <=> pressed, Pushed' <=> Pushed
  PROVE  Look' = Look
BY DEF Look, Visual

\* A button that may animate is drawn at rest or hovered.
LEMMA CanAnimateLook ==
  ASSUME CanAnimate, kind = "button"
  PROVE  Visual = IF hover THEN "hover" ELSE "rest"
BY DEF CanAnimate, Visual, Toggles

\* What is painted without a fade is one of the finished states.
LEMMA LookType ==
  ASSUME DataOK
  PROVE  Visual \in States \ {"between", "nothing"} /\ Look \in Looks
BY DEF DataOK, Look, Looks, Visual, States

\* The last frame of a fade that leads home is the plain picture.
LEMMA LookKept ==
  ASSUME DataOK
  PROVE  [Look EXCEPT !.palette = palette, !.state = Visual] = Look
<1>1. ASSUME NEW look \in Looks
      PROVE  [look EXCEPT !.palette = look.palette, !.state = look.state] = look
  BY DEF Looks
<1>2. Look.palette = palette /\ Look.state = Visual
  BY DEF Look
<1> QED BY <1>1, <1>2, LookType

-----------------------------------------------------------------------------
(* Every step keeps the invariant, one part of it after the other. *)

(* Every step leaves each variable in its range.                           *)
THEOREM DataStep == ControlInv /\ [Next]_vars => DataOK'
<1> SUFFICES ASSUME ControlInv, [Next]_vars PROVE DataOK'
  OBVIOUS
<1> DataOK
  BY DEF ControlInv
<1> USE DEF hoverVars, fadeVars, mouseVars, leaveVars, hostVars, timerVars, lifeVars
<1> USE DEF DataOK
<1>1. ASSUME NEW here \in BOOLEAN, NEW ok \in BOOLEAN, MouseMove(here, ok) PROVE DataOK'
  BY <1>1
  DEF MouseMove, OnMouseMove
<1>2. CASE MouseUnseen
  BY <1>2
  DEF MouseUnseen
<1>3. CASE LButtonDown
  BY <1>3
  DEF LButtonDown
<1>4. CASE LButtonUp
  BY <1>4
  DEF LButtonUp, OnLButtonUp, Flipped, Marks
<1>5. CASE SpaceDown
  BY <1>5
  DEF SpaceDown, Flipped, Marks
<1>6. CASE SpaceUp
  BY <1>6
  DEF SpaceUp
<1>7. CASE CaptureLost
  BY <1>7
  DEF CaptureLost, LetGo
<1>8. CASE FocusChange
  BY <1>8
  DEF FocusChange, LetGo
<1>9. ASSUME NEW under \in BOOLEAN, Create(under) PROVE DataOK'
  BY <1>9
  DEF Create, Nothing, Look, Looks, States
<1>10. CASE Destroy
  BY <1>10
  DEF Destroy
<1>11. ASSUME NEW p \in Palettes, SetPalette(p) PROVE DataOK'
  BY <1>11, NoFadeType
  DEF SetPalette, OnPaletteChanged
<1>12. CASE SetStyle
  BY <1>12
  DEF SetStyle
<1>13. ASSUME NEW m \in Marks, SetMark(m) PROVE DataOK'
  BY <1>13
  DEF SetMark
<1>14. CASE SetTwoState
  BY <1>14
  DEF SetTwoState, Marks
<1>15. ASSUME NEW on \in BOOLEAN, SetDragging(on) PROVE DataOK'
  BY <1>15
  DEF SetDragging
<1>16. CASE Enable
  BY <1>16
  DEF Enable, LetGo
<1>17. CASE SystemSetting
  BY <1>17
  DEF SystemSetting
<1>18. CASE LeavePosted
  BY <1>18
  DEF LeavePosted
<1>19. CASE MouseLeave
  BY <1>19
  DEF MouseLeave
<1>20. CASE TimePasses
  <2>1. fade.left - 1 \in 0..Frames
    BY <1>20, FramesAssumption DEF TimePasses, Animations
  <2>2. [fade EXCEPT !.left = @ - 1] \in Animations
    BY <2>1 DEF Animations
  <2> QED BY <1>20, <2>2 DEF TimePasses
<1>21. CASE TimerElapses
  BY <1>21
  DEF TimerElapses
<1>22. CASE AnimationTick
  <2>1. CASE kind = "button"
    BY <1>22, <2>1, NoFadeType DEF AnimationTick, TickButton, Sampled
  <2>2. CASE kind = "splitter"
    BY <1>22, <2>2 DEF AnimationTick, TickSplitter
  <2> QED BY <1>22, <2>1, <2>2 DEF AnimationTick
<1>23. CASE Paint
  <2>1. CASE kind # "button"
    BY <1>23, <2>1, LookType DEF Paint
  <2>2. CASE kind = "button"
    <3>1. CanAnimate => Begun \in Animations
      BY <2>2, CanAnimateLook, FramesAssumption DEF Begun, Animations
    <3>2. Turned \in Animations
      BY <3>1, NoFadeType DEF Turned
    <3>3. fade' \in Animations
      BY <1>23, <2>2, <3>2, NoFadeType DEF Paint, PaintButton, Sampled
    <3>4. shown' \in Looks
      BY <1>23, <2>2, <3>2, LookType DEF Paint, PaintButton, Looks, Look, States, Animations
    <3> QED BY <1>23, <2>2, <3>3, <3>4 DEF Paint
  <2> QED BY <2>1, <2>2
<1>24. CASE UNCHANGED vars
  BY <1>24 DEF vars
<1> QED BY <1>1, <1>2, <1>3, <1>4, <1>5, <1>6, <1>7, <1>8, <1>9, <1>10, <1>11,
         <1>12, <1>13, <1>14, <1>15, <1>16, <1>17, <1>18, <1>19, <1>20, <1>21,
         <1>22, <1>23, <1>24
  DEF Next, UserStep, HostStep, LoopStep

Flags ==
    /\ NothingSurvives /\ TrackingIsHover /\ HoverEnds
    /\ FadeIsDriven /\ PressEnds /\ FadeLeadsHome

(* Every step of the mouse, the host or the loop keeps hover, timer, press  *)
(* and fade in their relation to the window (HoverState.cpp, Button.cpp).   *)
THEOREM FlagsStep == ControlInv /\ [Next]_vars => Flags'
<1> SUFFICES ASSUME ControlInv, [Next]_vars PROVE Flags'
  OBVIOUS
<1> USE NoFadeType, FramesAssumption
<1> USE DEF hoverVars, fadeVars, mouseVars, leaveVars, hostVars, timerVars, lifeVars, ControlInv
<1> USE DEF DataOK, Flags, NothingSurvives, TrackingIsHover, HoverEnds,
           FadeIsDriven, PressEnds, FadeLeadsHome
<1>1. ASSUME NEW here \in BOOLEAN, NEW ok \in BOOLEAN, MouseMove(here, ok) PROVE Flags'
  BY <1>1
  DEF MouseMove, OnMouseMove
<1>2. CASE MouseUnseen
  BY <1>2
  DEF MouseUnseen
<1>3. CASE LButtonDown
  BY <1>3
  DEF LButtonDown
<1>4. CASE LButtonUp
  BY <1>4
  DEF LButtonUp, OnLButtonUp
<1>5. CASE SpaceDown
  BY <1>5
  DEF SpaceDown
<1>6. CASE SpaceUp
  BY <1>6
  DEF SpaceUp
<1>7. CASE CaptureLost
  BY <1>7
  DEF CaptureLost, LetGo
<1>8. CASE FocusChange
  BY <1>8
  DEF FocusChange, LetGo
<1>9. ASSUME NEW under \in BOOLEAN, Create(under) PROVE Flags'
  BY <1>9
  DEF Create
<1>10. CASE Destroy
  BY <1>10
  DEF Destroy
<1>11. ASSUME NEW p \in Palettes, SetPalette(p) PROVE Flags'
  BY <1>11
  DEF SetPalette, OnPaletteChanged, ButtonKinds
<1>12. CASE SetStyle
  BY <1>12
  DEF SetStyle
<1>13. ASSUME NEW m \in Marks, SetMark(m) PROVE Flags'
  BY <1>13
  DEF SetMark
<1>14. CASE SetTwoState
  BY <1>14
  DEF SetTwoState
<1>15. ASSUME NEW on \in BOOLEAN, SetDragging(on) PROVE Flags'
  BY <1>15
  DEF SetDragging
<1>16. CASE Enable
  BY <1>16
  DEF Enable, LetGo
<1>17. CASE SystemSetting
  BY <1>17
  DEF SystemSetting
<1>18. CASE LeavePosted
  BY <1>18
  DEF LeavePosted
<1>19. CASE MouseLeave
  BY <1>19
  DEF MouseLeave
<1>20. CASE TimePasses
  BY <1>20
  DEF TimePasses
<1>21. CASE TimerElapses
  BY <1>21
  DEF TimerElapses
<1>22. CASE AnimationTick
  <2>1. CASE kind = "button"
    BY <1>22, <2>1, NoFadeType DEF AnimationTick, TickButton, Sampled
  <2>2. CASE kind = "splitter"
    BY <1>22, <2>2 DEF AnimationTick, TickSplitter
  <2> QED BY <1>22, <2>1, <2>2 DEF AnimationTick
<1>23. CASE Paint
  <2>1. CASE kind # "button"
    BY <1>23, <2>1 DEF Paint
  <2>2. CASE kind = "button"
    <3>1. CASE ~(CanAnimate /\ Turned.active)
      BY <1>23, <2>2, <3>1 DEF Paint, PaintButton
    <3>2. CASE CanAnimate /\ Turned.active /\ hover = lastHover
      <4>1. Turned = fade
        BY <3>2 DEF Turned
      <4>2. fade.active /\ lastHover' = lastHover /\ (timer => timer')
        BY <1>23, <2>2, <3>2, <4>1 DEF Paint, PaintButton
      <4>3. fade' = NoFade \/ fade' = fade
        BY <1>23, <2>2, <3>2, <4>1 DEF Paint, PaintButton, Sampled
      <4> QED BY <1>23, <2>2, <4>2, <4>3 DEF Paint
    <3>3. CASE CanAnimate /\ Turned.active /\ hover # lastHover
      <4>1. /\ Turned.palette = palette
            /\ Turned.to = IF hover THEN "hover" ELSE "rest"
        BY <2>2, <3>3, CanAnimateLook DEF Turned, Begun
      <4>2. timer' /\ lastHover' = hover
        BY <1>23, <2>2, <3>3 DEF Paint, PaintButton
      <4>3. fade' = NoFade \/ fade' = Turned
        BY <1>23, <2>2, <3>3 DEF Paint, PaintButton, Sampled
      <4> QED BY <1>23, <2>2, <4>1, <4>2, <4>3 DEF Paint
    <3> QED BY <3>1, <3>2, <3>3
  <2> QED BY <2>1, <2>2
<1>24. CASE UNCHANGED vars
  BY <1>24 DEF vars
<1> QED BY <1>1, <1>2, <1>3, <1>4, <1>5, <1>6, <1>7, <1>8, <1>9, <1>10, <1>11,
         <1>12, <1>13, <1>14, <1>15, <1>16, <1>17, <1>18, <1>19, <1>20, <1>21,
         <1>22, <1>23, <1>24
  DEF Next, UserStep, HostStep, LoopStep

(* Every step that changes what is to be seen asks for a paint, and every   *)
(* paint that ends a fade shows what is to be seen.                         *)
THEOREM PaintStep == ControlInv /\ [Next]_vars => PaintIsCurrent'
<1> SUFFICES ASSUME ControlInv, [Next]_vars PROVE PaintIsCurrent'
  OBVIOUS
<1> USE DEF hoverVars, fadeVars, mouseVars, leaveVars, hostVars, timerVars, lifeVars, ControlInv
<1> USE DEF DataOK, PaintIsCurrent, Pushed
<1>1. ASSUME NEW here \in BOOLEAN, NEW ok \in BOOLEAN, MouseMove(here, ok) PROVE PaintIsCurrent'
  <2>1. ~dirty' => /\ hover
                   /\ grip = "mouse" => inside = here
    BY <1>1 DEF MouseMove
  <2>2. CASE dirty'
    BY <2>2
  <2>3. CASE ~dirty'
    <3>1. UNCHANGED <<hover, grip>>
      BY <1>1, <2>1, <2>3 DEF MouseMove, OnMouseMove
    <3>2. grip = "mouse" => inside' = inside
      BY <1>1, <2>1, <2>3 DEF MouseMove
    <3>3. Look' = Look
      BY <1>1, <3>1, <3>2, LookFrame DEF MouseMove
    <3> QED BY <1>1, <2>3, <3>3 DEF MouseMove
  <2> QED BY <2>2, <2>3
<1>2. CASE MouseUnseen
  BY <1>2, LookFrame
  DEF MouseUnseen
<1>3. CASE LButtonDown
  BY <1>3, LookFrame
  DEF LButtonDown
<1>4. CASE LButtonUp
  <2>1. CASE dirty' \/ unasked'
    BY <2>1
  <2>2. CASE ~dirty' /\ ~unasked'
    <3>1. mark' = mark /\ ~pressed /\ (Pushed <=> grip = "space")
      BY <1>4, <2>2 DEF LButtonUp
    <3>2. ~pressed' /\ (Pushed' <=> grip = "space")
      BY <1>4 DEF LButtonUp, OnLButtonUp
    <3>3. Look' = Look
      BY <1>4, <3>1, <3>2, LookFrame DEF LButtonUp
    <3> QED BY <1>4, <2>2, <3>3 DEF LButtonUp
  <2> QED BY <2>1, <2>2
<1>5. CASE SpaceDown
  BY <1>5, LookFrame
  DEF SpaceDown
<1>6. CASE SpaceUp
  BY <1>6, LookFrame
  DEF SpaceUp
<1>7. CASE CaptureLost
  BY <1>7, LookFrame
  DEF CaptureLost, LetGo
<1>8. CASE FocusChange
  BY <1>8, LookFrame
  DEF FocusChange, LetGo
<1>9. ASSUME NEW under \in BOOLEAN, Create(under) PROVE PaintIsCurrent'
  BY <1>9, LookFrame
  DEF Create
<1>10. CASE Destroy
  BY <1>10, LookFrame
  DEF Destroy
<1>11. ASSUME NEW p \in Palettes, SetPalette(p) PROVE PaintIsCurrent'
  BY <1>11, LookFrame
  DEF SetPalette, OnPaletteChanged
<1>12. CASE SetStyle
  BY <1>12, LookFrame
  DEF SetStyle
<1>13. ASSUME NEW m \in Marks, SetMark(m) PROVE PaintIsCurrent'
  BY <1>13, LookFrame
  DEF SetMark
<1>14. CASE SetTwoState
  BY <1>14, LookFrame
  DEF SetTwoState
<1>15. ASSUME NEW on \in BOOLEAN, SetDragging(on) PROVE PaintIsCurrent'
  BY <1>15, LookFrame
  DEF SetDragging
<1>16. CASE Enable
  BY <1>16, LookFrame
  DEF Enable, LetGo
<1>17. CASE SystemSetting
  BY <1>17, LookFrame
  DEF SystemSetting
<1>18. CASE LeavePosted
  BY <1>18, LookFrame
  DEF LeavePosted
<1>19. CASE MouseLeave
  BY <1>19, LookFrame
  DEF MouseLeave
<1>20. CASE TimePasses
  BY <1>20, LookFrame
  DEF TimePasses
<1>21. CASE TimerElapses
  BY <1>21, LookFrame
  DEF TimerElapses
<1>22. CASE AnimationTick
  <2>1. Look' = Look
    BY <1>22, LookFrame DEF AnimationTick
  <2>2. fade'.active \/ dirty' \/ (~fade.active /\ ~dirty)
    <3>1. CASE kind = "button"
      BY <1>22, <3>1 DEF AnimationTick, TickButton
    <3>2. CASE kind = "splitter"
      BY <1>22, <3>2 DEF AnimationTick, TickSplitter
    <3> QED BY <1>22, <3>1, <3>2 DEF AnimationTick
  <2> QED BY <1>22, <2>1, <2>2 DEF AnimationTick
<1>23. CASE Paint
  <2>1. Look' = Look
    BY <1>23, LookFrame DEF Paint
  <2>2. CASE kind # "button"
    BY <1>23, <2>1, <2>2 DEF Paint
  <2>3. CASE kind = "button"
    <3>1. CASE ~(CanAnimate /\ Turned.active)
      BY <1>23, <2>1, <2>3, <3>1 DEF Paint, PaintButton
    <3>2. CASE CanAnimate /\ Turned.active /\ hover = lastHover /\ ~inherited
      <4>1. Turned.palette = palette /\ Turned.to = Visual
        BY <1>23, <2>3, <3>2, CanAnimateLook DEF Turned, FadeLeadsHome, Paint
      <4>2. fade'.active \/ shown' = [Look EXCEPT !.palette = palette, !.state = Visual]
        BY <1>23, <2>3, <3>2, <4>1 DEF Paint, PaintButton
      <4>3. [Look EXCEPT !.palette = palette, !.state = Visual]
                = Look
        BY LookKept
      <4> QED BY <2>1, <4>2, <4>3
    <3>3. CASE CanAnimate /\ Turned.active /\ hover # lastHover
      <4>1. Turned.active /\ Turned.left # 0
        BY <3>3, FramesAssumption DEF Turned, Begun
      <4>2. fade'.active
        BY <1>23, <2>3, <3>3, <4>1 DEF Paint, PaintButton, Sampled
      <4> QED BY <4>2
    <3>4. CASE inherited
      BY <1>23, <3>4 DEF Paint
    <3> QED BY <3>1, <3>2, <3>3, <3>4
  <2> QED BY <2>2, <2>3
<1>24. CASE UNCHANGED vars
  BY <1>24, LookFrame DEF vars
<1> QED BY <1>1, <1>2, <1>3, <1>4, <1>5, <1>6, <1>7, <1>8, <1>9, <1>10, <1>11,
         <1>12, <1>13, <1>14, <1>15, <1>16, <1>17, <1>18, <1>19, <1>20, <1>21,
         <1>22, <1>23, <1>24
  DEF Next, UserStep, HostStep, LoopStep

(* The parts are inductive together: a fade's timer is why its last frame   *)
(* is painted, and where it leads is why that frame is current.             *)
THEOREM ControlInvariance == Spec => []ControlInv
<1>1. Init => ControlInv
  <2> SUFFICES ASSUME Init PROVE ControlInv
    OBVIOUS
  <2>1. DataOK
    <3>1. palette \in Palettes
      BY DEF Init
    <3>2. NoFade \in Animations
      <4>1. (CHOOSE p \in Palettes : TRUE) \in Palettes
        BY <3>1
      <4>2. 0 \in 0..Frames
        BY FramesAssumption
      <4> QED BY <4>1, <4>2 DEF NoFade, Animations
    <3>3. Nothing \in Looks
      BY DEF Init, Nothing, Look, Looks, States, Marks
    <3> QED BY <3>1, <3>2, <3>3 DEF Init, DataOK, Marks
  <2> QED
    BY <2>1 DEF Init, ControlInv, NothingSurvives, TrackingIsHover, HoverEnds,
                FadeIsDriven, FadeLeadsHome, PressEnds, PaintIsCurrent, NoFade
<1>2. ControlInv /\ [Next]_vars => ControlInv'
  BY DataStep, FlagsStep, PaintStep DEF Flags, ControlInv
<1> QED BY <1>1, <1>2, PTL DEF Spec

(* A control that shows hover is told when the mouse leaves it: a           *)
(* WM_MOUSELEAVE is on order or posted (HoverState.cpp:34-50).              *)
THEOREM HoverIsEnded == Spec => []HoverEnds
BY ControlInvariance, PTL DEF ControlInv

(* A cross-fade under way has a timer that repaints it, and no timer        *)
(* outlives its window (Button.cpp, Controls.cpp:91-111).                   *)
THEOREM FadesAreDriven == Spec => []FadeIsDriven
BY ControlInvariance, PTL DEF ControlInv

(* The base class shows a press only while the native button has the        *)
(* capture, or when it was taken away (Controls.cpp:196-208).               *)
THEOREM PressesEnd == Spec => []PressEnds
BY ControlInvariance, PTL DEF ControlInv

(* Hover and press end with the mouse that caused them.                     *)
THEOREM TransientsAreEnded == Spec => []TransientsEnd
<1>1. ControlInv => TransientsEnd
  BY DEF ControlInv, TransientsEnd
<1> QED BY <1>1, ControlInvariance, PTL

(* With no paint asked for and no timer running, the control shows its      *)
(* present state: no operation forgets to invalidate and no fade ends on a  *)
(* colour that is out of date.                                              *)
THEOREM ScreenIsCurrent == Spec => []ShownIsCurrent
<1>1. ControlInv => ShownIsCurrent
  BY DEF ControlInv, PaintIsCurrent, FadeIsDriven, ShownIsCurrent
<1> QED BY <1>1, ControlInvariance, PTL

-----------------------------------------------------------------------------
(* The switches                                                             *)

\* Every flag is assigned a flag.
LEMMA SwitchStep == SwitchesOK /\ [Next]_vars => SwitchesOK'
<1> SUFFICES ASSUME SwitchesOK, [Next]_vars PROVE SwitchesOK'
  OBVIOUS
<1> USE DEF SwitchesOK, lifeVars, hoverVars, timerVars, fadeVars, hostVars, mouseVars, leaveVars
<1>1. ASSUME NEW here \in BOOLEAN, NEW ok \in BOOLEAN, MouseMove(here, ok) PROVE SwitchesOK'
  <2>1. /\ inside' \in BOOLEAN /\ hover' \in BOOLEAN /\ tracking' \in BOOLEAN
        /\ owed' \in BOOLEAN /\ posted' \in BOOLEAN /\ dirty' \in BOOLEAN
    BY <1>1 DEF MouseMove, OnMouseMove
  <2>2. UNCHANGED <<window, enabled, focus, pressed, timer, due, lastHover,
                   secondary, dragging, smooth, inherited, cut, unasked>>
    BY <1>1 DEF MouseMove, OnMouseMove
  <2> QED BY <2>1, <2>2
<1>2. ASSUME MouseUnseen PROVE SwitchesOK'
  BY <1>2 DEF MouseUnseen
<1>3. ASSUME LButtonDown PROVE SwitchesOK'
  BY <1>3 DEF LButtonDown
<1>4. ASSUME LButtonUp PROVE SwitchesOK'
  <2>1. pressed' \in BOOLEAN /\ dirty' \in BOOLEAN /\ unasked' \in BOOLEAN
    BY <1>4 DEF LButtonUp, OnLButtonUp
  <2>2. UNCHANGED <<window, enabled, focus, inside, hover, tracking, timer,
                   due, owed, posted, lastHover, secondary, dragging, smooth,
                   inherited, cut>>
    BY <1>4 DEF LButtonUp, OnLButtonUp
  <2> QED BY <2>1, <2>2
<1>5. ASSUME SpaceDown PROVE SwitchesOK'
  BY <1>5 DEF SpaceDown
<1>6. ASSUME SpaceUp PROVE SwitchesOK'
  BY <1>6 DEF SpaceUp
<1>7. ASSUME CaptureLost PROVE SwitchesOK'
  BY <1>7 DEF CaptureLost, LetGo
<1>8. ASSUME FocusChange PROVE SwitchesOK'
  BY <1>8 DEF FocusChange, LetGo
<1>9. ASSUME NEW under \in BOOLEAN, Create(under) PROVE SwitchesOK'
  <2>1. /\ window' \in BOOLEAN /\ inherited' \in BOOLEAN /\ enabled' \in BOOLEAN
        /\ inside' \in BOOLEAN /\ dirty' \in BOOLEAN /\ cut' \in BOOLEAN
    BY <1>9 DEF Create
  <2>2. UNCHANGED <<focus, hover, tracking, pressed, timer, due, owed, posted,
                   lastHover, secondary, dragging, smooth, unasked>>
    BY <1>9 DEF Create
  <2> QED BY <2>1, <2>2
<1>10. ASSUME Destroy PROVE SwitchesOK'
  BY <1>10 DEF Destroy
<1>11. ASSUME NEW p \in Palettes, SetPalette(p) PROVE SwitchesOK'
  BY <1>11 DEF SetPalette, OnPaletteChanged
<1>12. ASSUME SetStyle PROVE SwitchesOK'
  BY <1>12 DEF SetStyle
<1>13. ASSUME NEW m \in Marks, SetMark(m) PROVE SwitchesOK'
  BY <1>13 DEF SetMark
<1>14. ASSUME SetTwoState PROVE SwitchesOK'
  BY <1>14 DEF SetTwoState
<1>15. ASSUME NEW on \in BOOLEAN, SetDragging(on) PROVE SwitchesOK'
  BY <1>15 DEF SetDragging
<1>16. ASSUME Enable PROVE SwitchesOK'
  BY <1>16 DEF Enable, LetGo
<1>17. ASSUME SystemSetting PROVE SwitchesOK'
  BY <1>17 DEF SystemSetting
<1>18. ASSUME LeavePosted PROVE SwitchesOK'
  <2>1. owed' \in BOOLEAN /\ posted' \in BOOLEAN
    BY <1>18 DEF LeavePosted
  <2>2. UNCHANGED <<window, enabled, focus, dirty, inside, hover, tracking,
                   pressed, timer, due, lastHover, secondary, dragging,
                   smooth, inherited, cut, unasked>>
    BY <1>18 DEF LeavePosted
  <2> QED BY <2>1, <2>2
<1>19. ASSUME MouseLeave PROVE SwitchesOK'
  <2>1. /\ posted' \in BOOLEAN /\ hover' \in BOOLEAN /\ tracking' \in BOOLEAN
        /\ dirty' \in BOOLEAN
    BY <1>19 DEF MouseLeave
  <2>2. UNCHANGED <<window, enabled, focus, inside, pressed, timer, due, owed,
                   lastHover, secondary, dragging, smooth, inherited, cut,
                   unasked>>
    BY <1>19 DEF MouseLeave
  <2> QED BY <2>1, <2>2
<1>20. ASSUME TimePasses PROVE SwitchesOK'
  BY <1>20 DEF TimePasses
<1>21. ASSUME TimerElapses PROVE SwitchesOK'
  BY <1>21 DEF TimerElapses
<1>22. ASSUME AnimationTick PROVE SwitchesOK'
  <2>1. due' \in BOOLEAN /\ timer' \in BOOLEAN /\ dirty' \in BOOLEAN
    BY <1>22 DEF AnimationTick, TickButton, TickSplitter
  <2>2. UNCHANGED <<window, enabled, focus, inside, hover, tracking, pressed,
                   owed, posted, lastHover, secondary, dragging, smooth,
                   inherited, cut, unasked>>
    BY <1>22 DEF AnimationTick, TickButton, TickSplitter
  <2> QED BY <2>1, <2>2
<1>23. ASSUME Paint PROVE SwitchesOK'
  <2>1. /\ dirty' \in BOOLEAN /\ unasked' \in BOOLEAN /\ cut' \in BOOLEAN
        /\ lastHover' \in BOOLEAN /\ timer' \in BOOLEAN
    BY <1>23 DEF Paint, PaintButton
  <2>2. UNCHANGED <<window, enabled, focus, inside, hover, tracking, pressed,
                   due, owed, posted, secondary, dragging, smooth, inherited>>
    BY <1>23 DEF Paint, PaintButton
  <2> QED BY <2>1, <2>2
<1>24. ASSUME UNCHANGED vars PROVE SwitchesOK'
  BY <1>24 DEF vars
<1> QED BY <1>1, <1>2, <1>3, <1>4, <1>5, <1>6, <1>7, <1>8, <1>9, <1>10, <1>11,
         <1>12, <1>13, <1>14, <1>15, <1>16, <1>17, <1>18, <1>19, <1>20, <1>21,
         <1>22, <1>23, <1>24
  DEF Next, UserStep, HostStep, LoopStep

(* The variables of a control keep their types (Controls.hpp, HoverState.hpp, *)
(* Button.hpp).                                                              *)
THEOREM ControlTypeCorrect == Spec => []TypeOK
<1>1. Init => SwitchesOK
  BY DEF Init, SwitchesOK
<1>2. ControlInv /\ SwitchesOK => TypeOK
  BY DEF ControlInv, TypeOK
<1> QED BY <1>1, <1>2, SwitchStep, ControlInvariance, PTL DEF Spec
=============================================================================
