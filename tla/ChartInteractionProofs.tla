----------------------- MODULE ChartInteractionProofs -----------------------
(***************************************************************************)
(* Proofs about ChartInteraction, for every set of points, values, ranges  *)
(* and options.  IndInv is the inductive invariant, in five parts: each    *)
(* has a step theorem that says which of the others it leans on.  The      *)
(* chains of the edit history (HistoryInv) and the refinements of          *)
(* EditHistory and of ChartViewport are proved on top of it.               *)
(***************************************************************************)
EXTENDS ChartInteraction, TLAPS, SequenceTheorems

USE DEF vars, chartVars, viewVars, editVars, gestureVars, hoverVars, winVars,
        hostVars, implVars

\* begin_drag is only reached with a hit, so a drag names a point.
DragsAPoint == phase = "drag_point" => dragPoint \in Points
TypeInv == TypeOK /\ DragsAPoint

\* A gesture only runs in a controller that receives messages: otherwise its
\* button could come up unseen.  Modes are set by enable_interaction, which
\* seeds the view.
GestureInv ==
    /\ CaptureMatchesGesture
    /\ GestureHasButton
    /\ phase \in Gestures => Enabled
    /\ opts.modes # {} => live /\ seeded

TimerInv == TimerDrivesAnimation /\ ResetIsCarried /\ TooltipHasPoint

\* The depth in force is one the host configured, apply_settings or not.
DepthConfigured ==
    \E o \in OptionSets \cup {DefaultOptions} : opts.depth = o.depth
UndoInv == UndoBounded /\ DepthConfigured

IndInv == TypeInv /\ GestureInv /\ TimerInv /\ UndoInv /\ HostMirrorsData

-----------------------------------------------------------------------------
(* Lemmas on the operators *)

\* top and pop of a stack of commands: undo_stack.back(), pop_back().
LEMMA StackTypes ==
  ASSUME NEW s \in Seq(Commands), s # <<>>
  PROVE  /\ Top(s) \in Commands
         /\ Popped(s) \in Seq(Commands)
         /\ Len(Popped(s)) = Len(s) - 1
<1>1. Len(s) \in Nat /\ Len(s) >= 1
  BY EmptySeq, LenProperties
<1>2. Top(s) \in Commands
  BY <1>1, ElementOfSeq DEF Top
<1>3. /\ Popped(s) \in Seq(Commands)
      /\ Len(Popped(s)) = Len(s) - 1
  <2> DEFINE n == Len(s) - 1
  <2>1. n \in Int /\ n <= Len(s)
    BY <1>1
  <2>2. \A i \in 1 .. n : s[i] \in Commands
    BY <1>1, ElementOfSeq
  <2>3. /\ SubSeq(s, 1, n) \in Seq(Commands)
        /\ Len(SubSeq(s, 1, n)) = IF 1 <= n THEN n - 1 + 1 ELSE 0
    <3> HIDE DEF n
    <3> QED BY <2>1, <2>2, SubSeqProperties
  <2>4. n >= 0 /\ n = Len(s) - 1
    BY <1>1
  <2>5. Len(SubSeq(s, 1, n)) = n
    <3> HIDE DEF n
    <3> QED BY <2>1, <2>3, <2>4
  <2> QED BY <2>3, <2>5 DEF Popped
<1> QED BY <1>2, <1>3

\* A push grows the stack up to undo_depth and otherwise keeps its length.
LEMMA PushTypes ==
  ASSUME NEW s \in Seq(Commands), NEW c \in Commands, opts.depth \in Nat
  PROVE  /\ PushCommand(s, c) \in Seq(Commands)
         /\ \/ Len(PushCommand(s, c)) = Len(s)
            \/ Len(PushCommand(s, c)) <= opts.depth
<1>1. /\ Append(s, c) \in Seq(Commands)
      /\ Len(Append(s, c)) = Len(s) + 1
      /\ Append(s, c) # <<>>
  BY AppendProperties
<1>2. /\ Tail(Append(s, c)) \in Seq(Commands)
      /\ Len(Tail(Append(s, c))) = Len(Append(s, c)) - 1
  BY <1>1, HeadTailProperties
<1>3. Len(s) \in Nat
  BY LenProperties
<1> QED BY <1>1, <1>2, <1>3 DEF PushCommand
\* The default options are options, and apply_settings keeps them so.
LEMMA OptionTypes ==
  /\ DefaultOptions \in Options
  /\ \A o \in Options, t \in Nat : [o EXCEPT !.ticks = t] \in Options
<1>1. DefaultOptions \in Options
  BY OptionsAssumption DEF DefaultOptions, Options
<1>2. ASSUME NEW o \in Options, NEW t \in Nat PROVE [o EXCEPT !.ticks = t] \in
     Options
  BY DEF Options
<1> QED BY <1>1, <1>2

\* AxisAnimation::begin and sample keep the record well formed.
LEMMA AnimationTypes ==
  /\ NoAnimation \in Animations
  /\ \A o \in Options, r \in Ranges :
        [active |-> TRUE, to |-> r, left |-> o.ticks] \in Animations
  /\ \A a \in Animations : a.left > 1 => [a EXCEPT !.left = @ - 1] \in
       Animations
<1>1. NoAnimation \in Animations
  BY RangesAssumption DEF NoAnimation, Animations
<1>2. ASSUME NEW o \in Options, NEW r \in Ranges
      PROVE  [active |-> TRUE, to |-> r, left |-> o.ticks] \in Animations
  <2>1. o.ticks \in Nat
    BY DEF Options
  <2> QED BY <2>1 DEF Animations
<1>3. ASSUME NEW a \in Animations, a.left > 1
      PROVE  [a EXCEPT !.left = @ - 1] \in Animations
  <2>1. a.left - 1 \in Nat /\ a.active \in BOOLEAN /\ a.to \in Ranges
    BY <1>3 DEF Animations
  <2> QED BY <2>1 DEF Animations
<1> QED BY <1>1, <1>2, <1>3

-----------------------------------------------------------------------------
(* TypeInv *)

\* Every step keeps the types; the drag names a point while it lasts.
THEOREM TypeInvStep == TypeInv /\ Next => TypeInv'
<1> SUFFICES ASSUME TypeInv, Next PROVE TypeInv'
  OBVIOUS
<1> USE PointsAssumption, ValuesAssumption, RangesAssumption, ListsAssumption,
     OptionsAssumption DEF TypeInv, TypeOK, DragsAPoint
<1>1. ASSUME NEW o \in OptionSets, EnableInteraction(o) PROVE TypeInv'
  BY <1>1 DEF EnableInteraction, Options, Modes, Phases, Gestures, Timers,
       Commands
<1>2. ASSUME Materialise PROVE TypeInv'
  BY <1>2 DEF Materialise, Options, Modes, Phases, Gestures, Timers, Commands
<1>3. ASSUME AttachObservers PROVE TypeInv'
  BY <1>3 DEF AttachObservers, Options, Modes, Phases, Gestures, Timers,
       Commands
<1>4. ASSUME DisableInteraction PROVE TypeInv'
  BY <1>4, OptionTypes, AnimationTypes, EmptySeq DEF DisableInteraction,
       ResetToIdle, Taints, Abandoned, Options, Modes, Phases, Gestures,
       Timers, Commands
<1>5. ASSUME NEW t \in {0, DefaultTicks}, ApplySettings(t) PROVE TypeInv'
  <2>1. opts' \in Options
    BY <1>5, OptionTypes DEF ApplySettings
  <2> QED BY <1>5, <2>1 DEF ApplySettings
<1>6. ASSUME NEW d \in InputLists, NEW vis \in SUBSET Series, SetSeries(d, vis)
     PROVE TypeInv'
  BY <1>6 DEF SetSeries, Taints, Remembered, Lists, Options, Modes, Phases,
       Gestures, Timers, Commands
<1>7. ASSUME NEW s \in Series, SetSeriesVisible(s) PROVE TypeInv'
  BY <1>7 DEF SetSeriesVisible, Options, Modes, Phases, Gestures, Timers,
       Commands
<1>8. ASSUME NEW r \in Ranges, SetAxis(r) PROVE TypeInv'
  BY <1>8 DEF SetAxis, Options, Modes, Phases, Gestures, Timers, Commands
<1>9. ASSUME NEW r \in Ranges, SetVisibleRange(r) PROVE TypeInv'
  BY <1>9 DEF SetVisibleRange, Options, Modes, Phases, Gestures, Timers,
       Commands
<1>10. ASSUME ResetView PROVE TypeInv'
  <2>1. CASE Animated
    <3>1. anim' \in Animations
      BY <1>10, <2>1, AnimationTypes DEF ResetView, Animate
    <3> QED BY <1>10, <2>1, <3>1 DEF ResetView, Animate, Timers
  <2>2. CASE ~Animated
    BY <1>10, <2>2 DEF ResetView
  <2> QED BY <2>1, <2>2
<1>11. ASSUME Undo PROVE TypeInv'
  <2>1. /\ Top(undo) \in Commands
        /\ undo' \in Seq(Commands)
    BY <1>11, StackTypes DEF Undo
  <2>2. redo' \in Seq(Commands)
    BY <1>11, <2>1, AppendProperties DEF Undo
  <2>3. Top(undo).point \in Points /\ Top(undo).old \in Values
    BY <2>1 DEF Commands
  <2>4. /\ data' \in [Points -> Values \cup {Absent}]
        /\ told' \in [Points -> Values \cup {Absent}]
    BY <1>11, <2>3 DEF Undo, ApplyEdit
  <2> QED BY <1>11, <2>1, <2>2, <2>3, <2>4 DEF Undo, Taints
<1>12. ASSUME Redo PROVE TypeInv'
  <2>1. /\ Top(redo) \in Commands
        /\ redo' \in Seq(Commands)
    BY <1>12, StackTypes DEF Redo
  <2>2. undo' \in Seq(Commands)
    BY <1>12, <2>1, AppendProperties DEF Redo
  <2>3. Top(redo).point \in Points /\ Top(redo).new \in Values
    BY <2>1 DEF Commands
  <2>4. /\ data' \in [Points -> Values \cup {Absent}]
        /\ told' \in [Points -> Values \cup {Absent}]
    BY <1>12, <2>3 DEF Redo, ApplyEdit
  <2> QED BY <1>12, <2>1, <2>2, <2>3, <2>4 DEF Redo, Taints
<1>13. ASSUME ClearSelection PROVE TypeInv'
  BY <1>13 DEF ClearSelection, Options, Modes, Phases, Gestures, Timers,
       Commands
<1>14. ASSUME SelectAll PROVE TypeInv'
  BY <1>14 DEF SelectAll, Options, Modes, Phases, Gestures, Timers, Commands
<1>15. ASSUME NEW over \in Hits, MoveHover(over) PROVE TypeInv'
  BY <1>15 DEF MoveHover, Hits, ArmTooltip, Options, Modes, Phases, Gestures,
       Timers, Commands
<1>16. ASSUME NEW v \in Values, MoveDrag(v) PROVE TypeInv'
  BY <1>16 DEF MoveDrag, Options, Modes, Phases, Gestures, Timers, Commands
<1>17. ASSUME NEW r \in Ranges, MovePan(r) PROVE TypeInv'
  BY <1>17 DEF MovePan, Options, Modes, Phases, Gestures, Timers, Commands
<1>18. ASSUME PressPan PROVE TypeInv'
  BY <1>18 DEF PressPan, LeftDown, PressFrame, BeginPan, Options, Modes,
       Phases, Gestures, Timers, Commands
<1>19. ASSUME NEW p \in Points, PressDrag(p) PROVE TypeInv'
  BY <1>19 DEF PressDrag, LeftDown, PressFrame, BeginDrag, Hittable, Options,
       Modes, Phases, Gestures, Timers, Commands
<1>20. ASSUME NEW p \in Points, NEW ctrl \in BOOLEAN, PressSelect(p, ctrl)
     PROVE TypeInv'
  BY <1>20 DEF PressSelect, LeftDown, PressFrame, Options, Modes, Phases,
       Gestures, Timers, Commands
<1>21. ASSUME NEW over \in Hits, PressRange(over) PROVE TypeInv'
  BY <1>21 DEF PressRange, LeftDown, PressFrame, BeginRangeSelect, Options,
       Modes, Phases, Gestures, Timers, Commands
<1>22. ASSUME NEW over \in Hits, PressNothing(over) PROVE TypeInv'
  BY <1>22 DEF PressNothing, LeftDown, PressFrame, Options, Modes, Phases,
       Gestures, Timers, Commands
<1>23. ASSUME CommitDrag PROVE TypeInv'
  <2>1. dragPoint \in Points /\ Committed \in Values
    BY <1>23 DEF CommitDrag, Committed
  <2>2. [point |-> dragPoint, old |-> dragOriginal, new |-> Committed] \in
       Commands
    BY <2>1 DEF Commands
  <2>3. undo' \in Seq(Commands) /\ redo' \in Seq(Commands)
    BY <1>23, <2>2, PushTypes, EmptySeq DEF CommitDrag, Options
  <2> QED BY <1>23, <2>1, <2>3
       DEF CommitDrag, LeftUp, ReleaseFrame, ResetToIdle, Phases
<1>24. ASSUME CompleteRange PROVE TypeInv'
  BY <1>24 DEF CompleteRange, LeftUp, ReleaseFrame, Options, Modes, Phases,
       Gestures, Timers, Commands
<1>25. ASSUME ReleaseOther PROVE TypeInv'
  BY <1>25 DEF ReleaseOther, LeftUp, ReleaseFrame, ResetToIdle, Options, Modes,
       Phases, Gestures, Timers, Commands
<1>26. ASSUME MButtonDown PROVE TypeInv'
  <2>1. CASE HasMode("pan")
    BY <1>26, <2>1 DEF MButtonDown, BeginPan, Taints, Abandoned, PressFrame,
         Phases
  <2>2. CASE ~HasMode("pan")
    BY <1>26, <2>2 DEF MButtonDown, PressFrame
  <2> QED BY <2>1, <2>2
<1>27. ASSUME MButtonUp PROVE TypeInv'
  <2>1. CASE phase = "pan"
    BY <1>27, <2>1 DEF MButtonUp, ResetToIdle, ReleaseFrame, Phases
  <2>2. CASE phase # "pan"
    BY <1>27, <2>2 DEF MButtonUp, ReleaseFrame
  <2> QED BY <2>1, <2>2
<1>28. ASSUME NEW r \in Ranges, Wheel(r) PROVE TypeInv'
  <2>1. CASE Animated
    <3>1. anim' \in Animations
      BY <1>28, <2>1, AnimationTypes DEF Wheel, Animate
    <3> QED BY <1>28, <2>1, <3>1 DEF Wheel, Animate, Timers
  <2>2. CASE ~Animated
    BY <1>28, <2>2 DEF Wheel
  <2> QED BY <2>1, <2>2
<1>29. ASSUME NEW b \in {"left", "middle"}, ButtonElsewhere(b) PROVE TypeInv'
  BY <1>29 DEF ButtonElsewhere, Options, Modes, Phases, Gestures, Timers,
       Commands
<1>30. ASSUME CaptureLost PROVE TypeInv'
  BY <1>30 DEF CaptureLost, ResetToIdle, Taints, Abandoned, Options, Modes,
       Phases, Gestures, Timers, Commands
<1>31. ASSUME NEW t \in Timers, TimerElapses(t) PROVE TypeInv'
  BY <1>31 DEF TimerElapses, Options, Modes, Phases, Gestures, Timers, Commands
<1>32. ASSUME NEW t \in Timers, TimerIgnored(t) PROVE TypeInv'
  BY <1>32 DEF TimerIgnored, Options, Modes, Phases, Gestures, Timers, Commands
<1>33. ASSUME TooltipTimer PROVE TypeInv'
  BY <1>33 DEF TooltipTimer, TipShows, Options, Modes, Phases, Gestures,
       Timers, Commands
<1>34. ASSUME AnimationTimer PROVE TypeInv'
  <2>1. CASE \E r \in Ranges : AnimationStep(r)
    <3>1. PICK r \in Ranges : AnimationStep(r)
      BY <2>1
    <3>2. anim' \in Animations
      BY <3>1, AnimationTypes DEF AnimationStep
    <3> QED BY <1>34, <3>1, <3>2 DEF AnimationTimer, AnimationStep
  <2>2. CASE AnimationSettles
    <3>1. anim.to \in Ranges
      BY DEF Animations
    <3> QED BY <1>34, <2>2, <3>1, AnimationTypes DEF AnimationTimer,
         AnimationSettles
  <2>3. CASE ~anim.active /\ UNCHANGED <<view, anim, timers, resetPending>>
    BY <1>34, <2>3 DEF AnimationTimer
  <2> QED BY <1>34, <2>1, <2>2, <2>3 DEF AnimationTimer
<1> QED BY <1>1, <1>2, <1>3, <1>4, <1>5, <1>6, <1>7, <1>8, <1>9, <1>10, <1>11,
     <1>12, <1>13, <1>14, <1>15, <1>16, <1>17, <1>18, <1>19, <1>20, <1>21,
     <1>22, <1>23, <1>24, <1>25, <1>26, <1>27, <1>28, <1>29, <1>30, <1>31,
     <1>32, <1>33, <1>34 DEF Next, HostCalls, EditKeys, Mouse, Clock

-----------------------------------------------------------------------------
(* GestureInv *)

\* Capture, phase and buttons move together in every step.
THEOREM GestureInvStep == TypeInv /\ GestureInv /\ Next => GestureInv'
<1> SUFFICES ASSUME TypeInv /\ GestureInv, Next PROVE GestureInv'
  OBVIOUS
<1> USE OptionsAssumption DEF GestureInv, CaptureMatchesGesture,
     GestureHasButton, Gestures, Enabled
<1>1. ASSUME \/ \E d \in InputLists, vis \in SUBSET Series : SetSeries(d, vis)
             \/ \E s \in Series : SetSeriesVisible(s)
             \/ \E r \in Ranges : SetAxis(r)
             \/ \E r \in Ranges : SetVisibleRange(r)
             \/ ResetView
             \/ Undo
             \/ Redo
             \/ ClearSelection
             \/ SelectAll
             \/ \E v \in Values : MoveDrag(v)
             \/ \E r \in Ranges : MovePan(r)
             \/ \E r \in Ranges : Wheel(r)
             \/ \E t \in Timers : TimerElapses(t)
             \/ \E t \in Timers : TimerIgnored(t)
             \/ TooltipTimer
             \/ AnimationTimer
      PROVE  UNCHANGED <<captured, phase, buttons, live, opts, seeded>>
  BY <1>1 DEF SetSeries, SetSeriesVisible, SetAxis, SetVisibleRange, ResetView,
       Undo, Redo, ClearSelection, SelectAll, MoveDrag, MovePan, Wheel,
       TimerElapses, TimerIgnored, TooltipTimer, AnimationTimer
<1>2. ASSUME UNCHANGED <<captured, phase, buttons, live, opts, seeded>> PROVE
     GestureInv'
  BY <1>2
<1>3. ASSUME NEW o \in OptionSets, EnableInteraction(o) PROVE GestureInv'
  BY <1>3 DEF EnableInteraction
<1>4. ASSUME Materialise PROVE GestureInv'
  BY <1>4 DEF Materialise
<1>5. ASSUME AttachObservers PROVE GestureInv'
  BY <1>5 DEF AttachObservers
<1>6. ASSUME DisableInteraction PROVE GestureInv'
  BY <1>6 DEF DisableInteraction, ResetToIdle, Taints, Abandoned,
       DefaultOptions, NoAnimation
<1>7. ASSUME NEW t \in {0, DefaultTicks}, ApplySettings(t) PROVE GestureInv'
  BY <1>7 DEF ApplySettings
<1>8. ASSUME NEW over \in Hits, MoveHover(over) PROVE GestureInv'
  BY <1>8 DEF MoveHover, Hits, ArmTooltip
<1>9. ASSUME PressPan PROVE GestureInv'
  BY <1>9 DEF PressPan, LeftDown, PressFrame, BeginPan
<1>10. ASSUME NEW p \in Points, PressDrag(p) PROVE GestureInv'
  BY <1>10 DEF PressDrag, LeftDown, PressFrame, BeginDrag, Hittable
<1>11. ASSUME NEW p \in Points, NEW ctrl \in BOOLEAN, PressSelect(p, ctrl)
     PROVE GestureInv'
  BY <1>11 DEF PressSelect, LeftDown, PressFrame
<1>12. ASSUME NEW over \in Hits, PressRange(over) PROVE GestureInv'
  BY <1>12 DEF PressRange, LeftDown, PressFrame, BeginRangeSelect
<1>13. ASSUME NEW over \in Hits, PressNothing(over) PROVE GestureInv'
  BY <1>13 DEF PressNothing, LeftDown, PressFrame
<1>14. ASSUME CommitDrag PROVE GestureInv'
  BY <1>14 DEF CommitDrag, LeftUp, ReleaseFrame, ResetToIdle, Committed
<1>15. ASSUME CompleteRange PROVE GestureInv'
  BY <1>15 DEF CompleteRange, LeftUp, ReleaseFrame
<1>16. ASSUME ReleaseOther PROVE GestureInv'
  BY <1>16 DEF ReleaseOther, LeftUp, ReleaseFrame, ResetToIdle
<1>17. ASSUME MButtonDown PROVE GestureInv'
  BY <1>17 DEF MButtonDown, BeginPan, Taints, Abandoned, PressFrame
<1>18. ASSUME MButtonUp PROVE GestureInv'
  BY <1>18 DEF MButtonUp, ResetToIdle, ReleaseFrame
<1>19. ASSUME NEW b \in {"left", "middle"}, ButtonElsewhere(b) PROVE
     GestureInv'
  BY <1>19 DEF ButtonElsewhere
<1>20. ASSUME CaptureLost PROVE GestureInv'
  BY <1>20 DEF CaptureLost, ResetToIdle, Taints, Abandoned
<1> QED BY <1>1, <1>2, <1>3, <1>4, <1>5, <1>6, <1>7, <1>8, <1>9, <1>10, <1>11,
     <1>12, <1>13, <1>14, <1>15, <1>16, <1>17, <1>18, <1>19, <1>20
       DEF Next, HostCalls, EditKeys, Mouse, Clock

-----------------------------------------------------------------------------
(* TimerInv *)

\* Animation, its timer and a pending reset, tooltip and hover in every step.
THEOREM TimerInvStep == TypeInv /\ TimerInv /\ Next => TimerInv'
<1> SUFFICES ASSUME TypeInv /\ TimerInv, Next PROVE TimerInv'
  OBVIOUS
<1> USE DEF TimerInv, TimerDrivesAnimation, ResetIsCarried, TooltipHasPoint,
     Timers
<1>1. ASSUME \/ \E o \in OptionSets : EnableInteraction(o)
             \/ Materialise
             \/ AttachObservers
             \/ \E t \in {0, DefaultTicks} : ApplySettings(t)
             \/ \E d \in InputLists, vis \in SUBSET Series : SetSeries(d, vis)
             \/ \E s \in Series : SetSeriesVisible(s)
             \/ \E r \in Ranges : SetAxis(r)
             \/ \E r \in Ranges : SetVisibleRange(r)
             \/ Undo
             \/ Redo
             \/ ClearSelection
             \/ SelectAll
             \/ \E v \in Values : MoveDrag(v)
             \/ \E r \in Ranges : MovePan(r)
             \/ \E b \in {"left", "middle"} : ButtonElsewhere(b)
             \/ \E t \in Timers : TimerElapses(t)
             \/ \E t \in Timers : TimerIgnored(t)
      PROVE  UNCHANGED <<anim, timers, resetPending, hover, tooltip, phase>>
  BY <1>1 DEF EnableInteraction, Materialise, AttachObservers, ApplySettings,
       SetSeries, SetSeriesVisible, SetAxis, SetVisibleRange, Undo, Redo,
       ClearSelection, SelectAll, MoveDrag, MovePan, ButtonElsewhere,
       TimerElapses, TimerIgnored
<1>2. ASSUME UNCHANGED <<anim, timers, resetPending, hover, tooltip, phase>>
     PROVE TimerInv'
  BY <1>2
<1>3. ASSUME DisableInteraction PROVE TimerInv'
  BY <1>3 DEF DisableInteraction, ResetToIdle, Taints, Abandoned,
       DefaultOptions, NoAnimation
<1>4. ASSUME ResetView PROVE TimerInv'
  BY <1>4 DEF ResetView, Animate, Animated
<1>5. ASSUME NEW over \in Hits, MoveHover(over) PROVE TimerInv'
  BY <1>5 DEF MoveHover, Hits, ArmTooltip
<1>6. ASSUME PressPan PROVE TimerInv'
  BY <1>6 DEF PressPan, LeftDown, PressFrame, BeginPan
<1>7. ASSUME NEW p \in Points, PressDrag(p) PROVE TimerInv'
  BY <1>7 DEF PressDrag, LeftDown, PressFrame, BeginDrag, Hittable
<1>8. ASSUME NEW p \in Points, NEW ctrl \in BOOLEAN, PressSelect(p, ctrl) PROVE
     TimerInv'
  BY <1>8 DEF PressSelect, LeftDown, PressFrame
<1>9. ASSUME NEW over \in Hits, PressRange(over) PROVE TimerInv'
  BY <1>9 DEF PressRange, LeftDown, PressFrame, BeginRangeSelect
<1>10. ASSUME NEW over \in Hits, PressNothing(over) PROVE TimerInv'
  BY <1>10 DEF PressNothing, LeftDown, PressFrame
<1>11. ASSUME CommitDrag PROVE TimerInv'
  BY <1>11 DEF CommitDrag, LeftUp, ReleaseFrame, ResetToIdle, Committed
<1>12. ASSUME CompleteRange PROVE TimerInv'
  BY <1>12 DEF CompleteRange, LeftUp, ReleaseFrame
<1>13. ASSUME ReleaseOther PROVE TimerInv'
  BY <1>13 DEF ReleaseOther, LeftUp, ReleaseFrame, ResetToIdle
<1>14. ASSUME MButtonDown PROVE TimerInv'
  BY <1>14 DEF MButtonDown, BeginPan, Taints, Abandoned, PressFrame
<1>15. ASSUME MButtonUp PROVE TimerInv'
  BY <1>15 DEF MButtonUp, ResetToIdle, ReleaseFrame
<1>16. ASSUME NEW r \in Ranges, Wheel(r) PROVE TimerInv'
  BY <1>16 DEF Wheel, Animate, Animated
<1>17. ASSUME CaptureLost PROVE TimerInv'
  BY <1>17 DEF CaptureLost, ResetToIdle, Taints, Abandoned
<1>18. ASSUME TooltipTimer PROVE TimerInv'
  BY <1>18 DEF TooltipTimer, TipShows
<1>19. ASSUME AnimationTimer PROVE TimerInv'
  <2>1. CASE \E r \in Ranges : AnimationStep(r)
    BY <1>19, <2>1 DEF AnimationTimer, AnimationStep
  <2>2. CASE AnimationSettles
    BY <1>19, <2>2 DEF AnimationTimer, AnimationSettles, NoAnimation
  <2>3. CASE ~anim.active /\ UNCHANGED <<view, anim, timers, resetPending>>
    BY <1>19, <2>3 DEF AnimationTimer
  <2> QED BY <1>19, <2>1, <2>2, <2>3 DEF AnimationTimer
<1> QED BY <1>1, <1>2, <1>3, <1>4, <1>5, <1>6, <1>7, <1>8, <1>9, <1>10, <1>11,
     <1>12, <1>13, <1>14, <1>15, <1>16, <1>17, <1>18, <1>19
       DEF Next, HostCalls, EditKeys, Mouse, Clock

-----------------------------------------------------------------------------
(* UndoInv *)

\* Commands move between the stacks; only a commit pushes a new one.
THEOREM UndoInvStep == TypeInv /\ UndoInv /\ Next => UndoInv'
<1> SUFFICES ASSUME TypeInv /\ UndoInv, Next PROVE UndoInv'
  OBVIOUS
<1> USE OptionsAssumption DEF UndoInv, UndoBounded, DepthConfigured, TypeInv,
     TypeOK
<1>1. ASSUME \/ Materialise
             \/ AttachObservers
             \/ \E d \in InputLists, vis \in SUBSET Series : SetSeries(d, vis)
             \/ \E s \in Series : SetSeriesVisible(s)
             \/ \E r \in Ranges : SetAxis(r)
             \/ \E r \in Ranges : SetVisibleRange(r)
             \/ ResetView
             \/ ClearSelection
             \/ SelectAll
             \/ \E over \in Hits : MoveHover(over)
             \/ \E v \in Values : MoveDrag(v)
             \/ \E r \in Ranges : MovePan(r)
             \/ PressPan
             \/ \E p \in Points : PressDrag(p)
             \/ \E p \in Points, ctrl \in BOOLEAN : PressSelect(p, ctrl)
             \/ \E over \in Hits : PressRange(over)
             \/ \E over \in Hits : PressNothing(over)
             \/ CompleteRange
             \/ ReleaseOther
             \/ MButtonDown
             \/ MButtonUp
             \/ \E r \in Ranges : Wheel(r)
             \/ \E b \in {"left", "middle"} : ButtonElsewhere(b)
             \/ CaptureLost
             \/ \E t \in Timers : TimerElapses(t)
             \/ \E t \in Timers : TimerIgnored(t)
             \/ TooltipTimer
             \/ AnimationTimer
      PROVE  UNCHANGED <<opts, undo, redo>>
  BY <1>1 DEF Materialise, AttachObservers, SetSeries, SetSeriesVisible,
       SetAxis, SetVisibleRange, ResetView, ClearSelection, SelectAll,
       MoveHover, MoveDrag, MovePan, PressPan, PressDrag, PressSelect,
       PressRange, PressNothing, CompleteRange, ReleaseOther, MButtonDown,
       MButtonUp, Wheel, ButtonElsewhere, CaptureLost, TimerElapses,
       TimerIgnored, TooltipTimer, AnimationTimer, PressFrame, ReleaseFrame
<1>2. ASSUME UNCHANGED <<opts, undo, redo>> PROVE UndoInv'
  BY <1>2
<1>3. ASSUME NEW o \in OptionSets, EnableInteraction(o) PROVE UndoInv'
  BY <1>3 DEF EnableInteraction
<1>4. ASSUME DisableInteraction PROVE UndoInv'
  BY <1>4, EmptySeq, OptionTypes DEF DisableInteraction, DefaultOptions,
       Options
<1>5. ASSUME NEW t \in {0, DefaultTicks}, ApplySettings(t) PROVE UndoInv'
  BY <1>5 DEF ApplySettings
<1>6. ASSUME Undo PROVE UndoInv'
  <2>1. Len(undo') = Len(undo) - 1
    BY <1>6, StackTypes DEF Undo
  <2>2. Len(redo') = Len(redo) + 1
    BY <1>6, StackTypes, AppendProperties DEF Undo
  <2> QED BY <1>6, <2>1, <2>2, LenProperties DEF Undo
<1>7. ASSUME Redo PROVE UndoInv'
  <2>1. Len(redo') = Len(redo) - 1
    BY <1>7, StackTypes DEF Redo
  <2>2. Len(undo') = Len(undo) + 1
    BY <1>7, StackTypes, AppendProperties DEF Redo
  <2> QED BY <1>7, <2>1, <2>2, LenProperties DEF Redo
<1>8. ASSUME CommitDrag PROVE UndoInv'
  <2> DEFINE c == [point |-> dragPoint, old |-> dragOriginal, new |->
       Committed]
  <2>1. c \in Commands
    BY <1>8, ValuesAssumption DEF CommitDrag, Committed, Commands, TypeInv,
         TypeOK, DragsAPoint
  <2>2. \/ Len(undo') = Len(undo)
        \/ Len(undo') <= opts.depth
    BY <1>8, <2>1, PushTypes DEF CommitDrag, Options
  <2>3. redo' = <<>> /\ Len(redo') = 0 /\ Len(undo) \in Nat /\ Len(redo) \in
       Nat
    BY <1>8, LenProperties, EmptySeq DEF CommitDrag
  <2>4. opts' = opts
    BY <1>8 DEF CommitDrag, ReleaseFrame
  <2>5. PICK o \in OptionSets \cup {DefaultOptions} : Len(undo) + Len(redo) <=
       o.depth
    OBVIOUS
  <2>6. PICK d \in OptionSets \cup {DefaultOptions} : opts.depth = d.depth
    OBVIOUS
  <2>7. /\ o.depth \in Nat /\ d.depth \in Nat
        /\ Len(undo') \in Nat
    <3>1. undo' \in Seq(Commands)
      BY <1>8, <2>1, PushTypes DEF CommitDrag, Options
    <3> QED BY <3>1, LenProperties, OptionTypes DEF Options
  <2>8. \/ Len(undo') + Len(redo') <= o.depth
        \/ Len(undo') + Len(redo') <= d.depth
    BY <2>2, <2>3, <2>5, <2>6, <2>7
  <2> QED BY <2>4, <2>8
<1> QED BY <1>1, <1>2, <1>3, <1>4, <1>5, <1>6, <1>7, <1>8
       DEF Next, HostCalls, EditKeys, Mouse, Clock

-----------------------------------------------------------------------------
(* HostMirrorsData *)

\* The host is told of every change but those of a drag in progress.
THEOREM MirrorInvStep == TypeInv /\ GestureInv /\ HostMirrorsData /\ Next =>
     HostMirrorsData'
<1> SUFFICES ASSUME TypeInv /\ GestureInv /\ HostMirrorsData, Next PROVE
     HostMirrorsData'
  OBVIOUS
<1> USE DEF HostMirrorsData, TypeInv, TypeOK
<1>1. ASSUME \/ \E o \in OptionSets : EnableInteraction(o)
             \/ Materialise
             \/ AttachObservers
             \/ \E t \in {0, DefaultTicks} : ApplySettings(t)
             \/ \E s \in Series : SetSeriesVisible(s)
             \/ \E r \in Ranges : SetAxis(r)
             \/ \E r \in Ranges : SetVisibleRange(r)
             \/ ResetView
             \/ ClearSelection
             \/ SelectAll
             \/ \E r \in Ranges : MovePan(r)
             \/ \E p \in Points, ctrl \in BOOLEAN : PressSelect(p, ctrl)
             \/ \E over \in Hits : PressNothing(over)
             \/ \E r \in Ranges : Wheel(r)
             \/ \E b \in {"left", "middle"} : ButtonElsewhere(b)
             \/ \E t \in Timers : TimerElapses(t)
             \/ \E t \in Timers : TimerIgnored(t)
             \/ TooltipTimer
             \/ AnimationTimer
      PROVE  UNCHANGED <<data, told, tainted, phase, dragPoint>>
  BY <1>1 DEF EnableInteraction, Materialise, AttachObservers, ApplySettings,
       SetSeriesVisible, SetAxis, SetVisibleRange, ResetView, ClearSelection,
       SelectAll, MovePan, PressSelect, PressNothing, Wheel, ButtonElsewhere,
       TimerElapses, TimerIgnored, TooltipTimer, AnimationTimer, PressFrame
<1>2. ASSUME UNCHANGED <<data, told, tainted, phase, dragPoint>> PROVE
     HostMirrorsData'
  BY <1>2
<1>3. ASSUME DisableInteraction PROVE HostMirrorsData'
  BY <1>3 DEF DisableInteraction, ResetToIdle, Taints, Abandoned,
       DefaultOptions, NoAnimation
<1>4. ASSUME NEW d \in InputLists, NEW vis \in SUBSET Series, SetSeries(d, vis)
     PROVE HostMirrorsData'
  BY <1>4 DEF SetSeries, Taints, Remembered, Lists
<1>5. ASSUME Undo PROVE HostMirrorsData'
  BY <1>5 DEF Undo, ApplyEdit, Taints, Abandoned
<1>6. ASSUME Redo PROVE HostMirrorsData'
  BY <1>6 DEF Redo, ApplyEdit, Taints, Abandoned
<1>7. ASSUME NEW over \in Hits, MoveHover(over) PROVE HostMirrorsData'
  BY <1>7 DEF MoveHover, Hits, ArmTooltip
<1>8. ASSUME NEW v \in Values, MoveDrag(v) PROVE HostMirrorsData'
  BY <1>8 DEF MoveDrag
<1>9. ASSUME PressPan PROVE HostMirrorsData'
  <2>1. phase # "drag_point"
    BY <1>9 DEF PressPan, LeftDown, GestureInv, GestureHasButton
  <2> QED BY <1>9, <2>1 DEF PressPan, LeftDown, PressFrame, BeginPan
<1>10. ASSUME NEW p \in Points, PressDrag(p) PROVE HostMirrorsData'
  <2>1. phase # "drag_point"
    BY <1>10 DEF PressDrag, LeftDown, GestureInv, GestureHasButton
  <2> QED BY <1>10, <2>1 DEF PressDrag, LeftDown, PressFrame, BeginDrag,
       Hittable
<1>11. ASSUME NEW over \in Hits, PressRange(over) PROVE HostMirrorsData'
  <2>1. phase # "drag_point"
    BY <1>11 DEF PressRange, LeftDown, GestureInv, GestureHasButton
  <2> QED BY <1>11, <2>1 DEF PressRange, LeftDown, PressFrame, BeginRangeSelect
<1>12. ASSUME CommitDrag PROVE HostMirrorsData'
  BY <1>12 DEF CommitDrag, LeftUp, ReleaseFrame, ResetToIdle, Committed
<1>13. ASSUME CompleteRange PROVE HostMirrorsData'
  BY <1>13 DEF CompleteRange, LeftUp, ReleaseFrame
<1>14. ASSUME ReleaseOther PROVE HostMirrorsData'
  BY <1>14 DEF ReleaseOther, LeftUp, ReleaseFrame, ResetToIdle
<1>15. ASSUME MButtonDown PROVE HostMirrorsData'
  BY <1>15 DEF MButtonDown, BeginPan, Taints, Abandoned, PressFrame
<1>16. ASSUME MButtonUp PROVE HostMirrorsData'
  BY <1>16 DEF MButtonUp, ResetToIdle, ReleaseFrame
<1>17. ASSUME CaptureLost PROVE HostMirrorsData'
  BY <1>17 DEF CaptureLost, ResetToIdle, Taints, Abandoned
<1> QED BY <1>1, <1>2, <1>3, <1>4, <1>5, <1>6, <1>7, <1>8, <1>9, <1>10, <1>11,
     <1>12, <1>13, <1>14, <1>15, <1>16, <1>17
       DEF Next, HostCalls, EditKeys, Mouse, Clock

-----------------------------------------------------------------------------
(* The edit history *)

\* Undo and redo move one command across the boundary between the two stacks:
\* the sequence of all commands stays the same.
LEMMA HistoryMoves ==
  ASSUME NEW s \in Seq(Commands), NEW r \in Seq(Commands), s # <<>>,
         NEW i \in 1 .. (Len(s) + Len(r))
  PROVE  (IF i <= Len(s) THEN s[i] ELSE r[Len(s) + Len(r) + 1 - i])
           = (IF i <= Len(s) - 1 THEN Popped(s)[i]
              ELSE Append(r, Top(s))[Len(s) + Len(r) + 1 - i])
<1>1. Len(s) \in Nat /\ Len(s) >= 1 /\ Len(r) \in Nat
  BY EmptySeq, LenProperties
<1>2. /\ Len(Append(r, Top(s))) = Len(r) + 1
      /\ Append(r, Top(s))[Len(r) + 1] = Top(s)
      /\ \A k \in 1 .. Len(r) : Append(r, Top(s))[k] = r[k]
  BY StackTypes, AppendProperties
<1>3. CASE i <= Len(s) - 1
  <2> DEFINE n == Len(s) - 1
  <2>1. n \in Int /\ 1 \in Int /\ i \in 1 .. n - 1 + 1 /\ 1 + i - 1 = i
    BY <1>1, <1>3
  <2>2. \A k \in 1 .. n : s[k] \in Commands
    BY <1>1, ElementOfSeq
  <2>3. SubSeq(s, 1, n)[i] = s[i]
    <3> HIDE DEF n
    <3> QED BY <2>1, <2>2, SubSeqProperties
  <2> QED BY <1>1, <1>3, <2>3 DEF Popped
<1>4. CASE i = Len(s)
  <2>1. Len(s) + Len(r) + 1 - i = Len(r) + 1 /\ ~(i <= Len(s) - 1) /\ i <=
       Len(s)
    BY <1>1, <1>4
  <2> QED BY <1>2, <1>4, <2>1 DEF Top
<1>5. CASE i > Len(s)
  <2>1. /\ Len(s) + Len(r) + 1 - i \in 1 .. Len(r)
        /\ ~(i <= Len(s) - 1) /\ ~(i <= Len(s))
    BY <1>1, <1>5
  <2> QED BY <1>2, <2>1
<1> QED BY <1>1, <1>3, <1>4, <1>5

\* Undo keeps the sequence of all commands.
LEMMA UndoKeepsHistory == ASSUME TypeInv, Undo PROVE History' = History
<1>1. /\ undo \in Seq(Commands) /\ redo \in Seq(Commands) /\ undo # <<>>
      /\ undo' = Popped(undo) /\ redo' = Append(redo, Top(undo))
  BY DEF Undo, TypeInv, TypeOK
<1>2. /\ Len(undo) \in Nat /\ Len(redo) \in Nat
      /\ Len(undo') = Len(undo) - 1 /\ Len(redo') = Len(redo) + 1
  BY <1>1, StackTypes, AppendProperties, LenProperties
<1>3. Len(undo') + Len(redo') = Len(undo) + Len(redo)
  BY <1>2
<1>4. \A i \in 1 .. (Len(undo) + Len(redo)) :
        (IF i <= Len(undo) THEN undo[i] ELSE redo[Len(undo) + Len(redo) + 1 -
             i])
          = (IF i <= Len(undo') THEN undo'[i]
             ELSE redo'[Len(undo') + Len(redo') + 1 - i])
  BY <1>1, <1>2, <1>3, HistoryMoves
<1> QED BY <1>3, <1>4 DEF History

\* Redo keeps it, seen from the other end.
LEMMA RedoKeepsHistory == ASSUME TypeInv, Redo PROVE History' = History
<1>1. /\ undo \in Seq(Commands) /\ redo \in Seq(Commands) /\ redo # <<>>
      /\ redo' = Popped(redo) /\ undo' = Append(undo, Top(redo))
  BY DEF Redo, TypeInv, TypeOK
<1>2. /\ Len(undo) \in Nat /\ Len(redo) \in Nat /\ Len(redo) >= 1
      /\ Len(redo') = Len(redo) - 1 /\ Len(undo') = Len(undo) + 1
  BY <1>1, StackTypes, AppendProperties, LenProperties, EmptySeq
<1>3. Len(undo') + Len(redo') = Len(undo) + Len(redo)
  BY <1>2
<1>4. ASSUME NEW i \in 1 .. (Len(undo) + Len(redo))
      PROVE  (IF i <= Len(undo) THEN undo[i]
              ELSE redo[Len(undo) + Len(redo) + 1 - i])
               = (IF i <= Len(undo') THEN undo'[i]
                  ELSE redo'[Len(undo') + Len(redo') + 1 - i])
  <2> DEFINE j == Len(undo) + Len(redo) + 1 - i
  <2>1. j \in 1 .. (Len(redo) + Len(undo))
    BY <1>2
  <2>2. (IF j <= Len(redo) THEN redo[j] ELSE undo[Len(redo) + Len(undo) + 1 -
       j])
          = (IF j <= Len(redo) - 1 THEN redo'[j]
             ELSE undo'[Len(redo) + Len(undo) + 1 - j])
    <3> HIDE DEF j
    <3> QED BY <1>1, <2>1, HistoryMoves
  <2>3. /\ Len(redo) + Len(undo) + 1 - j = i
        /\ Len(undo') + Len(redo') + 1 - i = j
        /\ j <= Len(redo) <=> ~(i <= Len(undo))
        /\ j <= Len(redo) - 1 <=> ~(i <= Len(undo'))
    BY <1>2, <1>3
  <2> HIDE DEF j
  <2>4. Len(undo) + Len(redo) + 1 - i = j
    BY DEF j
  <2> QED BY <2>2, <2>3, <2>4
<1> QED BY <1>3, <1>4 DEF History

\* Only undo, redo, a commit and the loss of the controller touch the stacks.
LEMMA StacksStep ==
  [Next]_vars => \/ UNCHANGED <<undo, redo>>
                 \/ Undo \/ Redo \/ CommitDrag \/ DisableInteraction
<1> SUFFICES ASSUME [Next]_vars
             PROVE  \/ UNCHANGED <<undo, redo>>
                    \/ Undo \/ Redo \/ CommitDrag \/ DisableInteraction
  OBVIOUS
<1>1. ASSUME \/ \E o \in OptionSets : EnableInteraction(o)
             \/ Materialise
             \/ AttachObservers
             \/ \E t \in {0, DefaultTicks} : ApplySettings(t)
             \/ \E d \in InputLists, vis \in SUBSET Series : SetSeries(d, vis)
             \/ \E s \in Series : SetSeriesVisible(s)
             \/ \E r \in Ranges : SetAxis(r)
             \/ \E r \in Ranges : SetVisibleRange(r)
             \/ ResetView
             \/ ClearSelection
             \/ SelectAll
             \/ \E over \in Hits : MoveHover(over)
             \/ \E v \in Values : MoveDrag(v)
             \/ \E r \in Ranges : MovePan(r)
             \/ PressPan
             \/ \E p \in Points : PressDrag(p)
             \/ \E p \in Points, ctrl \in BOOLEAN : PressSelect(p, ctrl)
             \/ \E over \in Hits : PressRange(over)
             \/ \E over \in Hits : PressNothing(over)
             \/ CompleteRange
             \/ ReleaseOther
             \/ MButtonDown
             \/ MButtonUp
             \/ \E r \in Ranges : Wheel(r)
             \/ \E b \in {"left", "middle"} : ButtonElsewhere(b)
             \/ CaptureLost
             \/ \E t \in Timers : TimerElapses(t)
             \/ \E t \in Timers : TimerIgnored(t)
             \/ TooltipTimer
             \/ AnimationTimer
      PROVE  UNCHANGED <<undo, redo>>
  BY <1>1 DEF EnableInteraction, Materialise, AttachObservers, ApplySettings,
       SetSeries, SetSeriesVisible, SetAxis, SetVisibleRange, ResetView,
       ClearSelection, SelectAll, MoveHover, MoveDrag, MovePan, PressPan,
       PressDrag, PressSelect, PressRange, PressNothing, CompleteRange,
       ReleaseOther, MButtonDown, MButtonUp, Wheel, ButtonElsewhere,
       CaptureLost, TimerElapses, TimerIgnored, TooltipTimer, AnimationTimer,
       PressFrame, ReleaseFrame
<1> QED BY <1>1 DEF Next, HostCalls, EditKeys, Mouse, Clock

-----------------------------------------------------------------------------
(* The chains of the edit history *)

\* The value from which undo and redo of a point start: the present one, or that
\* before the drag in progress.
Now(p) == IF phase = "drag_point" /\ dragPoint = p THEN dragOriginal ELSE data[p]

\* The commands of p in a history form a chain through now, which stands
\* between its first u commands and the others.
Linked(h, u, p, now) ==
    LET mine == {k \in DOMAIN h : h[k].point = p}
    IN  /\ \A i, j \in mine :
               i < j /\ (\A k \in mine : k <= i \/ j <= k) => h[i].new = h[j].old
        /\ \A i \in mine : i <= u /\ (\A k \in mine : k <= i \/ u < k) => h[i].new = now
        /\ \A j \in mine : u < j /\ (\A k \in mine : k <= u \/ j <= k) => h[j].old = now

\* A point that is remembered is there, unless it is tainted: undo, redo and the
\* commit find its slot.
Chained(p) == Linked(History, Len(undo), p, Now(p))
HistoryInv ==
    \A p \in Points \ tainted : Chained(p) /\ (p \in Remembered => data[p] # Absent)

\* Undo of a command of p: what it started from is now the value.
LEMMA LinkedBack ==
  ASSUME NEW n \in Nat, NEW h \in [1..n -> Commands], NEW u \in 1..n, NEW p \in Points,
         NEW now \in Values \cup {Absent},
         Linked(h, u, p, now)
  PROVE  /\ h[u].point = p => Linked(h, u - 1, p, h[u].old)
         /\ h[u].point # p => Linked(h, u - 1, p, now)
<1> DEFINE mine == {k \in DOMAIN h : h[k].point = p}
<1>0. /\ mine \subseteq 1..n
      /\ u \in mine <=> h[u].point = p
  OBVIOUS
<1>1. /\ \A i, j \in mine :
             i < j /\ (\A k \in mine : k <= i \/ j <= k) => h[i].new = h[j].old
      /\ \A i \in mine : i <= u /\ (\A k \in mine : k <= i \/ u < k) => h[i].new = now
      /\ \A j \in mine : u < j /\ (\A k \in mine : k <= u \/ j <= k) => h[j].old = now
  BY DEF Linked
<1> HIDE DEF mine
<1>2. ASSUME u \in mine
      PROVE  /\ \A i \in mine : i <= u - 1 /\ (\A k \in mine : k <= i \/ u - 1 < k)
                                  => h[i].new = h[u].old
             /\ \A j \in mine : u - 1 < j /\ (\A k \in mine : k <= u - 1 \/ j <= k)
                                  => h[j].old = h[u].old
  <2>1. ASSUME NEW i \in mine, i <= u - 1, \A k \in mine : k <= i \/ u - 1 < k
        PROVE  h[i].new = h[u].old
    BY <1>0, <1>1, <1>2, <2>1
  <2>2. ASSUME NEW j \in mine, u - 1 < j, \A k \in mine : k <= u - 1 \/ j <= k
        PROVE  j = u
    BY <1>0, <1>2, <2>2
  <2> QED BY <2>1, <2>2
<1>3. ASSUME u \notin mine
      PROVE  /\ \A i \in mine : i <= u - 1 /\ (\A k \in mine : k <= i \/ u - 1 < k)
                                  => h[i].new = now
             /\ \A j \in mine : u - 1 < j /\ (\A k \in mine : k <= u - 1 \/ j <= k)
                                  => h[j].old = now
  <2>1. \A k \in mine : k \in Int /\ k # u /\ (u - 1 < k <=> u < k) /\ (k <= u - 1 <=> k <= u)
    BY <1>0, <1>3
  <2> QED BY <1>1, <2>1
<1> QED BY <1>0, <1>1, <1>2, <1>3 DEF Linked, mine

\* Redo of a command of p: what it led to is now the value.
LEMMA LinkedForth ==
  ASSUME NEW n \in Nat, NEW h \in [1..n -> Commands], NEW u \in 0..(n - 1), NEW p \in Points,
         NEW now \in Values \cup {Absent},
         Linked(h, u, p, now)
  PROVE  /\ h[u + 1].point = p => Linked(h, u + 1, p, h[u + 1].new)
         /\ h[u + 1].point # p => Linked(h, u + 1, p, now)
<1> DEFINE mine == {k \in DOMAIN h : h[k].point = p}
<1>0. /\ mine \subseteq 1..n
      /\ u + 1 \in mine <=> h[u + 1].point = p
  OBVIOUS
<1>1. /\ \A i, j \in mine :
             i < j /\ (\A k \in mine : k <= i \/ j <= k) => h[i].new = h[j].old
      /\ \A i \in mine : i <= u /\ (\A k \in mine : k <= i \/ u < k) => h[i].new = now
      /\ \A j \in mine : u < j /\ (\A k \in mine : k <= u \/ j <= k) => h[j].old = now
  BY DEF Linked
<1> HIDE DEF mine
<1>2. ASSUME u + 1 \in mine
      PROVE  /\ \A i \in mine : i <= u + 1 /\ (\A k \in mine : k <= i \/ u + 1 < k)
                                  => h[i].new = h[u + 1].new
             /\ \A j \in mine : u + 1 < j /\ (\A k \in mine : k <= u + 1 \/ j <= k)
                                  => h[j].old = h[u + 1].new
  <2>1. ASSUME NEW i \in mine, i <= u + 1, \A k \in mine : k <= i \/ u + 1 < k
        PROVE  i = u + 1
    BY <1>0, <1>2, <2>1
  <2>2. ASSUME NEW j \in mine, u + 1 < j, \A k \in mine : k <= u + 1 \/ j <= k
        PROVE  h[j].old = h[u + 1].new
    BY <1>0, <1>1, <1>2, <2>2
  <2> QED BY <2>1, <2>2
<1>3. ASSUME u + 1 \notin mine
      PROVE  /\ \A i \in mine : i <= u + 1 /\ (\A k \in mine : k <= i \/ u + 1 < k)
                                  => h[i].new = now
             /\ \A j \in mine : u + 1 < j /\ (\A k \in mine : k <= u + 1 \/ j <= k)
                                  => h[j].old = now
  <2>1. \A k \in mine : k \in Int /\ k # u + 1 /\ (u + 1 < k <=> u < k) /\ (k <= u + 1 <=> k <= u)
    BY <1>0, <1>3
  <2> QED BY <1>1, <2>1
<1> QED BY <1>0, <1>1, <1>2, <1>3 DEF Linked, mine

\* A commit: what could be redone goes, the oldest command may go, and the new
\* one ends the history.
LEMMA LinkedCommit ==
  ASSUME NEW n \in Nat, NEW h \in [1..n -> Commands], NEW u \in 0..n, NEW p \in Points,
         NEW now \in Values \cup {Absent},
         Linked(h, u, p, now),
         NEW m \in Nat, NEW g \in [1..m -> Commands], m = u \/ m = u + 1,
         \A k \in 1..(m - 1) : g[k] = h[k + (u + 1 - m)]
  PROVE  /\ m > 0 /\ g[m].point = p /\ g[m].old = now => Linked(g, m, p, g[m].new)
         /\ m > 0 /\ g[m].point # p => Linked(g, m, p, now)
         /\ m = 0 => \A v \in Values \cup {Absent} : Linked(g, m, p, v)
<1> DEFINE s == u + 1 - m
<1>0. s \in {0, 1} /\ m = u + 1 - s /\ \A k \in 1..(m - 1) : g[k] = h[k + s]
  OBVIOUS
<1> HIDE DEF s
<1> DEFINE mine == {k \in DOMAIN h : h[k].point = p}
           new == {k \in DOMAIN g : g[k].point = p}
<1>1. /\ mine \subseteq 1..n
      /\ \A i, j \in mine :
             i < j /\ (\A k \in mine : k <= i \/ j <= k) => h[i].new = h[j].old
      /\ \A i \in mine : i <= u /\ (\A k \in mine : k <= i \/ u < k) => h[i].new = now
  BY DEF Linked
<1>2. /\ new \subseteq 1..m
      /\ \A k \in 1..(m - 1) : k + s \in 1..n /\ k + s \in 1..u /\ (k \in new <=> k + s \in mine)
      /\ m > 0 => (m \in new <=> g[m].point = p)
  BY <1>0
<1>3. \A k \in mine : k <= u /\ k > s => k - s \in new /\ k - s \in 1..(m - 1)
  <2> SUFFICES ASSUME NEW k \in mine, k <= u, k > s PROVE k - s \in new /\ k - s \in 1..(m - 1)
    OBVIOUS
  <2>1. k - s \in 1..(m - 1) /\ (k - s) + s = k
    BY <1>0, <1>1
  <2> QED BY <1>0, <1>2, <2>1
<1> HIDE DEF mine, new
<1>4. ASSUME NEW i \in new, i < m, \A k \in new : k <= i \/ m <= k
      PROVE  h[i + s].new = now
  <2>1. i \in 1..(m - 1) /\ i + s \in mine /\ i + s <= u
    BY <1>0, <1>2, <1>4
  <2>2. ASSUME NEW k \in mine, ~(u < k), ~(k <= i + s) PROVE FALSE
    <3>1. k - s \in new /\ k - s \in 1..(m - 1)
      BY <1>0, <1>1, <1>3, <2>1, <2>2
    <3> QED BY <1>0, <1>1, <1>4, <2>1, <2>2, <3>1
  <2> QED BY <1>0, <1>1, <2>1, <2>2
<1>5. ASSUME NEW i \in new, NEW j \in new, i < j, j < m, \A k \in new : k <= i \/ j <= k
      PROVE  g[i].new = g[j].old
  <2>1. /\ i \in 1..(m - 1) /\ i + s \in mine /\ g[i] = h[i + s]
        /\ j \in 1..(m - 1) /\ j + s \in mine /\ g[j] = h[j + s]
        /\ j + s <= u
    BY <1>0, <1>2, <1>5
  <2>2. ASSUME NEW k \in mine, ~(k <= i + s), ~(j + s <= k) PROVE FALSE
    <3>1. k - s \in new /\ k - s \in 1..(m - 1)
      BY <1>0, <1>1, <1>3, <2>1, <2>2
    <3> QED BY <1>0, <1>1, <1>5, <2>1, <2>2, <3>1
  <2>3. i + s < j + s
    BY <1>0, <1>5, <2>1
  <2> QED BY <1>0, <1>1, <2>1, <2>2, <2>3
<1>6. ASSUME m > 0, m \in new, g[m].old = now PROVE Linked(g, m, p, g[m].new)
  <2>1. ASSUME NEW i \in new, NEW j \in new, i < j, \A k \in new : k <= i \/ j <= k
        PROVE  g[i].new = g[j].old
    <3>1. CASE j = m
      <4>1. i \in 1..(m - 1) /\ i < m
        BY <1>0, <1>2, <2>1, <3>1
      <4> QED BY <1>0, <1>4, <1>6, <2>1, <3>1, <4>1
    <3>2. CASE j # m
      BY <1>0, <1>2, <1>5, <2>1, <3>2
    <3> QED BY <3>1, <3>2
  <2>2. ASSUME NEW i \in new, \A k \in new : k <= i \/ m < k PROVE i = m
    BY <1>0, <1>2, <1>6, <2>2
  <2>3. \A j \in new : ~(m < j)
    BY <1>0, <1>2
  <2> QED BY <2>1, <2>2, <2>3 DEF Linked, new
<1>7. ASSUME m > 0, m \notin new PROVE Linked(g, m, p, now)
  <2>1. ASSUME NEW i \in new, NEW j \in new, i < j, \A k \in new : k <= i \/ j <= k
        PROVE  g[i].new = g[j].old
    <3>1. i \in 1..m /\ j \in 1..m /\ j # m
      BY <1>0, <1>2, <1>7, <2>1
    <3>2. j < m
      BY <3>1
    <3> QED BY <1>5, <2>1, <3>2
  <2>2. ASSUME NEW i \in new, \A k \in new : k <= i \/ m < k PROVE g[i].new = now
    <3>1. i < m /\ i \in 1..(m - 1)
      BY <1>0, <1>2, <1>7
    <3>2. \A k \in new : k <= i \/ m <= k
      BY <1>0, <1>2, <2>2
    <3> QED BY <1>0, <1>4, <3>1, <3>2
  <2>3. \A j \in new : ~(m < j)
    BY <1>0, <1>2
  <2> QED BY <2>1, <2>2, <2>3 DEF Linked, new
<1>8. ASSUME m = 0 PROVE \A v \in Values \cup {Absent} : Linked(g, m, p, v)
  BY <1>0, <1>2, <1>8 DEF Linked, new
<1> QED BY <1>0, <1>2, <1>6, <1>7, <1>8

\* History as an operator on the two stacks, for lemmas about their tops.
HistoryOf(s, r) ==
    [i \in 1..(Len(s) + Len(r)) |->
        IF i <= Len(s) THEN s[i] ELSE r[Len(s) + Len(r) + 1 - i]]

\* The history holds the commands of both stacks, the top of undo just before
\* the top of redo.
LEMMA HistoryHolds ==
  ASSUME NEW s \in Seq(Commands), NEW r \in Seq(Commands)
  PROVE  /\ Len(s) \in Nat /\ Len(r) \in Nat
         /\ HistoryOf(s, r) \in [1..(Len(s) + Len(r)) -> Commands]
         /\ s # <<>> => Len(s) > 0 /\ HistoryOf(s, r)[Len(s)] = Top(s)
         /\ r # <<>> => Len(r) > 0 /\ HistoryOf(s, r)[Len(s) + 1] = Top(r)
<1> DEFINE h == HistoryOf(s, r)
<1>1. /\ Len(s) \in Nat /\ Len(r) \in Nat
      /\ s # <<>> => Len(s) > 0
      /\ r # <<>> => Len(r) > 0
  BY LenProperties, EmptySeq
<1>2. h \in [1..(Len(s) + Len(r)) -> Commands]
  <2> SUFFICES ASSUME NEW i \in 1..(Len(s) + Len(r))
               PROVE  (IF i <= Len(s) THEN s[i] ELSE r[Len(s) + Len(r) + 1 - i]) \in Commands
    BY DEF HistoryOf
  <2>1. i <= Len(s) => s[i] \in Commands
    BY <1>1, ElementOfSeq
  <2>2. ASSUME ~(i <= Len(s)) PROVE r[Len(s) + Len(r) + 1 - i] \in Commands
    <3>1. Len(s) + Len(r) + 1 - i \in 1..Len(r)
      BY <1>1, <2>2
    <3> QED BY <3>1, ElementOfSeq
  <2> QED BY <2>1, <2>2
<1>3. r # <<>> => h[Len(s) + 1] = Top(r)
  <2> SUFFICES ASSUME r # <<>> PROVE h[Len(s) + 1] = Top(r)
    OBVIOUS
  <2>1. /\ Len(s) + 1 \in 1..(Len(s) + Len(r)) /\ ~(Len(s) + 1 <= Len(s))
        /\ Len(s) + Len(r) + 1 - (Len(s) + 1) = Len(r)
    BY <1>1
  <2> QED BY <2>1 DEF Top, HistoryOf
<1>4. s # <<>> => h[Len(s)] = Top(s)
  BY <1>1 DEF Top, HistoryOf
<1> QED BY <1>1, <1>2, <1>3, <1>4

\* A point has a command in the history when it has one in a stack.
LEMMA HistoryPoints ==
  ASSUME NEW s \in Seq(Commands), NEW r \in Seq(Commands), NEW p \in Points
  PROVE  (\E k \in DOMAIN HistoryOf(s, r) : HistoryOf(s, r)[k].point = p)
           <=> \/ \E i \in 1..Len(s) : s[i].point = p
               \/ \E i \in 1..Len(r) : r[i].point = p
<1> DEFINE h == HistoryOf(s, r)
<1>1. Len(s) \in Nat /\ Len(r) \in Nat
  BY LenProperties
<1>2. ASSUME NEW i \in 1..Len(s), s[i].point = p
      PROVE  \E k \in DOMAIN h : h[k].point = p
  BY <1>1, <1>2 DEF HistoryOf
<1>3. ASSUME NEW i \in 1..Len(r), r[i].point = p
      PROVE  \E k \in DOMAIN h : h[k].point = p
  <2> DEFINE j == Len(s) + Len(r) + 1 - i
  <2>1. j \in 1..(Len(s) + Len(r)) /\ ~(j <= Len(s)) /\ Len(s) + Len(r) + 1 - j = i
    BY <1>1
  <2> HIDE DEF j
  <2> QED BY <1>3, <2>1 DEF HistoryOf
<1>4. ASSUME NEW k \in DOMAIN h, h[k].point = p
      PROVE  \/ \E i \in 1..Len(s) : s[i].point = p
             \/ \E i \in 1..Len(r) : r[i].point = p
  <2>1. \/ k \in 1..Len(s) /\ h[k] = s[k]
        \/ /\ Len(s) + Len(r) + 1 - k \in 1..Len(r)
           /\ h[k] = r[Len(s) + Len(r) + 1 - k]
    BY <1>1 DEF HistoryOf
  <2> QED BY <1>4, <2>1
<1> QED BY <1>2, <1>3, <1>4

\* The same of the state: a point is remembered by a command of the history or
\* by the drag in progress.
LEMMA RememberedInHistory ==
  ASSUME TypeOK
  PROVE  /\ History = HistoryOf(undo, redo)
         /\ \A p \in Points :
               p \in Remembered <=> \/ \E k \in DOMAIN History : History[k].point = p
                                    \/ phase = "drag_point" /\ dragPoint = p
<1>1. History = HistoryOf(undo, redo)
  BY DEF History, HistoryOf
<1>2. undo \in Seq(Commands) /\ redo \in Seq(Commands)
  BY DEF TypeOK
<1>3. ASSUME NEW p \in Points
      PROVE  p \in Remembered <=> \/ \E k \in DOMAIN History : History[k].point = p
                                  \/ phase = "drag_point" /\ dragPoint = p
  <2>1. (\E k \in DOMAIN HistoryOf(undo, redo) : HistoryOf(undo, redo)[k].point = p)
           <=> \/ \E i \in 1..Len(undo) : undo[i].point = p
               \/ \E i \in 1..Len(redo) : redo[i].point = p
    BY <1>2, HistoryPoints
  <2>2. (\E k \in DOMAIN History : History[k].point = p)
           <=> \/ \E i \in 1..Len(undo) : undo[i].point = p
               \/ \E i \in 1..Len(redo) : redo[i].point = p
    BY <1>1, <2>1
  <2> QED BY <2>2 DEF Remembered
<1> QED BY <1>1, <1>3

\* The same of the state after a step.
LEMMA RememberedAfter ==
  ASSUME TypeOK'
  PROVE  \A p \in Points :
            p \in Remembered' <=> \/ \E k \in DOMAIN History' : History'[k].point = p
                                  \/ phase' = "drag_point" /\ dragPoint' = p
<1>1. (TypeOK => \A p \in Points :
            p \in Remembered <=> \/ \E k \in DOMAIN History : History[k].point = p
                                 \/ phase = "drag_point" /\ dragPoint = p)'
  BY RememberedInHistory, PTL
<1> QED BY <1>1

\* Steps that leave the stacks alone keep the chains of the points whose value
\* they keep.
LEMMA ChainsKept ==
  ASSUME TypeOK, HistoryInv, UNCHANGED <<undo, redo>>, tainted \subseteq tainted',
         \A p \in Points \ tainted' :
            p \in Remembered \/ p \in Remembered'
              => Now(p)' = Now(p) /\ (data'[p] = Absent => data[p] = Absent /\ p \in Remembered)
  PROVE  HistoryInv'
<1> SUFFICES ASSUME NEW p \in Points \ tainted'
             PROVE  Chained(p)' /\ (p \in Remembered' => data'[p] # Absent)
  BY DEF HistoryInv
<1>1. p \in Points \ tainted /\ Chained(p) /\ (p \in Remembered => data[p] # Absent)
  BY DEF HistoryInv
<1>2. History' = History /\ undo' = undo
  BY DEF History
<1>3. CASE p \in Remembered \/ p \in Remembered'
  BY <1>1, <1>2, <1>3 DEF Chained
<1>4. CASE p \notin Remembered /\ p \notin Remembered'
  <2>1. {k \in DOMAIN History : History[k].point = p} = {}
    BY <1>4, RememberedInHistory
  <2> QED BY <1>2, <1>4, <2>1 DEF Chained, Linked
<1> QED BY <1>3, <1>4
\* Steps that touch neither stack nor value nor the drag.
LEMMA ChainsUntouched ==
  ASSUME TypeOK, HistoryInv, UNCHANGED <<undo, redo, data, tainted>>,
         phase = "drag_point" <=> phase' = "drag_point",
         phase = "drag_point" => UNCHANGED <<dragPoint, dragOriginal>>
  PROVE  HistoryInv'
<1>1. \A p \in Points : /\ Now(p)' = Now(p)
                        /\ p \in Remembered' => p \in Remembered
  BY DEF Now, Remembered
<1> QED BY <1>1, ChainsKept DEF HistoryInv

\* Undo puts the old value of the last command back where the chain of its
\* point stands; no other chain is touched.
LEMMA UndoKeepsChains == ASSUME TypeInv, TypeInv', HistoryInv, Undo PROVE HistoryInv'
<1> DEFINE u == Len(undo)
           n == Len(undo) + Len(redo)
<1>1. /\ undo \in Seq(Commands) /\ redo \in Seq(Commands) /\ undo # <<>>
      /\ data \in [Points -> Values \cup {Absent}] /\ dragOriginal \in Values
      /\ TypeOK /\ TypeOK'
  BY DEF Undo, TypeInv, TypeOK
<1>2. /\ Top(undo) \in Commands /\ Top(undo).point \in Points /\ Top(undo).old \in Values
      /\ Len(undo') = u - 1
  BY <1>1, StackTypes DEF Undo, Commands
<1>3. /\ n \in Nat /\ u \in 1..n
      /\ History \in [1..n -> Commands]
      /\ History[u] = Top(undo)
  <2>1. History = HistoryOf(undo, redo)
    BY <1>1, RememberedInHistory
  <2> QED BY <1>1, <2>1, HistoryHolds
<1>4. History' = History
  BY UndoKeepsHistory
<1>5. UNCHANGED <<phase, dragPoint, dragOriginal>>
  BY DEF Undo
<1> SUFFICES ASSUME NEW p \in Points \ tainted'
             PROVE  Chained(p)' /\ (p \in Remembered' => data'[p] # Absent)
  BY DEF HistoryInv
<1>6. /\ p \in Points /\ Linked(History, u, p, Now(p))
      /\ p \in Remembered => data[p] # Absent
  BY DEF HistoryInv, Undo, Taints, Chained
<1>7. Now(p) \in Values \cup {Absent}
  BY <1>1 DEF Now
<1>8. /\ History[u].point = p => Linked(History, u - 1, p, History[u].old)
      /\ History[u].point # p => Linked(History, u - 1, p, Now(p))
  <2> HIDE DEF u, n
  <2> QED BY <1>3, <1>6, <1>7, LinkedBack
<1>9. p \in Remembered' => p \in Remembered
  <2>1. p \in Remembered => \/ \E k \in DOMAIN History : History[k].point = p
                            \/ phase = "drag_point" /\ dragPoint = p
    BY <1>1, RememberedInHistory
  <2>2. p \in Remembered' => \/ \E k \in DOMAIN History' : History'[k].point = p
                             \/ phase' = "drag_point" /\ dragPoint' = p
    BY <1>1, RememberedAfter
  <2>3. (\E k \in DOMAIN History : History[k].point = p) => p \in Remembered
    BY <1>1, RememberedInHistory
  <2> QED BY <1>4, <1>5, <2>2, <2>3 DEF Remembered
<1>10. CASE Top(undo).point = p
  <2>1. p \in Remembered
    BY <1>1, <1>2, <1>3, <1>10, RememberedInHistory
  <2>2. data'[p] = Top(undo).old
    BY <1>1, <1>6, <1>10, <2>1 DEF Undo, ApplyEdit
  <2>3. ~(phase = "drag_point" /\ dragPoint = p)
    BY <1>10 DEF Undo, Taints, Abandoned
  <2>4. Now(p)' = Top(undo).old
    BY <1>5, <2>2, <2>3 DEF Now
  <2>5. Linked(History, u - 1, p, Top(undo).old)
    BY <1>3, <1>8, <1>10
  <2>6. Chained(p)'
    BY <1>2, <1>4, <2>4, <2>5 DEF Chained
  <2> QED BY <1>2, <2>2, <2>6, ValuesAssumption
<1>11. CASE Top(undo).point # p
  <2>1. data'[p] = data[p]
    BY <1>1, <1>6, <1>11 DEF Undo, ApplyEdit
  <2>2. Now(p)' = Now(p)
    BY <1>5, <2>1 DEF Now
  <2>3. Linked(History, u - 1, p, Now(p))
    BY <1>3, <1>8, <1>11
  <2> QED BY <1>2, <1>4, <1>6, <1>9, <2>1, <2>2, <2>3 DEF Chained
<1> QED BY <1>10, <1>11

\* Redo, likewise, of the first command that was undone.
LEMMA RedoKeepsChains == ASSUME TypeInv, TypeInv', HistoryInv, Redo PROVE HistoryInv'
<1> DEFINE u == Len(undo)
           n == Len(undo) + Len(redo)
<1>1. /\ undo \in Seq(Commands) /\ redo \in Seq(Commands) /\ redo # <<>>
      /\ data \in [Points -> Values \cup {Absent}] /\ dragOriginal \in Values
      /\ TypeOK /\ TypeOK'
  BY DEF Redo, TypeInv, TypeOK
<1>2. /\ Top(redo) \in Commands /\ Top(redo).point \in Points /\ Top(redo).new \in Values
      /\ Len(undo') = u + 1
  <2>1. Top(redo) \in Commands /\ undo' = Append(undo, Top(redo))
    BY <1>1, StackTypes DEF Redo
  <2> QED BY <1>1, <2>1, AppendProperties DEF Commands
<1>3. /\ n \in Nat /\ u \in 0..(n - 1) /\ u + 1 \in 1..n
      /\ History \in [1..n -> Commands]
      /\ History[u + 1] = Top(redo)
  <2>1. History = HistoryOf(undo, redo)
    BY <1>1, RememberedInHistory
  <2> QED BY <1>1, <2>1, HistoryHolds
<1>4. History' = History
  BY RedoKeepsHistory
<1>5. UNCHANGED <<phase, dragPoint, dragOriginal>>
  BY DEF Redo
<1> SUFFICES ASSUME NEW p \in Points \ tainted'
             PROVE  Chained(p)' /\ (p \in Remembered' => data'[p] # Absent)
  BY DEF HistoryInv
<1>6. /\ p \in Points /\ Linked(History, u, p, Now(p))
      /\ p \in Remembered => data[p] # Absent
  BY DEF HistoryInv, Redo, Taints, Chained
<1>7. Now(p) \in Values \cup {Absent}
  BY <1>1 DEF Now
<1>8. /\ History[u + 1].point = p => Linked(History, u + 1, p, History[u + 1].new)
      /\ History[u + 1].point # p => Linked(History, u + 1, p, Now(p))
  <2> HIDE DEF u, n
  <2> QED BY <1>3, <1>6, <1>7, LinkedForth
<1>9. p \in Remembered' => p \in Remembered
  <2>1. p \in Remembered' => \/ \E k \in DOMAIN History' : History'[k].point = p
                             \/ phase' = "drag_point" /\ dragPoint' = p
    BY <1>1, RememberedAfter
  <2>2. (\E k \in DOMAIN History : History[k].point = p) => p \in Remembered
    BY <1>1, RememberedInHistory
  <2> QED BY <1>4, <1>5, <2>1, <2>2 DEF Remembered
<1>10. CASE Top(redo).point = p
  <2>1. p \in Remembered
    BY <1>1, <1>2, <1>3, <1>10, RememberedInHistory
  <2>2. data'[p] = Top(redo).new
    BY <1>1, <1>6, <1>10, <2>1 DEF Redo, ApplyEdit
  <2>3. ~(phase = "drag_point" /\ dragPoint = p)
    BY <1>10 DEF Redo, Taints, Abandoned
  <2>4. Now(p)' = Top(redo).new
    BY <1>5, <2>2, <2>3 DEF Now
  <2>5. Linked(History, u + 1, p, Top(redo).new)
    BY <1>3, <1>8, <1>10
  <2>6. Chained(p)'
    BY <1>2, <1>4, <2>4, <2>5 DEF Chained
  <2> QED BY <1>2, <2>2, <2>6, ValuesAssumption
<1>11. CASE Top(redo).point # p
  <2>1. data'[p] = data[p]
    BY <1>1, <1>6, <1>11 DEF Redo, ApplyEdit
  <2>2. Now(p)' = Now(p)
    BY <1>5, <2>1 DEF Now
  <2>3. Linked(History, u + 1, p, Now(p))
    BY <1>3, <1>8, <1>11
  <2> QED BY <1>2, <1>4, <1>6, <1>9, <2>1, <2>2, <2>3 DEF Chained
<1> QED BY <1>10, <1>11

\* What the stacks look like after the push of a commit.
LEMMA PushShifts ==
  ASSUME NEW s \in Seq(Commands), NEW c \in Commands, opts.depth \in Nat
  PROVE  \E d \in {0, 1} :
            /\ Len(PushCommand(s, c)) = Len(s) + 1 - d
            /\ \A k \in 1..(Len(PushCommand(s, c)) - 1) : PushCommand(s, c)[k] = s[k + d]
            /\ Len(PushCommand(s, c)) > 0
                 => PushCommand(s, c)[Len(PushCommand(s, c))] = c
<1> DEFINE t == Append(s, c)
<1>1. /\ t \in Seq(Commands) /\ Len(t) = Len(s) + 1 /\ Len(s) \in Nat /\ t # <<>>
      /\ t[Len(s) + 1] = c /\ \A k \in 1..Len(s) : t[k] = s[k]
  BY AppendProperties, LenProperties
<1>2. CASE Len(t) > opts.depth
  <2>1. PushCommand(s, c) = Tail(t)
    BY <1>2 DEF PushCommand
  <2> HIDE DEF t
  <2>2. /\ Len(Tail(t)) = Len(s)
        /\ \A k \in 1..Len(s) : Tail(t)[k] = t[k + 1]
    BY <1>1, HeadTailProperties
  <2>3. \A k \in 1..(Len(s) - 1) : k \in 1..Len(s) /\ k + 1 \in 1..Len(s)
    BY <1>1
  <2>4. Len(s) > 0 => Len(s) \in 1..Len(s)
    BY <1>1
  <2>5. Len(s) = Len(s) + 1 - 1
    BY <1>1
  <2> QED BY <1>1, <2>1, <2>2, <2>3, <2>4, <2>5
<1>3. CASE ~(Len(t) > opts.depth)
  <2>1. PushCommand(s, c) = t
    BY <1>3 DEF PushCommand
  <2>2. \A k \in 1..(Len(t) - 1) : k + 0 = k /\ k \in 1..Len(s)
    BY <1>1
  <2> QED BY <1>1, <2>1, <2>2
<1> QED BY <1>2, <1>3

\* A commit appends its command to what is in force and may forget the oldest.
LEMMA CommitShifts ==
  ASSUME TypeInv, TypeInv', CommitDrag
  PROVE  \E d \in {0, 1} :
            /\ Len(undo') = Len(undo) + 1 - d
            /\ History' \in [1..Len(undo') -> Commands]
            /\ \A k \in 1..(Len(undo') - 1) : History'[k] = History[k + d]
            /\ Len(undo') > 0
                 => History'[Len(undo')]
                      = [point |-> dragPoint, old |-> dragOriginal, new |-> Committed]
<1> DEFINE u == Len(undo)
           n == Len(undo) + Len(redo)
           m == Len(undo')
           c == [point |-> dragPoint, old |-> dragOriginal, new |-> Committed]
<1>1. /\ undo \in Seq(Commands) /\ redo \in Seq(Commands) /\ undo' \in Seq(Commands)
      /\ data \in [Points -> Values \cup {Absent}] /\ dragOriginal \in Values
      /\ dragPoint \in Points /\ opts.depth \in Nat
      /\ TypeOK /\ TypeOK'
  BY DEF CommitDrag, TypeInv, TypeOK, DragsAPoint, Options
<1>2. c \in Commands /\ c.point = dragPoint /\ c.old = dragOriginal /\ c.new = Committed
  BY <1>1, ValuesAssumption DEF Committed, Commands
<1>3. /\ redo' = <<>> /\ UNCHANGED <<data, tainted>>
      /\ undo' = PushCommand(undo, c) /\ phase' = "idle" /\ phase = "drag_point"
  BY DEF CommitDrag, ResetToIdle
<1>4. PICK d \in {0, 1} :
         /\ m = u + 1 - d
         /\ \A k \in 1..(m - 1) : undo'[k] = undo[k + d]
         /\ m > 0 => undo'[m] = c
  <2> HIDE DEF c
  <2> QED BY <1>1, <1>2, <1>3, PushShifts
<1>5. /\ n \in Nat /\ u \in 0..n /\ m \in Nat
      /\ History \in [1..n -> Commands]
      /\ \A k \in 1..u : History[k] = undo[k]
  <2>1. History = HistoryOf(undo, redo)
    BY <1>1, RememberedInHistory
  <2>2. u \in Nat /\ Len(redo) \in Nat /\ m \in Nat
    BY <1>1, LenProperties
  <2>3. \A k \in 1..u : History[k] = undo[k]
    BY <2>2 DEF History
  <2> QED BY <1>1, <2>1, <2>2, <2>3, HistoryHolds
<1>6. /\ History' \in [1..m -> Commands]
      /\ \A k \in 1..m : History'[k] = undo'[k]
  <2>1. Len(redo') = 0 /\ m + 0 = m
    BY <1>3, <1>5, EmptySeq
  <2>2. History' = [k \in 1..m |-> IF k <= m THEN undo'[k] ELSE redo'[m + 1 - k]]
    BY <2>1 DEF History
  <2>3. \A k \in 1..m : k <= m /\ undo'[k] \in Commands
    BY <1>1, <1>5, ElementOfSeq
  <2> HIDE DEF m
  <2> QED BY <2>2, <2>3
<1>7. /\ \A k \in 1..(m - 1) : History'[k] = History[k + d]
      /\ m > 0 => History'[m] = c
  <2>1. \A k \in 1..(m - 1) : k \in 1..m /\ k + d \in 1..u
    BY <1>4, <1>5
  <2>2. m > 0 => m \in 1..m
    BY <1>5
  <2> HIDE DEF m, c, u
  <2> QED BY <1>4, <1>5, <1>6, <2>1, <2>2
<1> QED BY <1>4, <1>6, <1>7

\* The commit of a drag: the new command leads from the value at its begin to
\* the present one and ends the chain of its point.
LEMMA CommitKeepsChains == ASSUME TypeInv, TypeInv', HistoryInv, CommitDrag PROVE HistoryInv'
<1> DEFINE u == Len(undo)
           n == Len(undo) + Len(redo)
           m == Len(undo')
           c == [point |-> dragPoint, old |-> dragOriginal, new |-> Committed]
<1>1. /\ undo \in Seq(Commands) /\ redo \in Seq(Commands) /\ undo' \in Seq(Commands)
      /\ data \in [Points -> Values \cup {Absent}] /\ dragOriginal \in Values
      /\ dragPoint \in Points /\ opts.depth \in Nat
      /\ TypeOK /\ TypeOK'
  BY DEF CommitDrag, TypeInv, TypeOK, DragsAPoint, Options
<1>2. c \in Commands /\ c.point = dragPoint /\ c.old = dragOriginal /\ c.new = Committed
  BY <1>1, ValuesAssumption DEF Committed, Commands
<1>3. /\ redo' = <<>> /\ UNCHANGED <<data, tainted>>
      /\ undo' = PushCommand(undo, c) /\ phase' = "idle" /\ phase = "drag_point"
  BY DEF CommitDrag, ResetToIdle
<1>4. PICK d \in {0, 1} :
         /\ m = u + 1 - d
         /\ History' \in [1..m -> Commands]
         /\ \A k \in 1..(m - 1) : History'[k] = History[k + d]
         /\ m > 0 => History'[m] = c
  BY CommitShifts
<1>5. /\ n \in Nat /\ u \in 0..n /\ m \in Nat
      /\ History \in [1..n -> Commands]
  <2>1. History = HistoryOf(undo, redo)
    BY <1>1, RememberedInHistory
  <2> QED BY <1>1, <2>1, HistoryHolds, LenProperties
<1> SUFFICES ASSUME NEW p \in Points \ tainted'
             PROVE  Chained(p)' /\ (p \in Remembered' => data'[p] # Absent)
  BY DEF HistoryInv
<1>8. /\ p \in Points /\ Linked(History, u, p, Now(p))
      /\ p \in Remembered => data[p] # Absent
  BY <1>3 DEF HistoryInv, Chained
<1>9. Now(p) \in Values \cup {Absent} /\ Now(p)' = data[p]
  BY <1>1, <1>3 DEF Now
<1>10. /\ m > 0 /\ History'[m].point = p /\ History'[m].old = Now(p)
            => Linked(History', m, p, History'[m].new)
       /\ m > 0 /\ History'[m].point # p => Linked(History', m, p, Now(p))
       /\ m = 0 => \A v \in Values \cup {Absent} : Linked(History', m, p, v)
  <2>1. \A k \in 1..(m - 1) : History'[k] = History[k + d]
    BY <1>4
  <2>2. (m = u \/ m = u + 1) /\ u + 1 - m = d
    BY <1>4, <1>5
  <2>3. /\ n \in Nat /\ u \in 0..n /\ m \in Nat
        /\ History \in [1..n -> Commands] /\ History' \in [1..m -> Commands]
    BY <1>5, <1>4
  <2> DEFINE now == Now(p)
             h == History
             g == History'
  <2>4. now \in Values \cup {Absent} /\ Linked(h, u, p, now) /\ p \in Points
    BY <1>8, <1>9
  <2> HIDE DEF m, u, n, c, now, h, g
  <2>5. /\ m > 0 /\ g[m].point = p /\ g[m].old = now => Linked(g, m, p, g[m].new)
        /\ m > 0 /\ g[m].point # p => Linked(g, m, p, now)
        /\ m = 0 => \A v \in Values \cup {Absent} : Linked(g, m, p, v)
    <3>1. /\ h \in [1..n -> Commands] /\ g \in [1..m -> Commands]
          /\ \A k \in 1..(m - 1) : g[k] = h[k + (u + 1 - m)]
      BY <2>1, <2>2, <2>3 DEF h, g
    <3> QED BY <2>2, <2>3, <2>4, <3>1, LinkedCommit
  <2> QED BY <2>5 DEF g, now
<1>11. Linked(History', m, p, data[p])
  <2>1. CASE m > 0 /\ dragPoint = p
    <3>1. p \in Remembered
      BY <1>1, <1>3, <2>1, RememberedInHistory
    <3>2. Now(p) = dragOriginal /\ Committed = data[p]
      BY <1>3, <1>8, <2>1, <3>1 DEF Now, Committed
    <3> QED BY <1>2, <1>4, <1>10, <2>1, <3>2
  <2>2. CASE m > 0 /\ dragPoint # p
    <3>1. Now(p) = data[p]
      BY <2>2 DEF Now
    <3> QED BY <1>2, <1>4, <1>10, <2>2, <3>1
  <2>3. CASE m = 0
    BY <1>1, <1>8, <1>10, <2>3
  <2> QED BY <1>5, <2>1, <2>2, <2>3
<1>12. p \in Remembered' => data'[p] # Absent
  <2> SUFFICES ASSUME p \in Remembered' PROVE p \in Remembered
    BY <1>3, <1>8
  <2>1. \/ \E k \in DOMAIN History' : History'[k].point = p
        \/ phase' = "drag_point" /\ dragPoint' = p
    BY <1>1, RememberedAfter
  <2>2. PICK k \in 1..m : History'[k].point = p
    BY <1>3, <1>4, <2>1
  <2>3. CASE k = m
    <3>1. dragPoint = p
      BY <1>2, <1>5, <1>4, <2>2, <2>3
    <3> QED BY <1>1, <1>3, <3>1, RememberedInHistory
  <2>4. CASE k # m
    <3>1. k \in 1..(m - 1) /\ k + d \in 1..n
      BY <1>4, <1>5, <2>4
    <3>2. History[k + d].point = p /\ k + d \in DOMAIN History
      BY <1>5, <1>4, <2>2, <3>1
    <3> QED BY <1>1, <1>8, <3>2, RememberedInHistory
  <2> QED BY <2>3, <2>4
<1> QED BY <1>3, <1>9, <1>11, <1>12 DEF Chained

\* Every step keeps the chains of the points it does not taint.
THEOREM HistoryInvStep == TypeInv /\ TypeInv' /\ GestureInv /\ HistoryInv /\ Next => HistoryInv'
<1> SUFFICES ASSUME TypeInv, TypeInv', GestureInv, HistoryInv, Next PROVE HistoryInv'
  OBVIOUS
<1>0. TypeOK /\ TypeOK' /\ DragsAPoint
  BY DEF TypeInv
<1>1. ASSUME \/ \E o \in OptionSets : EnableInteraction(o)
             \/ Materialise
             \/ AttachObservers
             \/ \E t \in {0, DefaultTicks} : ApplySettings(t)
             \/ \E s \in Series : SetSeriesVisible(s)
             \/ \E r \in Ranges : SetAxis(r)
             \/ \E r \in Ranges : SetVisibleRange(r)
             \/ ResetView
             \/ ClearSelection
             \/ SelectAll
             \/ \E r \in Ranges : MovePan(r)
             \/ \E p \in Points, ctrl \in BOOLEAN : PressSelect(p, ctrl)
             \/ \E over \in Hits : PressNothing(over)
             \/ \E r \in Ranges : Wheel(r)
             \/ \E b \in {"left", "middle"} : ButtonElsewhere(b)
             \/ \E t \in Timers : TimerElapses(t)
             \/ \E t \in Timers : TimerIgnored(t)
             \/ TooltipTimer
             \/ AnimationTimer
      PROVE  UNCHANGED <<undo, redo, data, tainted, phase, dragPoint, dragOriginal>>
  BY <1>1 DEF EnableInteraction, Materialise, AttachObservers, ApplySettings,
       SetSeriesVisible, SetAxis, SetVisibleRange, ResetView, ClearSelection,
       SelectAll, MovePan, PressSelect, PressNothing, Wheel, ButtonElsewhere,
       TimerElapses, TimerIgnored, TooltipTimer, AnimationTimer, PressFrame
<1>2. ASSUME UNCHANGED <<undo, redo, data, tainted, phase, dragPoint, dragOriginal>>
      PROVE  HistoryInv'
  BY <1>0, <1>2, ChainsUntouched
<1>3. ASSUME \/ \E over \in Hits : MoveHover(over)
             \/ PressPan
             \/ \E over \in Hits : PressRange(over)
             \/ CompleteRange
             \/ ReleaseOther
             \/ MButtonUp
      PROVE  HistoryInv'
  <2>1. UNCHANGED <<undo, redo, data, tainted>>
    BY <1>3 DEF MoveHover, PressPan, PressRange, CompleteRange, ReleaseOther, MButtonUp,
         PressFrame, ReleaseFrame
  <2>2. phase = "drag_point" => UNCHANGED <<phase, dragPoint, dragOriginal>>
    BY <1>3 DEF MoveHover, PressPan, PressRange, CompleteRange, ReleaseOther, MButtonUp,
         LeftDown, GestureInv, GestureHasButton
  <2>3. phase' = "drag_point" => phase = "drag_point"
    BY <1>3 DEF MoveHover, PressPan, PressRange, CompleteRange, ReleaseOther, MButtonUp,
         BeginPan, BeginRangeSelect, ResetToIdle
  <2> QED BY <1>0, <2>1, <2>2, <2>3, ChainsUntouched
<1>4. ASSUME MButtonDown \/ CaptureLost PROVE HistoryInv'
  <2>1. /\ UNCHANGED <<undo, redo, data>>
        /\ \/ UNCHANGED <<tainted, phase, dragPoint, dragOriginal>>
           \/ tainted' = tainted \cup Abandoned /\ phase' # "drag_point"
    BY <1>4 DEF MButtonDown, CaptureLost, BeginPan, ResetToIdle, Taints, PressFrame
  <2>2. CASE UNCHANGED <<tainted, phase, dragPoint, dragOriginal>>
    BY <1>2, <2>1, <2>2
  <2>3. CASE tainted' = tainted \cup Abandoned /\ phase' # "drag_point"
    <3>1. \A p \in Points \ tainted' :
             /\ ~(phase = "drag_point" /\ dragPoint = p)
             /\ Now(p)' = Now(p)
             /\ p \in Remembered' => p \in Remembered
      BY <2>1, <2>3 DEF Abandoned, Now, Remembered
    <3> QED BY <1>0, <2>1, <2>3, <3>1, ChainsKept DEF HistoryInv
  <2> QED BY <2>1, <2>2, <2>3
<1>5. ASSUME DisableInteraction PROVE HistoryInv'
  <2>1. undo' = <<>> /\ redo' = <<>> /\ phase' = "idle"
    BY <1>5 DEF DisableInteraction, ResetToIdle
  <2>2. DOMAIN History' = {} /\ Remembered' = {}
    <3>1. Len(undo') = 0 /\ Len(redo') = 0
      BY <2>1
    <3> QED BY <2>1, <3>1 DEF History, Remembered
  <2> QED BY <2>2 DEF HistoryInv, Chained, Linked
<1>6. ASSUME NEW d \in InputLists, NEW vis \in SUBSET Series, SetSeries(d, vis)
      PROVE  HistoryInv'
  <2>1. /\ UNCHANGED <<undo, redo, phase, dragPoint, dragOriginal>> /\ data' = d
        /\ tainted' = tainted \cup {p \in Remembered : d[p] # data[p]}
    BY <1>6 DEF SetSeries, Taints
  <2>2. \A p \in Points : p \in Remembered' => p \in Remembered
    BY <2>1 DEF Remembered
  <2>3. \A p \in Points \ tainted' : p \in Remembered => data'[p] = data[p] /\ Now(p)' = Now(p)
    BY <2>1 DEF Now
  <2> QED BY <1>0, <2>1, <2>2, <2>3, ChainsKept
<1>7. ASSUME NEW v \in Values, MoveDrag(v) PROVE HistoryInv'
  <2>1. /\ UNCHANGED <<undo, redo, phase, dragPoint, dragOriginal, tainted>>
        /\ phase = "drag_point" /\ dragPoint \in Points /\ v # Absent
        /\ data' = [data EXCEPT ![dragPoint] = v]
    BY <1>0, <1>7, ValuesAssumption DEF MoveDrag, DragsAPoint
  <2>2. \A p \in Points : /\ Now(p)' = Now(p)
                          /\ p \in Remembered' => p \in Remembered
                          /\ data'[p] = Absent => data[p] = Absent
    BY <1>0, <2>1 DEF Now, Remembered, TypeOK
  <2> QED BY <1>0, <2>1, <2>2, ChainsKept DEF HistoryInv
<1>8. ASSUME NEW q \in Points, PressDrag(q) PROVE HistoryInv'
  <2>1. /\ UNCHANGED <<undo, redo, data, tainted>> /\ phase # "drag_point"
        /\ dragPoint' = q /\ dragOriginal' = data[q] /\ data[q] # Absent
    BY <1>8 DEF PressDrag, BeginDrag, LeftDown, Hittable, PressFrame, GestureInv,
         GestureHasButton
  <2>2. \A p \in Points : /\ Now(p)' = Now(p)
                          /\ p \in Remembered' => p \in Remembered \/ p = q
    BY <2>1 DEF Now, Remembered
  <2> QED BY <1>0, <2>1, <2>2, ChainsKept DEF HistoryInv
<1> QED BY <1>1, <1>2, <1>3, <1>4, <1>5, <1>6, <1>7, <1>8, UndoKeepsChains,
     RedoKeepsChains, CommitKeepsChains DEF Next, HostCalls, EditKeys, Mouse, Clock

-----------------------------------------------------------------------------
(* The specification *)

\* The initial state: no controller, no window input, an empty chart.
LEMMA InitInv == Init => IndInv
<1> SUFFICES ASSUME Init PROVE IndInv
  OBVIOUS
<1>1. TypeInv
  BY PointsAssumption, ValuesAssumption, RangesAssumption, OptionTypes,
     AnimationTypes, EmptySeq
     DEF Init, TypeInv, TypeOK, DragsAPoint, Phases
<1>2. GestureInv
  BY DEF Init, GestureInv, CaptureMatchesGesture, GestureHasButton, Gestures,
         DefaultOptions
<1>3. TimerInv
  BY DEF Init, TimerInv, TimerDrivesAnimation, ResetIsCarried, TooltipHasPoint,
         NoAnimation
<1>4. UndoInv
  <2>1. Len(undo) + Len(redo) = 0
    BY EmptySeq DEF Init
  <2>2. DefaultOptions.depth >= 0 /\ opts = DefaultOptions
    BY OptionTypes DEF Init, Options
  <2> QED BY <2>1, <2>2 DEF UndoInv, UndoBounded, DepthConfigured
<1>5. HostMirrorsData
  BY DEF Init, HostMirrorsData
<1> QED BY <1>1, <1>2, <1>3, <1>4, <1>5 DEF IndInv

\* A stuttering step keeps every part: all of them are state predicates.
LEMMA StutterInv == IndInv /\ UNCHANGED vars => IndInv'
<1> SUFFICES ASSUME IndInv, UNCHANGED vars PROVE IndInv'
  OBVIOUS
<1>1. TypeInv'
  BY DEF IndInv, TypeInv, TypeOK, DragsAPoint
<1>2. GestureInv'
  BY DEF IndInv, GestureInv, CaptureMatchesGesture, GestureHasButton, Enabled
<1>3. TimerInv'
  BY DEF IndInv, TimerInv, TimerDrivesAnimation, ResetIsCarried,
       TooltipHasPoint
<1>4. UndoInv'
  BY DEF IndInv, UndoInv, UndoBounded, DepthConfigured
<1>5. HostMirrorsData'
  BY DEF IndInv, HostMirrorsData
<1> QED BY <1>1, <1>2, <1>3, <1>4, <1>5 DEF IndInv

\* IndInv holds in every reachable state.
THEOREM Invariance == Spec => []IndInv
<1>1. IndInv /\ Next => IndInv'
  BY TypeInvStep, GestureInvStep, TimerInvStep, UndoInvStep, MirrorInvStep
     DEF IndInv
<1> QED BY <1>1, InitInv, StutterInv, PTL DEF Spec

\* Type correctness of the controller and its chart.
THEOREM TypeCorrect == Spec => []TypeOK
<1>1. IndInv => TypeOK
  BY DEF IndInv, TypeInv
<1> QED BY <1>1, Invariance, PTL

\* Mouse capture and gesture coincide in every reachable state.
THEOREM CaptureDiscipline == Spec => []CaptureMatchesGesture
<1>1. IndInv => CaptureMatchesGesture
  BY DEF IndInv, GestureInv
<1> QED BY <1>1, Invariance, PTL

\* No gesture survives the release of the button that drives it.
THEOREM GesturesEnd == Spec => []GestureHasButton
<1>1. IndInv => GestureHasButton
  BY DEF IndInv, GestureInv
<1> QED BY <1>1, Invariance, PTL

\* Gesture, capture, button and tooltip agree in every reachable state.
THEOREM GesturesConsistent == Spec => []GestureConsistent
<1>1. IndInv => GestureConsistent
  BY DEF IndInv, GestureInv, TimerInv, GestureConsistent
<1> QED BY <1>1, Invariance, PTL

\* Whoever created the controller, an enabled one shows a seeded view.
THEOREM Seeding == Spec => []EnabledIsSeeded
<1>1. IndInv => EnabledIsSeeded
  BY DEF IndInv, GestureInv, EnabledIsSeeded, Enabled
<1> QED BY <1>1, Invariance, PTL

\* The animation timer runs exactly while there is something to animate.
THEOREM TimerDiscipline == Spec => []TimerDrivesAnimation
<1>1. IndInv => TimerDrivesAnimation
  BY DEF IndInv, TimerInv
<1> QED BY <1>1, Invariance, PTL

\* A reset announced to nobody yet has an animation that will end it.
THEOREM ResetCarried == Spec => []ResetIsCarried
<1>1. IndInv => ResetIsCarried
  BY DEF IndInv, TimerInv
<1> QED BY <1>1, Invariance, PTL

\* View, animation, timer and pending reset agree in every reachable state.
THEOREM ViewsConsistent == Spec => []ViewConsistent
<1>1. IndInv => ViewConsistent
  BY DEF IndInv, GestureInv, TimerInv, ViewConsistent, EnabledIsSeeded, Enabled
<1> QED BY <1>1, Invariance, PTL

\* A tooltip, shown or armed, belongs to a point.
THEOREM TooltipSafe == Spec => []TooltipHasPoint
<1>1. IndInv => TooltipHasPoint
  BY DEF IndInv, TimerInv
<1> QED BY <1>1, Invariance, PTL

\* Undo and redo together never hold more commands than some configured depth.
THEOREM UndoDepth == Spec => []UndoBounded
<1>1. IndInv => UndoBounded
  BY DEF IndInv, UndoInv
<1> QED BY <1>1, Invariance, PTL

\* A host that listens to on_point_edited has the values of the chart.
THEOREM HostMirror == Spec => []HostMirrorsData
<1>1. IndInv => HostMirrorsData
  BY DEF IndInv
<1> QED BY <1>1, Invariance, PTL

\* The three parts of Linked are what HistoryChains says.
LEMMA ChainsFollow == TypeOK /\ HistoryInv => HistoryChains
<1> SUFFICES ASSUME TypeOK, HistoryInv, NEW p \in Points \ tainted
             PROVE  LET mine == {i \in DOMAIN History : History[i].point = p}
                        now == IF phase = "drag_point" /\ dragPoint = p
                               THEN dragOriginal ELSE data[p]
                        None(a, b) == \A k \in mine : k <= a \/ b <= k
                    IN  \A i, j \in mine \cup {0, Len(undo) + Len(redo) + 1} :
                            i < j /\ None(i, j) =>
                              /\ i \in mine /\ j \in mine => History[i].new = History[j].old
                              /\ i \in mine /\ i <= Len(undo) /\ j > Len(undo)
                                    => History[i].new = now
                              /\ j \in mine /\ i <= Len(undo) /\ j > Len(undo)
                                    => History[j].old = now
  BY DEF HistoryChains
<1> DEFINE h == History
           u == Len(undo)
           top == Len(undo) + Len(redo) + 1
           mine == {i \in DOMAIN h : h[i].point = p}
           now == IF phase = "drag_point" /\ dragPoint = p THEN dragOriginal ELSE data[p]
<1>1. u \in Nat /\ top \in Nat /\ u < top
  BY LenProperties DEF TypeOK
<1>2. mine \subseteq 1..(top - 1)
  BY <1>1 DEF History
<1>3. /\ \A i, j \in mine :
             i < j /\ (\A k \in mine : k <= i \/ j <= k) => h[i].new = h[j].old
      /\ \A i \in mine : i <= u /\ (\A k \in mine : k <= i \/ u < k) => h[i].new = now
      /\ \A j \in mine : u < j /\ (\A k \in mine : k <= u \/ j <= k) => h[j].old = now
  BY DEF HistoryInv, Chained, Linked, Now
<1> HIDE DEF h, u, top, mine, now
<1>4. ASSUME NEW i \in mine \cup {0, top}, NEW j \in mine \cup {0, top}, i < j,
             \A k \in mine : k <= i \/ j <= k
      PROVE  /\ i \in mine /\ j \in mine => h[i].new = h[j].old
             /\ i \in mine /\ i <= u /\ j > u => h[i].new = now
             /\ j \in mine /\ i <= u /\ j > u => h[j].old = now
  <2>1. i \in Int /\ j \in Int /\ \A k \in mine : k \in Int
    BY <1>1, <1>2
  <2>2. ASSUME i \in mine, i <= u, j > u PROVE h[i].new = now
    BY <1>1, <1>3, <1>4, <2>1, <2>2
  <2>3. ASSUME j \in mine, i <= u, j > u PROVE h[j].old = now
    BY <1>1, <1>3, <1>4, <2>1, <2>3
  <2> QED BY <1>3, <1>4, <2>2, <2>3
<1> QED BY <1>4 DEF h, u, top, mine, now

\* In every reachable state undo and redo walk the values the points really had:
\* the commands of a point whose edits were not cut off are a chain through its
\* present value.
THEOREM HistoryChained == Spec => []HistoryChains
<1>1. Init => HistoryInv
  <2> SUFFICES ASSUME Init PROVE HistoryInv
    OBVIOUS
  <2>1. undo = <<>> /\ redo = <<>> /\ phase = "idle"
    BY DEF Init
  <2>2. DOMAIN History = {} /\ Remembered = {}
    <3>1. Len(undo) = 0 /\ Len(redo) = 0
      BY <2>1
    <3> QED BY <2>1, <3>1 DEF History, Remembered
  <2> QED BY <2>2 DEF HistoryInv, Chained, Linked
<1>2. IndInv /\ IndInv' /\ HistoryInv /\ [Next]_vars => HistoryInv'
  <2> SUFFICES ASSUME IndInv, IndInv', HistoryInv, [Next]_vars PROVE HistoryInv'
    OBVIOUS
  <2>1. CASE Next
    BY <2>1, HistoryInvStep DEF IndInv
  <2>2. CASE UNCHANGED vars
    BY <2>2, ChainsUntouched DEF IndInv, TypeInv
  <2> QED BY <2>1, <2>2
<1>3. IndInv /\ HistoryInv => HistoryChains
  BY ChainsFollow DEF IndInv, TypeInv
<1> QED BY <1>1, <1>2, <1>3, Invariance, PTL DEF Spec

-----------------------------------------------------------------------------
(* The edit history *)

\* A function on 1..n is a sequence of length n.
LEMMA FunctionIsSeq ==
  ASSUME NEW n \in Nat, NEW h \in [1..n -> Commands]
  PROVE  h \in Seq(Commands) /\ Len(h) = n
<1>1. h \in Seq(Commands)
  BY SeqDef
<1>2. Len(h) \in Nat /\ DOMAIN h = 1..Len(h) /\ DOMAIN h = 1..n
  BY <1>1, LenProperties
<1> QED BY <1>1, <1>2

\* The history is a sequence of commands and the undo stack ends inside it.
LEMMA HistoryIsSeq ==
  ASSUME TypeOK
  PROVE  /\ History \in Seq(Commands)
         /\ Len(History) = Len(undo) + Len(redo)
         /\ Len(undo) \in Nat /\ Len(redo) \in Nat
         /\ History \in [1..(Len(undo) + Len(redo)) -> Commands]
         /\ undo # <<>> => Len(undo) > 0 /\ History[Len(undo)] = Top(undo)
         /\ redo # <<>> => Len(redo) > 0 /\ History[Len(undo) + 1] = Top(redo)
<1>1. undo \in Seq(Commands) /\ redo \in Seq(Commands)
  BY DEF TypeOK
<1>2. History = HistoryOf(undo, redo)
  BY RememberedInHistory
<1>3. /\ Len(undo) \in Nat /\ Len(redo) \in Nat
      /\ History \in [1..(Len(undo) + Len(redo)) -> Commands]
      /\ undo # <<>> => Len(undo) > 0 /\ History[Len(undo)] = Top(undo)
      /\ redo # <<>> => Len(redo) > 0 /\ History[Len(undo) + 1] = Top(redo)
  BY <1>1, <1>2, HistoryHolds
<1>4. Len(undo) + Len(redo) \in Nat
  BY <1>3
<1> QED BY <1>3, <1>4, FunctionIsSeq

\* No commands, no history.
LEMMA EmptyHistory ==
  /\ undo = <<>> /\ redo = <<>> => Len(undo) = 0 /\ History = <<>>
  /\ undo' = <<>> /\ redo' = <<>> => Len(undo') = 0 /\ History' = <<>>
<1>1. Len(<<>>) = 0
  BY EmptySeq
<1>2. ASSUME undo = <<>>, redo = <<>> PROVE History = <<>>
  BY <1>1, <1>2 DEF History
<1>3. ASSUME undo' = <<>>, redo' = <<>> PROVE History' = <<>>
  BY <1>1, <1>3 DEF History
<1> QED BY <1>1, <1>2, <1>3

\* Undo moves the place back over one command and tells its old value.
LEMMA UndoMoves == ASSUME TypeInv, Undo PROVE Edits!Undo
<1>1. /\ TypeOK /\ undo \in Seq(Commands) /\ undo # <<>>
      /\ undo' = Popped(undo) /\ told' = [told EXCEPT ![Top(undo).point] = Top(undo).old]
  BY DEF Undo, ApplyEdit, TypeInv, TypeOK
<1>2. Len(undo') = Len(undo) - 1
  BY <1>1, StackTypes
<1>3. History' = History
  BY UndoKeepsHistory
<1>4. Len(undo) > 0 /\ History[Len(undo)] = Top(undo)
  BY <1>1, HistoryIsSeq
<1> QED BY <1>1, <1>2, <1>3, <1>4 DEF Edits!Undo, Edits!Tell

\* Redo moves it forward and tells the new value.
LEMMA RedoMoves == ASSUME TypeInv, Redo PROVE Edits!Redo
<1>1. /\ TypeOK /\ undo \in Seq(Commands) /\ redo \in Seq(Commands) /\ redo # <<>>
      /\ undo' = Append(undo, Top(redo)) /\ Top(redo) \in Commands
      /\ told' = [told EXCEPT ![Top(redo).point] = Top(redo).new]
  BY StackTypes DEF Redo, ApplyEdit, TypeInv, TypeOK
<1>2. Len(undo') = Len(undo) + 1
  BY <1>1, AppendProperties
<1>3. History' = History
  BY RedoKeepsHistory
<1>4. /\ Len(redo) > 0 /\ History[Len(undo) + 1] = Top(redo)
      /\ Len(undo) \in Nat /\ Len(redo) \in Nat
      /\ Len(History) = Len(undo) + Len(redo)
  BY <1>1, HistoryIsSeq
<1>5. Len(undo) < Len(History)
  BY <1>4
<1> QED BY <1>1, <1>2, <1>3, <1>4, <1>5 DEF Edits!Redo, Edits!Tell

\* A commit cuts the history off at the place and continues it there.
LEMMA CommitContinues ==
  ASSUME TypeInv, TypeInv', CommitDrag
  PROVE  \E c \in Commands, forgotten \in {0, 1} : Edits!Commit(c, forgotten)
<1> DEFINE u == Len(undo)
           m == Len(undo')
           c == [point |-> dragPoint, old |-> dragOriginal, new |-> Committed]
           prefix == SubSeq(History, 1, u)
           full == Append(prefix, c)
<1>1. TypeOK /\ TypeOK'
  BY DEF TypeInv
<1>2. c \in Commands /\ c.point = dragPoint /\ c.new = Committed
  BY ValuesAssumption
     DEF CommitDrag, TypeInv, TypeOK, DragsAPoint, Committed, Commands
<1>3. PICK d \in {0, 1} :
         /\ m = u + 1 - d
         /\ History' \in [1..m -> Commands]
         /\ \A k \in 1..(m - 1) : History'[k] = History[k + d]
         /\ m > 0 => History'[m] = c
  BY CommitShifts
<1>4. /\ u \in Nat /\ Len(redo) \in Nat /\ m \in Nat
      /\ History \in [1..(u + Len(redo)) -> Commands]
  <2>1. undo' \in Seq(Commands)
    BY <1>1 DEF TypeOK
  <2> QED BY <1>1, <2>1, HistoryIsSeq, LenProperties
<1>5. History' \in Seq(Commands) /\ Len(History') = m
  <2> DEFINE g == History'
  <2>1. m \in Nat /\ g \in [1..m -> Commands]
    BY <1>3, <1>4
  <2> HIDE DEF g, m
  <2>2. g \in Seq(Commands) /\ Len(g) = m
    BY <2>1, FunctionIsSeq
  <2> QED BY <2>2 DEF g
<1>6. /\ prefix \in Seq(Commands) /\ Len(prefix) = u
      /\ \A i \in 1..u : prefix[i] = History[i]
  <2>1. \A i \in 1..u : History[i] \in Commands
    BY <1>4
  <2>2. /\ prefix \in Seq(Commands)
        /\ Len(prefix) = IF 1 <= u THEN u - 1 + 1 ELSE 0
        /\ \A i \in 1..(u - 1 + 1) : prefix[i] = History[1 + i - 1]
    <3>1. 1 \in Int /\ u \in Int
      BY <1>4
    <3> HIDE DEF u
    <3> QED BY <2>1, <3>1, SubSeqProperties
  <2> HIDE DEF u, prefix
  <2> QED BY <1>4, <2>2
<1>7. /\ full \in Seq(Commands) /\ Len(full) = u + 1
      /\ \A i \in 1..u : full[i] = History[i]
      /\ full[u + 1] = c
  <2> HIDE DEF u, prefix, c
  <2> QED BY <1>2, <1>6, AppendProperties
<1>8. /\ SubSeq(full, 1 + d, u + 1) \in Seq(Commands)
      /\ Len(SubSeq(full, 1 + d, u + 1)) = m
      /\ \A i \in 1..m : SubSeq(full, 1 + d, u + 1)[i] = full[i + d]
  <2> HIDE DEF u, m, full, c
  <2>1. 1 + d \in Int /\ u + 1 \in Int
    BY <1>3, <1>4
  <2>2. \A i \in (1 + d)..(u + 1) : full[i] \in Commands
    <3>1. \A i \in (1 + d)..(u + 1) : i \in 1..(u + 1)
      BY <1>4
    <3> QED BY <1>7, <3>1, ElementOfSeq
  <2>3. PICK a \in Int, b \in Int : a = 1 + d /\ b = u + 1
    BY <2>1
  <2>4. \A i \in a..b : full[i] \in Commands
    BY <2>2, <2>3
  <2>5. /\ SubSeq(full, a, b) \in Seq(Commands)
        /\ Len(SubSeq(full, a, b)) = IF a <= b THEN b - a + 1 ELSE 0
        /\ \A i \in 1..(b - a + 1) : SubSeq(full, a, b)[i] = full[a + i - 1]
    BY <2>4, SubSeqProperties
  <2>6. /\ b - a + 1 = m
        /\ m = IF a <= b THEN b - a + 1 ELSE 0
        /\ \A i \in 1..m : a + i - 1 = i + d
    BY <1>3, <1>4, <2>3
  <2>7. SubSeq(full, a, b) = SubSeq(full, 1 + d, u + 1)
    BY <2>3
  <2> QED BY <2>5, <2>6, <2>7
<1>9. History' = SubSeq(full, 1 + d, u + 1)
  <2> DEFINE h == History
             g == History'
             t == SubSeq(full, 1 + d, u + 1)
  <2>1. ASSUME NEW i \in 1..m PROVE g[i] = t[i]
    <3>1. t[i] = full[i + d]
      BY <1>8
    <3>2. CASE i = m
      <4>1. m > 0 /\ m + d = u + 1
        BY <1>3, <1>4, <3>2
      <4>2. g[m] = c
        BY <1>3, <4>1
      <4> HIDE DEF u, m, full, c, g, t
      <4> QED BY <1>7, <3>1, <3>2, <4>1, <4>2
    <3>3. CASE i # m
      <4>1. i \in 1..(m - 1) /\ i + d \in 1..u
        BY <1>3, <1>4, <3>3
      <4>2. g[i] = h[i + d]
        BY <1>3, <4>1
      <4>3. full[i + d] = h[i + d]
        BY <1>7, <4>1
      <4> HIDE DEF u, m, full, c, g, h, t
      <4> QED BY <3>1, <4>2, <4>3
    <3> QED BY <3>2, <3>3
  <2>2. g \in Seq(Commands) /\ Len(g) = m /\ t \in Seq(Commands) /\ Len(t) = m
    BY <1>5, <1>8
  <2>3. g = t
    <3> HIDE DEF g, t, m
    <3> QED BY <2>1, <2>2, SeqEqual
  <2> QED BY <2>3
<1>10. told' = [told EXCEPT ![c.point] = c.new]
  BY <1>2 DEF CommitDrag
<1>11. Edits!Commit(c, d)
  <2>1. m = u + 1 - d
    BY <1>3
  <2> QED BY <1>9, <1>10, <2>1 DEF Edits!Commit, Edits!Tell
<1> QED BY <1>2, <1>11

\* Every step of the chart is a step of its edit history or leaves it alone.
THEOREM HistorySimulation ==
  IndInv /\ IndInv' /\ [Next]_vars => [Edits!Next]_<<History, Len(undo), told>>
<1> SUFFICES ASSUME IndInv, IndInv', [Next]_vars
             PROVE  Edits!Next \/ UNCHANGED <<History, Len(undo), told>>
  OBVIOUS
<1>0. TypeInv /\ TypeInv' /\ told' \in [Points -> Values \cup {Absent}]
  BY DEF IndInv, TypeInv, TypeOK
<1>1. CASE UNCHANGED <<undo, redo>>
  <2>1. UNCHANGED <<History, Len(undo)>>
    BY <1>1 DEF History
  <2> QED BY <1>0, <2>1 DEF Edits!Next, Edits!Supply
<1>2. CASE Undo
  BY <1>0, <1>2, UndoMoves DEF Edits!Next
<1>3. CASE Redo
  BY <1>0, <1>3, RedoMoves DEF Edits!Next
<1>4. CASE CommitDrag
  BY <1>0, <1>4, CommitContinues DEF Edits!Next
<1>5. CASE DisableInteraction
  <2>1. undo' = <<>> /\ redo' = <<>> /\ told' = told
    BY <1>5 DEF DisableInteraction
  <2>2. Len(undo') = 0 /\ History' = <<>>
    BY <2>1, EmptyHistory
  <2> QED BY <2>1, <2>2 DEF Edits!Next, Edits!Drop
<1> QED BY <1>1, <1>2, <1>3, <1>4, <1>5, StacksStep

\* The controller implements the specification of its edit history.
THEOREM HistoryRefinement == Spec => ImplementsEditHistory
<1>1. Init => Edits!Init
  <2> SUFFICES ASSUME Init PROVE Edits!Init
    OBVIOUS
  <2>1. undo = <<>> /\ redo = <<>> /\ told \in [Points -> Values \cup {Absent}]
    BY DEF Init
  <2> QED BY <2>1, EmptyHistory DEF Edits!Init
<1>2. IndInv /\ IndInv' /\ [Next]_vars => [Edits!Next]_<<History, Len(undo), told>>
  BY HistorySimulation
<1> QED BY <1>1, <1>2, Invariance, PTL DEF Spec, ImplementsEditHistory, Edits!Spec

-----------------------------------------------------------------------------
(* The refinement of ChartViewport: the initial state is Blank, and every  *)
(* step of the chart is a step of the view or leaves it alone.             *)

\* A new chart is a blank view.
LEMMA BlankInit == Init => Viewport!Init
<1> SUFFICES ASSUME Init PROVE Viewport!Init
  OBVIOUS
<1>1. Enabled = FALSE /\ Animated = (DefaultTicks > 0)
  BY DEF Init, Enabled, Animated, DefaultOptions
<1> QED BY <1>1 DEF Init, Viewport!Init, Viewport!Blank, Viewport!Without, AsViewport, NoAnimation

\* The steps that do not touch the view.
LEMMA ElsewhereStep ==
  ASSUME UNCHANGED <<live, opts, seeded, view, home, axis, anim>>
  PROVE  UNCHANGED AsViewport
BY DEF AsViewport, Enabled, Animated

\* enable_interaction and the calls that create or drop the controller.
LEMMA LifeStep ==
  ASSUME opts.modes = {} \/ live,
         \/ \E o \in OptionSets : EnableInteraction(o)
         \/ Materialise \/ AttachObservers \/ DisableInteraction
  PROVE  Viewport!Next
<1>1. ASSUME NEW o \in OptionSets, EnableInteraction(o) PROVE Viewport!Next
  <2>1. Enabled' = TRUE /\ Animated' \in BOOLEAN
    BY <1>1, OptionsAssumption DEF EnableInteraction, Enabled, Animated
  <2>2. AsViewport' = Viewport!EnabledAs(AsViewport, Animated')
    BY <1>1, <2>1 DEF EnableInteraction, AsViewport, Viewport!EnabledAs
  <2> QED BY <2>1, <2>2 DEF Viewport!Next, Viewport!Enable
<1>2. CASE Materialise
  <2>1. Enabled = FALSE /\ Enabled' = FALSE /\ Animated' = Animated
    BY <1>2 DEF Materialise, Enabled, Animated
  <2>2. AsViewport' = Viewport!Materialised(AsViewport)
    BY <1>2, <2>1 DEF Materialise, AsViewport, Viewport!Materialised
  <2> QED BY <1>2, <2>2 DEF Viewport!Next, Viewport!Create, Materialise, AsViewport
<1>3. CASE AttachObservers
  <2>1. Enabled = FALSE /\ Enabled' = FALSE /\ Animated' = Animated
    BY <1>3 DEF AttachObservers, Enabled, Animated
  <2>2. AsViewport' = Viewport!Attached(AsViewport)
    BY <1>3, <2>1 DEF AttachObservers, AsViewport, Viewport!Attached
  <2> QED BY <1>3, <2>2 DEF Viewport!Next, Viewport!Create, AttachObservers, AsViewport
<1>4. CASE DisableInteraction
  <2>1. Enabled' = FALSE /\ Animated' = (DefaultTicks > 0)
    BY <1>4 DEF DisableInteraction, Enabled, Animated, DefaultOptions
  <2>2. AsViewport' = Viewport!Disabled(AsViewport)
    BY <1>4, <2>1 DEF DisableInteraction, AsViewport, Viewport!Disabled,
                     Viewport!Without, NoAnimation
  <2> QED BY <1>4, <2>2 DEF Viewport!Next, Viewport!Disable, DisableInteraction, AsViewport
<1> QED BY <1>1, <1>2, <1>3, <1>4

\* The view with another pace, with another range.
WithPace(s) ==
    [live |-> live, on |-> Enabled, smooth |-> s, seeded |-> seeded,
     view |-> view, home |-> home, axis |-> axis,
     moving |-> anim.active, goal |-> anim.to]
WithRange(r) ==
    [live |-> live, on |-> Enabled, smooth |-> Animated, seeded |-> seeded,
     view |-> r, home |-> home, axis |-> axis,
     moving |-> anim.active, goal |-> anim.to]

\* The updates of one field, as the two modules write them.
LEMMA UpdateForms ==
  /\ \A s : Viewport!Tuned(AsViewport, s) = WithPace(s)
  /\ \A r : [AsViewport EXCEPT !.view = r] = WithRange(r)
BY DEF AsViewport, Viewport!Tuned, WithPace, WithRange

\* Settings and axes.
LEMMA ConfigureStep ==
  ASSUME TypeOK,
         \/ \E t \in {0, DefaultTicks} : ApplySettings(t)
         \/ \E r \in Ranges : SetAxis(r)
  PROVE  Viewport!Next
<1>1. ASSUME NEW t \in {0, DefaultTicks}, ApplySettings(t) PROVE Viewport!Next
  <2>1. Enabled' = Enabled
    BY <1>1 DEF ApplySettings, Enabled, TypeOK, Options
  <2>2. AsViewport' = WithPace(Animated')
    BY <1>1, <2>1 DEF ApplySettings, AsViewport, WithPace
  <2>3. Animated' \in BOOLEAN
    BY <1>1 DEF ApplySettings, Animated
  <2> QED BY <1>1, <2>2, <2>3, UpdateForms
          DEF Viewport!Next, Viewport!Configure, ApplySettings, AsViewport
<1>2. ASSUME NEW r \in Ranges, SetAxis(r) PROVE Viewport!Next
  <2>1. Enabled' = Enabled /\ Animated' = Animated
    BY <1>2 DEF SetAxis, Enabled, Animated
  <2>2. AsViewport' = Viewport!WithAxis(AsViewport, r)
    BY <1>2, <2>1 DEF SetAxis, AsViewport, Viewport!WithAxis
  <2> QED BY <2>2 DEF Viewport!Next, Viewport!Configure
<1> QED BY <1>1, <1>2

\* set_visible_range, a pan and an animation frame place the view.
LEMMA PlaceStep ==
  ASSUME NEW r \in Ranges, live, view' = r,
         UNCHANGED <<live, opts, seeded, home, axis, anim.active, anim.to>>
  PROVE  Viewport!Next
<1>1. Enabled' = Enabled /\ Animated' = Animated
  BY DEF Enabled, Animated
<1>2. AsViewport' = Viewport!Placed(AsViewport, r)
  BY <1>1 DEF AsViewport, Viewport!Placed
<1> QED BY <1>2 DEF Viewport!Next, Viewport!Place, AsViewport

\* A wheel zoom and reset_view move the view or start an animation.
LEMMA MoveStep ==
  ASSUME NEW r \in Ranges,
         Animated => anim' = [active |-> TRUE, to |-> r, left |-> opts.ticks] /\ view' = view,
         ~Animated => view' = r /\ anim' = anim,
         UNCHANGED <<live, opts, seeded, home, axis>>
  PROVE  AsViewport' = Viewport!MovedTo(AsViewport, r)
<1>1. Enabled' = Enabled /\ Animated' = Animated
  BY DEF Enabled, Animated
<1>2. CASE Animated
  <2>1. view' = view /\ anim'.active = TRUE /\ anim'.to = r
    BY <1>2
  <2>2. AsViewport.smooth
    BY <1>2 DEF AsViewport
  <2>3. AsViewport' = Viewport!MovedTo(AsViewport, r)
    BY <1>1, <2>1, <2>2 DEF AsViewport, Viewport!MovedTo
  <2> QED BY <2>3
<1>3. CASE ~Animated
  <2>1. view' = r /\ anim' = anim
    BY <1>3
  <2>2. AsViewport' = [AsViewport EXCEPT !.view = r]
    <3>1. AsViewport' = WithRange(r)
      BY <1>1, <2>1 DEF AsViewport, WithRange
    <3> QED BY <3>1, UpdateForms
  <2>3. ~AsViewport.smooth
    BY <1>3 DEF AsViewport
  <2> QED BY <2>2, <2>3 DEF Viewport!MovedTo
<1> QED BY <1>2, <1>3

\* The calls and messages that move the view.
LEMMA ViewStep ==
  ASSUME TypeOK,
         \/ \E r \in Ranges : SetVisibleRange(r) \/ MovePan(r) \/ Wheel(r)
         \/ ResetView
  PROVE  Viewport!Next
<1>1. ASSUME NEW r \in Ranges, SetVisibleRange(r) \/ MovePan(r) PROVE Viewport!Next
  BY <1>1, PlaceStep DEF SetVisibleRange, MovePan, Enabled
<1>2. ASSUME NEW r \in Ranges, Wheel(r) PROVE Viewport!Next
  <2>1. AsViewport' = Viewport!MovedTo(AsViewport, r)
    BY <1>2, MoveStep DEF Wheel, Animate
  <2>2. AsViewport.on
    BY <1>2 DEF Wheel, AsViewport
  <2> QED BY <2>1, <2>2 DEF Viewport!Next, Viewport!Zoom
<1>3. CASE ResetView
  <2>1. AsViewport' = Viewport!MovedTo(AsViewport, home)
    BY <1>3, MoveStep DEF ResetView, Animate, TypeOK
  <2>2. AsViewport.home = home /\ AsViewport.live
    BY <1>3 DEF ResetView, AsViewport
  <2> QED BY <2>1, <2>2 DEF Viewport!Next, Viewport!Reset, Viewport!ResetHome
<1> QED BY <1>1, <1>2, <1>3

\* WM_TIMER of the animation: a frame, the settling one, or nothing.
LEMMA AnimationTimerStep ==
  ASSUME TypeOK, AnimationTimer
  PROVE  Viewport!Next \/ UNCHANGED AsViewport
<1>1. live /\ Enabled /\ UNCHANGED <<live, opts, seeded, home, axis>>
  BY DEF AnimationTimer, Enabled
<1>2. ASSUME NEW r \in Ranges, AnimationStep(r) PROVE Viewport!Next
  <2>1. UNCHANGED <<anim.active, anim.to>>
    BY <1>2 DEF AnimationStep, TypeOK, Animations
  <2>2. view' = r
    BY <1>2 DEF AnimationStep
  <2> QED BY <1>1, <2>1, <2>2, PlaceStep
<1>3. CASE AnimationSettles
  <2>1. Enabled' = Enabled /\ Animated' = Animated
    BY <1>1 DEF Enabled, Animated
  <2>2. AsViewport' = Viewport!Settled(AsViewport)
    BY <1>1, <1>3, <2>1
       DEF AnimationSettles, AsViewport, Viewport!Settled, NoAnimation
  <2>3. AsViewport.on /\ AsViewport.moving
    BY <1>1, <1>3 DEF AnimationSettles, AsViewport
  <2> QED BY <2>2, <2>3 DEF Viewport!Next, Viewport!Settle
<1>4. CASE UNCHANGED <<view, anim>>
  BY <1>1, <1>4, ElsewhereStep
<1> QED BY <1>2, <1>3, <1>4 DEF AnimationTimer

\* Every step of the chart is a step of its view or leaves the view alone.
THEOREM ViewSimulation ==
  IndInv /\ [Next]_vars => [Viewport!Next]_AsViewport
<1> SUFFICES ASSUME IndInv, [Next]_vars
             PROVE  Viewport!Next \/ UNCHANGED AsViewport
  OBVIOUS
<1> USE DEF IndInv, TypeInv
<1>1. CASE UNCHANGED vars
  BY <1>1, ElsewhereStep DEF vars
<1>2. CASE HostCalls
  <2>1. opts.modes = {} \/ live
    BY DEF GestureInv
  <2>2. CASE \/ \E d \in InputLists, vis \in SUBSET Series : SetSeries(d, vis)
             \/ \E s \in Series : SetSeriesVisible(s)
    BY <2>2, ElsewhereStep DEF SetSeries, SetSeriesVisible
  <2> QED BY <1>2, <2>1, <2>2, LifeStep, ConfigureStep, ViewStep DEF HostCalls
<1>3. CASE EditKeys
  BY <1>3, ElsewhereStep DEF EditKeys, Undo, Redo, ClearSelection, SelectAll
<1>4. CASE Mouse
  <2>1. CASE \E r \in Ranges : MovePan(r) \/ Wheel(r)
    BY <2>1, ViewStep
  <2>2. CASE \/ \E over \in Hits : MoveHover(over) \/ PressRange(over)
                                 \/ PressNothing(over)
             \/ \E v \in Values : MoveDrag(v)
    BY <2>2, ElsewhereStep
       DEF MoveHover, PressRange, PressNothing, PressFrame, MoveDrag
  <2>3. CASE \/ PressPan
             \/ \E p \in Points : PressDrag(p)
             \/ \E p \in Points, ctrl \in BOOLEAN : PressSelect(p, ctrl)
    BY <2>3, ElsewhereStep DEF PressPan, PressDrag, PressSelect, PressFrame
  <2>4. CASE CommitDrag \/ CompleteRange \/ ReleaseOther \/ MButtonDown \/ MButtonUp
    BY <2>4, ElsewhereStep
       DEF CommitDrag, CompleteRange, ReleaseOther, MButtonDown, MButtonUp,
           ReleaseFrame, PressFrame
  <2>5. CASE (\E b \in {"left", "middle"} : ButtonElsewhere(b)) \/ CaptureLost
    BY <2>5, ElsewhereStep DEF ButtonElsewhere, CaptureLost
  <2> QED BY <1>4, <2>1, <2>2, <2>3, <2>4, <2>5 DEF Mouse
<1>5. CASE Clock
  <2>1. CASE \/ \E t \in Timers : TimerElapses(t) \/ TimerIgnored(t)
             \/ TooltipTimer
    BY <2>1, ElsewhereStep DEF TimerElapses, TimerIgnored, TooltipTimer
  <2> QED BY <1>5, <2>1, AnimationTimerStep DEF Clock
<1> QED BY <1>1, <1>2, <1>3, <1>4, <1>5 DEF Next

\* The controller implements the view specification.
THEOREM ViewRefinement == Spec => ImplementsViewport
<1> QED BY BlankInit, ViewSimulation, Invariance, PTL
        DEF Spec, ImplementsViewport, Viewport!Spec
=============================================================================
