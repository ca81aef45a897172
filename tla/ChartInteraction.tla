-------------------------- MODULE ChartInteraction --------------------------
(***************************************************************************)
(* One ChartView and its interaction controller (ChartInteraction.cpp,     *)
(* InteractionState.cpp, ChartAnimator.hpp): mouse gestures, mouse         *)
(* capture, the tooltip and animation timers, the view range, drag-edits   *)
(* and their undo and redo stacks.                                         *)
(*                                                                         *)
(* A step is one call of the host into the chart or one window message     *)
(* handled by it; everything runs on the thread that owns the window, so   *)
(* steps do not overlap.  What interleaves is their order: a timer message *)
(* that was queued before KillTimer, another window taking the capture in  *)
(* the middle of a drag, the host replacing the series under a gesture.    *)
(*                                                                         *)
(* Data are abstract.  A point is a slot (series, index) that holds a      *)
(* value or is Absent; a view is one value of Ranges (both axes); a cursor *)
(* position is the point it hits, if any.                                  *)
(***************************************************************************)
EXTENDS Integers, Sequences

CONSTANTS
    Series,         \* the entries of series_ (their number is fixed)
    Points,         \* slots <<series, index>>
    Values,         \* values of a data point
    ZeroValue,      \* ChartPoint{}
    Absent,         \* content of a slot past the end of its point list
    NoPoint,        \* "no point": nothing hit, nothing dragged
    Ranges,         \* visible ranges (x and y together)
    NullRange,      \* ChartAxisRange{}, the view of a controller never seeded
    UnitRange,      \* {0, 1}, the axes of a new ChartView
    OptionSets,     \* what the host passes to enable_interaction
    InputLists,     \* what the host passes to set_series
    DefaultTicks,   \* timer ticks of the default 200 ms animation
    DefaultDepth    \* the default undo_depth

Modes == {"select", "drag_edit", "range_select", "pan", "zoom"}

\* ChartInteractionOptions.  ticks is animation_ms counted in WM_TIMER
\* deliveries; the fields that only change what is drawn are left out.
Options == [modes : SUBSET Modes, animate : BOOLEAN, ticks : Nat, depth : Nat]

ASSUME PointsAssumption == Points \subseteq Series \X Nat /\ NoPoint \notin Points
ASSUME ValuesAssumption == ZeroValue \in Values /\ Absent \notin Values
ASSUME RangesAssumption == NullRange \in Ranges /\ UnitRange \in Ranges

\* The point lists a vector can hold: no gap below a present slot.
Lists ==
    {d \in [Points -> Values \cup {Absent}] :
        \A p, q \in Points : p[1] = q[1] /\ p[2] < q[2] /\ d[q] # Absent
                             => d[p] # Absent}

ASSUME ListsAssumption == InputLists \subseteq Lists

\* Hosts switch interaction off with disable_interaction, so the options they
\* enable name at least one mode.
ASSUME OptionsAssumption ==
    /\ OptionSets \subseteq Options
    /\ \A o \in OptionSets : o.modes # {}
    /\ DefaultTicks \in Nat
    /\ DefaultDepth \in Nat

VARIABLES
    \* ChartView
    data,           \* series_[i].points: slot -> value or Absent
    visible,        \* the series whose visible flag is set
    axis,           \* axis_x_, axis_y_
    \* InteractionImpl (fresh values while interaction_ is null)
    live,           \* interaction_ != nullptr
    opts,           \* opts
    seeded,         \* view_initialized
    view, home,     \* view_x/view_y, home_x/home_y
    resetPending,   \* reset_pending
    anim,           \* axis_anim: active, target, ticks left
    selection,      \* selection
    undo, redo,     \* undo_stack, redo_stack
    \* InteractionState
    phase, dragPoint, dragOriginal,
    hover,          \* hover_hit: the point, or NoPoint when hit is false
    tooltip,        \* tooltip_visible
    card,           \* range_summary_visible
    \* the window manager
    captured,       \* GetCapture() == hwnd()
    buttons,        \* mouse buttons held down
    timers,         \* running timers of the window
    due,            \* timers whose WM_TIMER is already in the queue
    \* history variables, read by no action
    told,           \* the data as the host knows them
    tainted         \* points whose edits were cut off, see Taints

chartVars == <<data, visible, axis>>
viewVars == <<view, home, resetPending, anim>>
editVars == <<selection, undo, redo>>
gestureVars == <<phase, dragPoint, dragOriginal, card>>
hoverVars == <<hover, tooltip>>
winVars == <<captured, buttons, timers, due>>
hostVars == <<told, tainted>>
implVars == <<live, opts, seeded>>
vars == <<chartVars, viewVars, editVars, gestureVars, hoverVars, winVars,
          hostVars, implVars>>

Phases == {"idle", "hover", "drag_point", "range_select", "pan"}
Gestures == {"drag_point", "range_select", "pan"}
Timers == {"tooltip", "animation"}
Commands == [point : Points, old : Values, new : Values]
Animations == [active : BOOLEAN, to : Ranges, left : Nat]

DefaultOptions ==
    [modes |-> {}, animate |-> TRUE, ticks |-> DefaultTicks, depth |-> DefaultDepth]
NoAnimation == [active |-> FALSE, to |-> NullRange, left |-> 0]

-----------------------------------------------------------------------------
(* Guards *)

\* interaction_enabled(): messages reach the controller only then.
Enabled == live /\ opts.modes # {}
HasMode(m) == m \in opts.modes
Animated == opts.animate /\ opts.ticks > 0

\* The windowing system hands mouse input to the window under the cursor or,
\* while one is set, to the capture window.
Hittable(p) == data[p] # Absent /\ p[1] \in visible
Hits == {NoPoint} \cup {p \in Points : Hittable(p)}

-----------------------------------------------------------------------------
(* InteractionState.cpp *)

ResetToIdle ==
    /\ phase' = "idle"
    /\ dragPoint' = NoPoint
    /\ dragOriginal' = ZeroValue
    /\ tooltip' = FALSE
    /\ card' = FALSE

BeginDrag_ForgetsOriginal(p) ==   \* slip: drag_original not recorded
    /\ phase' = "drag_point"
    /\ dragPoint' = p
    /\ tooltip' = FALSE
    /\ UNCHANGED <<dragOriginal, card>>

BeginDrag(p) ==
    /\ phase' = "drag_point"
    /\ dragPoint' = p
    /\ dragOriginal' = data[p]
    /\ tooltip' = FALSE
    /\ UNCHANGED card

BeginRangeSelect ==
    /\ phase' = "range_select"
    /\ tooltip' = FALSE
    /\ UNCHANGED <<dragPoint, dragOriginal, card>>

BeginPan ==
    /\ phase' = "pan"
    /\ tooltip' = FALSE
    /\ UNCHANGED <<dragPoint, dragOriginal, card>>

-----------------------------------------------------------------------------
(* Undo stack and animation helpers *)

PushCommand_OffByOne(s, c) ==   \* slip: size compared before the push
    IF Len(s) > opts.depth THEN Tail(Append(s, c)) ELSE Append(s, c)

PushCommand(s, c) ==
    LET pushed == Append(s, c)
    IN  IF Len(pushed) > opts.depth THEN Tail(pushed) ELSE pushed

Top(s) == s[Len(s)]
Popped_Oldest(s) == Tail(s)   \* slip: the wrong end
Popped(s) == SubSeq(s, 1, Len(s) - 1)

\* axis_anim.begin followed by SetTimer.
Animate(to) ==
    /\ anim' = [active |-> TRUE, to |-> to, left |-> opts.ticks]
    /\ timers' = timers \cup {"animation"}

\* Points of which the undo history or the drag in progress knows a value.
Remembered ==
    {p \in Points : \/ \E i \in 1..Len(undo) : undo[i].point = p
                    \/ \E i \in 1..Len(redo) : redo[i].point = p
                    \/ phase = "drag_point" /\ dragPoint = p}

\* A drag that ends without its commit, or history under which the host or
\* the user pulled the value away, taints the point: its undo chain has a gap.
Taints(S) == tainted' = tainted \cup S
Abandoned == IF phase = "drag_point" THEN {dragPoint} ELSE {}

-----------------------------------------------------------------------------
(* Calls of the host *)

\* enable_interaction: new options; the first call seeds view and home.
EnableInteraction(o) ==
    /\ live' = TRUE
    /\ opts' = o
    /\ seeded' = TRUE
    /\ view' = IF seeded THEN view ELSE axis
    /\ home' = IF seeded THEN home ELSE axis
    /\ UNCHANGED <<chartVars, resetPending, anim, editVars, gestureVars,
                   hoverVars, winVars, hostVars>>

\* set_callbacks and set_external_cursor_x create the controller unseeded.
Materialise ==
    /\ ~live
    /\ live' = TRUE
    /\ UNCHANGED <<opts, seeded, chartVars, viewVars, editVars, gestureVars,
                   hoverVars, winVars, hostVars>>

\* set_group_observers creates it with the axes as view and home.
AttachObservers ==
    /\ ~live
    /\ live' = TRUE
    /\ seeded' = TRUE
    /\ view' = axis
    /\ home' = axis
    /\ UNCHANGED <<opts, chartVars, resetPending, anim, editVars, gestureVars,
                   hoverVars, winVars, hostVars>>

\* disable_interaction: timers killed, capture released, state dropped.
DisableInteraction ==
    /\ live
    /\ timers' = {}
    /\ captured' = FALSE
    /\ live' = FALSE
    /\ opts' = DefaultOptions
    /\ seeded' = FALSE
    /\ view' = NullRange
    /\ home' = NullRange
    /\ resetPending' = FALSE
    /\ anim' = NoAnimation
    /\ selection' = {}
    /\ undo' = <<>>
    /\ redo' = <<>>
    /\ ResetToIdle
    /\ hover' = NoPoint
    /\ Taints(Abandoned)
    /\ UNCHANGED <<chartVars, buttons, due, told>>

\* apply_settings: animation_ms is forwarded into the options.
ApplySettings(t) ==
    /\ live
    /\ opts' = [opts EXCEPT !.ticks = t]
    /\ UNCHANGED <<live, seeded, chartVars, viewVars, editVars, gestureVars,
                   hoverVars, winVars, hostVars>>

\* set_series replaces points and visibility and nothing else: selection,
\* hover, undo stacks and a drag in progress keep the old indices.
SetSeries(d, vis) ==
    /\ data' = d
    /\ visible' = vis
    /\ told' = d
    /\ Taints({p \in Remembered : d[p] # data[p]})
    /\ UNCHANGED <<axis, viewVars, editVars, gestureVars, hoverVars, winVars,
                   implVars>>

SetSeriesVisible(s) ==
    /\ visible' = IF s \in visible THEN visible \ {s} ELSE visible \cup {s}
    /\ UNCHANGED <<data, axis, viewVars, editVars, gestureVars, hoverVars,
                   winVars, hostVars, implVars>>

SetAxis(r) ==
    /\ axis' = r
    /\ UNCHANGED <<data, visible, viewVars, editVars, gestureVars, hoverVars,
                   winVars, hostVars, implVars>>

SetVisibleRange(r) ==
    /\ live
    /\ view' = r
    /\ UNCHANGED <<chartVars, home, resetPending, anim, editVars, gestureVars,
                   hoverVars, winVars, hostVars, implVars>>

ResetView ==
    /\ live
    /\ \/ /\ Animated
          /\ Animate(home)
          /\ resetPending' = TRUE
          /\ UNCHANGED view
       \/ /\ ~Animated
          /\ view' = home
          /\ UNCHANGED <<resetPending, anim, timers>>
    /\ UNCHANGED <<chartVars, home, editVars, gestureVars, hoverVars, captured,
                   buttons, due, hostVars, implVars>>

ApplyEdit_Silently(p, v) ==   \* slip: no on_point_edited from undo and redo
    /\ data' = IF data[p] = Absent THEN data ELSE [data EXCEPT ![p] = v]
    /\ UNCHANGED told

\* The point's slot takes the value, if the slot still exists; the callback
\* on_point_edited tells the host in any case.
ApplyEdit(p, v) ==
    /\ data' = IF data[p] = Absent THEN data ELSE [data EXCEPT ![p] = v]
    /\ told' = [told EXCEPT ![p] = v]

\* undo(), also Ctrl+Z.  Nothing stops it during a drag of the same point.
Undo ==
    /\ live
    /\ undo # <<>>
    /\ ApplyEdit(Top(undo).point, Top(undo).old)
    /\ undo' = Popped(undo)
    /\ redo' = Append(redo, Top(undo))
    /\ Taints(Abandoned \cap {Top(undo).point})
    /\ UNCHANGED <<visible, axis, viewVars, selection, gestureVars, hoverVars,
                   winVars, implVars>>

\* redo(), also Ctrl+Y.
Redo ==
    /\ live
    /\ redo # <<>>
    /\ ApplyEdit(Top(redo).point, Top(redo).new)
    /\ redo' = Popped(redo)
    /\ undo' = Append(undo, Top(redo))
    /\ Taints(Abandoned \cap {Top(redo).point})
    /\ UNCHANGED <<visible, axis, viewVars, selection, gestureVars, hoverVars,
                   winVars, implVars>>

\* clear_selection(), also Escape.
ClearSelection ==
    /\ live
    /\ selection' = {}
    /\ UNCHANGED <<chartVars, viewVars, undo, redo, gestureVars, hoverVars,
                   winVars, hostVars, implVars>>

\* Ctrl+A.
SelectAll ==
    /\ Enabled /\ HasMode("select")
    /\ selection' = {p \in Points : data[p] # Absent}
    /\ UNCHANGED <<chartVars, viewVars, undo, redo, gestureVars, hoverVars,
                   winVars, hostVars, implVars>>

-----------------------------------------------------------------------------
(* WM_MOUSEMOVE.  In range_select it moves the rubber band, which is drawn  *)
(* from pixels alone and is not modelled.                                   *)

ArmTooltip_OnEntry ==   \* slip: armed only when the hit changes
    IF tooltip \/ hover # NoPoint THEN timers ELSE timers \cup {"tooltip"}

ArmTooltip == IF tooltip THEN timers ELSE timers \cup {"tooltip"}

MoveHover(over) ==
    /\ Enabled /\ phase \in {"idle", "hover"}
    /\ hover' = over
    /\ IF over # NoPoint
       THEN /\ phase' = "hover"
            /\ timers' = ArmTooltip
            /\ UNCHANGED tooltip
       ELSE /\ phase' = "idle"
            /\ tooltip' = FALSE
            /\ timers' = timers \ {"tooltip"}
    /\ UNCHANGED <<chartVars, viewVars, editVars, dragPoint, dragOriginal, card,
                   captured, buttons, due, hostVars, implVars>>

\* The dragged point follows the cursor; the host is told at the commit.  The
\* host may have taken the point away meanwhile: the index into the points is
\* checked, that into the series is not.  A series without points stands for one
\* that is gone too, and of reading past the end of series_ the outcome taken is
\* that no point is found there; the process may also end.
MoveDrag(v) ==
    /\ Enabled /\ phase = "drag_point"
    /\ data[dragPoint] # Absent
    /\ data' = [data EXCEPT ![dragPoint] = v]
    /\ UNCHANGED <<visible, axis, viewVars, editVars, gestureVars, hoverVars,
                   winVars, hostVars, implVars>>

MovePan(r) ==
    /\ Enabled /\ phase = "pan"
    /\ view' = r
    /\ UNCHANGED <<chartVars, home, resetPending, anim, editVars, gestureVars,
                   hoverVars, winVars, hostVars, implVars>>

-----------------------------------------------------------------------------
(* WM_LBUTTONDOWN: the first of the cases below that applies               *)

LeftDown == Enabled /\ "left" \notin buttons /\ buttons' = buttons \cup {"left"}
PressFrame == UNCHANGED <<chartVars, viewVars, undo, redo, hover, timers, due,
                          told, implVars>>

\* Space held.
PressPan ==
    /\ LeftDown /\ HasMode("pan")
    /\ BeginPan
    /\ captured' = TRUE
    /\ UNCHANGED <<selection, tainted>>
    /\ PressFrame

PressDrag(p) ==
    /\ LeftDown /\ HasMode("drag_edit") /\ Hittable(p)
    /\ BeginDrag(p)
    /\ captured' = TRUE
    /\ UNCHANGED <<selection, tainted>>
    /\ PressFrame

PressSelect(p, ctrl) ==
    /\ LeftDown /\ HasMode("select") /\ ~HasMode("drag_edit") /\ Hittable(p)
    /\ selection' = CASE ~ctrl                    -> {p}
                      [] ctrl /\ p \in selection    -> selection \ {p}
                      [] ctrl /\ p \notin selection -> selection \cup {p}
    /\ UNCHANGED <<gestureVars, tooltip, captured, tainted>>
    /\ PressFrame

\* No point hit by a mode that looks for one, cursor in the plot.
PressRange(over) ==
    /\ LeftDown /\ HasMode("range_select")
    /\ over # NoPoint => ~HasMode("drag_edit") /\ ~HasMode("select")
    /\ BeginRangeSelect
    /\ captured' = TRUE
    /\ UNCHANGED <<selection, tainted>>
    /\ PressFrame

\* No case applies: the cursor is in the margin or the mode is off.
PressNothing(over) ==
    /\ LeftDown
    /\ over # NoPoint => ~HasMode("drag_edit") /\ ~HasMode("select")
    /\ UNCHANGED <<gestureVars, tooltip, captured, selection, tainted>>
    /\ PressFrame

-----------------------------------------------------------------------------
(* WM_LBUTTONUP.  ReleaseCapture sends WM_CAPTURECHANGED to the window that *)
(* held the capture before it returns, hence ResetToIdle with every release. *)

LeftUp == Enabled /\ "left" \in buttons /\ buttons' = buttons \ {"left"}
ReleaseFrame == UNCHANGED <<visible, axis, viewVars, selection, hover, timers,
                            due, implVars>>

Committed_Unchecked == data[dragPoint]   \* slip: index not checked

\* The value read back is ChartPoint{} when the slot has gone.
Committed == IF data[dragPoint] = Absent THEN ZeroValue ELSE data[dragPoint]

CommitDrag ==
    /\ LeftUp /\ phase = "drag_point"
    /\ undo' = PushCommand(undo, [point |-> dragPoint, old |-> dragOriginal,
                                  new |-> Committed])
    /\ redo' = <<>>
    /\ ResetToIdle
    /\ captured' = FALSE
    /\ told' = [told EXCEPT ![dragPoint] = Committed]
    /\ UNCHANGED <<data, tainted>>
    /\ ReleaseFrame

\* The summary card is switched on after reset_to_idle; the release of the
\* capture then resets once more.
CompleteRange ==
    /\ LeftUp /\ phase = "range_select"
    /\ phase' = "idle"
    /\ dragPoint' = NoPoint
    /\ dragOriginal' = ZeroValue
    /\ tooltip' = FALSE
    /\ card' = ~captured
    /\ captured' = FALSE
    /\ UNCHANGED <<data, undo, redo, told, tainted>>
    /\ ReleaseFrame

\* Any other phase, also a pan: capture released if held, nobody told.
ReleaseOther ==
    /\ LeftUp /\ phase \notin {"drag_point", "range_select"}
    /\ IF captured THEN ResetToIdle ELSE UNCHANGED <<gestureVars, tooltip>>
    /\ captured' = FALSE
    /\ UNCHANGED <<data, undo, redo, told, tainted>>
    /\ ReleaseFrame

-----------------------------------------------------------------------------
(* Middle button, wheel *)

\* begin_pan overrides whatever gesture is in progress.
MButtonDown ==
    /\ Enabled /\ "middle" \notin buttons
    /\ buttons' = buttons \cup {"middle"}
    /\ IF HasMode("pan")
       THEN BeginPan /\ captured' = TRUE /\ Taints(Abandoned)
       ELSE UNCHANGED <<gestureVars, tooltip, captured, tainted>>
    /\ UNCHANGED selection
    /\ PressFrame

MButtonUp_KeepsCapture ==   \* slip: no ReleaseCapture
    /\ Enabled /\ "middle" \in buttons
    /\ buttons' = buttons \ {"middle"}
    /\ IF phase = "pan" THEN ResetToIdle ELSE UNCHANGED <<gestureVars, tooltip>>
    /\ UNCHANGED <<captured, data, undo, redo, hostVars>>
    /\ ReleaseFrame

MButtonUp ==
    /\ Enabled /\ "middle" \in buttons
    /\ buttons' = buttons \ {"middle"}
    /\ IF phase = "pan"
       THEN ResetToIdle /\ captured' = FALSE
       ELSE UNCHANGED <<gestureVars, tooltip, captured>>
    /\ UNCHANGED <<data, undo, redo, hostVars>>
    /\ ReleaseFrame

\* zoom_axis around the cursor gives some other range.
Wheel(r) ==
    /\ Enabled /\ HasMode("zoom")
    /\ IF Animated
       THEN Animate(r) /\ UNCHANGED view
       ELSE view' = r /\ UNCHANGED <<anim, timers>>
    /\ UNCHANGED <<chartVars, home, resetPending, editVars, gestureVars,
                   hoverVars, captured, buttons, due, hostVars, implVars>>

-----------------------------------------------------------------------------
(* The window manager *)

\* A button goes down or up over another window, or before the chart listens.
ButtonElsewhere(b) ==
    /\ ~captured \/ ~Enabled
    /\ buttons' = IF b \in buttons THEN buttons \ {b} ELSE buttons \cup {b}
    /\ UNCHANGED <<chartVars, viewVars, editVars, gestureVars, hoverVars,
                   captured, timers, due, hostVars, implVars>>

\* Another window takes the capture: WM_CAPTURECHANGED.
CaptureLost ==
    /\ captured
    /\ captured' = FALSE
    /\ ResetToIdle
    /\ Taints(Abandoned)
    /\ UNCHANGED <<chartVars, viewVars, editVars, hover, buttons, timers, due,
                   told, implVars>>

\* A timer of the window elapses; its WM_TIMER stays queued whatever happens
\* to the timer.
TimerElapses(t) ==
    /\ t \in timers /\ t \notin due
    /\ due' = due \cup {t}
    /\ UNCHANGED <<chartVars, viewVars, editVars, gestureVars, hoverVars,
                   captured, buttons, timers, hostVars, implVars>>

-----------------------------------------------------------------------------
(* WM_TIMER *)

\* With interaction off the message goes to the default window procedure.
TimerIgnored(t) ==
    /\ t \in due /\ ~Enabled
    /\ due' = due \ {t}
    /\ UNCHANGED <<chartVars, viewVars, editVars, gestureVars, hoverVars,
                   captured, buttons, timers, hostVars, implVars>>

TipShows == tooltip \/ hover # NoPoint

TooltipTimer ==
    /\ Enabled /\ "tooltip" \in due
    /\ due' = due \ {"tooltip"}
    /\ tooltip' = TipShows
    /\ timers' = timers \ {"tooltip"}
    /\ UNCHANGED <<chartVars, viewVars, editVars, gestureVars, hover, captured,
                   buttons, hostVars, implVars>>

AnimationStep_Restarts(r) ==   \* slip: start_ms taken anew at every tick
    /\ anim.active /\ anim.left > 1
    /\ view' = r
    /\ UNCHANGED <<anim, timers, resetPending>>

\* A sample before the end: some range between the start and the target.
AnimationStep(r) ==
    /\ anim.active /\ anim.left > 1
    /\ view' = r
    /\ anim' = [anim EXCEPT !.left = @ - 1]
    /\ UNCHANGED <<timers, resetPending>>

AnimationSettles_TimerRuns ==   \* slip: timer not killed
    /\ anim.active
    /\ view' = anim.to
    /\ anim' = NoAnimation
    /\ resetPending' = FALSE
    /\ UNCHANGED timers

AnimationSettles_Short ==   \* slip: the last sample is not the target
    /\ anim.active
    /\ anim' = NoAnimation
    /\ timers' = timers \ {"animation"}
    /\ resetPending' = FALSE
    /\ UNCHANGED view

\* The clock is past the end: the target itself, timer killed.
AnimationSettles ==
    /\ anim.active
    /\ view' = anim.to
    /\ anim' = NoAnimation
    /\ timers' = timers \ {"animation"}
    /\ resetPending' = FALSE

AnimationTimer ==
    /\ Enabled /\ "animation" \in due
    /\ due' = due \ {"animation"}
    /\ \/ \E r \in Ranges : AnimationStep(r)
       \/ AnimationSettles
       \/ ~anim.active /\ UNCHANGED <<view, anim, timers, resetPending>>
    /\ UNCHANGED <<chartVars, home, editVars, gestureVars, hoverVars, captured,
                   buttons, hostVars, implVars>>

-----------------------------------------------------------------------------
(* Behaviours *)

Init ==
    /\ data = [p \in Points |-> Absent] /\ visible = Series /\ axis = UnitRange
    /\ live = FALSE /\ opts = DefaultOptions /\ seeded = FALSE
    /\ view = NullRange /\ home = NullRange
    /\ resetPending = FALSE /\ anim = NoAnimation
    /\ selection = {} /\ undo = <<>> /\ redo = <<>>
    /\ phase = "idle" /\ dragPoint = NoPoint /\ dragOriginal = ZeroValue
    /\ hover = NoPoint /\ tooltip = FALSE /\ card = FALSE
    /\ captured = FALSE /\ buttons = {} /\ timers = {} /\ due = {}
    /\ told = data /\ tainted = {}

HostCalls ==
    \/ \E o \in OptionSets : EnableInteraction(o)
    \/ Materialise
    \/ AttachObservers
    \/ DisableInteraction
    \/ \E t \in {0, DefaultTicks} : ApplySettings(t)
    \/ \E d \in InputLists, vis \in SUBSET Series : SetSeries(d, vis)
    \/ \E s \in Series : SetSeriesVisible(s)
    \/ \E r \in Ranges : SetAxis(r) \/ SetVisibleRange(r)
    \/ ResetView

EditKeys == Undo \/ Redo \/ ClearSelection \/ SelectAll

Mouse ==
    \/ \E over \in Hits : MoveHover(over) \/ PressRange(over) \/ PressNothing(over)
    \/ \E v \in Values : MoveDrag(v)
    \/ \E r \in Ranges : MovePan(r) \/ Wheel(r)
    \/ PressPan
    \/ \E p \in Points : PressDrag(p) \/ \E ctrl \in BOOLEAN : PressSelect(p, ctrl)
    \/ CommitDrag \/ CompleteRange \/ ReleaseOther
    \/ MButtonDown \/ MButtonUp
    \/ \E b \in {"left", "middle"} : ButtonElsewhere(b)
    \/ CaptureLost

Clock ==
    \/ \E t \in Timers : TimerElapses(t) \/ TimerIgnored(t)
    \/ TooltipTimer
    \/ AnimationTimer

Next == HostCalls \/ EditKeys \/ Mouse \/ Clock

Spec == Init /\ [][Next]_vars

\* SetTimer is periodic and the thread keeps dispatching messages, so running
\* timers elapse and queued WM_TIMERs are handled.  For the tooltip this
\* supposes that the cursor rests: every move over a point restarts its delay.
Fairness ==
    /\ \A t \in Timers : WF_vars(TimerElapses(t)) /\ WF_vars(TimerIgnored(t))
    /\ WF_vars(TooltipTimer)
    /\ WF_vars(AnimationTimer)

FairSpec == Spec /\ Fairness

-----------------------------------------------------------------------------
(* Properties *)

\* Every variable holds a value of its C++ type.
TypeOK ==
    /\ data \in [Points -> Values \cup {Absent}]
    /\ visible \subseteq Series /\ axis \in Ranges
    /\ live \in BOOLEAN /\ opts \in Options /\ seeded \in BOOLEAN
    /\ view \in Ranges /\ home \in Ranges /\ resetPending \in BOOLEAN
    /\ anim \in Animations
    /\ selection \subseteq Points
    /\ undo \in Seq(Commands) /\ redo \in Seq(Commands)
    /\ phase \in Phases /\ dragPoint \in Points \cup {NoPoint}
    /\ dragOriginal \in Values
    /\ hover \in Points \cup {NoPoint} /\ tooltip \in BOOLEAN /\ card \in BOOLEAN
    /\ captured \in BOOLEAN /\ buttons \subseteq {"left", "middle"}
    /\ timers \subseteq Timers /\ due \subseteq Timers
    /\ told \in [Points -> Values \cup {Absent}] /\ tainted \subseteq Points

\* The chart holds the mouse capture exactly while a drag, a rubber band or a
\* pan is in progress: no gesture outlives its capture, no capture outlives
\* its gesture, whatever buttons overlap (begin_pan overrides a drag without
\* going through transition()).
CaptureMatchesGesture == captured <=> phase \in Gestures

\* A gesture is driven by a button that is still down, and a drag or a rubber
\* band by the left one: no mouse-up is missed that leaves the chart dragging
\* under a free mouse.
GestureHasButton ==
    /\ phase \in {"drag_point", "range_select"} => "left" \in buttons
    /\ phase = "pan" => buttons # {}

\* kTimerAnimation runs exactly while axis_anim is active, through zooms that
\* restart it, resets and interaction being switched off.
TimerDrivesAnimation == anim.active <=> "animation" \in timers

\* A pending reset is always carried by an animation that will end it;
\* otherwise on_view_reset would never fire.
ResetIsCarried == resetPending => anim.active

\* The tooltip shows, or is going to show, a hovered point and nothing else:
\* a stale WM_TIMER never opens it over empty space; and a point in hover has
\* its tooltip or the timer for it.
TooltipHasPoint ==
    /\ tooltip \/ "tooltip" \in timers \/ phase = "hover" => hover # NoPoint
    /\ phase = "hover" => tooltip \/ "tooltip" \in timers

\* A gesture, the mouse capture, the button that drives it and the tooltip stay
\* consistent through every order of the mouse, capture and timer messages.
GestureConsistent == CaptureMatchesGesture /\ GestureHasButton /\ TooltipHasPoint

\* A controller that receives messages has a view seeded from the axes, even
\* if set_callbacks or a chart group created it first.
EnabledIsSeeded == Enabled => seeded

\* The view, its animation and timer, and a pending reset stay together, in a
\* controller that handles messages from the first one on.
ViewConsistent == TimerDrivesAnimation /\ ResetIsCarried /\ EnabledIsSeeded

\* undo_depth bounds both stacks together: commands only move between them
\* and every push beyond the depth drops the oldest.
UndoBounded ==
    \E o \in OptionSets \cup {DefaultOptions} : Len(undo) + Len(redo) <= o.depth

\* The host that mirrors on_point_edited has the chart's values, except for
\* the point under the mouse and those whose drag was cut off.
HostMirrorsData ==
    \A p \in Points \ tainted :
        \/ told[p] = data[p]
        \/ data[p] = Absent
        \/ phase = "drag_point" /\ dragPoint = p

\* The whole edit history: what can be undone, then what can be redone.
History ==
    [i \in 1..(Len(undo) + Len(redo)) |->
        IF i <= Len(undo) THEN undo[i] ELSE redo[Len(undo) + Len(redo) + 1 - i]]

\* The commands of one point form a chain through its current value: each
\* starts where the previous one ended, undo starts from the current value and
\* so does redo.  Undoing and redoing walk the values the point really had.
HistoryChains ==
    \A p \in Points \ tainted :
        LET mine == {i \in DOMAIN History : History[i].point = p}
            now == IF phase = "drag_point" /\ dragPoint = p
                   THEN dragOriginal ELSE data[p]
            None(a, b) == \A k \in mine : k <= a \/ b <= k
        IN  \A i, j \in mine \cup {0, Len(undo) + Len(redo) + 1} :
                i < j /\ None(i, j) =>
                  /\ i \in mine /\ j \in mine => History[i].new = History[j].old
                  /\ i \in mine /\ i <= Len(undo) /\ j > Len(undo)
                        => History[i].new = now
                  /\ j \in mine /\ i <= Len(undo) /\ j > Len(undo)
                        => History[j].old = now

Edits == INSTANCE EditHistory WITH
    Contents <- Values \cup {Absent},
    history <- History, place <- Len(undo)

\* The two stacks implement one history with a place in it: undo and redo move
\* along it, never rewrite it and tell the host the value on that side of the
\* command; only the commit of a drag and dropping the controller change it.
ImplementsEditHistory == Edits!Spec

\* The view of this chart.
AsViewport ==
    [live |-> live, on |-> Enabled, smooth |-> Animated, seeded |-> seeded,
     view |-> view, home |-> home, axis |-> axis,
     moving |-> anim.active, goal |-> anim.to]
Viewport == INSTANCE ChartViewport WITH
    SmoothByDefault <- DefaultTicks > 0,
    viewport <- AsViewport

\* The chart implements the view specification: data edits, gestures, capture
\* and timers never move the view in a way ChartViewport does not allow.
ImplementsViewport == Viewport!Spec

\* Once the user stops zooming and resetting, a running view animation ends.
Restarts == (\E r \in Ranges : Wheel(r)) \/ ResetView
AnimationEnds ==
    \/ []<><<Restarts>>_vars
    \/ (anim.active /\ Enabled) ~> ~anim.active

\* A point left under the cursor gets its tooltip.
TooltipAppears ==
    (Enabled /\ phase = "hover") ~> (tooltip \/ phase # "hover")

-----------------------------------------------------------------------------
(* What comments of the source promise and the code does not do            *)

\* "re-enable because the card should outlive the idle transition"
\* (ChartInteraction.cpp:806): the summary card is visible after the release
\* that completes a rubber band.
RangeCardOutlivesRelease == [][CompleteRange => card']_vars

=============================================================================
