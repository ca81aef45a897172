------------------------------ MODULE Viewport ------------------------------
(***************************************************************************)
(* The view of one chart as a value: which range it shows, which range it  *)
(* is animating to, and what the operations of ChartView make of it.       *)
(* ChartViewport is the specification of one chart over these operators,   *)
(* ChartGroup the one of many charts linked to each other.                 *)
(***************************************************************************)

CONSTANTS
    Ranges,             \* visible ranges
    NullRange,          \* ChartAxisRange{}
    UnitRange,          \* the axes of a new ChartView
    SmoothByDefault     \* does a controller nobody configured animate

ASSUME ViewRangesAssumption ==
    /\ NullRange \in Ranges
    /\ UnitRange \in Ranges
    /\ SmoothByDefault \in BOOLEAN

Viewports ==
    [live : BOOLEAN,    \* interaction_ # nullptr
     on : BOOLEAN,      \* interaction_enabled()
     smooth : BOOLEAN,  \* animate_on_edit and animation_ms > 0
     seeded : BOOLEAN,  \* view_initialized
     view : Ranges, home : Ranges,
     axis : Ranges,     \* the chart's own axes
     moving : BOOLEAN,  \* axis_anim.active
     goal : Ranges]     \* where axis_anim leads

\* A chart without controller, with these axes.
Without(axis) ==
    [live |-> FALSE, on |-> FALSE, smooth |-> SmoothByDefault, seeded |-> FALSE,
     view |-> NullRange, home |-> NullRange, axis |-> axis,
     moving |-> FALSE, goal |-> NullRange]
Blank == Without(UnitRange)

\* visible_x(): what is painted.
Shown(v) == IF v.live THEN v.view ELSE v.axis

\* Where the view comes to rest if nobody touches it.
Heading(v) == IF v.moving THEN v.goal ELSE Shown(v)

-----------------------------------------------------------------------------
(* What the operations make of a viewport *)

Materialised(v) ==
    [live |-> TRUE, on |-> v.on, smooth |-> v.smooth, seeded |-> v.seeded,
     view |-> v.view, home |-> v.home, axis |-> v.axis,
     moving |-> v.moving, goal |-> v.goal]

Attached(v) ==
    IF v.live THEN v
    ELSE [live |-> TRUE, on |-> v.on, smooth |-> v.smooth, seeded |-> TRUE,
          view |-> v.axis, home |-> v.axis, axis |-> v.axis,
          moving |-> v.moving, goal |-> v.goal]

EnabledAs(v, smooth) ==
    [live |-> TRUE, on |-> TRUE, smooth |-> smooth, seeded |-> TRUE,
     view |-> IF v.seeded THEN v.view ELSE v.axis,
     home |-> IF v.seeded THEN v.home ELSE v.axis, axis |-> v.axis,
     moving |-> v.moving, goal |-> v.goal]

Disabled(v) == Without(v.axis)

Tuned(v, smooth) == [v EXCEPT !.smooth = smooth]

WithAxis(v, r) == [v EXCEPT !.axis = r]

\* set_visible_range leaves an animation running.
Placed(v, r) == IF v.live THEN [v EXCEPT !.view = r] ELSE v

MovedTo(v, r) ==
    IF v.smooth
    THEN [live |-> v.live, on |-> v.on, smooth |-> v.smooth, seeded |-> v.seeded,
          view |-> v.view, home |-> v.home, axis |-> v.axis,
          moving |-> TRUE, goal |-> r]
    ELSE [v EXCEPT !.view = r]

ResetHome(v) == MovedTo(v, v.home)

Settled(v) ==
    [live |-> v.live, on |-> v.on, smooth |-> v.smooth, seeded |-> v.seeded,
     view |-> v.goal, home |-> v.home, axis |-> v.axis,
     moving |-> FALSE, goal |-> NullRange]
=============================================================================
