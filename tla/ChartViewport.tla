--------------------------- MODULE ChartViewport ---------------------------
(***************************************************************************)
(* What one chart promises about its view: home is taken from the axes and *)
(* stays; a zoom or reset is shown at once or becomes the goal of an       *)
(* animation, that goal is given up only for another one or with the whole *)
(* controller, and the animation ends on it.  Points, edits, selection,    *)
(* capture, buttons and timers are not visible here.                       *)
(* ChartInteraction implements this specification.                         *)
(***************************************************************************)
EXTENDS Viewport

VARIABLE viewport

Create == ~viewport.live /\ viewport' \in {Materialised(viewport), Attached(viewport)}

Enable == \E smooth \in BOOLEAN : viewport' = EnabledAs(viewport, smooth)

Disable == viewport.live /\ viewport' = Disabled(viewport)

Configure ==
    \/ viewport.live /\ \E smooth \in BOOLEAN : viewport' = Tuned(viewport, smooth)
    \/ \E r \in Ranges : viewport' = WithAxis(viewport, r)

\* set_visible_range, a step of a pan, a frame of an animation.
Place == viewport.live /\ \E r \in Ranges : viewport' = Placed(viewport, r)

Reset == viewport.live /\ viewport' = ResetHome(viewport)

\* Only an enabled controller hears the mouse and the timers.
Zoom == viewport.on /\ \E r \in Ranges : viewport' = MovedTo(viewport, r)

Settle == viewport.on /\ viewport.moving /\ viewport' = Settled(viewport)

Init == viewport = Blank

Next ==
    \/ Create \/ Enable \/ Disable \/ Configure \/ Place \/ Reset
    \/ Zoom \/ Settle

Spec == Init /\ [][Next]_viewport
=============================================================================
