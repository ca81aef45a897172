------------------------- MODULE MCChartInteraction -------------------------
(* Instances of ChartInteraction for TLC. *)
EXTENDS ChartInteraction

CONSTANTS s1, s2

OnePoint == {<<s1, 0>>}
TwoPoints == {<<s1, 0>>, <<s1, 1>>}
TwoSeries == {<<s1, 0>>, <<s2, 0>>}

AllLists == Lists
FullLists == {[p \in Points |-> ZeroValue]}

Enabling(modes, animate, ticks, depth) ==
    [modes |-> modes, animate |-> animate, ticks |-> ticks, depth |-> depth]

\* Editing: two points, two values, room for two commands.
EditOptions == {Enabling({"drag_edit"}, FALSE, 0, 2)}

\* Gestures: every mode; a click on a point selects or drags.
GestureOptions ==
    {Enabling(Modes, FALSE, 0, 1), Enabling(Modes \ {"drag_edit"}, FALSE, 0, 1)}

\* Views: zooming and panning, with and without animation.
ViewOptions ==
    {Enabling({"pan", "zoom"}, TRUE, 2, 0), Enabling({"pan", "zoom"}, FALSE, 2, 0)}
=============================================================================
