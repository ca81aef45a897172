----------------------------- MODULE ChartGroup -----------------------------
(***************************************************************************)
(* ChartGroup.cpp over the charts it links: membership and the primary,    *)
(* the observer each chart reports to, the propagation of the primary's x  *)
(* range and of the cursor.  A range is an x range; y ranges never travel. *)
(*                                                                         *)
(* The charts are those of ChartInteraction reduced to their Viewport, to  *)
(* the pan in progress and to the position of the mouse.  What matters     *)
(* here is which of their operations report to the group observer and with *)
(* what: a wheel zoom and the end of a middle-button pan do, an unanimated *)
(* reset does, while an animated reset, the frames of an animation, a pan  *)
(* ended by the left button or by a lost capture and set_visible_range do  *)
(* not.  set_visible_range reports nothing, so broadcasting_ is never seen *)
(* set by an observer and has no variable.                                 *)
(***************************************************************************)
EXTENDS Viewport, Integers, SequencesExt

CONSTANTS
    Charts, Groups,
    Positions,      \* data-space x of the cursor
    Nobody,         \* null: no chart, no group
    NoCursor,       \* std::nullopt
    HostRanges,     \* ranges the host gives to set_axis_x, set_visible_range
    SmoothInputs    \* values of Viewport's smooth the host configures

ASSUME NullsAssumption ==
    Nobody \notin Charts \cup Groups /\ NoCursor \notin Positions
ASSUME HostAssumption ==
    HostRanges \subseteq Ranges /\ SmoothInputs \subseteq BOOLEAN

VARIABLES
    charts,         \* each chart's viewport
    observer,       \* the group its group observers belong to, or Nobody
    crosshair,      \* its external_cursor_x
    panning,        \* the chart in a pan (it has the capture), or Nobody
    mouse,          \* the chart whose window the mouse is over, or Nobody
    entries,        \* group -> entries_
    primary,        \* group -> primary_
    linked,         \* group -> x_linked_
    synced,         \* group -> cursor_synced_
    strayed         \* history variable: see Astray

chartVars == <<charts, panning, strayed>>
cursorVars == <<crosshair, mouse>>
groupVars == <<entries, primary, linked, synced>>
vars == <<chartVars, cursorVars, groupVars, observer>>

Roles == {"primary", "sub"}     \* overlay is treated like sub
Entries == [chart : Charts, role : Roles]

Members(g) == {entries[g][i].chart : i \in DOMAIN entries[g]}
Others(g) == Members(g) \ {primary[g]}

-----------------------------------------------------------------------------
(* History: the members of a group that may show another range than its    *)
(* primary, because they moved on their own, or because the primary moved  *)
(* without the group taking notice, or because something would not let the *)
(* broadcast take effect.                                                  *)

\* The charts in S moved and nobody in the group was told.
Astray(g, S) ==
    IF primary[g] \in S THEN Members(g) ELSE strayed[g] \cup (S \cap Members(g))
Wander(S) == strayed' = [g \in Groups |-> Astray(g, S)]

\* set_visible_range is lost on a chart without controller and overridden by
\* an animation in progress.
Deaf(v) == ~v.live \/ v.moving

-----------------------------------------------------------------------------
(* Propagation *)

\* The charts in S are placed at x.
PlaceAll_Halting(S, x) ==   \* slip: a placement also ends the animation
    [c \in Charts |-> IF c \in S THEN [Placed(charts[c], x) EXCEPT !.moving = FALSE]
                                ELSE charts[c]]
PlaceAll(S, x) == [c \in Charts |-> IF c \in S THEN Placed(charts[c], x) ELSE charts[c]]
DeafIn(S) == {c \in S : Deaf(charts[c])}

\* on_view_changed: only the primary's range travels.
Hears(c) == observer[c] # Nobody /\ linked[observer[c]] /\ primary[observer[c]] = c

Followers(c) == IF Hears(c) THEN Others(observer[c]) ELSE {}

\* An animation that was under way goes on, whatever range is reported.
RunsOn(c, v) == charts[c].moving /\ v.goal = charts[c].goal

\* Chart c becomes v and reports x to its observers.
Report(c, v, x) ==
    /\ charts' = [PlaceAll(Followers(c), x) EXCEPT ![c] = v]
    /\ strayed' = [g \in Groups |->
            CASE g = observer[c] /\ Hears(c) ->
                    IF RunsOn(c, v) THEN Members(g) ELSE DeafIn(Others(g))
              [] OTHER -> Astray(g, Followers(c) \cup {c})]

\* Chart c becomes v and reports nothing.
Silently(c, v) == charts' = [charts EXCEPT ![c] = v] /\ Wander({c})

\* on_cursor_changed; set_external_cursor_x creates missing controllers.
ShowCursor(S, x) ==
    /\ crosshair' = [c \in Charts |-> IF c \in S THEN x ELSE crosshair[c]]
    /\ charts' = [c \in Charts |->
                    IF c \in S THEN Materialised(charts[c]) ELSE charts[c]]

Watchers(c) ==
    IF observer[c] # Nobody /\ synced[observer[c]] THEN Members(observer[c]) \ {c} ELSE {}

-----------------------------------------------------------------------------
(* The group's operations *)

\* Null, a duplicate and a second primary are rejected.
Accepts(g, c, role) ==
    /\ c # Nobody
    /\ c \notin Members(g)
    /\ role = "primary" => primary[g] = Nobody

AddChart(g, c, role) ==
    /\ Accepts(g, c, role)
    /\ entries' = [entries EXCEPT ![g] = Append(@, [chart |-> c, role |-> role])]
    /\ primary' = [primary EXCEPT ![g] =
                    IF role = "primary" \/ @ = Nobody THEN c ELSE @]
    /\ observer' = [observer EXCEPT ![c] = g]
    /\ charts' = [charts EXCEPT ![c] = Attached(@)]
    \* the newcomer is not brought into line; a chart that reported to another
    \* group no longer does
    /\ strayed' = [strayed EXCEPT ![g] = @ \cup {c}]
    /\ UNCHANGED <<panning, cursorVars, linked, synced>>

\* set_group_observers removed; external_cursor_x dropped.
Detach_Nothing(S) ==   \* slip: clear_group_observers not called
    /\ crosshair' = [c \in Charts |-> IF c \in S THEN NoCursor ELSE crosshair[c]]
    /\ UNCHANGED observer

Detach(S) ==
    /\ observer' = [c \in Charts |-> IF c \in S THEN Nobody ELSE observer[c]]
    /\ crosshair' = [c \in Charts |-> IF c \in S THEN NoCursor ELSE crosshair[c]]

\* The first explicit primary among the entries left, else the first entry.
Promoted(es) ==
    LET explicit == {i \in DOMAIN es : es[i].role = "primary"}
    IN  IF es = <<>> THEN Nobody
        ELSE IF explicit = {} THEN es[1].chart
        ELSE es[CHOOSE i \in explicit : \A j \in explicit : i <= j].chart

IndexOf(g, c) == CHOOSE i \in DOMAIN entries[g] : entries[g][i].chart = c

RemoveChart(g, c) ==
    /\ c \in Members(g)
    /\ Detach({c})
    /\ LET left == RemoveAt(entries[g], IndexOf(g, c))
           next == IF primary[g] = c THEN Promoted(left) ELSE primary[g]
       IN  /\ entries' = [entries EXCEPT ![g] = left]
           /\ primary' = [primary EXCEPT ![g] = next]
           /\ strayed' = [strayed EXCEPT
                    ![g] = IF next # primary[g] /\ next \in @
                           THEN Members(g) \ {c} ELSE @ \ {c}]
    /\ UNCHANGED <<charts, panning, mouse, linked, synced>>

\* Also the destructor.
Clear(g) ==
    /\ Detach(Members(g))
    /\ entries' = [entries EXCEPT ![g] = <<>>]
    /\ primary' = [primary EXCEPT ![g] = Nobody]
    /\ strayed' = [strayed EXCEPT ![g] = {}]
    /\ UNCHANGED <<charts, panning, mouse, linked, synced>>

\* link_x_axis: enabling brings the others to what the primary shows now.
LinkXAxis(g) ==
    /\ ~linked[g]
    /\ linked' = [linked EXCEPT ![g] = TRUE]
    /\ IF primary[g] = Nobody
       THEN UNCHANGED <<charts, strayed>>
       ELSE /\ charts' = PlaceAll(Others(g), Shown(charts[primary[g]]))
            /\ strayed' = [h \in Groups |->
                    IF h # g THEN Astray(h, Others(g))
                    ELSE IF Deaf(charts[primary[g]]) THEN Members(g)
                    ELSE DeafIn(Others(g))]
    /\ UNCHANGED <<panning, cursorVars, entries, primary, synced, observer>>

UnlinkXAxis(g) ==
    /\ linked' = [linked EXCEPT ![g] = FALSE]
    /\ UNCHANGED <<chartVars, cursorVars, entries, primary, synced, observer>>

SyncCursor(g, enabled) ==
    /\ synced' = [synced EXCEPT ![g] = enabled]
    /\ IF enabled THEN UNCHANGED <<charts, crosshair>>
       ELSE ShowCursor(Members(g), NoCursor)
    /\ UNCHANGED <<panning, strayed, mouse, entries, primary, linked,
                   observer>>

\* set_primary_x_axis: the primary, and if linked the others, to the range.
SetPrimaryXAxis(g, r) ==
    /\ primary[g] # Nobody
    /\ charts' = PlaceAll(IF linked[g] THEN Members(g) ELSE {primary[g]}, r)
    /\ strayed' = [h \in Groups |->
            IF h # g THEN Astray(h, IF linked[g] THEN Members(g) ELSE {primary[g]})
            ELSE IF linked[g] /\ ~Deaf(charts[primary[g]]) THEN DeafIn(Others(g))
            ELSE Members(g)]
    /\ UNCHANGED <<panning, cursorVars, groupVars, observer>>

-----------------------------------------------------------------------------
(* The charts: calls of the host *)

ViewFrame == UNCHANGED <<panning, cursorVars, groupVars, observer>>

EnableInteraction(c, smooth) ==
    /\ Silently(c, EnabledAs(charts[c], smooth))
    /\ ViewFrame

\* The controller goes, and with it the group observers, the crosshair and a
\* pan; the group keeps its entry.
DisableInteraction(c) ==
    /\ charts[c].live
    /\ Silently(c, Disabled(charts[c]))
    /\ Detach({c})
    /\ panning' = IF panning = c THEN Nobody ELSE panning
    /\ UNCHANGED <<mouse, groupVars>>

SetAxis(c, r) ==
    /\ IF charts[c].live
       THEN charts' = [charts EXCEPT ![c] = WithAxis(@, r)] /\ UNCHANGED strayed
       ELSE Silently(c, WithAxis(charts[c], r))
    /\ ViewFrame

SetVisibleRange(c, r) ==
    /\ charts[c].live
    /\ Silently(c, Placed(charts[c], r))
    /\ ViewFrame

\* reset_view reports only when it does not animate.
ResetView(c) ==
    /\ charts[c].live
    /\ IF charts[c].smooth
       THEN Silently(c, ResetHome(charts[c]))
       ELSE Report(c, ResetHome(charts[c]), charts[c].home)
    /\ ViewFrame

-----------------------------------------------------------------------------
(* The charts: the user and the clock *)

Zoom_ReportsOld(c, r) ==   \* slip: view_x reported for new_x
    /\ charts[c].on
    /\ Report(c, MovedTo(charts[c], r), charts[c].view)
    /\ ViewFrame

Zoom(c, r) ==
    /\ charts[c].on
    /\ Report(c, MovedTo(charts[c], r), r)
    /\ ViewFrame

BeginPan(c) ==
    /\ charts[c].on /\ panning = Nobody
    /\ panning' = c
    /\ UNCHANGED <<charts, strayed, cursorVars, groupVars, observer>>

MovePan(c, r) ==
    /\ panning = c
    /\ Silently(c, Placed(charts[c], r))
    /\ ViewFrame

\* WM_MBUTTONUP.
EndPan(c) ==
    /\ panning = c
    /\ panning' = Nobody
    /\ Report(c, charts[c], charts[c].view)
    /\ UNCHANGED <<cursorVars, groupVars, observer>>

\* WM_LBUTTONUP ends a Space+Left pan by releasing the capture; so does
\* another window that takes it.
DropPan(c) ==
    /\ panning = c
    /\ panning' = Nobody
    /\ UNCHANGED <<charts, strayed, cursorVars, groupVars, observer>>

AnimationFrame(c, r) ==
    /\ charts[c].on /\ charts[c].moving
    /\ charts' = [charts EXCEPT ![c] = Placed(@, r)]
    /\ UNCHANGED <<strayed, panning, cursorVars, groupVars, observer>>

AnimationSettles(c) ==
    /\ charts[c].on /\ charts[c].moving
    /\ charts' = [charts EXCEPT ![c] = Settled(@)]
    /\ UNCHANGED <<strayed, panning, cursorVars, groupVars, observer>>

\* WM_MOUSEMOVE, cursor in the plot.  The chart the mouse was over gets its
\* WM_MOUSELEAVE first.
CursorMoves(c, x) ==
    /\ charts[c].on /\ mouse \in {Nobody, c} /\ panning \in {Nobody, c}
    /\ mouse' = c
    /\ ShowCursor(Watchers(c), x)
    /\ UNCHANGED <<strayed, panning, groupVars, observer>>

\* WM_MOUSEMOVE, cursor in the margin: the group hears nothing.
CursorInMargin(c) ==
    /\ charts[c].on /\ mouse \in {Nobody, c} /\ panning \in {Nobody, c}
    /\ mouse' = c
    /\ UNCHANGED <<chartVars, crosshair, groupVars, observer>>

CursorLeaves(c) ==
    /\ mouse = c
    /\ mouse' = Nobody
    /\ IF charts[c].on THEN ShowCursor(Watchers(c), NoCursor)
       ELSE UNCHANGED <<charts, crosshair>>
    /\ UNCHANGED <<strayed, panning, groupVars, observer>>

-----------------------------------------------------------------------------
(* Behaviours *)

Init ==
    /\ charts = [c \in Charts |-> Blank]
    /\ observer = [c \in Charts |-> Nobody]
    /\ crosshair = [c \in Charts |-> NoCursor]
    /\ panning = Nobody /\ mouse = Nobody
    /\ entries = [g \in Groups |-> <<>>]
    /\ primary = [g \in Groups |-> Nobody]
    /\ linked = [g \in Groups |-> TRUE]
    /\ synced = [g \in Groups |-> TRUE]
    /\ strayed = [g \in Groups |-> {}]

GroupCalls(g) ==
    \/ \E c \in Charts \cup {Nobody}, role \in Roles : AddChart(g, c, role)
    \/ \E c \in Charts : RemoveChart(g, c)
    \/ Clear(g)
    \/ LinkXAxis(g) \/ UnlinkXAxis(g)
    \/ \E enabled \in BOOLEAN : SyncCursor(g, enabled)
    \/ \E r \in Ranges : SetPrimaryXAxis(g, r)

ChartCalls(c) ==
    \/ \E smooth \in SmoothInputs : EnableInteraction(c, smooth)
    \/ DisableInteraction(c)
    \/ \E r \in HostRanges : SetAxis(c, r) \/ SetVisibleRange(c, r)
    \/ ResetView(c)

ChartInput(c) ==
    \/ \E r \in Ranges : Zoom(c, r) \/ MovePan(c, r) \/ AnimationFrame(c, r)
    \/ AnimationSettles(c)
    \/ BeginPan(c) \/ EndPan(c) \/ DropPan(c)
    \/ \E x \in Positions : CursorMoves(c, x)
    \/ CursorInMargin(c) \/ CursorLeaves(c)

Next ==
    \/ \E g \in Groups : GroupCalls(g)
    \/ \E c \in Charts : ChartCalls(c) \/ ChartInput(c)

Spec == Init /\ [][Next]_vars

-----------------------------------------------------------------------------
(* Properties *)

\* Every variable holds a value of its C++ type.
TypeOK ==
    /\ charts \in [Charts -> Viewports]
    /\ observer \in [Charts -> Groups \cup {Nobody}]
    /\ crosshair \in [Charts -> Positions \cup {NoCursor}]
    /\ panning \in Charts \cup {Nobody} /\ mouse \in Charts \cup {Nobody}
    /\ entries \in [Groups -> Seq(Entries)]
    /\ primary \in [Groups -> Charts \cup {Nobody}]
    /\ linked \in [Groups -> BOOLEAN] /\ synced \in [Groups -> BOOLEAN]
    /\ strayed \in [Groups -> SUBSET Charts]

\* A chart reports to a group only while it is among its entries, so no
\* observer outlives the group it captures, even when two groups share a chart.
NoDanglingObserver ==
    \A c \in Charts : observer[c] # Nobody => c \in Members(observer[c])

\* Each chart has one entry; the primary is the oldest of them, and an
\* explicit primary, of which there is at most one, is never passed over.
Led(es, leader) ==
    /\ \A i, j \in DOMAIN es : es[i].chart = es[j].chart => i = j
    /\ leader = IF es = <<>> THEN Nobody ELSE es[1].chart
    /\ \A i \in DOMAIN es : es[i].role = "primary" => leader = es[i].chart
PrimaryLeads == \A g \in Groups : Led(entries[g], primary[g])

\* A chart paints a foreign crosshair only as a member of a group that
\* synchronizes cursors: leaving the group or switching it off removes it.
CrosshairNeedsGroup ==
    \A c \in Charts : crosshair[c] # NoCursor =>
        \E g \in Groups : synced[g] /\ c \in Members(g)

\* Observers, primaries and crosshairs follow the membership of every group.
MembersConsistent == NoDanglingObserver /\ PrimaryLeads /\ CrosshairNeedsGroup

\* Linked charts come to rest at the primary's range, except those that have
\* gone astray: through zooms that overlap an animation, pans, resets, a new
\* primary, charts shared by two groups, nothing else separates them.
LinkedChartsAgree ==
    \A g \in Groups : linked[g] =>
        \A c \in Others(g) \ strayed[g] :
            Heading(charts[c]) = Heading(charts[primary[g]])

-----------------------------------------------------------------------------
(* Every chart implements the specification of one chart                   *)

View(c) == INSTANCE ChartViewport WITH viewport <- charts[c]

\* What a chart promises of its view, alone, it keeps in a group: home stays,
\* and an animation ends on the goal it was given, whatever range or cursor
\* the charts it is linked to send it and whoever joins or leaves.
\* (\A c \in Charts : View(c)!Spec, with all charts in one step.)
ChartsImplementViewport ==
    /\ \A c \in Charts : View(c)!Init
    /\ [][\A c \in Charts : UNCHANGED charts[c] \/ View(c)!Next]_charts

-----------------------------------------------------------------------------
(* What the documentation promises and the code does not do                *)

\* "changes to the primary's x range propagate to every sub chart's x range"
\* (ChartGroup.hpp:55): when a pan of the primary is over, its linked charts
\* show its range.
PansPropagate ==
    [][\A g \in Groups, c \in Charts :
        /\ panning = c /\ panning' = Nobody /\ charts'[c] = charts[c]
        /\ primary[g] = c /\ observer[c] = g /\ linked[g]
        => \A d \in Others(g) :
                charts[d].live => Shown(charts'[d]) = Shown(charts'[c])]_vars
=============================================================================
