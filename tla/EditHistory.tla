----------------------------- MODULE EditHistory ----------------------------
(***************************************************************************)
(* What a chart promises about edits, undo and redo: one history of        *)
(* commands and a place in it.  A commit cuts off what was undone and may  *)
(* forget the oldest command; undo and redo only move the place, each over *)
(* one command, and tell the host the value on that command's side.        *)
(* The two stacks of the controller, the drag that leads to a commit and   *)
(* all else a chart does are not visible here.                             *)
(* ChartInteraction implements this specification.                         *)
(***************************************************************************)
EXTENDS Integers, Sequences

CONSTANTS
    Points,
    Contents,       \* what a host may know of a point
    Commands        \* records of a point, its old and its new value

VARIABLES
    history,        \* the commands, oldest first
    place,          \* how many of them are in force
    told            \* the value of each point that the host knows

Tell(p, v) == told' = [told EXCEPT ![p] = v]

Commit(c, forgotten) ==
    /\ history' = SubSeq(Append(SubSeq(history, 1, place), c), 1 + forgotten, place + 1)
    /\ place' = place + 1 - forgotten
    /\ Tell(c.point, c.new)

Undo ==
    /\ place > 0
    /\ place' = place - 1
    /\ Tell(history[place].point, history[place].old)
    /\ UNCHANGED history

Redo ==
    /\ place < Len(history)
    /\ place' = place + 1
    /\ Tell(history[place + 1].point, history[place + 1].new)
    /\ UNCHANGED history

\* set_series: the host knows what it gives.
Supply == told' \in [Points -> Contents] /\ UNCHANGED <<history, place>>

\* The controller goes, and the history with it.
Drop == history' = <<>> /\ place' = 0 /\ UNCHANGED told

Init == history = <<>> /\ place = 0 /\ told \in [Points -> Contents]

Next ==
    \/ Supply \/ Undo \/ Redo \/ Drop
    \/ \E c \in Commands, forgotten \in {0, 1} : Commit(c, forgotten)

Spec == Init /\ [][Next]_<<history, place, told>>
=============================================================================
