--------------------------- MODULE BufferedValues ---------------------------
(***************************************************************************)
(* What a property grid promises about the values behind it: every row     *)
(* shows one text and keeps one.  What is shown changes only by an edit,   *)
(* of one row, to a text the row takes, or by going back to what is kept;  *)
(* what is kept changes only by keeping what is shown, and both for one    *)
(* row or for all of them at once.  The editor, the focus, the handlers    *)
(* that commit in the middle of others and the host's callbacks are not    *)
(* visible here.  PropertyGrid implements this specification.              *)
(***************************************************************************)
EXTENDS Integers, Sequences

CONSTANT Texts

VARIABLE rows   \* a sequence of [takes, shown, kept]

Rows == DOMAIN rows

Add ==
    \E takes \in SUBSET Texts, v \in Texts :
        rows' = Append(rows, [takes |-> takes, shown |-> v, kept |-> v])

Clear == rows' = <<>>

Edit ==
    \E i \in Rows : \E v \in rows[i].takes :
        rows' = [rows EXCEPT ![i].shown = v]

\* The rows in S keep what they show; show what they keep.
KeepThe(S) ==
    rows' = [i \in Rows |->
                IF i \in S THEN [rows[i] EXCEPT !.kept = rows[i].shown] ELSE rows[i]]

RestoreThe(S) ==
    rows' = [i \in Rows |->
                IF i \in S THEN [rows[i] EXCEPT !.shown = rows[i].kept] ELSE rows[i]]

Keep == KeepThe(Rows) \/ \E i \in Rows : KeepThe({i})

Restore == RestoreThe(Rows) \/ \E i \in Rows : RestoreThe({i})

Init == rows = <<>>

Next == Add \/ Clear \/ Edit \/ Keep \/ Restore

Spec == Init /\ [][Next]_rows
=============================================================================
