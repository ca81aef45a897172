--------------------------- MODULE MCPropertyGrid ---------------------------
(* Instances of PropertyGrid for TLC. *)
EXTENDS PropertyGrid

CONSTANTS a, b, bad

Property(editable, instant, choices) ==
    [editable |-> editable, instant |-> instant, choices |-> choices,
     accepts |-> {a, b}, value |-> a]

\* A text property, a boolean and a read-only one; bad is refused by all.
AllDefs ==
    {Property(TRUE, FALSE, <<>>), Property(TRUE, TRUE, <<a, b>>),
     Property(FALSE, FALSE, <<>>)}
=============================================================================
