------------------------------ MODULE Statistic ------------------------------
(***************************************************************************)
(* What the statistics of the store promise (persist/postgres/stats.go): a *)
(* number that changes in the very step in which a row comes or goes,      *)
(* while the value that is shown for it may lag but is an unsigned number. *)
(***************************************************************************)
EXTENDS Integers

CONSTANT Items      \* rows a statistic counts

VARIABLES
    rows,           \* rows there are
    value,          \* the statistic
    shown           \* what stat_value has

Init == rows = {} /\ value = 0 /\ shown = 0

AddRow(i)    == i \notin rows /\ rows' = rows \cup {i} /\ value' = value + 1 /\ UNCHANGED shown
RemoveRow(i) == i \in rows /\ rows' = rows \ {i} /\ value' = value - 1 /\ UNCHANGED shown
Show         == shown' \in Nat /\ UNCHANGED <<rows, value>>

Next == Show \/ \E i \in Items : AddRow(i) \/ RemoveRow(i)
Spec == Init /\ [][Next]_<<rows, value, shown>>
=============================================================================
