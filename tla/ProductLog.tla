----------------------------- MODULE ProductLog -----------------------------
(***************************************************************************)
(* What the write path promises: the product state is the committed log,   *)
(* run in log order, every entry that is meant for it once.                *)
(***************************************************************************)
EXTENDS Integers, Sequences

VARIABLES
    log,        \* the committed log: is the entry meant for the product state?
    applied     \* the indices of the entries that were run, in order

Ran(i) == \E p \in DOMAIN applied : applied[p] >= i

Pending == {i \in DOMAIN log : log[i] /\ ~Ran(i)}

Init == log = <<>> /\ applied = <<>>

Commit ==
    /\ \E mirrored \in BOOLEAN : log' = Append(log, mirrored)
    /\ UNCHANGED applied

Run ==
    /\ \E i \in Pending :
           /\ \A j \in Pending : i <= j
           /\ applied' = Append(applied, i)
    /\ UNCHANGED log

Spec == Init /\ [][Commit \/ Run]_<<log, applied>>
=============================================================================
