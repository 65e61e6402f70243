---------------------------- MODULE MCLogStore ----------------------------
(* LogStore on a log of a few slots, with mutated operations that the      *)
(* properties must tell from the real ones.                                *)
EXTENDS LogStore
=============================================================================
