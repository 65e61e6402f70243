-------------------------- MODULE MCSnapshotInstall --------------------------
(* Instances of SnapshotInstall for TLC.  The payload has a main store file *)
(* of two chunks and a KV and a metadata file of one.                       *)
EXTENDS SnapshotInstall

MCFiles ==
    <<[name |-> "db", size |-> 3],
      [name |-> "materialized_state", size |-> 1],
      [name |-> "meta", size |-> 1]>>

(* Two snapshots of one log; the later one's copy of the main store was    *)
(* made after one more entry had reached it.                               *)
MCSnapshots ==
    {[log |-> 2, applied |-> 2, db |-> 2], [log |-> 3, applied |-> 3, db |-> 4]}

(* A snapshot whose copy of the main store was made while the mirror       *)
(* worker was one entry behind the KV sink.                                *)
MCLagging == {[log |-> 3, applied |-> 3, db |-> 2]}

MCOne == {[log |-> 2, applied |-> 2, db |-> 2]}
=============================================================================
