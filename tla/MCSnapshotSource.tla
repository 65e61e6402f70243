-------------------------- MODULE MCSnapshotSource --------------------------
(* Small instances of SnapshotSource.                                      *)
EXTENDS SnapshotSource
=============================================================================
