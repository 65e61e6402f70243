--------------------------- MODULE Materialization ---------------------------
(***************************************************************************)
(* The startup tracking of NuRaftHttpRuntimeService: whether this node is  *)
(* still building its product state, shared by the write path and by the   *)
(* snapshot receiver.                                                      *)
(***************************************************************************)
EXTENDS Integers

(* The startup_materialization_*_ members.  grace: "unset" before a start  *)
(* time is stored, then whether kStartupMaterializationGraceMs have passed *)
(* since.                                                                  *)
StartupState ==
    [tracking : BOOLEAN, pending : BOOLEAN, base : Nat, grace : {"unset", "running", "over"}]

(* refresh_startup_materialization_state.  rec: the Raft server says it is *)
(* catching up or receiving a snapshot, or a snapshot reload is running or *)
(* its target is ahead of the live index.  kv is the applied index of the  *)
(* KV sink, applied the live index, committed the Raft commit index.       *)
Refresh(s, rec, kv, applied, committed) ==
    LET tracking == s.tracking \/ rec
        held     == [s EXCEPT !.tracking = tracking, !.pending = s.pending \/ tracking]
    IN  IF \/ kv > applied
           \/ rec /\ kv < committed
           \/ ~tracking
           \/ applied <= s.base /\ s.grace # "over"
        THEN held
        ELSE [s EXCEPT !.tracking = FALSE, !.pending = FALSE]

Greater(a, b) == IF a < b THEN b ELSE a
=============================================================================
