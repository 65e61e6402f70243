---------------------------- MODULE MCStateFiles ----------------------------
(***************************************************************************)
(* StateFiles with addresses a and m (the node before and after a move)    *)
(* and s (a peer and the sender of snapshots).  The node may be started    *)
(* alone under either address, with its peer under either address, and     *)
(* with a peer list from which the peer has been dropped.                  *)
(***************************************************************************)
EXTENDS StateFiles

CONSTANTS a, m, s

MCOptions ==
    {[self |-> a, peers |-> {}], [self |-> m, peers |-> {}],
     [self |-> a, peers |-> {s}], [self |-> m, peers |-> {s}]}
=============================================================================
