---------------------------- MODULE MCPostingList ----------------------------
(***************************************************************************)
(* Small lists: seven ids make up to three blocks of four, and a compact    *)
(* list holds two of them.  Two sets of positions differ in length and in  *)
(* both bounds.                                                            *)
(***************************************************************************)
EXTENDS PostingList

MCIds == 1..7
MCPositions == {<<2>>, <<0, 5>>}
MCOthers == {{1, 4, 5}, {2, 3, 4, 6, 7}, {3, 7}, {7}}
=============================================================================
