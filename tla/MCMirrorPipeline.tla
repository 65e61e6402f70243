-------------------------- MODULE MCMirrorPipeline --------------------------
(* Small instances of MirrorPipeline.                                      *)
EXTENDS MirrorPipeline

CONSTANTS w1, w2    \* two write requests

OneChunk == [c \in Clients |-> 1]

(* w1 is an import of two chunks, the others are single writes.            *)
ImportFirst == [c \in Clients |-> IF c = w1 THEN 2 ELSE 1]
=============================================================================
