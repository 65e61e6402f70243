----------------------------- MODULE MCHttpStream -----------------------------
(* Small instances of HttpStream: an export, a proxied stream, a read.     *)
EXTENDS HttpStream

CONSTANTS export, proxied, read

MCKind == [r \in Requests |-> CASE r = export  -> "stream"
                                [] r = proxied -> "sse"
                                [] r = read    -> "plain"]

MCChunks == [r \in Requests |-> IF r = export THEN 2 ELSE 1]
=============================================================================
