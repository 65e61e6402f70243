------------------------- MODULE MCCollectionWrites -------------------------
(* Instances of CollectionWrites for TLC.                                  *)
EXTENDS CollectionWrites, TLC

CONSTANTS a, b, f, g, h

MCStripe == (a :> 1) @@ (b :> 2)

Op(kind, field, lines) == [kind |-> kind, field |-> field, lines |-> lines]

(* A creation and a replacement of the same documents in either order, an  *)
(* update, and a document twice in one call.                               *)
MCOps == {Op("create", f, <<a, b>>), Op("upsert", g, <<b, a>>),
          Op("update", h, <<b>>), Op("emplace", f, <<b, b>>)}
=============================================================================
