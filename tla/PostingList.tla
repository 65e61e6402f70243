----------------------------- MODULE PostingList -----------------------------
(***************************************************************************)
(* The posting list of one token (src/posting.cpp, src/posting_list.cpp):  *)
(* which documents hold the token and at which positions.  A short list is *)
(* one packed array, the compact form.  A long one is a chain of blocks    *)
(* with an ordered map from the last id of a block to the block, through   *)
(* which searches jump.  Adding and removing documents splits blocks,      *)
(* refills them from their successor, merges them, and converts the list   *)
(* between its two forms; the readers walk the result.                     *)
(*                                                                         *)
(* The arrays are kept uncompressed: the integer coding is a library's.    *)
(* What the code owes that library stays: the smallest and largest offset  *)
(* of a block, from which the size of its buffer is computed.              *)
(***************************************************************************)
EXTENDS Integers, Sequences, FiniteSets, SequencesExt

CONSTANTS
    BLOCK_MAX_ELEMENTS,             \* ids in a block, 256 in the server
    COMPACT_LIST_THRESHOLD_LENGTH,  \* words of a compact list, 64 in the server
    UINT32_MAX,                     \* stands for the largest 32-bit number
    Ids,                            \* document ids
    Positions,                      \* positions of the token in a document
    Others                          \* sets of ids to intersect with and to look for

(***************************************************************************)
(* A block is refilled or merged before it is empty only if half a block   *)
(* is at least two ids.  The constructor accepts 2 and 3 as well.          *)
(***************************************************************************)
ASSUME BlockAssumption ==
    BLOCK_MAX_ELEMENTS \in Nat /\ BLOCK_MAX_ELEMENTS >= 4

ASSUME InputAssumption ==
    /\ Ids \subseteq 1..(UINT32_MAX - 1)
    /\ \A p \in Positions : Len(p) > 0 /\ \A i \in DOMAIN p : p[i] \in 0..(UINT32_MAX - 1)
    /\ Others \subseteq SUBSET Ids

VARIABLES
    values,     \* the list of the leaf: its form and its contents
    added       \* what was added and not removed since: id -> positions

vars == <<values, added>>

-----------------------------------------------------------------------------
(***************************************************************************)
(* Numbers and arrays.  Indices into offsets count from 0, as in the code. *)
(***************************************************************************)
Slice(s, from, to) == SubSeq(s, from + 1, to)
Shifted(s, by) == [i \in DOMAIN s |-> s[i] + by]

EmptyBlock ==
    [ids |-> <<>>, offset_index |-> <<>>, offsets |-> <<>>,
     min |-> UINT32_MAX, max |-> 0, next |-> 0]

LastId(b) == IF b.ids = <<>> THEN UINT32_MAX ELSE Last(b.ids)

\* The place of the first id that is not smaller, one past the end if none is.
Place(ids, id) == Min({k \in 1..(Len(ids) + 1) : k > Len(ids) \/ ids[k] >= id})
HasId(ids, id) == \E k \in DOMAIN ids : ids[k] = id

\* Where the offsets of the k-th id of a block end.
EndOf(b, k) == IF k = Len(b.ids) THEN Len(b.offsets) ELSE b.offset_index[k + 1]

\* array::load: the bounds come from the caller.
WithOffsets(b, offsets, m, M) == [b EXCEPT !.offsets = offsets, !.min = m, !.max = M]

-----------------------------------------------------------------------------
(***************************************************************************)
(* One block.                                                              *)
(***************************************************************************)
BlockAppend(b, id, positions) ==
    WithOffsets([b EXCEPT !.ids = Append(@, id),
                          !.offset_index = Append(@, Len(b.offsets))],
                b.offsets \o positions,
                Min(Range(positions) \cup {b.min}),
                Max(Range(positions) \cup {b.max}))

\* Mutant: inserting offsets leaves the bounds of the block as they were.
InsertKeepsBounds(b, id, positions) ==
    LET k     == Place(b.ids, id)
        start == b.offset_index[k]
    IN  [b EXCEPT !.ids = InsertAt(@, k, id),
                  !.offset_index = SubSeq(@, 1, k)
                      \o Shifted(SubSeq(@, k, Len(@)), Len(positions)),
                  !.offsets = Slice(@, 0, start) \o positions \o Slice(@, start, Len(@))]

\* The new offsets go where those of the next larger id began.
BlockInsert(b, id, positions) ==
    LET k     == Place(b.ids, id)
        start == b.offset_index[k]
    IN  WithOffsets(
            [b EXCEPT !.ids = InsertAt(@, k, id),
                      !.offset_index = SubSeq(@, 1, k)
                          \o Shifted(SubSeq(@, k, Len(@)), Len(positions))],
            Slice(b.offsets, 0, start) \o positions
                \o Slice(b.offsets, start, Len(b.offsets)),
            Min(Range(positions) \cup {b.min}),
            Max(Range(positions) \cup {b.max}))

\* Mutant: positions of another number do not move the offsets that follow.
ReplaceUnshifted(b, id, positions) ==
    LET k     == Place(b.ids, id)
        start == b.offset_index[k]
    IN  WithOffsets(b, Slice(b.offsets, 0, start) \o positions
                           \o Slice(b.offsets, EndOf(b, k), Len(b.offsets)),
                    Min(Range(positions) \cup {b.min}),
                    Max(Range(positions) \cup {b.max}))

\* The bounds only widen: the code's search for new ones starts from the old.
BlockReplace(b, id, positions) ==
    LET k     == Place(b.ids, id)
        start == b.offset_index[k]
        end   == EndOf(b, k)
        new   == Slice(b.offsets, 0, start) \o positions
                     \o Slice(b.offsets, end, Len(b.offsets))
    IN  WithOffsets(
            [b EXCEPT !.offset_index = SubSeq(@, 1, k)
                 \o Shifted(SubSeq(@, k + 1, Len(@)), Len(positions) - (end - start))],
            new,
            Min(Range(positions) \cup {b.min}),
            Max(Range(positions) \cup {b.max}))

BlockUpsert(b, id, positions) ==
    CASE b.ids = <<>> \/ id > LastId(b) -> BlockAppend(b, id, positions)
      [] b.ids # <<>> /\ id <= LastId(b) /\ HasId(b.ids, id) -> BlockReplace(b, id, positions)
      [] OTHER -> BlockInsert(b, id, positions)

BlockErase(b, id) ==
    LET k     == Place(b.ids, id)
        start == b.offset_index[k]
        end   == EndOf(b, k)
        kept  == Slice(b.offsets, 0, start) \o Slice(b.offsets, end, Len(b.offsets))
    IN  IF ~HasId(b.ids, id) THEN b
        ELSE WithOffsets(
                 [b EXCEPT !.ids = RemoveAt(@, k),
                           !.offset_index = SubSeq(@, 1, k - 1)
                               \o Shifted(SubSeq(@, k + 1, Len(@)), start - end)],
                 kept,
                 Min(Range(kept) \cup {UINT32_MAX}),
                 Max(Range(kept) \cup {0}))

\* The first ids of a block, and the rest of it with its offsets counted anew.
FrontOf(b, n) ==
    LET cut == EndOf(b, n)
        offsets == Slice(b.offsets, 0, cut)
    IN  WithOffsets([b EXCEPT !.ids = SubSeq(@, 1, n), !.offset_index = SubSeq(@, 1, n)],
                    offsets, Min(Range(offsets)), Max(Range(offsets)))
RestOf(b, n) ==
    LET cut == EndOf(b, n)
        offsets == Slice(b.offsets, cut, Len(b.offsets))
    IN  IF n = Len(b.ids) THEN [EmptyBlock EXCEPT !.min = 0, !.next = b.next]
        ELSE WithOffsets([b EXCEPT !.ids = SubSeq(@, n + 1, Len(@)),
                                   !.offset_index = Shifted(SubSeq(@, n + 1, Len(@)), -cut)],
                         offsets, Min(Range(offsets)), Max(Range(offsets)))

-----------------------------------------------------------------------------
(***************************************************************************)
(* The chain of blocks.  A block is known by its address; ROOT is part of  *)
(* the list itself and 0 is the null pointer.  id_block_map is a std::map: *)
(* emplace leaves a key that is already there as it is.                    *)
(***************************************************************************)
ROOT == 1
EmptyList == [heap |-> (ROOT :> EmptyBlock), id_block_map |-> <<>>, ids_length |-> 0]

Emplace(map, key, p) == IF key \in DOMAIN map THEN map ELSE (key :> p) @@ map
Without(map, key) == Restrict(map, DOMAIN map \ {key})
\* Mutant: the old last id of a block stays in the map.
RekeyKeepsOld(map, old, new, p) == Emplace(map, new, p)

Rekey(map, old, new, p) == IF old = new THEN map ELSE Emplace(Without(map, old), new, p)

\* The key that lower_bound finds, UINT32_MAX if there is none.
LowerBound(map, id) == Min({k \in DOMAIN map : k >= id} \cup {UINT32_MAX})
Fresh(heap) == Min((1..(Cardinality(DOMAIN heap) + 1)) \ DOMAIN heap)

split_block(b) ==
    LET half == Len(b.ids) \div 2 IN <<FrontOf(b, half), RestOf(b, half)>>

merge_adjacent_blocks(b1, b2, n) ==
    LET offsets == b1.offsets \o Slice(b2.offsets, 0, EndOf(b2, n))
        bounds  == Range(offsets) \cup (IF b1.offsets = <<>> THEN {0} ELSE {})
    IN  <<WithOffsets([b1 EXCEPT
                          !.ids = @ \o SubSeq(b2.ids, 1, n),
                          !.offset_index =
                              @ \o Shifted(SubSeq(b2.offset_index, 1, n), Len(b1.offsets))],
                      offsets, Min(bounds), Max(bounds)),
          RestOf(b2, n)>>

\* The block that gets an id: the first that ends at or after it, or the last.
UpsertBlock(pl, id) ==
    LET map == pl.id_block_map IN
    CASE DOMAIN map = {} -> ROOT
      [] DOMAIN map # {} /\ LowerBound(map, id) # UINT32_MAX -> map[LowerBound(map, id)]
      [] OTHER -> map[Max(DOMAIN map)]

UpsertInPlace(pl, p, id, positions) ==
    LET b == pl.heap[p]
        c == BlockUpsert(b, id, positions)
    IN  [heap |-> [pl.heap EXCEPT ![p] = c],
         id_block_map |-> Rekey(pl.id_block_map, LastId(b), LastId(c), p),
         ids_length |-> pl.ids_length + Len(c.ids) - Len(b.ids)]

UpsertAtEnd(pl, p, id, positions) ==
    LET q == Fresh(pl.heap)
        c == BlockUpsert(EmptyBlock, id, positions)
    IN  [heap |-> [pl.heap EXCEPT ![p].next = q] @@ (q :> c),
         id_block_map |-> Emplace(pl.id_block_map, LastId(c), q),
         ids_length |-> pl.ids_length + 1]

UpsertAndSplit(pl, p, id, positions) ==
    LET b     == pl.heap[p]
        c     == BlockUpsert(b, id, positions)
        q     == Fresh(pl.heap)
        halves == split_block(c)
    IN  [heap |-> [pl.heap EXCEPT ![p] = [halves[1] EXCEPT !.next = q]]
                      @@ (q :> [halves[2] EXCEPT !.next = b.next]),
         id_block_map |->
             Emplace(Emplace(Without(pl.id_block_map, LastId(b)), LastId(halves[1]), p),
                     LastId(halves[2]), q),
         ids_length |-> pl.ids_length + Len(c.ids) - Len(b.ids)]

ListUpsert(pl, id, positions) ==
    LET p == UpsertBlock(pl, id)
        b == pl.heap[p]
    IN  CASE Len(b.ids) < BLOCK_MAX_ELEMENTS -> UpsertInPlace(pl, p, id, positions)
          [] Len(b.ids) >= BLOCK_MAX_ELEMENTS /\ b.next = 0 /\ LastId(b) < id ->
                 UpsertAtEnd(pl, p, id, positions)
          [] OTHER -> UpsertAndSplit(pl, p, id, positions)

\* The last id of the last block went: unlink the block, unless it is the root.
EraseEmptied(pl, p, b, before) ==
    LET map    == pl.id_block_map
        prev   == map[Max({k \in DOMAIN map : k < before})]
        next   == pl.heap[b.next]
        halves == merge_adjacent_blocks(b, next, Len(next.ids) \div 2)
    IN  CASE p # ROOT ->
                 [pl EXCEPT !.heap = Without([@ EXCEPT ![prev].next = 0], p),
                            !.id_block_map = Without(@, before)]
          [] p = ROOT /\ b.next # 0 ->
                 [pl EXCEPT !.heap = [@ EXCEPT ![p] = halves[1], ![b.next] = halves[2]],
                            !.id_block_map =
                                Without(Emplace(Emplace(Without(@, LastId(next)),
                                                        LastId(halves[2]), b.next),
                                                LastId(halves[1]), p), before)]
          [] OTHER -> [pl EXCEPT !.heap[p] = b, !.id_block_map = Without(@, before)]

\* Less than half a block is left: take all of the next block, or half a block of it.
EraseRefill(pl, p, b, before) ==
    LET next   == pl.heap[b.next]
        all    == Len(b.ids) + Len(next.ids) <= BLOCK_MAX_ELEMENTS
        halves == merge_adjacent_blocks(b, next,
                      IF all THEN Len(next.ids) ELSE BLOCK_MAX_ELEMENTS \div 2)
        heap   == [pl.heap EXCEPT ![p] = IF all THEN [halves[1] EXCEPT !.next = next.next]
                                                ELSE halves[1],
                                  ![b.next] = halves[2]]
        map    == IF all THEN Without(pl.id_block_map, LastId(next)) ELSE pl.id_block_map
    IN  [pl EXCEPT !.heap = IF all THEN Without(heap, b.next) ELSE heap,
                   !.id_block_map = Rekey(map, before, LastId(halves[1]), p)]

ListErase(pl, id) ==
    LET before == LowerBound(pl.id_block_map, id)
        p      == pl.id_block_map[before]
        b      == BlockErase(pl.heap[p], id)
        counted == [pl EXCEPT !.ids_length = @ - (Len(pl.heap[p].ids) - Len(b.ids))]
    IN  CASE before = UINT32_MAX -> pl
          [] before # UINT32_MAX /\ b.ids = <<>> -> EraseEmptied(counted, p, b, before)
          [] before # UINT32_MAX /\ b.ids # <<>>
                 /\ Len(b.ids) < BLOCK_MAX_ELEMENTS \div 2 /\ b.next # 0 ->
                 EraseRefill(counted, p, b, before)
          [] OTHER -> [counted EXCEPT !.heap[p] = b,
                                      !.id_block_map = Rekey(@, before, LastId(b), p)]

-----------------------------------------------------------------------------
(***************************************************************************)
(* The compact form: the words <<count, offsets, id>> of each document in  *)
(* the order of the ids, in an array of a given capacity.                  *)
(***************************************************************************)
EmptyCompact(capacity) == [entries |-> <<>>, length |-> 0, ids_length |-> 0,
                           capacity |-> capacity]
Entry(id, positions) == [id |-> id, offsets |-> positions]
EntryIds(c) == [k \in DOMAIN c.entries |-> c.entries[k].id]

\* The words an upsert adds, negative when the positions become fewer.
Extra(c, id, positions) ==
    IF HasId(EntryIds(c), id)
    THEN Len(positions) - Len(c.entries[Place(EntryIds(c), id)].offsets)
    ELSE Len(positions) + 2

\* What the upsert returns: the words that are missing, 0 when it was done.
Missing(c, id, positions) ==
    IF Extra(c, id, positions) > 0 /\ c.length + Extra(c, id, positions) > c.capacity
    THEN c.length + Extra(c, id, positions) - c.capacity
    ELSE 0

CompactUpsert(c, id, positions) ==
    LET k == Place(EntryIds(c), id)
        e == Entry(id, positions)
    IN  IF Missing(c, id, positions) > 0 THEN c
        ELSE [c EXCEPT
                 !.entries = IF HasId(EntryIds(c), id) THEN [@ EXCEPT ![k] = e]
                                                       ELSE InsertAt(@, k, e),
                 !.length = @ + Extra(c, id, positions),
                 !.ids_length = @ + (IF HasId(EntryIds(c), id) THEN 0 ELSE 1)]

CompactErase(c, id) ==
    LET k == Place(EntryIds(c), id) IN
    IF ~HasId(EntryIds(c), id) THEN c
    ELSE [c EXCEPT !.entries = RemoveAt(@, k),
                   !.length = @ - (Len(c.entries[k].offsets) + 2),
                   !.ids_length = @ - 1]

\* The offsets of the k-th id of a block.
OffsetsAt(b, k) == Slice(b.offsets, b.offset_index[k], EndOf(b, k))

create(b) ==
    FoldLeft(LAMBDA c, k : CompactUpsert(c, b.ids[k], OffsetsAt(b, k)),
             EmptyCompact(Len(b.offsets) + 2 * Len(b.ids)),
             [k \in DOMAIN b.ids |-> k])

to_full_posting_list(c) ==
    FoldLeft(LAMBDA pl, e : ListUpsert(pl, e.id, e.offsets), EmptyList, c.entries)

-----------------------------------------------------------------------------
(***************************************************************************)
(* The list of a leaf, in one of its forms.                                *)
(***************************************************************************)
NoList == [form |-> "none"]
Compact(c) == [form |-> "compact", list |-> c]
Full(pl) == [form |-> "full", list |-> pl]

\* A third more room than needed, within the limit of the compact form.
Grown(c, missing) ==
    [c EXCEPT !.capacity = Min({((c.capacity + missing) * 13) \div 10,
                                COMPACT_LIST_THRESHOLD_LENGTH})]
Shrunk(c) == IF c.length < c.capacity \div 2 THEN [c EXCEPT !.capacity = @ \div 2] ELSE c

PostingUpsert(v, id, positions) ==
    IF v.form = "full" THEN Full(ListUpsert(v.list, id, positions))
    ELSE LET missing == Missing(v.list, id, positions) IN
         CASE missing = 0 -> Compact(CompactUpsert(v.list, id, positions))
           [] missing > 0 /\ v.list.capacity + missing > COMPACT_LIST_THRESHOLD_LENGTH ->
                  Full(ListUpsert(to_full_posting_list(v.list), id, positions))
           [] OTHER -> Compact(CompactUpsert(Grown(v.list, missing), id, positions))

\* A single block that is small enough goes back to the compact form.
FitsCompact(pl) ==
    /\ Cardinality(DOMAIN pl.id_block_map) = 1
    /\ 2 * Len(pl.heap[ROOT].ids) + Len(pl.heap[ROOT].offsets)
           <= COMPACT_LIST_THRESHOLD_LENGTH

PostingErase(v, id) ==
    IF v.form = "compact" THEN Compact(Shrunk(CompactErase(v.list, id)))
    ELSE LET pl == ListErase(v.list, id) IN
         IF FitsCompact(pl) THEN Compact(create(pl.heap[ROOT])) ELSE Full(pl)

num_ids(v) == v.list.ids_length

\* make_leaf stores the document and add_document_to_leaf then stores it again.
make_leaf(id, positions) ==
    LET b == BlockUpsert(EmptyBlock, id, positions)
        v == IF 2 + Len(positions) <= COMPACT_LIST_THRESHOLD_LENGTH
             THEN Compact(create(b))
             ELSE Full(ListUpsert(EmptyList, id, positions))
    IN  PostingUpsert(v, id, positions)

-----------------------------------------------------------------------------
(***************************************************************************)
(* The readers.  An iterator is at an index of a block; null is its end.   *)
(***************************************************************************)
RECURSIVE Scan(_, _), Intersect(_, _), ContainsFrom(_, _, _), CompactFrom(_, _, _)

Begin == [block |-> ROOT, index |-> 0]
Ended == [block |-> 0, index |-> 0]

Valid(pl, it) == it.block # 0 /\ it.index < Len(pl.heap[it.block].ids)
IdAt(pl, it) == pl.heap[it.block].ids[it.index + 1]

next(pl, it) ==
    LET b == pl.heap[it.block] IN
    IF it.index + 1 = Len(b.ids) THEN [block |-> b.next, index |-> 0]
                                 ELSE [it EXCEPT !.index = @ + 1]

\* Mutant: forward to the first larger id.
ForwardPast(pl, it, id) ==
    LET ids == pl.heap[it.block].ids IN
    [it EXCEPT !.index = Min({k \in @..Len(ids) : k = Len(ids) \/ ids[k + 1] > id})]

\* Forward within a block to the first id that is not smaller.
Forward(pl, it, id) ==
    LET ids == pl.heap[it.block].ids IN
    [it EXCEPT !.index = Min({k \in @..Len(ids) : k = Len(ids) \/ ids[k + 1] >= id})]
\* Back within a block to the last id that is not larger, or to its first id.
Back(pl, it, id) ==
    LET ids == pl.heap[it.block].ids IN
    [it EXCEPT !.index = Max({k \in 0..@ : k = 0 \/ ids[k + 1] <= id})]

skip_to(pl, it, id) ==
    LET b   == pl.heap[it.block]
        key == LowerBound(pl.id_block_map, id)
        to  == Forward(pl, [block |-> pl.id_block_map[key], index |-> 0], id)
    IN  CASE b.ids # <<>> /\ id <= LastId(b) -> Forward(pl, it, id)
          [] ~(b.ids # <<>> /\ id <= LastId(b)) /\ key # UINT32_MAX /\ Valid(pl, to) -> to
          [] OTHER -> Ended

skip_to_rev(pl, it, id) ==
    LET b   == pl.heap[it.block]
        key == LowerBound(pl.id_block_map, id)
        p   == pl.id_block_map[key]
    IN  CASE b.ids = <<>> \/ id >= b.ids[1] -> Back(pl, it, id)
          [] b.ids # <<>> /\ id < b.ids[1] /\ key # UINT32_MAX ->
                 Back(pl, [block |-> p, index |-> Len(pl.heap[p].ids) - 1], id)
          [] OTHER -> Ended

get_offsets(pl, it) == OffsetsAt(pl.heap[it.block], it.index + 1)

Scan(pl, it) ==
    IF Valid(pl, it)
    THEN <<Entry(IdAt(pl, it), get_offsets(pl, it))>> \o Scan(pl, next(pl, it))
    ELSE <<>>

\* Mutant: the iterator at the largest id moves on as well.
AdvanceEveryone(pls, its) ==
    LET greatest == Max({IdAt(pls[i], its[i]) : i \in DOMAIN its}) IN
    [i \in DOMAIN its |-> IF IdAt(pls[i], its[i]) # greatest
                          THEN skip_to(pls[i], its[i], greatest) ELSE next(pls[i], its[i])]

\* Those behind the largest id skip to it.
advance_non_largest(pls, its) ==
    LET greatest == Max({IdAt(pls[i], its[i]) : i \in DOMAIN its}) IN
    [i \in DOMAIN its |-> IF IdAt(pls[i], its[i]) # greatest
                          THEN skip_to(pls[i], its[i], greatest) ELSE its[i]]

Intersect(pls, its) ==
    CASE \E i \in DOMAIN its : ~Valid(pls[i], its[i]) -> <<>>
      [] /\ \A i \in DOMAIN its : Valid(pls[i], its[i])
         /\ \A i, j \in DOMAIN its : IdAt(pls[i], its[i]) = IdAt(pls[j], its[j]) ->
             <<IdAt(pls[1], its[1])>>
                 \o Intersect(pls, [i \in DOMAIN its |-> next(pls[i], its[i])])
      [] OTHER -> Intersect(pls, advance_non_largest(pls, its))

contains(pl, id) ==
    LET key == LowerBound(pl.id_block_map, id) IN
    key # UINT32_MAX /\ HasId(pl.heap[pl.id_block_map[key]].ids, id)

\* contains_atleast_one from an iterator on, for the targets not yet passed.
ContainsFrom(pl, it, targets) ==
    CASE targets = <<>> \/ ~Valid(pl, it) -> FALSE
      [] targets # <<>> /\ Valid(pl, it) /\ IdAt(pl, it) = Head(targets) -> TRUE
      [] targets # <<>> /\ Valid(pl, it) /\ IdAt(pl, it) > Head(targets) ->
             ContainsFrom(pl, it, SelectSeq(targets, LAMBDA t : t >= IdAt(pl, it)))
      [] OTHER -> ContainsFrom(pl, skip_to(pl, it, Head(targets)), targets)

\* The same on a compact list, from its k-th entry on.
CompactFrom(c, k, targets) ==
    LET id   == c.entries[k].id
        rest == SelectSeq(targets, LAMBDA t : t >= id)
    IN  /\ k <= Len(c.entries) /\ targets # <<>>
        /\ rest # <<>>
        /\ Head(rest) = id \/ CompactFrom(c, k + 1, rest)

posting_contains(v, id) ==
    IF v.form = "compact" THEN HasId(EntryIds(v.list), id) ELSE contains(v.list, id)

contains_atleast_one(v, targets) ==
    IF v.form = "compact" THEN CompactFrom(v.list, 1, targets)
                          ELSE ContainsFrom(v.list, Begin, targets)

\* to_expanded_plists: scans and intersections read a full copy of a compact list.
Expanded(v) == IF v.form = "compact" THEN to_full_posting_list(v.list) ELSE v.list

-----------------------------------------------------------------------------
(***************************************************************************)
(* The index adds a document to the leaf of a token, which makes the leaf  *)
(* if there is none, and removes one, which drops a leaf left empty.       *)
(***************************************************************************)
Init == values = NoList /\ added = <<>>

AddDocument(id, positions) ==
    /\ values' = IF values = NoList THEN make_leaf(id, positions)
                                    ELSE PostingUpsert(values, id, positions)
    /\ added' = (id :> positions) @@ added

RemoveDocument(id) ==
    LET v == PostingErase(values, id) IN
    /\ values # NoList
    /\ values' = IF num_ids(v) = 0 THEN NoList ELSE v
    /\ added' = Without(added, id)

Next ==
    \E id \in Ids :
        \/ \E positions \in Positions : AddDocument(id, positions)
        \/ RemoveDocument(id)

Spec == Init /\ [][Next]_vars

-----------------------------------------------------------------------------
(***************************************************************************)
(* The list has one of its forms; a compact list never has more room than  *)
(* the form allows (posting_t::upsert caps the growth), and a list counts  *)
(* at least one id, since a leaf whose count is 0 is dropped.              *)
(***************************************************************************)
TypeOK ==
    /\ DOMAIN added \subseteq Ids /\ Range(added) \subseteq Positions
    /\ \/ values = NoList
       \/ /\ values.form = "compact"
          /\ DOMAIN values.list = {"entries", "length", "ids_length", "capacity"}
          /\ values.list.capacity \in 0..COMPACT_LIST_THRESHOLD_LENGTH
          /\ values.list.ids_length \in 1..Cardinality(Ids)
       \/ /\ values.form = "full"
          /\ DOMAIN values.list = {"heap", "id_block_map", "ids_length"}
          /\ \A p \in DOMAIN values.list.heap :
                 DOMAIN values.list.heap[p] = DOMAIN EmptyBlock
          /\ DOMAIN values.list.id_block_map \subseteq Ids
          /\ values.list.ids_length \in 1..Cardinality(Ids)

Sorted(S) == SelectSeq([i \in 1..Max(Ids) |-> i], LAMBDA i : i \in S)

(***************************************************************************)
(* Whatever was added and removed in whatever order, walking the list from *)
(* its root (new_iterator, next, get_offsets) gives exactly the documents  *)
(* that hold the token, each once, in the order of their ids and with the  *)
(* positions last given; num_ids counts them; the leaf is dropped exactly  *)
(* with its last document.                                                 *)
(***************************************************************************)
ScanGivesAdded ==
    IF values = NoList THEN added = <<>>
    ELSE /\ LET ids == Sorted(DOMAIN added) IN
            Scan(Expanded(values), Begin) = [k \in DOMAIN ids |-> Entry(ids[k], added[ids[k]])]
         /\ num_ids(values) = Cardinality(DOMAIN added)

(***************************************************************************)
(* The two ways through the blocks agree: every block that is allocated is *)
(* on the chain from the root, and id_block_map has exactly one entry for  *)
(* it, under its last id.  No block of a list that holds ids is empty or   *)
(* over BLOCK_MAX_ELEMENTS.  (posting_list_t::upsert and erase update the  *)
(* chain and the map in separate steps for each of their cases.)           *)
(***************************************************************************)
MapFollowsChain ==
    values.form = "full" =>
        LET heap  == values.list.heap
            map   == values.list.id_block_map
            Links == {<<p, heap[p].next>> : p \in {q \in DOMAIN heap : heap[q].next # 0}}
        IN  /\ {l[2] : l \in Links} = DOMAIN heap \ {ROOT}
            /\ \A l \in Links : Last(heap[l[1]].ids) < heap[l[2]].ids[1]
            /\ Range(map) = DOMAIN heap
            /\ Cardinality(DOMAIN map) = Cardinality(DOMAIN heap)
            /\ \A key \in DOMAIN map : key = LastId(heap[map[key]])
            /\ \A p \in DOMAIN heap : Len(heap[p].ids) \in 1..BLOCK_MAX_ELEMENTS

(***************************************************************************)
(* Every array fits the memory made for it.  array::load sizes a block's   *)
(* buffer from the bounds its caller gives, so these enclose every offset; *)
(* a compact list's length is the number of its words and is within its    *)
(* capacity, also right after the halving in posting_t::erase, and no      *)
(* growth in posting_t::upsert takes the capacity over the threshold.      *)
(***************************************************************************)
BuffersFit ==
    /\ values.form = "full" =>
           \A p \in DOMAIN values.list.heap :
               LET b == values.list.heap[p] IN
               \A o \in Range(b.offsets) : b.min <= o /\ o <= b.max
    /\ values.form = "compact" =>
           LET c == values.list IN
           /\ c.length = FoldLeft(LAMBDA n, e : n + Len(e.offsets) + 2, 0, c.entries)
           /\ c.length <= c.capacity /\ c.capacity <= COMPACT_LIST_THRESHOLD_LENGTH

(***************************************************************************)
(* An iterator that skips never passes a document: from any position,      *)
(* skip_to stops at the first id that is neither before it nor smaller     *)
(* than the target, and ends if there is none.  skip_to_rev, asked for     *)
(* smaller and smaller ids as grouping does, finds the id if it is there.  *)
(***************************************************************************)
SkipsMissNothing ==
    values # NoList =>
        LET pl == Expanded(values)
            At == {it \in [block : DOMAIN pl.heap, index : 0..(BLOCK_MAX_ELEMENTS - 1)] :
                       Valid(pl, it)}
        IN  \A it \in At, id \in Ids :
                LET here  == IdAt(pl, it)
                    ahead == {i \in DOMAIN added : i >= id /\ i >= here}
                    to    == skip_to(pl, it, id)
                    back  == skip_to_rev(pl, it, id)
                IN  /\ id >= here => IF ahead = {} THEN ~Valid(pl, to)
                                     ELSE Valid(pl, to) /\ IdAt(pl, to) = Min(ahead)
                    /\ id <= here /\ id \in DOMAIN added =>
                           Valid(pl, back) /\ IdAt(pl, back) = id

OtherLists ==
    [S \in Others |-> FoldLeft(LAMBDA pl, id : ListUpsert(pl, id, <<0>>), EmptyList, Sorted(S))]

(***************************************************************************)
(* Searches that jump through id_block_map agree with the sets: intersect  *)
(* with one or two other lists gives the common ids in order, contains and *)
(* contains_atleast_one find an id exactly if it was added.                *)
(***************************************************************************)
SearchesAgree ==
    values # NoList =>
        LET pl  == Expanded(values)
            Has == DOMAIN added
        IN  /\ \A id \in Ids : posting_contains(values, id) <=> id \in Has
            /\ \A S \in Others :
                   /\ contains_atleast_one(values, Sorted(S)) <=> S \cap Has # {}
                   /\ Intersect(<<pl, OtherLists[S]>>, <<Begin, Begin>>) = Sorted(S \cap Has)
                   /\ \A T \in Others :
                          Intersect(<<pl, OtherLists[S], OtherLists[T]>>, <<Begin, Begin, Begin>>)
                              = Sorted(S \cap T \cap Has)
=============================================================================
