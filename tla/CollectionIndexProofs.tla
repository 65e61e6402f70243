----------------------- MODULE CollectionIndexProofs ------------------------
(***************************************************************************)
(* Proofs about the memory index and the count of CollectionWrites, for    *)
(* every set of documents, stripes, calls and removals, every batch size   *)
(* and every number of failed writes and crashes.                          *)
(***************************************************************************)
EXTENDS CollectionWritesProofs

-----------------------------------------------------------------------------
(* The inductive invariant for the index and the count.                    *)

(* Documents whose index need not be what the store says.                  *)
Unsure == raced \cup spoiled

(* A call has indexed what it is about to write.                           *)
BeingAdded(s) ==
    \E t \in Adders : call[t].pc = "store" /\ \E r \in Accepted(t) : r.seq = s

(* What a removal has read and is about to delete.                         *)
InHand(d) == {del[d].got[i] : i \in DOMAIN del[d].got}

(* It has taken it out of the index.                                       *)
BeingRemoved(s) ==
    \E d \in Removers : del[d].pc # "unindex" /\ \E g \in InHand(d) : g.seq = s

(* Sequence ids that are still to be given out are not in the index.       *)
UnusedBlank == \A s \in Seqs : s >= next => index[s] = {}

StoredIndexed ==
    \A s \in Seqs :
        docs[s] # NoDoc /\ docs[s].id \notin Unsure /\ ~BeingAdded(s) /\ ~BeingRemoved(s) =>
            index[s] = docs[s].val

(* A call finds its old version indexed, and leaves its new one.           *)
AddedIndexed ==
    \A t \in Adders : \A r \in Accepted(t) : r.id \notin Unsure =>
        /\ call[t].pc = "store" => index[r.seq] = r.new
        /\ call[t].pc # "store" => index[r.seq] = r.old

(* A removal finds what it has read in the store, and indexed.             *)
RemovedIndexed ==
    \A d \in Removers : \A g \in InHand(d) : g.id \notin Unsure =>
        /\ docs[g.seq].id = g.id
        /\ del[d].pc = "unindex" => index[g.seq] = g.val
        /\ del[d].pc # "unindex" => index[g.seq] = {}

NothingElse ==
    Unsure = {} => \A s \in Seqs : docs[s] = NoDoc /\ ~BeingAdded(s) => index[s] = {}

(* The documents num_documents counts.                                     *)
Counted == {s \in Seqs : (docs[s] # NoDoc \/ BeingAdded(s)) /\ ~BeingRemoved(s)}

Counts == Unsure = {} => num = Cardinality(Counted)

Tracked ==
    /\ index \in [Seqs -> SUBSET Fields]
    /\ UnusedBlank /\ StoredIndexed /\ AddedIndexed /\ RemovedIndexed /\ NothingElse /\ Counts

-----------------------------------------------------------------------------
(* Counting.                                                               *)

(* Sets of sequence ids are finite.                                        *)
LEMMA SeqsFinite ==
    ASSUME NEW S, S \subseteq Seqs
    PROVE  IsFiniteSet(S) /\ Cardinality(S) \in Nat
<1>1. IsFiniteSet(Seqs)
  BY Constant, FS_Interval DEF Seqs
<1>2. IsFiniteSet(S)
  BY <1>1, FS_Subset, Zenon
<1> QED BY <1>2, FS_CardinalityType, Zenon

(* Records with sequence ids of their own are as many as those are.        *)
LEMMA CountRecords ==
    ASSUME NEW R, \A r \in R : r.seq \in Seqs, \A q, r \in R : q.seq = r.seq => q = r
    PROVE  Cardinality(R) = Cardinality({r.seq : r \in R})
<1> DEFINE S == {r.seq : r \in R}
           f == [s \in S |-> CHOOSE r \in R : r.seq = s]
<1>1. IsFiniteSet(S)
  BY SeqsFinite, Zenon
<1>2. ASSUME NEW r \in R PROVE f[r.seq] = r
  BY ZenonT(40)
<1>3. f \in [S -> R] /\ \A s \in S : f[s].seq = s
  BY <1>2, ZenonT(40)
<1>4. IsInjective(f)
  BY <1>3, Zenon DEF IsInjective
<1>5. \A r \in R : \E s \in S : f[s] = r
  BY <1>2, ZenonT(40)
<1> HIDE DEF f, S
<1>6. f \in Bijection(S, R)
  BY <1>3, <1>4, <1>5, Zenon DEF Bijection, Injection, Surjection
<1>7. ExistsBijection(S, R)
  BY <1>6, Zenon DEF ExistsBijection
<1>8. Cardinality(R) = Cardinality(S)
  BY <1>1, <1>7, FS_Bijection, Zenon
<1> QED BY <1>8, Zenon DEF S

(* So are the entries of a sequence.                                       *)
LEMMA CountEntries ==
    ASSUME NEW T, NEW q \in Seq(T), \A i \in DOMAIN q : q[i].seq \in Seqs,
           \A i, j \in DOMAIN q : q[i].seq = q[j].seq => i = j
    PROVE  Len(q) \in Nat /\ Cardinality({q[i].seq : i \in DOMAIN q}) = Len(q)
<1> DEFINE S == {q[i].seq : i \in DOMAIN q}
           f == [i \in 1..Len(q) |-> q[i].seq]
<1>1. Len(q) \in Nat /\ DOMAIN q = 1..Len(q)
  OBVIOUS
<1>2. f \in [1..Len(q) -> S] /\ IsInjective(f) /\ \A s \in S : \E i \in 1..Len(q) : f[i] = s
  BY <1>1, Zenon DEF IsInjective
<1> HIDE DEF f, S
<1>3. f \in Bijection(1..Len(q), S)
  BY <1>2, Zenon DEF Bijection, Injection, Surjection
<1>4. ExistsBijection(1..Len(q), S)
  BY <1>3, Zenon DEF ExistsBijection
<1>5. Cardinality(S) = Len(q)
  BY <1>1, <1>4, FS_CountingElements, Zenon
<1> QED BY <1>1, <1>5, Zenon DEF S

(* More documents.                                                         *)
LEMMA CountMore ==
    ASSUME NEW S, S \subseteq Seqs, NEW N, N \subseteq Seqs, S \cap N = {}
    PROVE  Cardinality(S \cup N) = Cardinality(S) + Cardinality(N)
<1>1. /\ IsFiniteSet(S) /\ IsFiniteSet(N) /\ Cardinality(S) \in Nat /\ Cardinality(N) \in Nat
  BY SeqsFinite, Zenon
<1>2. Cardinality(S \cup N) = Cardinality(S) + Cardinality(N) - Cardinality(S \cap N)
  BY <1>1, FS_Union, Zenon
<1>3. Cardinality(S \cap N) = 0
  BY FS_EmptySet, Zenon
<1> QED BY <1>1, <1>2, <1>3

(* Fewer documents.                                                        *)
LEMMA CountFewer ==
    ASSUME NEW S, S \subseteq Seqs, NEW N, N \subseteq S
    PROVE  Cardinality(S \ N) = Down(Cardinality(S), Cardinality(N))
<1>1. N \subseteq Seqs /\ S \cap N = N
  BY Zenon
<1>2. /\ IsFiniteSet(S) /\ IsFiniteSet(N) /\ Cardinality(S) \in Nat /\ Cardinality(N) \in Nat
  BY <1>1, SeqsFinite, Zenon
<1>3. Cardinality(S \ N) = Cardinality(S) - Cardinality(N)
  BY <1>1, <1>2, FS_Difference, Zenon
<1>4. Cardinality(N) <= Cardinality(S)
  BY <1>2, FS_Subset, Zenon
<1> QED BY <1>2, <1>3, <1>4 DEF Down

-----------------------------------------------------------------------------
(* Who has what in hand.                                                   *)

(* Two calls never have one sequence id in hand.                           *)
LEMMA AddersApart ==
    ASSUME Types, Shapes, Kept, NEW t \in Adders, NEW u \in Adders, t # u,
           NEW q \in Accepted(t), NEW r \in Accepted(u)
    PROVE  q.seq # r.seq
<1> SUFFICES ASSUME q.seq = r.seq PROVE FALSE
  BY Zenon
<1>1. /\ q.id \in Ids /\ q.seq \in Seqs /\ Stands(q.seq, q.id) /\ owner[Stripe[q.id]] = t
      /\ r.id \in Ids /\ Stands(r.seq, r.id) /\ owner[Stripe[r.id]] = u
  BY AcceptedIs, ZenonT(40)
<1>2. q.id = r.id
  BY <1>1, SameDocument, Zenon
<1> QED BY <1>1, <1>2, Zenon

(* What a removal has in hand.                                             *)
LEMMA HandIs ==
    ASSUME Types, Shapes, NEW d \in Removers
    PROVE  /\ \A g \in InHand(d) : /\ g \in Gots /\ g.seq \in Seqs /\ g.id \in Ids
                                   /\ Stands(g.seq, g.id) /\ g.id \in RemovalHas(d)
           /\ \A g, h \in InHand(d) : g.seq = h.seq => g = h
<1>1. ASSUME NEW g \in InHand(d)
      PROVE  /\ g \in Gots /\ g.seq \in Seqs /\ g.id \in Ids
             /\ Stands(g.seq, g.id) /\ g.id \in RemovalHas(d)
  <2>1. PICK i \in DOMAIN del[d].got : g = del[d].got[i]
    BY Zenon DEF InHand
  <2> QED BY <2>1, RemovalStands, DelTyped, Zenon
<1>2. ASSUME NEW g \in InHand(d), NEW h \in InHand(d), g.seq = h.seq PROVE g = h
  <2>1. PICK i \in DOMAIN del[d].got : g = del[d].got[i]
    BY Zenon DEF InHand
  <2>2. PICK j \in DOMAIN del[d].got : h = del[d].got[j]
    BY Zenon DEF InHand
  <2>3. i = j
    BY <1>2, <2>1, <2>2, Zenon DEF Shapes, DelShape, DelOk
  <2> QED BY <2>1, <2>2, <2>3, Zenon
<1> QED BY <1>1, <1>2, Zenon

(* A call and a removal do only where it is known.                         *)
LEMMA RemovalApart ==
    ASSUME Types, Shapes, Kept, NEW t \in Adders, NEW r \in Accepted(t),
           NEW d \in Removers, NEW g \in InHand(d), g.seq = r.seq
    PROVE  g.id = r.id /\ r.id \in Unsure
<1>1. r.id \in Ids /\ r.seq \in Seqs /\ Stands(r.seq, r.id) /\ r.id \in AdditionHas(t)
  BY AcceptedIs, ZenonT(40)
<1>2. g.id \in Ids /\ Stands(r.seq, g.id) /\ g.id \in RemovalHas(d)
  BY HandIs, Zenon
<1>3. g.id = r.id
  BY <1>1, <1>2, SameDocument, Zenon
<1> QED BY <1>1, <1>2, <1>3, Zenon DEF Kept, Overlaps, Unsure

(* And two removals.                                                       *)
LEMMA RemoversApart ==
    ASSUME Types, Shapes, Kept, NEW d \in Removers, NEW e \in Removers, d # e,
           NEW g \in InHand(d), NEW h \in InHand(e), g.seq = h.seq
    PROVE  g.id = h.id /\ g.id \in Unsure
<1>1. g.seq \in Seqs /\ g.id \in Ids /\ Stands(g.seq, g.id) /\ g.id \in RemovalHas(d)
  BY HandIs, Zenon
<1>2. h.id \in Ids /\ Stands(g.seq, h.id) /\ h.id \in RemovalHas(e)
  BY HandIs, Zenon
<1>3. g.id = h.id
  BY <1>1, <1>2, SameDocument, Zenon
<1> QED BY <1>1, <1>2, <1>3, Zenon DEF Kept, Overlaps, Unsure

(* A stored document is the one that calls and removals have in hand.      *)
LEMMA StoredApart ==
    ASSUME Types, Shapes, Kept, NEW s \in Seqs, docs[s] # NoDoc
    PROVE  /\ docs[s].id \in Ids /\ s < next
           /\ \A t \in Adders : \A r \in Accepted(t) : r.seq = s => r.id = docs[s].id
           /\ \A d \in Removers : \A g \in InHand(d) : g.seq = s => g.id = docs[s].id
<1>1. docs[s].id \in Ids /\ Stands(s, docs[s].id)
  BY Zenon DEF Types, Shapes, Docs, Stands
<1>2. s < next
  BY <1>1, Zenon DEF Kept, OneId
<1>3. ASSUME NEW t \in Adders, NEW r \in Accepted(t), r.seq = s PROVE r.id = docs[s].id
  <2>1. r.id \in Ids /\ Stands(r.seq, r.id)
    BY AcceptedIs, ZenonT(40)
  <2> QED BY <1>1, <1>3, <2>1, SameDocument, Zenon
<1>4. ASSUME NEW d \in Removers, NEW g \in InHand(d), g.seq = s PROVE g.id = docs[s].id
  <2>1. g.id \in Ids /\ Stands(s, g.id)
    BY <1>4, HandIs, Zenon
  <2> QED BY <1>1, <2>1, SameDocument, Zenon
<1> QED BY <1>1, <1>2, <1>3, <1>4, Zenon

(* A call has nothing in hand before it has read.                          *)
LEMMA NothingAccepted ==
    ASSUME NEW t \in Adders, call[t].recs = <<>>
    PROVE  Accepted(t) = {}
<1>1. DOMAIN call[t].recs = {}
  OBVIOUS
<1> QED BY <1>1, Zenon DEF Accepted

(* A removal that has read nothing.                                        *)
LEMMA NothingInHand ==
    ASSUME NEW d \in Removers, del[d].got = <<>>
    PROVE  InHand(d) = {}
<1>1. DOMAIN del[d].got = {}
  OBVIOUS
<1> QED BY <1>1, Zenon DEF InHand

(* What is accepted depends on the records alone.                          *)
LEMMA AcceptedSame ==
    ASSUME NEW t \in Adders, call'[t].recs = call[t].recs
    PROVE  Accepted(t)' = Accepted(t)
  BY Zenon DEF Accepted

(* What is in hand depends on what was read alone.                         *)
LEMMA HandSame ==
    ASSUME NEW d \in Removers, del'[d].got = del[d].got
    PROVE  InHand(d)' = InHand(d)
  BY Zenon DEF InHand

(* Steps that leave the index as it is, and what the calls have to do.     *)
IndexFrame ==
    /\ UNCHANGED <<docs, next, Unsure, index, num>>
    /\ \A t \in Adders :
         /\ Accepted(t)' = Accepted(t)
         /\ Accepted(t) # {} => (call'[t].pc = "store" <=> call[t].pc = "store")
    /\ \A d \in Removers :
         /\ InHand(d)' = InHand(d)
         /\ InHand(d) # {} => (del'[d].pc = "unindex" <=> del[d].pc = "unindex")

(* Such steps keep the invariant.                                          *)
LEMMA IndexFrameTracks ==
    ASSUME Tracked, IndexFrame
    PROVE  Tracked'
<1>1. docs' = docs /\ next' = next /\ Unsure' = Unsure /\ index' = index /\ num' = num
  BY Zenon DEF IndexFrame
<1>2. \A t \in Adders :
         /\ Accepted(t)' = Accepted(t)
         /\ Accepted(t) # {} => (call'[t].pc = "store" <=> call[t].pc = "store")
  BY Zenon DEF IndexFrame
<1>3. \A d \in Removers :
         /\ InHand(d)' = InHand(d)
         /\ InHand(d) # {} => (del'[d].pc = "unindex" <=> del[d].pc = "unindex")
  BY Zenon DEF IndexFrame
<1>4. ASSUME NEW s PROVE BeingAdded(s)' <=> BeingAdded(s)
  BY <1>2, Zenon DEF BeingAdded
<1>5. ASSUME NEW s PROVE BeingRemoved(s)' <=> BeingRemoved(s)
  BY <1>3, Zenon DEF BeingRemoved
<1>6. UnusedBlank' /\ StoredIndexed' /\ NothingElse'
  BY <1>1, <1>4, <1>5, Zenon DEF Tracked, UnusedBlank, StoredIndexed, NothingElse
<1>7. AddedIndexed'
  BY <1>1, <1>2, Zenon DEF Tracked, AddedIndexed
<1>8. RemovedIndexed'
  BY <1>1, <1>3, ZenonT(40) DEF Tracked, RemovedIndexed
<1>9. Counts'
  <2>1. Counted' = Counted
    BY <1>1, <1>4, <1>5, Zenon DEF Counted
  <2> QED BY <1>1, <2>1, Zenon DEF Tracked, Counts
<1> QED BY <1>1, <1>6, <1>7, <1>8, <1>9, Zenon DEF Tracked

(* A call begins, or takes a stripe.                                       *)
LEMMA BeginTracks ==
    ASSUME Types, Shapes, Tracked, NEW t \in Adders, add_many(t) \/ LockStripe(t)
    PROVE  Tracked'
<1>1. Frame
  BY AddManyShape, LockStripeShape, Zenon
<1>2. /\ index' = index /\ num' = num /\ del' = del /\ call[t].pc \in {"idle", "lock"}
      /\ spoiled' = spoiled
      /\ \E n : call' = [call EXCEPT ![t] = n]
  BY Zenon DEF add_many, LockStripe, LockOne, memory
<1>3. \A u \in Adders : u # t => call'[u] = call[u]
  BY <1>2, Zenon DEF Types
<1>4. Accepted(t) = {}
  <2>1. call[t].recs = <<>>
    BY <1>2, Zenon DEF Shapes, CallShape
  <2> QED BY <2>1, NothingAccepted, Zenon
<1>5. \A u \in Adders : Accepted(u)' = Accepted(u)
  BY <1>1, AcceptedSame, Zenon DEF Frame
<1>6. \A d \in Removers : InHand(d)' = InHand(d)
  BY <1>2, HandSame, Zenon
<1>7. docs' = docs /\ next' = next /\ Unsure' = Unsure
  BY <1>1, <1>2, Zenon DEF Frame, Unsure
<1>8. IndexFrame
  BY <1>2, <1>3, <1>4, <1>5, <1>6, <1>7, Zenon DEF IndexFrame
<1> QED BY <1>8, IndexFrameTracks, Zenon

(* A removal begins, is called again, cannot read, or removes an id key.   *)
LEMMA RemovalTracks ==
    ASSUME Types, Shapes, Tracked, NEW d \in Removers,
           \/ del_remove_documents(d) \/ remove(d) \/ on_deferred_process_request(d)
           \/ RemoveIdKey(d) \/ ReadFails(d)
    PROVE  Tracked'
<1>1. /\ index' = index /\ num' = num /\ call' = call
      /\ docs' = docs /\ next' = next /\ Unsure' = Unsure
      /\ del[d].pc \in {"idle", "deferred", "idkey", "fetch"}
  BY Zenon DEF del_remove_documents, remove, on_deferred_process_request, RemoveIdKey,
               ReadFails, memory, stored, Unsure
<1>2. \A u \in Adders : Accepted(u)' = Accepted(u)
  BY <1>1, AcceptedSame, Zenon
<1>3. /\ \A e \in Removers : e # d => del'[e] = del[e]
      /\ InHand(d)' = InHand(d)
      /\ InHand(d) # {} => del'[d].pc # "unindex"
  <2>1. CASE RemoveIdKey(d)
    <3>1. del' = [del EXCEPT ![d].pc = "dockey"]
      BY <2>1, Zenon DEF RemoveIdKey
    <3>2. del \in [Removers -> Dels] /\ del[d] \in Dels
      BY Zenon DEF Types
    <3>3. del'[d] = [del[d] EXCEPT !.pc = "dockey"] /\ \A e \in Removers : e # d => del'[e] = del[e]
      BY <3>1, <3>2, Zenon
    <3>4. del'[d].pc = "dockey" /\ del'[d].got = del[d].got
      BY <3>2, <3>3, Zenon DEF Dels
    <3> QED BY <3>3, <3>4, HandSame, Zenon
  <2>2. CASE \/ del_remove_documents(d) \/ remove(d) \/ on_deferred_process_request(d)
             \/ ReadFails(d)
    <3>1. Frame /\ \E n : del' = [del EXCEPT ![d] = n]
      BY <2>2, DeleteShape, RemovalMovesShape, ReadFailsShape, Zenon
         DEF del_remove_documents, remove, on_deferred_process_request, ReadFails, BatchOver
    <3>2. \A e \in Removers : e # d => del'[e] = del[e]
      BY <3>1, Zenon DEF Types
    <3>3. del[d].got = <<>>
      BY <1>1, <2>2, Zenon DEF Shapes, DelShape, DelOk,
         del_remove_documents, remove, on_deferred_process_request, ReadFails
    <3>4. InHand(d) = {}
      BY <3>3, NothingInHand, Zenon
    <3>5. InHand(d)' = InHand(d)
      BY <3>1, HandSame, Zenon DEF Frame
    <3> QED BY <3>2, <3>4, <3>5, Zenon
  <2> QED BY <2>1, <2>2, Zenon
<1>4. \A e \in Removers : e # d => InHand(e)' = InHand(e)
  BY <1>3, HandSame, Zenon
<1>5. IndexFrame
  BY <1>1, <1>2, <1>3, <1>4, Zenon DEF IndexFrame
<1> QED BY <1>5, IndexFrameTracks, Zenon

-----------------------------------------------------------------------------
(* The memory index of a batch.                                            *)

(* What the memory index of a batch does to the index.                     *)
LEMMA MemoryIndexEffect ==
    ASSUME Types, Shapes, Kept, index \in [Seqs -> SUBSET Fields],
           NEW t \in Adders, batch_memory_index(t)
    PROVE  /\ \A r \in Accepted(t) : r.id \notin Unsure /\ index[r.seq] = r.old =>
                  index'[r.seq] = r.new
           /\ \A s \in Seqs : (\A r \in Accepted(t) : r.seq # s) => index'[s] = index[s]
           /\ index' \in [Seqs -> SUBSET Fields]
<1>1. PICK recs : recs = Accepted(t)
  BY Zenon
<1>2. index' = [s \in Seqs |->
                  IF s \notin SeqsOf(recs) THEN index[s]
                  ELSE (index[s] \ (RecOf(recs, s).old \ RecOf(recs, s).new))
                         \cup (RecOf(recs, s).new \ RecOf(recs, s).old)]
  BY <1>1, Zenon DEF batch_memory_index
<1>3. /\ \A r \in recs : r.seq \in Seqs /\ r.old \in SUBSET Fields /\ r.new \in SUBSET Fields
      /\ \A q, r \in recs : q.seq = r.seq => q = r
  BY <1>1, AcceptedIs, ZenonT(40) DEF Recs
<1>4. \A s : s \in SeqsOf(recs) <=> \E r \in recs : r.seq = s
  BY Zenon DEF SeqsOf
<1>5. ASSUME NEW r \in recs PROVE RecOf(recs, r.seq) = r
  BY <1>3, Zenon DEF RecOf
<1>6. ASSUME NEW r \in recs
      PROVE  index'[r.seq] = (index[r.seq] \ (r.old \ r.new)) \cup (r.new \ r.old)
  BY <1>2, <1>3, <1>4, <1>5, Zenon
<1>7. ASSUME NEW r \in recs, index[r.seq] = r.old PROVE index'[r.seq] = r.new
  BY <1>6, <1>7, Zenon
<1>8. ASSUME NEW s \in Seqs, \A r \in recs : r.seq # s PROVE index'[s] = index[s]
  BY <1>2, <1>4, <1>8, Zenon
<1>9. ASSUME NEW s \in Seqs PROVE index'[s] \in SUBSET Fields
  <2>1. CASE \E r \in recs : r.seq = s
    BY <1>3, <1>6, <2>1, Zenon
  <2>2. CASE \A r \in recs : r.seq # s
    BY <1>8, <2>2, Zenon
  <2> QED BY <2>1, <2>2, Zenon
<1>10. index' \in [Seqs -> SUBSET Fields]
  <2>1. index' = [s \in Seqs |-> index'[s]]
    BY <1>2, Zenon
  <2> QED BY <1>9, <2>1, Zenon
<1> QED BY <1>1, <1>7, <1>8, <1>10, Zenon

(* A call indexes and counts what it is about to write.                    *)
LEMMA MemoryIndexTracks ==
    ASSUME Types, Shapes, Kept, Tracked, NEW t \in Adders, batch_memory_index(t)
    PROVE  Tracked'
<1>1. /\ docs' = docs /\ next' = next /\ Unsure' = Unsure /\ del' = del
      /\ call[t].pc = "index" /\ call' = [call EXCEPT ![t].pc = "store"]
      /\ num' = num + Cardinality({r \in Accepted(t) : ~r.isUpdate})
  BY Zenon DEF batch_memory_index, stored, Unsure
<1>2. /\ \A u \in Adders : u # t => call'[u] = call[u]
      /\ call'[t].pc = "store" /\ \A u \in Adders : Accepted(u)' = Accepted(u)
  <2>1. call \in [Adders -> Calls] /\ call[t] \in Calls
    BY Zenon DEF Types
  <2>2. call'[t] = [call[t] EXCEPT !.pc = "store"] /\ \A u \in Adders : u # t => call'[u] = call[u]
    BY <1>1, <2>1, Zenon
  <2>3. call'[t].pc = "store" /\ call'[t].recs = call[t].recs
    BY <2>1, <2>2, Zenon DEF Calls
  <2> QED BY <2>2, <2>3, AcceptedSame, Zenon
<1>3. /\ index \in [Seqs -> SUBSET Fields] /\ UnusedBlank /\ StoredIndexed /\ AddedIndexed
      /\ RemovedIndexed /\ NothingElse /\ Counts
  BY Zenon DEF Tracked
<1>4. /\ \A r \in Accepted(t) : r.id \notin Unsure /\ index[r.seq] = r.old =>
             index'[r.seq] = r.new
      /\ \A s \in Seqs : (\A r \in Accepted(t) : r.seq # s) => index'[s] = index[s]
      /\ index' \in [Seqs -> SUBSET Fields]
  BY <1>3, MemoryIndexEffect, Zenon
<1>5. \A r \in Accepted(t) : r.seq \in Seqs /\ r.seq < next
  <2>1. \A r \in Accepted(t) : r.id \in Ids /\ r.seq \in Seqs /\ Stands(r.seq, r.id)
    BY AcceptedIs, ZenonT(40)
  <2> QED BY <2>1, Zenon DEF Kept, OneId
<1>6. ASSUME NEW s
      PROVE  /\ BeingAdded(s)' <=> BeingAdded(s) \/ \E r \in Accepted(t) : r.seq = s
             /\ BeingRemoved(s)' <=> BeingRemoved(s)
  <2>1. ASSUME NEW u \in Adders
        PROVE  (call'[u].pc = "store" /\ \E r \in Accepted(u)' : r.seq = s)
                 <=> \/ call[u].pc = "store" /\ \E r \in Accepted(u) : r.seq = s
                     \/ u = t /\ \E r \in Accepted(u) : r.seq = s
    BY <1>1, <1>2, Zenon
  <2>2. BeingAdded(s)' <=> BeingAdded(s) \/ \E r \in Accepted(t) : r.seq = s
    BY <2>1, Zenon DEF BeingAdded
  <2>3. BeingRemoved(s)' <=> BeingRemoved(s)
    BY <1>1, HandSame, Zenon DEF BeingRemoved
  <2> QED BY <2>2, <2>3, Zenon
<1>7. UnusedBlank'
  <2> SUFFICES ASSUME NEW s \in Seqs, s >= next PROVE index'[s] = {}
    BY <1>1, Zenon DEF UnusedBlank
  <2>1. ~(s < next)
    BY Constant DEF Types, Seqs
  <2> QED BY <1>3, <1>4, <1>5, <2>1, Zenon DEF UnusedBlank
<1>8. StoredIndexed' /\ NothingElse'
  BY <1>1, <1>3, <1>4, <1>6, Zenon DEF StoredIndexed, NothingElse
<1>9. AddedIndexed'
  <2> SUFFICES ASSUME NEW u \in Adders, NEW r \in Accepted(u), r.id \notin Unsure
               PROVE  /\ call'[u].pc = "store" => index'[r.seq] = r.new
                      /\ call'[u].pc # "store" => index'[r.seq] = r.old
    BY <1>1, <1>2, Zenon DEF AddedIndexed
  <2>1. CASE u = t
    BY <1>1, <1>2, <1>3, <1>4, <2>1, Zenon DEF AddedIndexed
  <2>2. CASE u # t
    <3>1. r.seq \in Seqs
      BY AcceptedIs, ZenonT(40)
    <3>2. \A q \in Accepted(t) : q.seq # r.seq
      BY <2>2, AddersApart, Zenon
    <3>3. index'[r.seq] = index[r.seq] /\ call'[u] = call[u]
      BY <1>2, <1>4, <2>2, <3>1, <3>2, Zenon
    <3> QED BY <1>3, <3>3, Zenon DEF AddedIndexed
  <2> QED BY <2>1, <2>2, Zenon
<1>10. RemovedIndexed'
  <2>1. ASSUME NEW d \in Removers, NEW g \in InHand(d), g.id \notin Unsure
        PROVE  index'[g.seq] = index[g.seq]
    <3>1. g.seq \in Seqs
      BY HandIs, Zenon
    <3>2. \A r \in Accepted(t) : r.seq # g.seq
      BY <2>1, RemovalApart, Zenon
    <3> QED BY <1>4, <3>1, <3>2, Zenon
  <2>2. \A d \in Removers : InHand(d)' = InHand(d)
    BY <1>1, HandSame, Zenon
  <2> QED BY <1>1, <1>3, <2>1, <2>2, ZenonT(40) DEF RemovedIndexed
<1>11. Counts'
  <2> SUFFICES ASSUME Unsure = {} PROVE num' = Cardinality(Counted')
    BY <1>1, Zenon DEF Counts
  <2> DEFINE R == {r \in Accepted(t) : ~r.isUpdate}
             N == {r.seq : r \in R}
  <2>1. \A r \in Accepted(t) : ~BeingRemoved(r.seq)
    BY RemovalApart, Zenon DEF BeingRemoved
  <2>2. \A r \in R : r.seq \in Seqs /\ r.seq \notin Counted
    <3>1. ASSUME NEW r \in R PROVE r.seq \in Seqs /\ docs[r.seq] = NoDoc
      BY AcceptedIs, ZenonT(40)
    <3>2. ASSUME NEW r \in R PROVE ~BeingAdded(r.seq)
      BY <1>1, AddersApart, Zenon DEF BeingAdded
    <3> QED BY <3>1, <3>2, Zenon DEF Counted
  <2>3. ASSUME NEW r \in Accepted(t), r.isUpdate PROVE r.seq \in Counted
    <3>0. raced = {}
      BY Zenon DEF Unsure
    <3>1. r.seq \in Seqs /\ r.id \in Ids /\ docs[r.seq] = [id |-> r.id, val |-> r.old]
      BY <2>3, <3>0, AcceptedIs, ZenonT(40)
    <3>2. docs[r.seq] # NoDoc
      BY <3>1, Constant DEF NoDoc
    <3> QED BY <2>1, <3>1, <3>2, Zenon DEF Counted
  <2>4. Counted' = Counted \cup N
    <3>1. \A s \in Seqs : s \in Counted' <=> s \in Counted
                                             \/ \E r \in Accepted(t) : r.seq = s
      BY <1>1, <1>6, <2>1, Zenon DEF Counted
    <3>2. \A s : s \in Counted' => s \in Seqs
      BY Zenon DEF Counted
    <3>3. \A s : s \in Counted \cup N => s \in Seqs
      BY <2>2, Zenon DEF Counted
    <3> QED BY <2>3, <3>1, <3>2, <3>3, Zenon
  <2>5. Cardinality(R) = Cardinality(N)
    <3>1. \A q, r \in R : q.seq = r.seq => q = r
      BY AcceptedIs, ZenonT(40)
    <3> HIDE DEF R
    <3> QED BY <2>2, <3>1, CountRecords, Zenon
  <2>6. Cardinality(Counted \cup N) = Cardinality(Counted) + Cardinality(N)
    <3>1. Counted \subseteq Seqs /\ N \subseteq Seqs /\ Counted \cap N = {}
      BY <2>2, Zenon DEF Counted
    <3> HIDE DEF N
    <3> QED BY <3>1, CountMore, Zenon
  <2> QED BY <1>1, <1>3, <2>4, <2>5, <2>6, Zenon DEF Counts
<1> QED BY <1>4, <1>7, <1>8, <1>9, <1>10, <1>11, Zenon DEF Tracked

(* What an exception leaves of a batch in the index.                       *)
LEMMA ThrowIndex ==
    ASSUME Types, Shapes, Kept, index \in [Seqs -> SUBSET Fields],
           NEW t \in Adders, IndexThrows(t)
    PROVE  /\ \A s \in Seqs : (\A r \in Accepted(t) : r.seq # s) => index'[s] = index[s]
           /\ index' \in [Seqs -> SUBSET Fields]
<1>1. PICK recs : recs = Accepted(t)
  BY Zenon
<1>2. PICK done :
        index' = [s \in Seqs |->
                    IF s \notin SeqsOf(recs) THEN index[s]
                    ELSE (index[s] \ (RecOf(recs, s).old \ RecOf(recs, s).new))
                           \cup (IF s \in done THEN RecOf(recs, s).new \ RecOf(recs, s).old ELSE {})]
  BY <1>1, Zenon DEF IndexThrows
<1>3. /\ \A r \in recs : r.seq \in Seqs /\ r.new \in SUBSET Fields
      /\ \A q, r \in recs : q.seq = r.seq => q = r
  BY <1>1, AcceptedIs, ZenonT(40) DEF Recs
<1>4. \A s : s \in SeqsOf(recs) <=> \E r \in recs : r.seq = s
  BY Zenon DEF SeqsOf
<1>5. ASSUME NEW r \in recs PROVE RecOf(recs, r.seq) = r
  BY <1>3, Zenon DEF RecOf
<1>6. ASSUME NEW s \in Seqs, \A r \in recs : r.seq # s PROVE index'[s] = index[s]
  BY <1>2, <1>4, <1>6, Zenon
<1>7. ASSUME NEW s \in Seqs PROVE index'[s] \in SUBSET Fields
  <2>1. CASE \E r \in recs : r.seq = s
    <3>1. PICK r \in recs : r.seq = s
      BY <2>1, Zenon
    <3>2. index'[s] = (index[s] \ (r.old \ r.new)) \cup (IF s \in done THEN r.new \ r.old ELSE {})
      BY <1>2, <1>4, <1>5, <3>1, Zenon
    <3>3. index[s] \subseteq Fields /\ r.new \subseteq Fields
      BY <1>3, Zenon
    <3> QED BY <3>2, <3>3, Zenon
  <2>2. CASE \A r \in recs : r.seq # s
    BY <1>6, <2>2, Zenon
  <2> QED BY <2>1, <2>2, Zenon
<1>8. index' \in [Seqs -> SUBSET Fields]
  <2>1. index' = [s \in Seqs |-> index'[s]]
    BY <1>2, Zenon
  <2> QED BY <1>7, <2>1, Zenon
<1> QED BY <1>1, <1>6, <1>8, Zenon

(* The documents of a batch whose indexing threw are known.                *)
LEMMA ThrowTracks ==
    ASSUME Types, Shapes, Kept, Tracked, NEW t \in Adders, IndexThrows(t)
    PROVE  Tracked'
<1>1. /\ docs' = docs /\ next' = next /\ del' = del /\ call[t].pc = "index"
      /\ Accepted(t) # {} /\ Unsure' = Unsure \cup {r.id : r \in Accepted(t)}
  <2>1. /\ docs' = docs /\ next' = next /\ del' = del /\ call[t].pc = "index"
        /\ Accepted(t) # {} /\ raced' = raced /\ spoiled' = spoiled \cup {r.id : r \in Accepted(t)}
    BY Zenon DEF IndexThrows, stored
  <2> QED BY <2>1, Zenon DEF Unsure
<1>2. /\ index \in [Seqs -> SUBSET Fields] /\ UnusedBlank /\ StoredIndexed /\ AddedIndexed
      /\ RemovedIndexed /\ NothingElse /\ Counts
  BY Zenon DEF Tracked
<1>3. /\ \A s \in Seqs : (\A r \in Accepted(t) : r.seq # s) => index'[s] = index[s]
      /\ index' \in [Seqs -> SUBSET Fields]
  BY <1>2, ThrowIndex, Zenon
<1>4. /\ \A u \in Adders : u # t => call'[u] = call[u] /\ Accepted(u)' = Accepted(u)
      /\ Accepted(t)' = {}
  <2>1. \A u \in Adders : u # t => call'[u] = call[u]
    BY ThrowEffect, Zenon
  <2>2. \A i \in DOMAIN call'[t].recs : ~call'[t].recs[i].ok
    BY ThrowEffect, Zenon
  <2>3. Accepted(t)' = {}
    BY <2>2, Zenon DEF Accepted
  <2> QED BY <2>1, <2>3, AcceptedSame, Zenon
<1>5. (\A x : x \in Unsure => x \in Unsure') /\ \A r \in Accepted(t) : r.id \in Unsure'
  BY <1>1, Zenon
<1>6. "index" # "store"
  OBVIOUS
<1>7. ASSUME NEW s
      PROVE  /\ BeingAdded(s)' <=> BeingAdded(s)
             /\ BeingRemoved(s)' <=> BeingRemoved(s)
  <2>1. BeingAdded(s)' <=> BeingAdded(s)
    BY <1>1, <1>4, <1>6, Zenon DEF BeingAdded
  <2>2. BeingRemoved(s)' <=> BeingRemoved(s)
    BY <1>1, HandSame, Zenon DEF BeingRemoved
  <2> QED BY <2>1, <2>2, Zenon
<1>8. UnusedBlank'
  <2> SUFFICES ASSUME NEW s \in Seqs, s >= next PROVE index'[s] = {}
    BY <1>1, Zenon DEF UnusedBlank
  <2>1. ~(s < next)
    BY Constant DEF Types, Seqs
  <2>2. \A r \in Accepted(t) : r.seq < next
    <3>1. \A r \in Accepted(t) : r.id \in Ids /\ r.seq \in Seqs /\ Stands(r.seq, r.id)
      BY AcceptedIs, ZenonT(40)
    <3> QED BY <3>1, Zenon DEF Kept, OneId
  <2>3. \A r \in Accepted(t) : r.seq # s
    BY <2>1, <2>2, Zenon
  <2>4. index'[s] = index[s]
    BY <1>3, <2>3, Zenon
  <2>5. index[s] = {}
    BY <1>2, Zenon DEF UnusedBlank
  <2> QED BY <2>4, <2>5, Zenon
<1>9. StoredIndexed'
  <2> SUFFICES ASSUME NEW s \in Seqs, docs[s] # NoDoc, docs[s].id \notin Unsure',
                      ~BeingAdded(s), ~BeingRemoved(s)
               PROVE  index'[s] = docs[s].val
    BY <1>1, <1>7, Zenon DEF StoredIndexed
  <2>1. \A r \in Accepted(t) : r.seq # s
    BY <1>5, StoredApart, Zenon
  <2>2. docs[s].id \notin Unsure
    BY <1>5, Zenon
  <2> QED BY <1>2, <1>3, <2>1, <2>2, Zenon DEF StoredIndexed
<1>10. AddedIndexed'
  <2> SUFFICES ASSUME NEW u \in Adders, NEW r \in Accepted(u)', r.id \notin Unsure'
               PROVE  /\ call'[u].pc = "store" => index'[r.seq] = r.new
                      /\ call'[u].pc # "store" => index'[r.seq] = r.old
    BY Zenon DEF AddedIndexed
  <2>1. u # t
    BY <1>4, Zenon
  <2>2. r \in Accepted(u) /\ call'[u] = call[u] /\ r.id \notin Unsure
    BY <1>4, <1>5, <2>1, Zenon
  <2>3. r.seq \in Seqs
    BY <2>2, AcceptedIs, ZenonT(40)
  <2>4. \A q \in Accepted(t) : q.seq # r.seq
    BY <2>1, <2>2, AddersApart, Zenon
  <2>5. index'[r.seq] = index[r.seq]
    BY <1>3, <2>3, <2>4, Zenon
  <2> QED BY <1>2, <2>2, <2>5, Zenon DEF AddedIndexed
<1>11. RemovedIndexed'
  <2>1. ASSUME NEW d \in Removers, NEW g \in InHand(d), g.id \notin Unsure'
        PROVE  index'[g.seq] = index[g.seq] /\ g.id \notin Unsure
    <3>1. g.seq \in Seqs
      BY HandIs, Zenon
    <3>2. \A r \in Accepted(t) : r.seq # g.seq
      BY <1>5, <2>1, RemovalApart, Zenon
    <3> QED BY <1>3, <1>5, <2>1, <3>1, <3>2, Zenon
  <2>2. \A d \in Removers : InHand(d)' = InHand(d)
    BY <1>1, HandSame, Zenon
  <2> QED BY <1>1, <1>2, <2>1, <2>2, ZenonT(40) DEF RemovedIndexed
<1>12. NothingElse' /\ Counts'
  <2>1. Unsure' # {}
    BY <1>1, <1>5, Zenon
  <2> QED BY <2>1, Zenon DEF NothingElse, Counts
<1> QED BY <1>3, <1>8, <1>9, <1>10, <1>11, <1>12, Zenon DEF Tracked

-----------------------------------------------------------------------------
(* The write of a batch, and what is done where it fails.                  *)

(* What a failed write does to the index.                                  *)
LEMMA RestoreEffect ==
    ASSUME Types, Shapes, Kept, index \in [Seqs -> SUBSET Fields],
           NEW t \in Adders, NEW failed, failed \subseteq Accepted(t), batch_index(t, failed)
    PROVE  /\ \A r \in failed : index[r.seq] = r.new => index'[r.seq] = r.old
           /\ \A s \in Seqs : (\A r \in failed : r.seq # s) => index'[s] = index[s]
           /\ index' \in [Seqs -> SUBSET Fields]
<1>1. index' = [s \in Seqs |->
                  IF s \notin SeqsOf(failed) THEN index[s]
                  ELSE (index[s] \ RecOf(failed, s).new) \cup RecOf(failed, s).old]
  BY Zenon DEF batch_index, Restored
<1>2. /\ \A r \in failed : r.seq \in Seqs /\ r.old \in SUBSET Fields /\ r.new \in SUBSET Fields
      /\ \A q, r \in failed : q.seq = r.seq => q = r
  <2>1. /\ \A r \in Accepted(t) : r \in Recs /\ r.seq \in Seqs
        /\ \A q, r \in Accepted(t) : q.seq = r.seq => q = r
    BY AcceptedIs, ZenonT(40)
  <2> QED BY <2>1, Zenon DEF Recs
<1>3. \A s : s \in SeqsOf(failed) <=> \E r \in failed : r.seq = s
  BY Zenon DEF SeqsOf
<1>4. ASSUME NEW r \in failed PROVE RecOf(failed, r.seq) = r
  BY <1>2, Zenon DEF RecOf
<1>5. ASSUME NEW r \in failed PROVE index'[r.seq] = (index[r.seq] \ r.new) \cup r.old
  BY <1>1, <1>2, <1>3, <1>4, Zenon
<1>6. ASSUME NEW r \in failed, index[r.seq] = r.new PROVE index'[r.seq] = r.old
  BY <1>5, <1>6, Zenon
<1>7. ASSUME NEW s \in Seqs, \A r \in failed : r.seq # s PROVE index'[s] = index[s]
  BY <1>1, <1>3, <1>7, Zenon
<1>8. ASSUME NEW s \in Seqs PROVE index'[s] \in SUBSET Fields
  <2>1. CASE \E r \in failed : r.seq = s
    BY <1>2, <1>5, <2>1, Zenon
  <2>2. CASE \A r \in failed : r.seq # s
    BY <1>7, <2>2, Zenon
  <2> QED BY <2>1, <2>2, Zenon
<1>9. index' \in [Seqs -> SUBSET Fields]
  <2>1. index' = [s \in Seqs |-> index'[s]]
    BY <1>1, Zenon
  <2> QED BY <1>8, <2>1, Zenon
<1> QED BY <1>6, <1>7, <1>9, Zenon

(* The documents a write leaves.                                           *)
LEMMA StoreDocs ==
    ASSUME Types, Shapes, Kept, NEW t \in Adders, NEW failed, batch_index(t, failed)
    PROVE  /\ \A r \in Accepted(t) \ failed :
                docs'[r.seq].id = r.id /\ docs'[r.seq].val = r.new /\ docs'[r.seq] # NoDoc
           /\ \A s \in Seqs : (\A r \in Accepted(t) \ failed : r.seq # s) => docs'[s] = docs[s]
<1>0. PICK good : good = Accepted(t) \ failed
  BY Zenon
<1>1. /\ \A r \in good : /\ docs'[r.seq] = [id |-> r.id, val |-> r.new]
                         /\ written'[r.seq] = Merged(call[t].op, written[r.seq])
                         /\ ~r.isUpdate => idKey'[r.id] = r.seq
      /\ \A s \in Seqs : (\A r \in good : r.seq # s) =>
             docs'[s] = docs[s] /\ written'[s] = written[s]
      /\ \A x \in Ids : (\A r \in good : r.id = x => r.isUpdate) => idKey'[x] = idKey[x]
  <2>1. Writes(t, Accepted(t) \ failed)
    BY StoreEffect, Zenon
  <2>2. Writes(t, good)
    BY <1>0, <2>1
  <2> QED BY <2>2, Zenon DEF Writes
<1>2. \A r \in good : r.id \in Ids
  BY <1>0, AcceptedIs, ZenonT(40)
<1>3. ASSUME NEW r \in good
      PROVE  docs'[r.seq].id = r.id /\ docs'[r.seq].val = r.new /\ docs'[r.seq] # NoDoc
  <2>1. docs'[r.seq] = [id |-> r.id, val |-> r.new] /\ r.id # None
    BY <1>1, <1>2, Constant, Zenon
  <2> QED BY <2>1 DEF NoDoc
<1>4. ASSUME NEW s \in Seqs, \A r \in good : r.seq # s PROVE docs'[s] = docs[s]
  BY <1>1, <1>4, Zenon
<1> QED BY <1>0, <1>3, <1>4, Zenon

(* A document that could not be written is as it was, and not counted.     *)
LEMMA StoreTracks ==
    ASSUME Types, Shapes, Kept, Tracked, NEW t \in Adders,
           NEW failed, failed \subseteq Accepted(t), batch_index(t, failed)
    PROVE  Tracked'
<1>1. PICK good : good = Accepted(t) \ failed
  BY Zenon
<1>2. /\ call[t].pc = "store" /\ Continue(t) /\ next' = next /\ del' = del /\ Unsure' = Unsure
      /\ num' = Down(num, Cardinality({r \in failed : ~r.isUpdate}))
  BY Zenon DEF batch_index, Unsure
<1>3. /\ index \in [Seqs -> SUBSET Fields] /\ UnusedBlank /\ StoredIndexed /\ AddedIndexed
      /\ RemovedIndexed /\ NothingElse /\ Counts
  BY Zenon DEF Tracked
<1>4. /\ \A r \in failed : index[r.seq] = r.new => index'[r.seq] = r.old
      /\ \A s \in Seqs : (\A r \in failed : r.seq # s) => index'[s] = index[s]
      /\ index' \in [Seqs -> SUBSET Fields]
  BY <1>3, RestoreEffect, Zenon
<1>5. /\ \A r \in good :
           docs'[r.seq].id = r.id /\ docs'[r.seq].val = r.new /\ docs'[r.seq] # NoDoc
      /\ \A s \in Seqs : (\A r \in good : r.seq # s) => docs'[s] = docs[s]
  <2>1. /\ \A r \in Accepted(t) \ failed :
             docs'[r.seq].id = r.id /\ docs'[r.seq].val = r.new /\ docs'[r.seq] # NoDoc
        /\ \A s \in Seqs : (\A r \in Accepted(t) \ failed : r.seq # s) => docs'[s] = docs[s]
    BY StoreDocs, Zenon
  <2> QED BY <1>1, <2>1, Zenon
<1>6. Accepted(t)' = {} /\ \A u \in Adders : u # t => call'[u] = call[u] /\ Accepted(u)' = Accepted(u)
  <2>1. call'[t].recs = <<>> /\ \A u \in Adders : u # t => call'[u] = call[u]
    BY <1>2, ContinueShape, Zenon
  <2>2. Accepted(t)' = {}
    <3>1. DOMAIN call'[t].recs = {}
      BY <2>1
    <3> QED BY <3>1, Zenon DEF Accepted
  <2> QED BY <2>1, <2>2, AcceptedSame, Zenon
<1>7. /\ \A r \in Accepted(t) :
           /\ r.id \in Ids /\ r.seq \in Seqs /\ Stands(r.seq, r.id)
           /\ ~r.isUpdate => r.old = {} /\ docs[r.seq] = NoDoc
           /\ r.id \notin Unsure /\ r.isUpdate => docs[r.seq] = [id |-> r.id, val |-> r.old]
      /\ \A q, r \in Accepted(t) : q.seq = r.seq => q = r
  <2>1. \A r \in Accepted(t) : r.id \notin Unsure => r.id \notin raced
    BY Zenon DEF Unsure
  <2> QED BY <2>1, AcceptedIs, ZenonT(40)
<1>8. \A r \in Accepted(t) : r.id \notin Unsure /\ r.isUpdate =>
          docs[r.seq].id = r.id /\ docs[r.seq].val = r.old /\ docs[r.seq] # NoDoc
  <2>1. ASSUME NEW r \in Accepted(t), r.id \notin Unsure, r.isUpdate
        PROVE  docs[r.seq].id = r.id /\ docs[r.seq].val = r.old /\ docs[r.seq] # NoDoc
    <3>1. docs[r.seq] = [id |-> r.id, val |-> r.old] /\ r.id # None
      BY <1>7, <2>1, Constant, Zenon
    <3> QED BY <3>1 DEF NoDoc
  <2> QED BY <2>1, Zenon
<1>9. \A r \in good :
          docs'[r.seq].id = r.id /\ docs'[r.seq].val = r.new /\ docs'[r.seq] # NoDoc
  BY <1>5, Zenon
<1>10. ASSUME NEW s
       PROVE  /\ BeingAdded(s)' <=> BeingAdded(s) /\ \A r \in Accepted(t) : r.seq # s
              /\ BeingRemoved(s)' <=> BeingRemoved(s)
  <2>1. BeingAdded(s)' <=> \E u \in Adders : u # t /\ call[u].pc = "store"
                                             /\ \E r \in Accepted(u) : r.seq = s
    BY <1>6, Zenon DEF BeingAdded
  <2>2. \A u \in Adders : u # t => \A q \in Accepted(u), r \in Accepted(t) : r.seq # q.seq
    BY AddersApart, Zenon
  <2>3. BeingAdded(s)' <=> BeingAdded(s) /\ \A r \in Accepted(t) : r.seq # s
    BY <2>1, <2>2, Zenon DEF BeingAdded
  <2>4. BeingRemoved(s)' <=> BeingRemoved(s)
    BY <1>2, HandSame, Zenon DEF BeingRemoved
  <2> QED BY <2>3, <2>4, Zenon
<1>11. /\ \A r \in failed : r.id \notin Unsure => index'[r.seq] = r.old
       /\ \A r \in good : r.id \notin Unsure => index'[r.seq] = r.new
  <2>1. \A r \in Accepted(t) : r.id \notin Unsure => index[r.seq] = r.new
    BY <1>2, <1>3, Zenon DEF AddedIndexed
  <2>2. \A r \in good : index'[r.seq] = index[r.seq]
    BY <1>1, <1>4, <1>7, Zenon
  <2> QED BY <1>1, <1>4, <2>1, <2>2, Zenon
<1>12. ASSUME NEW s \in Seqs, \A r \in Accepted(t) : r.seq # s
       PROVE  docs'[s] = docs[s] /\ index'[s] = index[s]
  BY <1>1, <1>4, <1>5, <1>12, Zenon
<1>13. ASSUME NEW r \in failed PROVE docs'[r.seq] = docs[r.seq]
  BY <1>1, <1>5, <1>7, Zenon
<1>14. UnusedBlank'
  <2> SUFFICES ASSUME NEW s \in Seqs, s >= next PROVE index'[s] = {}
    BY <1>2, Zenon DEF UnusedBlank
  <2>1. ~(s < next)
    BY Constant DEF Types, Seqs
  <2>2. \A r \in Accepted(t) : r.seq # s
    BY <1>7, <2>1, ZenonT(40) DEF Kept, OneId
  <2> QED BY <1>3, <1>12, <2>2, Zenon DEF UnusedBlank
<1>15. StoredIndexed'
  <2> SUFFICES ASSUME NEW s \in Seqs, docs'[s] # NoDoc, docs'[s].id \notin Unsure,
                      ~BeingAdded(s)', ~BeingRemoved(s)
               PROVE  index'[s] = docs'[s].val
    BY <1>2, <1>10, Zenon DEF StoredIndexed
  <2>1. CASE \E r \in good : r.seq = s
    BY <1>9, <1>11, <2>1, Zenon
  <2>2. CASE \E r \in failed : r.seq = s
    <3>1. PICK r \in failed : r.seq = s
      BY <2>2, Zenon
    <3>2. docs'[s] = docs[s] /\ docs[s] # NoDoc
      BY <1>13, <3>1, Zenon
    <3>3. r.id = docs[s].id
      BY <3>1, <3>2, StoredApart, Zenon
    <3>4. r \in Accepted(t) /\ r.isUpdate
      BY <1>7, <3>1, <3>2, Zenon
    <3> QED BY <1>8, <1>11, <3>1, <3>2, <3>3, <3>4, Zenon
  <2>3. CASE \A r \in Accepted(t) : r.seq # s
    BY <1>3, <1>10, <1>12, <2>3, Zenon DEF StoredIndexed
  <2> QED BY <1>1, <2>1, <2>2, <2>3, Zenon
<1>16. NothingElse'
  <2> SUFFICES ASSUME Unsure = {}, NEW s \in Seqs, docs'[s] = NoDoc, ~BeingAdded(s)'
               PROVE  index'[s] = {}
    BY <1>2, Zenon DEF NothingElse
  <2>1. CASE \E r \in failed : r.seq = s
    <3>1. PICK r \in failed : r.seq = s
      BY <2>1, Zenon
    <3>2. docs[s] = NoDoc /\ r \in Accepted(t)
      BY <1>13, <3>1, Zenon
    <3>3. ~r.isUpdate
      BY <1>8, <3>1, <3>2, Zenon
    <3> QED BY <1>7, <1>11, <3>1, <3>2, <3>3, Zenon
  <2>2. CASE \A r \in Accepted(t) : r.seq # s
    BY <1>3, <1>10, <1>12, <2>2, Zenon DEF NothingElse
  <2> QED BY <1>1, <1>9, <2>1, <2>2, Zenon
<1>17. AddedIndexed'
  <2> SUFFICES ASSUME NEW u \in Adders, u # t, NEW r \in Accepted(u), r.id \notin Unsure
               PROVE  /\ call'[u].pc = "store" => index'[r.seq] = r.new
                      /\ call'[u].pc # "store" => index'[r.seq] = r.old
    BY <1>2, <1>6, Zenon DEF AddedIndexed
  <2>1. r.seq \in Seqs
    BY AcceptedIs, ZenonT(40)
  <2>2. \A q \in Accepted(t) : q.seq # r.seq
    BY AddersApart, Zenon
  <2>3. index'[r.seq] = index[r.seq] /\ call'[u] = call[u]
    BY <1>6, <1>12, <2>1, <2>2, Zenon
  <2> QED BY <1>3, <2>3, Zenon DEF AddedIndexed
<1>18. RemovedIndexed'
  <2>1. ASSUME NEW d \in Removers, NEW g \in InHand(d), g.id \notin Unsure
        PROVE  index'[g.seq] = index[g.seq] /\ docs'[g.seq] = docs[g.seq]
    <3>1. g.seq \in Seqs
      BY HandIs, Zenon
    <3>2. \A r \in Accepted(t) : r.seq # g.seq
      BY <2>1, RemovalApart, ZenonT(40)
    <3> QED BY <1>12, <3>1, <3>2, Zenon
  <2>2. \A d \in Removers : InHand(d)' = InHand(d)
    BY <1>2, HandSame, Zenon
  <2> QED BY <1>2, <1>3, <2>1, <2>2, ZenonT(40) DEF RemovedIndexed
<1>19. Counts'
  <2> SUFFICES ASSUME Unsure = {} PROVE num' = Cardinality(Counted')
    BY <1>2, Zenon DEF Counts
  <2> DEFINE R == {r \in failed : ~r.isUpdate}
             N == {r.seq : r \in R}
  <2>1. \A r \in Accepted(t) : ~BeingRemoved(r.seq)
    BY RemovalApart, Zenon DEF BeingRemoved
  <2>2. \A r \in Accepted(t) : r.seq \in Seqs /\ r.seq \in Counted
    BY <1>2, <1>7, <2>1, Zenon DEF Counted, BeingAdded
  <2>3. ASSUME NEW r \in failed PROVE r.seq \in Counted' <=> r.isUpdate
    <3>1. ~BeingAdded(r.seq)' /\ docs'[r.seq] = docs[r.seq] /\ r \in Accepted(t)
      BY <1>10, <1>13, Zenon
    <3> QED BY <1>7, <1>8, <1>10, <2>1, <3>1, Zenon DEF Counted
  <2>4. ASSUME NEW r \in good PROVE r.seq \in Counted'
    BY <1>1, <1>7, <1>9, <1>10, <2>1, Zenon DEF Counted
  <2>5. ASSUME NEW s \in Seqs, \A r \in Accepted(t) : r.seq # s
        PROVE  s \in Counted' <=> s \in Counted
    BY <1>10, <1>12, <2>5, Zenon DEF Counted
  <2>6. Counted' = Counted \ N
    <3>1. \A s : s \in Counted' => s \in Seqs
      BY Zenon DEF Counted
    <3>2. \A s : s \in Counted => s \in Seqs
      BY Zenon DEF Counted
    <3>3. ASSUME NEW s \in Seqs PROVE s \in Counted' <=> s \in Counted /\ s \notin N
      <4>1. CASE \E r \in good : r.seq = s
        BY <1>1, <1>7, <2>2, <2>4, <4>1, Zenon
      <4>2. CASE \E r \in failed : r.seq = s
        BY <1>7, <2>2, <2>3, <4>2, Zenon
      <4>3. CASE \A r \in Accepted(t) : r.seq # s
        BY <2>5, <4>3, Zenon
      <4> QED BY <1>1, <4>1, <4>2, <4>3, Zenon
    <3> QED BY <3>1, <3>2, <3>3, Zenon
  <2>7. Cardinality(R) = Cardinality(N)
    <3>1. /\ \A r \in R : r.seq \in Seqs
          /\ \A q, r \in R : q.seq = r.seq => q = r
      BY <1>7, Zenon
    <3> HIDE DEF R
    <3> QED BY <3>1, CountRecords, Zenon
  <2>8. Cardinality(Counted \ N) = Down(Cardinality(Counted), Cardinality(N))
    <3>1. Counted \subseteq Seqs /\ N \subseteq Counted
      BY <2>2, Zenon DEF Counted
    <3> HIDE DEF N
    <3> QED BY <3>1, CountFewer, Zenon
  <2> QED BY <1>2, <1>3, <2>6, <2>7, <2>8, Zenon DEF Counts
<1> QED BY <1>4, <1>14, <1>15, <1>16, <1>17, <1>18, <1>19, Zenon DEF Tracked

-----------------------------------------------------------------------------
(* Removals.                                                               *)

(* What a removal does to the index.                                       *)
LEMMA UnindexEffect ==
    ASSUME Types, Shapes, index \in [Seqs -> SUBSET Fields],
           NEW d \in Removers, remove_if_found_many(d)
    PROVE  /\ \A s \in Seqs : index'[s] \subseteq index[s]
           /\ \A s \in Seqs : (\A g \in InHand(d) : g.seq # s) => index'[s] = index[s]
           /\ \A g \in InHand(d) : index[g.seq] = g.val => index'[g.seq] = {}
           /\ index' \in [Seqs -> SUBSET Fields]
<1>1. PICK got : got = del[d].got
  BY Zenon
<1>2. index' = [s \in Seqs |->
                  index[s] \ UNION {got[i].val : i \in {j \in DOMAIN got : got[j].seq = s}}]
  BY <1>1, ZenonT(40) DEF remove_if_found_many
<1>3. \A g : g \in InHand(d) <=> \E i \in DOMAIN got : g = got[i]
  BY <1>1, Zenon DEF InHand
<1>4. \A s \in Seqs : \A f :
        f \in index'[s] <=> f \in index[s] /\ \A i \in DOMAIN got : got[i].seq = s => f \notin got[i].val
  BY <1>2, Zenon
<1>5. ASSUME NEW s \in Seqs, NEW f
      PROVE  f \in index'[s] <=> f \in index[s] /\ \A g \in InHand(d) : g.seq = s => f \notin g.val
  <2>1. (\A i \in DOMAIN got : got[i].seq = s => f \notin got[i].val)
          <=> \A g \in InHand(d) : g.seq = s => f \notin g.val
    BY <1>3, Zenon
  <2> QED BY <1>4, <2>1, Zenon
<1>6. \A s \in Seqs : index'[s] \subseteq index[s]
  BY <1>5, Zenon
<1>7. ASSUME NEW s \in Seqs, \A g \in InHand(d) : g.seq # s PROVE index'[s] = index[s]
  <2>1. \A f : f \in index'[s] <=> f \in index[s]
    BY <1>5, <1>7, Zenon
  <2> QED BY <2>1, Zenon
<1>8. ASSUME NEW g \in InHand(d), index[g.seq] = g.val PROVE index'[g.seq] = {}
  <2>1. g.seq \in Seqs
    BY HandIs, Zenon
  <2> QED BY <1>5, <1>8, <2>1, Zenon
<1>9. index' \in [Seqs -> SUBSET Fields]
  <2>1. index' = [s \in Seqs |-> index'[s]]
    BY <1>2, Zenon
  <2> QED BY <1>6, <2>1, Zenon
<1> QED BY <1>6, <1>7, <1>8, <1>9, Zenon

(* A removal takes what it has read out of the index and the count.        *)
LEMMA UnindexTracks ==
    ASSUME Types, Shapes, Kept, Tracked, NEW d \in Removers, remove_if_found_many(d)
    PROVE  Tracked'
<1>1. /\ del[d].pc = "unindex" /\ call' = call /\ docs' = docs /\ next' = next /\ Unsure' = Unsure
      /\ num' = Down(num, Len(del[d].got)) /\ del' = [del EXCEPT ![d].pc = "idkey"]
  BY Zenon DEF remove_if_found_many, stored, Unsure
<1>2. /\ index \in [Seqs -> SUBSET Fields] /\ UnusedBlank /\ StoredIndexed /\ AddedIndexed
      /\ RemovedIndexed /\ NothingElse /\ Counts
  BY Zenon DEF Tracked
<1>3. /\ \A s \in Seqs : index'[s] \subseteq index[s]
      /\ \A s \in Seqs : (\A g \in InHand(d) : g.seq # s) => index'[s] = index[s]
      /\ \A g \in InHand(d) : index[g.seq] = g.val => index'[g.seq] = {}
      /\ index' \in [Seqs -> SUBSET Fields]
  BY <1>2, UnindexEffect, Zenon
<1>4. /\ del'[d].pc = "idkey" /\ \A e \in Removers : e # d => del'[e] = del[e]
      /\ \A e \in Removers : InHand(e)' = InHand(e)
  <2>1. del \in [Removers -> Dels] /\ del[d] \in Dels
    BY Zenon DEF Types
  <2>2. del'[d] = [del[d] EXCEPT !.pc = "idkey"] /\ \A e \in Removers : e # d => del'[e] = del[e]
    BY <1>1, <2>1, Zenon
  <2>3. del'[d].pc = "idkey" /\ del'[d].got = del[d].got
    BY <2>1, <2>2, Zenon DEF Dels
  <2>4. \A e \in Removers : del'[e].got = del[e].got
    BY <2>2, <2>3, Zenon
  <2> QED BY <2>2, <2>3, <2>4, HandSame, Zenon
<1>5. \A t \in Adders : call'[t] = call[t] /\ Accepted(t)' = Accepted(t)
  BY <1>1, AcceptedSame, Zenon
<1>6. ASSUME NEW s
      PROVE  /\ BeingAdded(s)' <=> BeingAdded(s)
             /\ BeingRemoved(s)' <=> BeingRemoved(s) \/ \E g \in InHand(d) : g.seq = s
  <2>1. BeingAdded(s)' <=> BeingAdded(s)
    BY <1>5, Zenon DEF BeingAdded
  <2>2. "idkey" # "unindex"
    OBVIOUS
  <2>3. BeingRemoved(s)' <=> BeingRemoved(s) \/ \E g \in InHand(d) : g.seq = s
    BY <1>1, <1>4, <2>2, Zenon DEF BeingRemoved
  <2> QED BY <2>1, <2>3, Zenon
<1>7. UnusedBlank' /\ NothingElse'
  <2>1. \A s \in Seqs : index[s] = {} => index'[s] = {}
    BY <1>3, Zenon
  <2>2. UnusedBlank'
    BY <1>1, <1>2, <2>1, Zenon DEF UnusedBlank
  <2>3. NothingElse'
    BY <1>1, <1>2, <1>6, <2>1, Zenon DEF NothingElse
  <2> QED BY <2>2, <2>3, Zenon
<1>8. StoredIndexed'
  <2> SUFFICES ASSUME NEW s \in Seqs, docs[s] # NoDoc, docs[s].id \notin Unsure,
                      ~BeingAdded(s)', ~BeingRemoved(s)'
               PROVE  index'[s] = docs[s].val
    BY <1>1, Zenon DEF StoredIndexed
  <2>1. ~BeingAdded(s) /\ ~BeingRemoved(s) /\ \A g \in InHand(d) : g.seq # s
    BY <1>6, Zenon
  <2> QED BY <1>2, <1>3, <2>1, Zenon DEF StoredIndexed
<1>9. AddedIndexed'
  <2>1. ASSUME NEW t \in Adders, NEW r \in Accepted(t), r.id \notin Unsure
        PROVE  index'[r.seq] = index[r.seq]
    <3>1. r.seq \in Seqs
      BY AcceptedIs, ZenonT(40)
    <3>2. \A g \in InHand(d) : g.seq # r.seq
      BY <2>1, RemovalApart, ZenonT(40)
    <3> QED BY <1>3, <3>1, <3>2, Zenon
  <2>2. Unsure' = Unsure
    BY <1>1, Zenon
  <2>3. ASSUME NEW t \in Adders, NEW r \in Accepted(t)', r.id \notin Unsure'
        PROVE  /\ call'[t].pc = "store" => index'[r.seq] = r.new
               /\ call'[t].pc # "store" => index'[r.seq] = r.old
    <3>1. r \in Accepted(t) /\ r.id \notin Unsure /\ call'[t] = call[t]
      BY <1>5, <2>2, <2>3, Zenon
    <3>2. /\ call[t].pc = "store" => index[r.seq] = r.new
          /\ call[t].pc # "store" => index[r.seq] = r.old
      BY <1>2, <3>1, Zenon DEF AddedIndexed
    <3> QED BY <2>1, <3>1, <3>2, Zenon
  <2> QED BY <2>3, Zenon DEF AddedIndexed
<1>10. RemovedIndexed'
  <2> SUFFICES ASSUME NEW e \in Removers, NEW h \in InHand(e), h.id \notin Unsure
               PROVE  /\ docs[h.seq].id = h.id
                      /\ del'[e].pc = "unindex" => index'[h.seq] = h.val
                      /\ del'[e].pc # "unindex" => index'[h.seq] = {}
    BY <1>1, <1>4, ZenonT(40) DEF RemovedIndexed
  <2>1. /\ docs[h.seq].id = h.id
        /\ del[e].pc = "unindex" => index[h.seq] = h.val
        /\ del[e].pc # "unindex" => index[h.seq] = {}
    BY <1>2, Zenon DEF RemovedIndexed
  <2>2. CASE e = d
    <3>1. del'[e].pc # "unindex"
      BY <1>4, <2>2
    <3> QED BY <1>1, <1>3, <2>1, <2>2, <3>1, Zenon
  <2>3. CASE e # d
    <3>1. h.seq \in Seqs
      BY HandIs, Zenon
    <3>2. \A g \in InHand(d) : g.seq # h.seq
      BY <2>3, RemoversApart, ZenonT(40)
    <3> QED BY <1>3, <1>4, <2>1, <2>3, <3>1, <3>2, Zenon
  <2> QED BY <2>2, <2>3, Zenon
<1>11. Counts'
  <2> SUFFICES ASSUME Unsure = {} PROVE num' = Cardinality(Counted')
    BY <1>1, Zenon DEF Counts
  <2> DEFINE N == {g.seq : g \in InHand(d)}
  <2>1. ASSUME NEW g \in InHand(d)
        PROVE  g.seq \in Seqs /\ docs[g.seq] # NoDoc /\ ~BeingRemoved(g.seq)
    <3>1. g.seq \in Seqs /\ g.id \in Ids
      BY HandIs, Zenon
    <3>2. docs[g.seq].id = g.id /\ g.id # None
      BY <1>2, <3>1, Constant, Zenon DEF RemovedIndexed
    <3>3. NoDoc.id = None
      BY DEF NoDoc
    <3>4. \A e \in Removers : e # d => \A h \in InHand(e) : h.seq # g.seq
      BY RemoversApart, Zenon
    <3>5. ~BeingRemoved(g.seq)
      BY <1>1, <3>4, Zenon DEF BeingRemoved
    <3> QED BY <3>1, <3>2, <3>3, <3>5, Zenon
  <2>2. N \subseteq Counted
    BY <2>1, Zenon DEF Counted
  <2>3. Counted' = Counted \ N
    BY <1>1, <1>6, Zenon DEF Counted
  <2>4. Cardinality(N) = Len(del[d].got)
    <3>1. N = {del[d].got[i].seq : i \in DOMAIN del[d].got}
      BY Zenon DEF InHand
    <3>2. /\ del[d].got \in Seq(Gots) /\ \A i \in DOMAIN del[d].got : del[d].got[i].seq \in Seqs
      BY DelTyped, RemovalStands, Zenon
    <3>3. \A i, j \in DOMAIN del[d].got : del[d].got[i].seq = del[d].got[j].seq => i = j
      BY Zenon DEF Shapes, DelShape, DelOk
    <3> HIDE DEF N
    <3> QED BY <3>1, <3>2, <3>3, CountEntries, Zenon
  <2>5. Cardinality(Counted \ N) = Down(Cardinality(Counted), Cardinality(N))
    <3>1. Counted \subseteq Seqs
      BY Zenon DEF Counted
    <3> HIDE DEF N
    <3> QED BY <2>2, <3>1, CountFewer, Zenon
  <2> QED BY <1>1, <1>2, <2>3, <2>4, <2>5, Zenon DEF Counts
<1> QED BY <1>3, <1>7, <1>8, <1>9, <1>10, <1>11, Zenon DEF Tracked

(* A removal reads what is indexed.                                        *)
LEMMA FetchTracks ==
    ASSUME Types, Shapes, Kept, Tracked, NEW d \in Removers, stateful_remove_docs(d)
    PROVE  Tracked'
<1>1. PICK got : got = Found(del[d].ids)
  BY Zenon
<1>2. /\ del[d].pc = "fetch" /\ call' = call /\ docs' = docs /\ next' = next
      /\ index' = index /\ num' = num
      /\ Unsure' = Unsure \cup ({got[i].id : i \in DOMAIN got}
                                 \cap (HeldByRemovals({d}) \cup HeldByAdditions))
  <2>1. /\ del[d].pc = "fetch" /\ call' = call /\ docs' = docs /\ next' = next
        /\ index' = index /\ num' = num /\ spoiled' = spoiled
        /\ raced' = raced \cup ({got[i].id : i \in DOMAIN got}
                                  \cap (HeldByRemovals({d}) \cup HeldByAdditions))
    BY <1>1, Zenon DEF stateful_remove_docs, stored, memory
  <2> QED BY <2>1, Zenon DEF Unsure
<1>3. /\ index \in [Seqs -> SUBSET Fields] /\ UnusedBlank /\ StoredIndexed /\ AddedIndexed
      /\ RemovedIndexed /\ NothingElse /\ Counts
  BY Zenon DEF Tracked
<1>4. PICK n \in Dels : /\ del' = [del EXCEPT ![d] = n] /\ DelOk(n)
                        /\ n.pc \in {"unindex", "idle", "deferred"} /\ n.got = got
  BY <1>1, FetchShape, Zenon
<1>5. /\ del'[d] = n /\ \A e \in Removers : e # d => del'[e] = del[e] /\ InHand(e)' = InHand(e)
      /\ InHand(d)' = {got[i] : i \in DOMAIN got} /\ InHand(d) = {}
      /\ InHand(d)' # {} => n.pc = "unindex"
  <2>1. del'[d] = n /\ \A e \in Removers : e # d => del'[e] = del[e]
    BY <1>4, Zenon DEF Types
  <2>2. InHand(d)' = {got[i] : i \in DOMAIN got}
    BY <1>4, <2>1, Zenon DEF InHand
  <2>3. del[d].got = <<>>
    <3>1. "fetch" \notin {"unindex", "idkey", "dockey"}
      OBVIOUS
    <3> QED BY <1>2, <3>1, Zenon DEF Shapes, DelShape, DelOk
  <2>4. n.pc # "unindex" => got = <<>>
    <3>1. n.pc # "unindex" => n.pc \notin {"unindex", "idkey", "dockey"}
      BY <1>4
    <3> QED BY <1>4, <3>1, Zenon DEF DelOk
  <2>5. DOMAIN <<>> = {}
    OBVIOUS
  <2>6. InHand(d)' # {} => n.pc = "unindex"
    BY <2>2, <2>4, <2>5, Zenon
  <2> QED BY <2>1, <2>2, <2>3, <2>6, HandSame, NothingInHand, Zenon
<1>6. \A t \in Adders : call'[t] = call[t] /\ Accepted(t)' = Accepted(t)
  BY <1>2, AcceptedSame, Zenon
<1>7. ASSUME NEW s
      PROVE  /\ BeingAdded(s)' <=> BeingAdded(s)
             /\ BeingRemoved(s)' <=> BeingRemoved(s)
  <2>1. BeingAdded(s)' <=> BeingAdded(s)
    BY <1>6, Zenon DEF BeingAdded
  <2>2. BeingRemoved(s)' <=> BeingRemoved(s)
    BY <1>5, Zenon DEF BeingRemoved
  <2> QED BY <2>1, <2>2, Zenon
<1>8. Unsure \subseteq Unsure'
  BY <1>2, Zenon
<1>9. UnusedBlank' /\ StoredIndexed' /\ AddedIndexed' /\ NothingElse' /\ Counts'
  <2>1. UnusedBlank'
    BY <1>2, <1>3, Zenon DEF UnusedBlank
  <2>2. StoredIndexed'
    BY <1>2, <1>3, <1>7, <1>8, Zenon DEF StoredIndexed
  <2>3. AddedIndexed'
    <3> SUFFICES ASSUME NEW t \in Adders, NEW r \in Accepted(t), r.id \notin Unsure'
                 PROVE  /\ call[t].pc = "store" => index[r.seq] = r.new
                        /\ call[t].pc # "store" => index[r.seq] = r.old
      BY <1>2, <1>6, Zenon DEF AddedIndexed
    <3>1. r.id \notin Unsure
      BY <1>8, Zenon
    <3> QED BY <1>3, <3>1, Zenon DEF AddedIndexed
  <2>4. Unsure' = {} => Unsure = {}
    BY <1>8, Zenon
  <2>5. NothingElse'
    BY <1>2, <1>3, <1>7, <2>4, Zenon DEF NothingElse
  <2>6. Counted' = Counted
    BY <1>2, <1>7, Zenon DEF Counted
  <2>7. Counts'
    BY <1>2, <1>3, <2>4, <2>6, Zenon DEF Counts
  <2> QED BY <2>1, <2>2, <2>3, <2>5, <2>7, Zenon
<1>10. ASSUME NEW i \in DOMAIN got, got[i].id \notin Unsure'
       PROVE  docs[got[i].seq].id = got[i].id /\ index[got[i].seq] = got[i].val
  <2>1. /\ got[i].seq \in Seqs /\ got[i].id \in Ids
        /\ docs[got[i].seq] = [id |-> got[i].id, val |-> got[i].val]
    <3>1. del[d].ids \in Seq(Seqs) /\ IsInjective(del[d].ids)
      BY DelTyped, Zenon DEF Shapes, DelShape, DelOk
    <3> QED BY <1>1, <3>1, FoundIs, Zenon
  <2>2. PICK s \in Seqs, x \in Ids : s = got[i].seq /\ x = got[i].id
    BY <2>1, Zenon
  <2>3. docs[s].id = x /\ docs[s].val = got[i].val /\ docs[s] # NoDoc
    <3>1. x # None /\ docs[s] = [id |-> x, val |-> got[i].val]
      BY <2>1, <2>2, Constant, Zenon
    <3> QED BY <3>1 DEF NoDoc
  <2>4. x \notin HeldByRemovals({d}) /\ x \notin HeldByAdditions /\ x \notin Unsure
    BY <1>2, <1>10, <2>2, Zenon
  <2>5. ~BeingAdded(s)
    <3>1. ASSUME NEW t \in Adders, NEW r \in Accepted(t), r.seq = s PROVE FALSE
      <4>1. r.id = x
        BY <2>3, <3>1, StoredApart, Zenon
      <4>2. r.id \in AdditionHas(t)
        BY AcceptedIs, ZenonT(40)
      <4> QED BY <2>4, <4>1, <4>2, Zenon DEF HeldByAdditions
    <3> QED BY <3>1, Zenon DEF BeingAdded
  <2>6. ~BeingRemoved(s)
    <3>1. ASSUME NEW e \in Removers, NEW g \in InHand(e), g.seq = s PROVE FALSE
      <4>1. g.id = x
        BY <2>3, <3>1, StoredApart, Zenon
      <4>2. g.id \in RemovalHas(e) /\ e # d
        BY <1>5, <3>1, HandIs, Zenon
      <4> QED BY <2>4, <4>1, <4>2, Zenon DEF HeldByRemovals
    <3> QED BY <3>1, Zenon DEF BeingRemoved
  <2>7. index[s] = docs[s].val
    BY <1>3, <2>3, <2>4, <2>5, <2>6, Zenon DEF StoredIndexed
  <2> QED BY <2>2, <2>3, <2>7, Zenon
<1>11. RemovedIndexed'
  <2> SUFFICES ASSUME NEW e \in Removers, NEW g \in InHand(e)', g.id \notin Unsure'
               PROVE  /\ docs[g.seq].id = g.id
                      /\ del'[e].pc = "unindex" => index[g.seq] = g.val
                      /\ del'[e].pc # "unindex" => index[g.seq] = {}
    BY <1>2, Zenon DEF RemovedIndexed
  <2>1. CASE e = d
    <3>1. PICK i \in DOMAIN got : g = got[i]
      BY <1>5, <2>1, Zenon
    <3>2. del'[e].pc = "unindex"
      BY <1>5, <2>1, Zenon
    <3> QED BY <1>10, <3>1, <3>2, Zenon
  <2>2. CASE e # d
    <3>1. g \in InHand(e) /\ g.id \notin Unsure /\ del'[e] = del[e]
      BY <1>5, <1>8, <2>2, Zenon
    <3> QED BY <1>3, <3>1, Zenon DEF RemovedIndexed
  <2> QED BY <2>1, <2>2, Zenon
<1> QED BY <1>2, <1>3, <1>9, <1>11, Zenon DEF Tracked

(* A removal deletes what is not indexed any more.                         *)
LEMMA RemoveDocKeyTracks ==
    ASSUME Types, Shapes, Kept, Tracked, NEW d \in Removers, RemoveDocKey(d)
    PROVE  Tracked'
<1>1. PICK h : h = Head(del[d].got)
  BY Zenon
<1>2. /\ del[d].pc = "dockey" /\ call' = call /\ docs' = [docs EXCEPT ![h.seq] = NoDoc]
      /\ next' = next /\ index' = index /\ num' = num /\ Unsure' = Unsure
  BY <1>1, Zenon DEF RemoveDocKey, memory, Unsure
<1>3. /\ index \in [Seqs -> SUBSET Fields] /\ UnusedBlank /\ StoredIndexed /\ AddedIndexed
      /\ RemovedIndexed /\ NothingElse /\ Counts
  BY Zenon DEF Tracked
<1>4. h = del[d].got[1] /\ 1 \in DOMAIN del[d].got /\ h \in InHand(d) /\ h.seq \in Seqs
  <2>1. /\ 1 \in DOMAIN del[d].got /\ h = del[d].got[1] /\ h.seq \in Seqs
    BY <1>1, <1>2, Handed, Zenon
  <2> QED BY <2>1, Zenon DEF InHand
<1>5. docs'[h.seq] = NoDoc /\ \A s \in Seqs : s # h.seq => docs'[s] = docs[s]
  BY <1>2, <1>4, Zenon DEF Types
<1>6. /\ \A e \in Removers : e # d => del'[e] = del[e] /\ InHand(e)' = InHand(e)
      /\ InHand(d)' = InHand(d) \ {h} /\ del'[d].pc # "unindex"
  <2>1. PICK n \in Dels :
          /\ del' = [del EXCEPT ![d] = n] /\ n.pc \in {"idle", "deferred", "idkey"}
          /\ \A i \in DOMAIN n.got : \E j \in DOMAIN del[d].got : j # 1 /\ n.got[i] = del[d].got[j]
          /\ \A j \in DOMAIN del[d].got : j # 1 => \E i \in DOMAIN n.got : n.got[i] = del[d].got[j]
    BY RemoveDocKeyShape, ZenonT(40)
  <2>2. del'[d] = n /\ \A e \in Removers : e # d => del'[e] = del[e]
    BY <2>1, Zenon DEF Types
  <2>3. \A j \in DOMAIN del[d].got : del[d].got[j] = h <=> j = 1
    BY <1>4, Zenon DEF Shapes, DelShape, DelOk
  <2>4. InHand(d)' = InHand(d) \ {h}
    <3>1. /\ InHand(d)' = {n.got[i] : i \in DOMAIN n.got}
          /\ InHand(d) = {del[d].got[j] : j \in DOMAIN del[d].got}
      BY <2>2, Zenon DEF InHand
    <3>2. ASSUME NEW g \in InHand(d)' PROVE g \in InHand(d) /\ g # h
      <4>1. PICK i \in DOMAIN n.got : g = n.got[i]
        BY <3>1, Zenon
      <4>2. PICK j \in DOMAIN del[d].got : j # 1 /\ n.got[i] = del[d].got[j]
        BY <2>1, Zenon
      <4> QED BY <2>3, <3>1, <4>1, <4>2, Zenon
    <3>3. ASSUME NEW g \in InHand(d), g # h PROVE g \in InHand(d)'
      <4>1. PICK j \in DOMAIN del[d].got : g = del[d].got[j]
        BY <3>1, Zenon
      <4>2. j # 1
        BY <1>4, <3>3, <4>1, Zenon
      <4>3. PICK i \in DOMAIN n.got : n.got[i] = del[d].got[j]
        BY <2>1, <4>2, Zenon
      <4> QED BY <3>1, <4>1, <4>3, Zenon
    <3> QED BY <3>2, <3>3, Zenon
  <2>5. del'[d].pc # "unindex"
    BY <2>1, <2>2
  <2> QED BY <2>2, <2>4, <2>5, HandSame, Zenon
<1>7. \A t \in Adders : call'[t] = call[t] /\ Accepted(t)' = Accepted(t)
  BY <1>2, AcceptedSame, Zenon
<1>8. "dockey" # "unindex"
  OBVIOUS
<1>9. ASSUME NEW s
      PROVE  /\ BeingAdded(s)' <=> BeingAdded(s)
             /\ s # h.seq => (BeingRemoved(s)' <=> BeingRemoved(s))
  <2>1. BeingAdded(s)' <=> BeingAdded(s)
    BY <1>7, Zenon DEF BeingAdded
  <2>2. ASSUME s # h.seq PROVE BeingRemoved(s)' <=> BeingRemoved(s)
    BY <1>2, <1>6, <1>8, <2>2, ZenonT(40) DEF BeingRemoved
  <2> QED BY <2>1, <2>2, Zenon
<1>10. UnusedBlank' /\ AddedIndexed'
  <2>1. UnusedBlank'
    BY <1>2, <1>3, Zenon DEF UnusedBlank
  <2>2. AddedIndexed'
    BY <1>2, <1>3, <1>7, ZenonT(40) DEF AddedIndexed
  <2> QED BY <2>1, <2>2, Zenon
<1>11. StoredIndexed'
  <2> SUFFICES ASSUME NEW s \in Seqs, docs'[s] # NoDoc, docs'[s].id \notin Unsure,
                      ~BeingAdded(s)', ~BeingRemoved(s)'
               PROVE  index[s] = docs'[s].val
    BY <1>2, Zenon DEF StoredIndexed
  <2>1. s # h.seq /\ docs'[s] = docs[s]
    BY <1>5, Zenon
  <2> QED BY <1>3, <1>9, <2>1, Zenon DEF StoredIndexed
<1>12. RemovedIndexed'
  <2> SUFFICES ASSUME NEW e \in Removers, NEW g \in InHand(e)', g.id \notin Unsure
               PROVE  /\ docs'[g.seq].id = g.id
                      /\ del'[e].pc = "unindex" => index[g.seq] = g.val
                      /\ del'[e].pc # "unindex" => index[g.seq] = {}
    BY <1>2, Zenon DEF RemovedIndexed
  <2>1. g \in InHand(e)
    BY <1>6, Zenon
  <2>2. del'[e].pc = "unindex" <=> del[e].pc = "unindex"
    BY <1>2, <1>6, <1>8, Zenon
  <2>3. g.seq \in Seqs /\ g.seq # h.seq
    <3>1. g.seq \in Seqs
      BY <2>1, HandIs, Zenon
    <3>2. CASE e = d
      BY <1>4, <1>6, <2>1, <3>1, <3>2, HandIs, Zenon
    <3>3. CASE e # d
      BY <1>4, <2>1, <3>1, <3>3, RemoversApart, Zenon
    <3> QED BY <3>2, <3>3, Zenon
  <2> QED BY <1>3, <1>5, <2>1, <2>2, <2>3, Zenon DEF RemovedIndexed
<1>13. ASSUME Unsure = {} PROVE index[h.seq] = {} /\ ~BeingAdded(h.seq) /\ BeingRemoved(h.seq)
  <2>1. index[h.seq] = {}
    BY <1>2, <1>3, <1>4, <1>8, <1>13, Zenon DEF RemovedIndexed
  <2>2. \A t \in Adders : \A r \in Accepted(t) : r.seq # h.seq
    BY <1>4, <1>13, RemovalApart, Zenon
  <2>3. ~BeingAdded(h.seq)
    BY <2>2, Zenon DEF BeingAdded
  <2>4. BeingRemoved(h.seq)
    BY <1>2, <1>4, <1>8, Zenon DEF BeingRemoved
  <2> QED BY <2>1, <2>3, <2>4, Zenon
<1>14. NothingElse'
  <2> SUFFICES ASSUME Unsure = {}, NEW s \in Seqs, docs'[s] = NoDoc, ~BeingAdded(s)'
               PROVE  index[s] = {}
    BY <1>2, Zenon DEF NothingElse
  <2>1. CASE s = h.seq
    BY <1>13, <2>1, Zenon
  <2>2. CASE s # h.seq
    BY <1>3, <1>5, <1>9, <2>2, Zenon DEF NothingElse
  <2> QED BY <2>1, <2>2, Zenon
<1>15. Counts'
  <2> SUFFICES ASSUME Unsure = {} PROVE num = Cardinality(Counted')
    BY <1>2, Zenon DEF Counts
  <2>1. h.seq \notin Counted /\ h.seq \notin Counted'
    BY <1>5, <1>9, <1>13, Zenon DEF Counted
  <2>2. ASSUME NEW s, s # h.seq PROVE s \in Counted' <=> s \in Counted
    BY <1>5, <1>9, <2>2, Zenon DEF Counted
  <2>3. Counted' = Counted
    <3>1. \A s : s \in Counted' <=> s \in Counted
      BY <2>1, <2>2, Zenon
    <3> QED BY <3>1, Zenon
  <2> QED BY <1>3, <2>3, Zenon DEF Counts
<1> QED BY <1>2, <1>3, <1>10, <1>11, <1>12, <1>14, <1>15, Zenon DEF Tracked

-----------------------------------------------------------------------------
(* The reads of a call, crashes, and the whole.                            *)

(* A call reads what is indexed, or takes ids that are not.                *)
LEMMA PrepareTracks ==
    ASSUME Types, Shapes, Kept, Tracked, NEW t \in Adders, prepare_document_for_indexing(t)
    PROVE  Tracked'
<1>1. PICK op, batch, recs :
        /\ op = call[t].op /\ batch = call[t].batch
        /\ recs = [i \in DOMAIN batch |-> Prepared(op, batch, i)]
  BY Zenon
<1>2. /\ call[t].pc = "prepare" /\ next' = next + Taken(op, batch)
      /\ call' = [call EXCEPT ![t].pc = "index", ![t].recs = recs]
      /\ Unsure' = Unsure \cup (Range(batch) \cap HeldByRemovals({}))
      /\ docs' = docs /\ index' = index /\ num' = num /\ del' = del
  <2>1. /\ call[t].pc = "prepare" /\ next' = next + Taken(op, batch)
        /\ call' = [call EXCEPT ![t].pc = "index", ![t].recs = recs]
        /\ raced' = raced \cup (Range(batch) \cap HeldByRemovals({})) /\ spoiled' = spoiled
        /\ docs' = docs /\ index' = index /\ num' = num /\ del' = del
    BY <1>1, Zenon DEF prepare_document_for_indexing, memory
  <2> QED BY <2>1, Zenon DEF Unsure
<1>3. /\ index \in [Seqs -> SUBSET Fields] /\ UnusedBlank /\ StoredIndexed /\ AddedIndexed
      /\ RemovedIndexed /\ NothingElse /\ Counts
  BY Zenon DEF Tracked
<1>4. /\ call'[t].pc = "index" /\ call'[t].recs = recs
      /\ \A u \in Adders : u # t => call'[u] = call[u] /\ Accepted(u)' = Accepted(u)
  <2>1. call \in [Adders -> Calls] /\ call[t] \in Calls
    BY Zenon DEF Types
  <2>2. /\ call'[t] = [call[t] EXCEPT !.pc = "index", !.recs = recs]
        /\ \A u \in Adders : u # t => call'[u] = call[u]
    BY <1>2, <2>1, Zenon
  <2>3. call'[t].pc = "index" /\ call'[t].recs = recs
    BY <2>1, <2>2, Zenon DEF Calls
  <2> QED BY <2>2, <2>3, AcceptedSame, Zenon
<1>5. \A d \in Removers : InHand(d)' = InHand(d)
  BY <1>2, HandSame, Zenon
<1>6. "prepare" # "store" /\ "index" # "store"
  OBVIOUS
<1>7. ASSUME NEW s
      PROVE  /\ BeingAdded(s)' <=> BeingAdded(s)
             /\ BeingRemoved(s)' <=> BeingRemoved(s)
  <2>1. BeingAdded(s)' <=> BeingAdded(s)
    BY <1>2, <1>4, <1>6, Zenon DEF BeingAdded
  <2>2. BeingRemoved(s)' <=> BeingRemoved(s)
    BY <1>2, <1>5, Zenon DEF BeingRemoved
  <2> QED BY <2>1, <2>2, Zenon
<1>8. Unsure \subseteq Unsure'
  BY <1>2, Zenon
<1>9. \A i \in DOMAIN batch :
        /\ recs[i].id = batch[i] /\ batch[i] \in Ids /\ recs[i].seq \in Nat
        /\ recs[i].isUpdate => recs[i].seq = idKey[batch[i]] /\ idKey[batch[i]] # 0
        /\ ~recs[i].isUpdate => recs[i].old = {}
        /\ ~recs[i].isUpdate /\ recs[i].ok => next <= recs[i].seq
  <2>1. \A i \in DOMAIN batch : recs[i] = Prepared(op, batch, i)
    BY <1>1, Zenon
  <2>2. \A i \in DOMAIN batch : recs[i] \in Recs
    BY <1>1, <2>1, PreparedIs, Zenon
  <2>3. \A i \in DOMAIN batch :
          /\ recs[i].id = batch[i] /\ batch[i] \in Ids
          /\ recs[i].isUpdate => recs[i].seq = idKey[batch[i]] /\ idKey[batch[i]] # 0
          /\ ~recs[i].isUpdate => recs[i].old = {}
          /\ ~recs[i].isUpdate /\ recs[i].ok => next <= recs[i].seq
    BY <1>1, <2>1, PreparedIs, ZenonT(40)
  <2> QED BY <2>2, <2>3, Zenon DEF Recs
<1>10. UnusedBlank'
  <2>1. \A s \in Seqs : s >= next' => s >= next
    <3>1. Taken(op, batch) \in Nat
      BY <1>1, PreparedIs, Zenon
    <3> QED BY <1>2, <3>1, Constant DEF Types, Seqs
  <2> QED BY <1>2, <1>3, <2>1, Zenon DEF UnusedBlank
<1>11. StoredIndexed' /\ NothingElse' /\ Counts'
  <2>1. StoredIndexed'
    BY <1>2, <1>3, <1>7, <1>8, Zenon DEF StoredIndexed
  <2>2. Unsure' = {} => Unsure = {}
    BY <1>8, Zenon
  <2>3. NothingElse'
    BY <1>2, <1>3, <1>7, <2>2, Zenon DEF NothingElse
  <2>4. Counted' = Counted
    BY <1>2, <1>7, Zenon DEF Counted
  <2>5. Counts'
    BY <1>2, <1>3, <2>2, <2>4, Zenon DEF Counts
  <2> QED BY <2>1, <2>3, <2>5, Zenon
<1>12. RemovedIndexed'
  <2> SUFFICES ASSUME NEW d \in Removers, NEW g \in InHand(d), g.id \notin Unsure'
               PROVE  /\ docs[g.seq].id = g.id
                      /\ del[d].pc = "unindex" => index[g.seq] = g.val
                      /\ del[d].pc # "unindex" => index[g.seq] = {}
    BY <1>2, <1>5, ZenonT(40) DEF RemovedIndexed
  <2>1. g.id \notin Unsure
    BY <1>8, Zenon
  <2> QED BY <1>3, <2>1, Zenon DEF RemovedIndexed
<1>13. ASSUME NEW i \in DOMAIN batch, recs[i].ok, recs[i].id \notin Unsure'
       PROVE  index[recs[i].seq] = recs[i].old
  <2>1. PICK r : r = recs[i]
    BY Zenon
  <2>2. /\ r.id = batch[i] /\ r.id \in Ids /\ r.seq \in Nat
        /\ r.isUpdate => r.seq = idKey[r.id] /\ idKey[r.id] # 0
        /\ ~r.isUpdate => r.old = {} /\ next <= r.seq
    BY <1>9, <1>13, <2>1, Zenon
  <2>3. /\ r.seq \in Seqs
        /\ r.isUpdate => docs[r.seq] = [id |-> r.id, val |-> r.old]
    <3>1. Types' /\ Shapes' /\ Kept'
      BY PrepareKeeps, Zenon
    <3>2. i \in DOMAIN call'[t].recs /\ call'[t].recs[i] = r
      BY <1>1, <1>4, <2>1, Zenon
    <3>3. r.isUpdate \/ r.ok => r.seq \in Seqs
      BY <3>1, <3>2, Zenon DEF Shapes, CallShape
    <3>4. r.isUpdate => docs'[r.seq] = [id |-> r.id, val |-> r.old]
      <4>1. ReadsHold' /\ i \in DOMAIN call'[t].recs
        BY <3>1, <3>2, Zenon DEF Kept
      <4>2. call'[t].recs[i].id \notin raced' /\ call'[t].recs[i].isUpdate =>
              docs'[call'[t].recs[i].seq] =
                  [id |-> call'[t].recs[i].id, val |-> call'[t].recs[i].old]
        BY <4>1, Zenon DEF ReadsHold
      <4>3. r.id \notin raced'
        BY <1>13, <2>1, Zenon DEF Unsure
      <4> QED BY <3>2, <4>2, <4>3
    <3> QED BY <1>2, <1>13, <2>1, <3>3, <3>4, Zenon
  <2>4. CASE ~r.isUpdate
    <3>1. r.seq >= next
      BY <2>2, <2>4 DEF Types
    <3> QED BY <1>3, <2>1, <2>2, <2>3, <2>4, <3>1, Zenon DEF UnusedBlank
  <2>5. CASE r.isUpdate
    <3>1. docs[r.seq].id = r.id /\ docs[r.seq].val = r.old /\ docs[r.seq] # NoDoc
      <4>1. r.id # None /\ docs[r.seq] = [id |-> r.id, val |-> r.old]
        BY <2>2, <2>3, <2>5, Constant, Zenon
      <4> QED BY <4>1 DEF NoDoc
    <3>2. ~BeingAdded(r.seq)
      <4>1. ASSUME NEW u \in Adders, call[u].pc = "store", NEW q \in Accepted(u), q.seq = r.seq
            PROVE  FALSE
        <5>1. q.id = r.id
          BY <2>3, <3>1, <4>1, StoredApart, Zenon
        <5>2. owner[Stripe[q.id]] = u
          BY AcceptedIs, ZenonT(40)
        <5>3. owner[Stripe[batch[i]]] = t
          BY <1>1, <1>2, Zenon DEF Shapes, CallShape
        <5> QED BY <1>2, <1>6, <2>2, <4>1, <5>1, <5>2, <5>3, Zenon
      <4> QED BY <4>1, Zenon DEF BeingAdded
    <3>3. ~BeingRemoved(r.seq)
      <4>1. ASSUME NEW e \in Removers, NEW g \in InHand(e), g.seq = r.seq PROVE FALSE
        <5>1. g.id = r.id
          BY <2>3, <3>1, <4>1, StoredApart, Zenon
        <5>2. g.id \in RemovalHas(e)
          BY HandIs, Zenon
        <5>3. r.id \in HeldByRemovals({})
          BY <5>1, <5>2, Zenon DEF HeldByRemovals
        <5>4. r.id \in Range(batch)
          BY <2>2, Zenon DEF Range
        <5> QED BY <1>2, <1>13, <2>1, <5>3, <5>4, Zenon
      <4> QED BY <4>1, Zenon DEF BeingRemoved
    <3>4. r.id \notin Unsure
      BY <1>8, <1>13, <2>1, Zenon
    <3> QED BY <1>3, <2>1, <2>3, <3>1, <3>2, <3>3, <3>4, Zenon DEF StoredIndexed
  <2> QED BY <2>4, <2>5, Zenon
<1>14. AddedIndexed'
  <2> SUFFICES ASSUME NEW u \in Adders, NEW r \in Accepted(u)', r.id \notin Unsure'
               PROVE  /\ call'[u].pc = "store" => index[r.seq] = r.new
                      /\ call'[u].pc # "store" => index[r.seq] = r.old
    BY <1>2, Zenon DEF AddedIndexed
  <2>1. CASE u = t
    <3>1. PICK i \in DOMAIN recs : r = recs[i] /\ recs[i].ok
      BY <1>4, <2>1, Zenon DEF Accepted
    <3>2. i \in DOMAIN batch
      BY <1>1, Zenon
    <3>3. index[r.seq] = r.old
      BY <1>13, <3>1, <3>2, Zenon
    <3> QED BY <1>4, <1>6, <2>1, <3>3, Zenon
  <2>2. CASE u # t
    <3>1. r \in Accepted(u) /\ r.id \notin Unsure /\ call'[u] = call[u]
      BY <1>4, <1>8, <2>2, Zenon
    <3> QED BY <1>3, <3>1, Zenon DEF AddedIndexed
  <2> QED BY <2>1, <2>2, Zenon
<1> QED BY <1>2, <1>3, <1>10, <1>11, <1>12, <1>14, Zenon DEF Tracked

(* The load of a collection indexes and counts what is stored.             *)
LEMMA CrashTracks ==
    ASSUME Types, Shapes, Kept, Crash
    PROVE  Tracked'
<1>1. /\ docs' = docs /\ next' = next
      /\ index' = [s \in Seqs |-> docs[s].val]
      /\ num' = Cardinality({s \in Seqs : docs[s] # NoDoc})
      /\ call' = [t \in Adders |-> Idle] /\ del' = [d \in Removers |-> NoDelete]
  BY Zenon DEF Crash, stored
<1>2. DOMAIN <<>> = {} /\ Idle.recs = <<>> /\ NoDelete.got = <<>> /\ NoDoc.val = {}
  BY DEF Idle, NoDelete, NoDoc
<1>3. \A t \in Adders : Accepted(t)' = {}
  BY <1>1, <1>2, Zenon DEF Accepted
<1>4. \A d \in Removers : InHand(d)' = {}
  BY <1>1, <1>2, Zenon DEF InHand
<1>5. \A s : ~BeingAdded(s)' /\ ~BeingRemoved(s)'
  BY <1>3, <1>4, Zenon DEF BeingAdded, BeingRemoved
<1>6. index' \in [Seqs -> SUBSET Fields]
  <2>1. \A s \in Seqs : docs[s].val \in SUBSET Fields
    BY Zenon DEF Types, Docs
  <2> QED BY <1>1, <2>1, Zenon
<1>7. UnusedBlank'
  <2> SUFFICES ASSUME NEW s \in Seqs, s >= next PROVE docs[s].val = {}
    BY <1>1, Zenon DEF UnusedBlank
  <2>1. ~(s < next)
    BY Constant DEF Types, Seqs
  <2>2. docs[s] = NoDoc
    BY <2>1, StoredApart, Zenon
  <2> QED BY <1>2, <2>2, Zenon
<1>8. StoredIndexed' /\ NothingElse'
  BY <1>1, <1>2, Zenon DEF StoredIndexed, NothingElse
<1>9. AddedIndexed' /\ RemovedIndexed'
  BY <1>3, <1>4, Zenon DEF AddedIndexed, RemovedIndexed
<1>10. Counts'
  <2>1. Counted' = {s \in Seqs : docs[s] # NoDoc}
    BY <1>1, <1>5, Zenon DEF Counted
  <2> QED BY <1>1, <2>1, Zenon DEF Counts
<1> QED BY <1>6, <1>7, <1>8, <1>9, <1>10, Zenon DEF Tracked

(* Nothing is indexed at first.                                            *)
LEMMA InitTracked ==
    ASSUME Init
    PROVE  Tracked
<1>1. /\ docs = [s \in Seqs |-> NoDoc] /\ index = [s \in Seqs |-> {}] /\ num = 0
      /\ call = [t \in Adders |-> Idle] /\ del = [d \in Removers |-> NoDelete]
  BY Zenon DEF Init
<1>2. DOMAIN <<>> = {} /\ Idle.recs = <<>> /\ NoDelete.got = <<>> /\ NoDoc.val = {}
  BY DEF Idle, NoDelete, NoDoc
<1>3. \A t \in Adders : Accepted(t) = {}
  BY <1>1, <1>2, Zenon DEF Accepted
<1>4. \A d \in Removers : InHand(d) = {}
  BY <1>1, <1>2, Zenon DEF InHand
<1>5. \A s : ~BeingAdded(s)
  BY <1>3, Zenon DEF BeingAdded
<1>6. index \in [Seqs -> SUBSET Fields] /\ UnusedBlank /\ StoredIndexed /\ NothingElse
  <2>1. index \in [Seqs -> SUBSET Fields]
    BY <1>1, Zenon
  <2>2. UnusedBlank /\ NothingElse
    BY <1>1, Zenon DEF UnusedBlank, NothingElse
  <2>3. StoredIndexed
    BY <1>1, <1>2, Zenon DEF StoredIndexed
  <2> QED BY <2>1, <2>2, <2>3, Zenon
<1>7. AddedIndexed /\ RemovedIndexed
  BY <1>3, <1>4, Zenon DEF AddedIndexed, RemovedIndexed
<1>8. Counts
  <2>1. Counted = {}
    BY <1>1, <1>5, Zenon DEF Counted
  <2>2. Cardinality(Counted) = 0
    BY <2>1, FS_EmptySet, Zenon
  <2> QED BY <1>1, <2>2, Zenon DEF Counts
<1> QED BY <1>6, <1>7, <1>8, Zenon DEF Tracked

(* Every step keeps the invariant for the index and the count.             *)
LEMMA NextTracks ==
    ASSUME Types, Shapes, Kept, Tracked, [Next]_vars
    PROVE  Tracked'
<1>1. ASSUME NEW t \in Adders, add_many(t) \/ LockStripe(t) PROVE Tracked'
  BY <1>1, BeginTracks, Zenon
<1>2. ASSUME NEW t \in Adders, prepare_document_for_indexing(t) PROVE Tracked'
  BY <1>2, PrepareTracks, Zenon
<1>3. ASSUME NEW t \in Adders, batch_memory_index(t) PROVE Tracked'
  BY <1>3, MemoryIndexTracks, Zenon
<1>4. ASSUME NEW t \in Adders, Stored(t) \/ StoreFails(t) PROVE Tracked'
  <2>1. PICK failed : failed \subseteq Accepted(t) /\ batch_index(t, failed)
    BY <1>4, Zenon DEF Stored, StoreFails
  <2> QED BY <2>1, StoreTracks, Zenon
<1>5. ASSUME NEW d \in Removers, \/ del_remove_documents(d) \/ remove(d)
                                 \/ on_deferred_process_request(d) \/ RemoveIdKey(d)
                                 \/ ReadFails(d)
      PROVE  Tracked'
  BY <1>5, RemovalTracks, Zenon
<1>6. ASSUME NEW d \in Removers, stateful_remove_docs(d) PROVE Tracked'
  BY <1>6, FetchTracks, Zenon
<1>7. ASSUME NEW d \in Removers, remove_if_found_many(d) PROVE Tracked'
  BY <1>7, UnindexTracks, Zenon
<1>8. ASSUME NEW d \in Removers, RemoveDocKey(d) PROVE Tracked'
  BY <1>8, RemoveDocKeyTracks, Zenon
<1>9. ASSUME Crash PROVE Tracked'
  BY <1>9, CrashTracks, Zenon
<1>10. ASSUME UNCHANGED vars PROVE Tracked'
  <2>1. UNCHANGED <<docs, next, Unsure, index, num, call, del>>
    BY <1>10, Zenon DEF vars, stored, memory, Unsure
  <2>2. IndexFrame
    BY <2>1, AcceptedSame, HandSame, Zenon DEF IndexFrame
  <2> QED BY <2>2, IndexFrameTracks, Zenon
<1>11. ASSUME NEW t \in Adders, IndexThrows(t) PROVE Tracked'
  BY <1>11, ThrowTracks, Zenon
<1> QED BY <1>1, <1>2, <1>3, <1>4, <1>5, <1>6, <1>7, <1>8, <1>9, <1>10, <1>11, Zenon
        DEF Next, Adding, Removing

(* Whatever the calls, the removals, failed writes and crashes: the index  *)
(* and the count follow what is stored and what is in hand.                *)
THEOREM IndexIsTracked == Spec => [](Types /\ Shapes /\ Kept /\ Tracked)
<1>1. Init => Types /\ Shapes /\ Kept /\ Tracked
  BY InitKept, InitTracked, Zenon
<1>2. (Types /\ Shapes /\ Kept /\ Tracked) /\ [Next]_vars => (Types /\ Shapes /\ Kept /\ Tracked)'
  BY NextKeeps, NextTracks, Zenon
<1> QED BY <1>1, <1>2, PTL DEF Spec

(* IndexMatchesStore for any documents, stripes, threads, calls and batch  *)
(* size: between calls the index has the fields of every stored document,  *)
(* nothing of others, and num_documents is their number, unless a removal  *)
(* and another call had a document in hand at once, or its indexing threw  *)
(* since the collection was loaded.                                        *)
THEOREM IndexFollowsStore == Spec => []IndexMatchesStore
<1>1. ASSUME Types, Shapes, Kept, Tracked PROVE IndexMatchesStore
  <2> SUFFICES ASSUME Quiet
               PROVE  /\ \A s \in Seqs : docs[s] # NoDoc /\ docs[s].id \notin Unsure =>
                                            index[s] = docs[s].val
                      /\ Unsure = {} => /\ \A s \in Seqs : docs[s] = NoDoc => index[s] = {}
                                       /\ num = Cardinality({s \in Seqs : docs[s] # NoDoc})
    BY Zenon DEF IndexMatchesStore, Unsure
  <2>1. "idle" # "store" /\ "idle" \notin {"unindex", "idkey", "dockey"}
    OBVIOUS
  <2>2. \A s : ~BeingAdded(s)
    BY <2>1, Zenon DEF Quiet, BeingAdded
  <2>3. \A d \in Removers : InHand(d) = {}
    <3>1. \A d \in Removers : del[d].got = <<>>
      BY <1>1, <2>1, Zenon DEF Quiet, Shapes, DelShape, DelOk
    <3> QED BY <3>1, NothingInHand, Zenon
  <2>4. \A s : ~BeingRemoved(s)
    BY <2>3, Zenon DEF BeingRemoved
  <2>5. Counted = {s \in Seqs : docs[s] # NoDoc}
    BY <2>2, <2>4, Zenon DEF Counted
  <2>6. \A s \in Seqs : docs[s] # NoDoc /\ docs[s].id \notin Unsure => index[s] = docs[s].val
    BY <1>1, <2>2, <2>4, Zenon DEF Tracked, StoredIndexed
  <2>7. Unsure = {} => \A s \in Seqs : docs[s] = NoDoc => index[s] = {}
    BY <1>1, <2>2, Zenon DEF Tracked, NothingElse
  <2>8. Unsure = {} => num = Cardinality({s \in Seqs : docs[s] # NoDoc})
    BY <1>1, <2>5, Zenon DEF Tracked, Counts
  <2> QED BY <2>6, <2>7, <2>8, Zenon
<1> QED BY <1>1, IndexIsTracked, PTL

-----------------------------------------------------------------------------
(* Types, and the bounds of the count.                                     *)

(* A new document that is accepted and not yet counted.                    *)
Waiting(s) ==
    \E t \in Adders : call[t].pc = "index" /\ \E r \in Accepted(t) : ~r.isUpdate /\ r.seq = s

(* The sequence ids that may have been counted.                            *)
Used == {s \in Seqs : s < next /\ ~Waiting(s)}

Bounded == num \in Nat /\ num <= Cardinality(Used)

Control ==
    /\ serial \in BOOLEAN /\ apply \in Adders \cup Removers \cup {None}
    /\ raced \subseteq Ids /\ spoiled \subseteq Ids /\ torn \subseteq Ids

(* The count stays, or falls, while no sequence id is given back.          *)
LEMMA UsedGrows ==
    ASSUME Bounded, num' \in Nat, num' <= num, Used \subseteq Used'
    PROVE  Bounded'
<1>1. Used' \subseteq Seqs /\ Used \subseteq Seqs
  BY Zenon DEF Used
<1>2. IsFiniteSet(Used') /\ Cardinality(Used') \in Nat /\ Cardinality(Used) \in Nat
  BY <1>1, SeqsFinite, Zenon
<1>3. Cardinality(Used) <= Cardinality(Used')
  BY <1>2, FS_Subset, Zenon
<1>4. num' <= Cardinality(Used')
  BY <1>2, <1>3 DEF Bounded
<1> QED BY <1>4, Zenon DEF Bounded

(* Calls that are left alone, or have nothing accepted.                    *)
LEMMA CallsAside ==
    ASSUME Bounded, next' = next, num' \in Nat, num' <= num,
           \A t \in Adders : call'[t] = call[t] \/ call'[t].recs = <<>>
    PROVE  Bounded'
<1>1. DOMAIN <<>> = {}
  OBVIOUS
<1>2. \A t \in Adders : \/ call'[t] = call[t] /\ Accepted(t)' = Accepted(t)
                        \/ Accepted(t)' = {}
  BY <1>1, Zenon DEF Accepted
<1>3. \A s : Waiting(s)' => Waiting(s)
  BY <1>2, Zenon DEF Waiting
<1>4. Used \subseteq Used'
  BY <1>3, Zenon DEF Used
<1> QED BY <1>4, UsedGrows, Zenon

(* A decrement stops at 0.                                                 *)
LEMMA DownBelow ==
    ASSUME NEW n \in Nat, NEW k \in Nat
    PROVE  Down(n, k) \in Nat /\ Down(n, k) <= n
BY DEF Down

(* Steps of a call that do not raise the count.                            *)
LEMMA AddingBounds ==
    ASSUME Types, Shapes, Kept, Bounded, NEW t \in Adders,
           \/ add_many(t) \/ LockStripe(t)
           \/ \E failed : failed \subseteq Accepted(t) /\ batch_index(t, failed)
    PROVE  Bounded'
<1>1. num \in Nat /\ num <= num
  BY DEF Bounded
<1>2. CASE add_many(t) \/ LockStripe(t)
  <2>1. Frame
    BY <1>2, AddManyShape, LockStripeShape, Zenon
  <2>2. /\ call[t].pc \in {"idle", "lock"} /\ num' = num /\ next' = next
        /\ \E n : call' = [call EXCEPT ![t] = n]
    BY <1>2, Zenon DEF add_many, LockStripe, LockOne, memory, stored
  <2>3. call[t].recs = <<>>
    <3>1. call[t].pc \notin {"index", "store"}
      BY <2>2
    <3> QED BY <3>1, Zenon DEF Shapes, CallShape
  <2>4. \A u \in Adders : call'[u] = call[u] \/ call'[u].recs = <<>>
    BY <2>1, <2>2, <2>3, Zenon DEF Frame, Types
  <2> QED BY <1>1, <2>2, <2>4, CallsAside, Zenon
<1>3. CASE \E failed : failed \subseteq Accepted(t) /\ batch_index(t, failed)
  <2>1. PICK failed : failed \subseteq Accepted(t) /\ batch_index(t, failed)
    BY <1>3, Zenon
  <2> DEFINE R == {r \in failed : ~r.isUpdate}
  <2>2. /\ call[t].pc = "store" /\ Continue(t) /\ next' = next /\ del' = del
        /\ num' = Down(num, Cardinality(R))
    BY <2>1, Zenon DEF batch_index
  <2>3. Cardinality(R) \in Nat
    <3>1. /\ \A r \in R : r.seq \in Seqs
          /\ \A q, r \in R : q.seq = r.seq => q = r
      <4>1. /\ \A r \in Accepted(t) : r.seq \in Seqs
            /\ \A q, r \in Accepted(t) : q.seq = r.seq => q = r
        BY AcceptedIs, ZenonT(40)
      <4> QED BY <2>1, <4>1, Zenon
    <3> HIDE DEF R
    <3>2. {r.seq : r \in R} \subseteq Seqs
      BY <3>1, Zenon
    <3> QED BY <3>1, <3>2, CountRecords, SeqsFinite, Zenon
  <2> HIDE DEF R
  <2>4. \A u \in Adders : call'[u] = call[u] \/ call'[u].recs = <<>>
    BY <2>2, ContinueShape, Zenon
  <2>5. num' \in Nat /\ num' <= num
    BY <1>1, <2>2, <2>3, DownBelow, Zenon
  <2> QED BY <2>2, <2>4, <2>5, CallsAside, Zenon
<1> QED BY <1>2, <1>3, Zenon

(* No step of a removal raises the count.                                  *)
LEMMA RemovingBounds ==
    ASSUME Types, Bounded, NEW d \in Removers,
           del_remove_documents(d) \/ remove(d) \/ Removing(d) \/ ReadFails(d)
    PROVE  Bounded'
<1>1. /\ next' = next /\ call' = call
      /\ num' = num \/ num' = Down(num, Len(del[d].got))
  BY Zenon DEF del_remove_documents, remove, Removing, stateful_remove_docs, remove_if_found_many,
               RemoveIdKey, RemoveDocKey, on_deferred_process_request, ReadFails, stored, memory
<1>2. Len(del[d].got) \in Nat
  <2>1. del[d].got \in Seq(Gots)
    BY DelTyped, Zenon
  <2> QED BY <2>1
<1>3. num \in Nat /\ num <= num
  BY DEF Bounded
<1>4. num' \in Nat /\ num' <= num
  BY <1>1, <1>2, <1>3, DownBelow, Zenon
<1> QED BY <1>1, <1>4, CallsAside, Zenon

(* A new document has its sequence id when it is counted.                  *)
LEMMA MemoryIndexBounds ==
    ASSUME Types, Shapes, Kept, Bounded, NEW t \in Adders,
           batch_memory_index(t) \/ IndexThrows(t)
    PROVE  Bounded'
<1> DEFINE R == {r \in Accepted(t) : ~r.isUpdate}
           N == {r.seq : r \in R}
<1>1. next' = next /\ call[t].pc = "index" /\ num' = num + Cardinality(R)
  BY Zenon DEF batch_memory_index, IndexThrows, stored
<1>2. /\ \A u \in Adders : u # t => call'[u] = call[u] /\ Accepted(u)' = Accepted(u)
      /\ call'[t].pc = "store"
  <2>1. CASE batch_memory_index(t)
    <3>1. call \in [Adders -> Calls] /\ call[t] \in Calls
      BY Zenon DEF Types
    <3>2. call' = [call EXCEPT ![t].pc = "store"]
      BY <2>1, Zenon DEF batch_memory_index
    <3>3. /\ call'[t] = [call[t] EXCEPT !.pc = "store"]
          /\ \A u \in Adders : u # t => call'[u] = call[u]
      BY <3>1, <3>2, Zenon
    <3>4. call'[t].pc = "store"
      BY <3>1, <3>3, Zenon DEF Calls
    <3> QED BY <3>3, <3>4, AcceptedSame, Zenon
  <2>2. CASE IndexThrows(t)
    BY <2>2, ThrowEffect, AcceptedSame, Zenon
  <2> QED BY <2>1, <2>2, Zenon
<1>3. /\ \A r \in Accepted(t) : r.seq \in Seqs /\ r.seq < next
      /\ \A q, r \in Accepted(t) : q.seq = r.seq => q = r
  <2>1. /\ \A r \in Accepted(t) : r.id \in Ids /\ r.seq \in Seqs /\ Stands(r.seq, r.id)
        /\ \A q, r \in Accepted(t) : q.seq = r.seq => q = r
    BY AcceptedIs, ZenonT(40)
  <2> QED BY <2>1, Zenon DEF Kept, OneId
<1>4. ASSUME NEW s PROVE Waiting(s)' <=> Waiting(s) /\ s \notin N
  <2>1. "store" # "index"
    OBVIOUS
  <2>2. Waiting(s)' <=> \E u \in Adders : /\ u # t /\ call[u].pc = "index"
                                          /\ \E r \in Accepted(u) : ~r.isUpdate /\ r.seq = s
    BY <1>2, <2>1, Zenon DEF Waiting
  <2>3. \A u \in Adders : u # t => \A q \in Accepted(u), r \in Accepted(t) : r.seq # q.seq
    BY AddersApart, Zenon
  <2> QED BY <2>2, <2>3, Zenon DEF Waiting
<1>5. \A s \in N : s \in Seqs /\ s < next /\ Waiting(s)
  BY <1>1, <1>3, Zenon DEF Waiting
<1>6. Used' = Used \cup N
  <2>1. ASSUME NEW s PROVE s \in Used' <=> s \in Used \/ s \in N
    <3> HIDE DEF N
    <3> QED BY <1>1, <1>4, <1>5, Zenon DEF Used
  <2> HIDE DEF N
  <2> QED BY <2>1, Zenon
<1>7. Used \subseteq Seqs /\ N \subseteq Seqs /\ Used \cap N = {}
  <2> HIDE DEF N
  <2> QED BY <1>5, Zenon DEF Used
<1>8. Cardinality(R) = Cardinality(N)
  <2>1. (\A r \in R : r.seq \in Seqs) /\ \A q, r \in R : q.seq = r.seq => q = r
    BY <1>3, Zenon
  <2> HIDE DEF R
  <2> QED BY <2>1, CountRecords, Zenon
<1>9. /\ Cardinality(Used') = Cardinality(Used) + Cardinality(N)
      /\ Cardinality(Used) \in Nat /\ Cardinality(N) \in Nat
  <2> HIDE DEF N
  <2> QED BY <1>6, <1>7, CountMore, SeqsFinite, Zenon
<1>10. num' \in Nat /\ num' <= Cardinality(Used')
  <2> HIDE DEF R, N
  <2> QED BY <1>1, <1>8, <1>9 DEF Bounded
<1> QED BY <1>10, Zenon DEF Bounded

(* What was given out is below what is given out next.                     *)
LEMMA Below ==
    ASSUME NEW k \in Nat, NEW m \in Nat, NEW n \in Nat, k < m, m <= n
    PROVE  k < n /\ \A x \in Nat : m <= x => x # k
OBVIOUS

(* The sequence ids of a batch are taken before it is counted.             *)
LEMMA PrepareBounds ==
    ASSUME Types, Shapes, Kept, Bounded, NEW t \in Adders, prepare_document_for_indexing(t)
    PROVE  Bounded'
<1>1. PICK op, batch, recs :
        /\ op = call[t].op /\ batch = call[t].batch
        /\ recs = [i \in DOMAIN batch |-> Prepared(op, batch, i)]
  BY Zenon
<1>2. /\ next' = next + Taken(op, batch) /\ num' = num
      /\ call' = [call EXCEPT ![t].pc = "index", ![t].recs = recs]
  BY <1>1, Zenon DEF prepare_document_for_indexing, memory
<1>3. /\ call'[t].recs = recs
      /\ \A u \in Adders : u # t => call'[u] = call[u] /\ Accepted(u)' = Accepted(u)
  <2>1. call \in [Adders -> Calls] /\ call[t] \in Calls
    BY Zenon DEF Types
  <2>2. /\ call'[t] = [call[t] EXCEPT !.pc = "index", !.recs = recs]
        /\ \A u \in Adders : u # t => call'[u] = call[u]
    BY <1>2, <2>1, Zenon
  <2>3. call'[t].recs = recs
    BY <2>1, <2>2, Zenon DEF Calls
  <2> QED BY <2>2, <2>3, AcceptedSame, Zenon
<1>4. \A i \in DOMAIN batch : /\ recs[i].seq \in Nat
                              /\ ~recs[i].isUpdate /\ recs[i].ok => next <= recs[i].seq
  <2>1. \A i \in DOMAIN batch : recs[i] = Prepared(op, batch, i)
    BY <1>1, Zenon
  <2>2. \A i \in DOMAIN batch :
          recs[i] \in Recs /\ (~recs[i].isUpdate /\ recs[i].ok => next <= recs[i].seq)
    BY <1>1, <2>1, PreparedIs, ZenonT(40)
  <2> QED BY <2>2, Zenon DEF Recs
<1>5. \A r \in Accepted(t)' : r.seq \in Nat /\ (~r.isUpdate => next <= r.seq)
  <2> SUFFICES ASSUME NEW r \in Accepted(t)'
               PROVE  r.seq \in Nat /\ (~r.isUpdate => next <= r.seq)
    BY Zenon
  <2>1. PICK i \in DOMAIN recs : r = recs[i] /\ recs[i].ok
    BY <1>3, Zenon DEF Accepted
  <2>2. i \in DOMAIN batch
    BY <1>1, Zenon
  <2> QED BY <1>4, <2>1, <2>2, Zenon
<1>6. next \in Nat /\ next' \in Nat /\ next <= next'
  <2>1. Taken(op, batch) \in Nat
    BY <1>1, PreparedIs, Zenon
  <2> QED BY <1>2, <2>1, Constant DEF Types
<1>7. ASSUME NEW s \in Used PROVE s \in Used'
  <2>1. s \in Seqs /\ s < next /\ ~Waiting(s)
    BY Zenon DEF Used
  <2>2. s < next' /\ \A n \in Nat : next <= n => n # s
    <3>1. s \in Nat
      BY <2>1, Constant DEF Seqs
    <3> QED BY <1>6, <2>1, <3>1, Below, Zenon
  <2>3. \A r \in Accepted(t)' : ~r.isUpdate => r.seq # s
    BY <1>5, <2>2, Zenon
  <2>4. ~Waiting(s)'
    BY <1>3, <2>1, <2>3, Zenon DEF Waiting
  <2> QED BY <2>1, <2>2, <2>4, Zenon DEF Used
<1>8. num' \in Nat /\ num' <= num
  BY <1>2 DEF Bounded
<1>9. Used \subseteq Used'
  BY <1>7, Zenon
<1> QED BY <1>8, <1>9, UsedGrows, Zenon

(* A load counts what is stored.                                           *)
LEMMA CrashBounds ==
    ASSUME Types, Shapes, Kept, Crash
    PROVE  Bounded'
<1> DEFINE S == {s \in Seqs : docs[s] # NoDoc}
<1>1. next' = next /\ call' = [t \in Adders |-> Idle] /\ num' = Cardinality(S)
  BY Zenon DEF Crash, stored
<1>2. "idle" # "index" /\ Idle.pc = "idle"
  BY DEF Idle
<1>3. \A s : ~Waiting(s)'
  BY <1>1, <1>2, Zenon DEF Waiting
<1>4. S \subseteq Used' /\ Used' \subseteq Seqs /\ S \subseteq Seqs
  BY <1>1, <1>3, StoredApart, Zenon DEF Used
<1> HIDE DEF S
<1>5. IsFiniteSet(Used') /\ Cardinality(S) \in Nat
  BY <1>4, SeqsFinite, Zenon
<1>6. Cardinality(S) <= Cardinality(Used')
  BY <1>4, <1>5, FS_Subset, Zenon
<1> QED BY <1>1, <1>5, <1>6, Zenon DEF Bounded

(* The bounds hold at first.                                               *)
LEMMA InitBounds ==
    ASSUME Init
    PROVE  Bounded /\ Control
<1>1. /\ num = 0 /\ serial \in Serial /\ apply = None /\ raced = {}
      /\ spoiled = {} /\ torn = {}
  BY Zenon DEF Init
<1>2. Cardinality(Used) \in Nat
  <2>1. Used \subseteq Seqs
    BY Zenon DEF Used
  <2> QED BY <2>1, SeqsFinite, Zenon
<1>3. Bounded
  BY <1>1, <1>2 DEF Bounded
<1>4. Control
  BY <1>1, WritesAssumption, Zenon DEF Control
<1> QED BY <1>3, <1>4, Zenon

(* Ids, and who holds live_apply_mutex_.                                   *)
LEMMA ControlKept ==
    ASSUME Types, Shapes, Control, [Next]_vars
    PROVE  Control'
<1>1. /\ serial \in BOOLEAN /\ apply \in Adders \cup Removers \cup {None}
      /\ raced \subseteq Ids /\ spoiled \subseteq Ids /\ torn \subseteq Ids
  BY Zenon DEF Control
<1>2. serial' = serial
  BY Zenon DEF Next, Adding, Removing, add_many, LockStripe, LockOne, prepare_document_for_indexing,
     batch_memory_index, IndexThrows, Stored, StoreFails, batch_index, del_remove_documents, remove,
     stateful_remove_docs, ReadFails, remove_if_found_many, RemoveIdKey, RemoveDocKey,
     on_deferred_process_request, Crash, vars, locks
<1>3. ASSUME NEW t \in Adders, add_many(t) \/ Adding(t) \/ StoreFails(t)
      PROVE  /\ apply' \in {apply, t, None} /\ torn' = torn /\ spoiled' = spoiled
             /\ raced' = raced \/ raced' \subseteq raced \cup Range(call[t].batch)
  BY <1>3, ZenonT(40) DEF Adding, add_many, LockStripe, LockOne, prepare_document_for_indexing,
     batch_memory_index, Stored, StoreFails, batch_index, Began, Continue, locks
<1>4. ASSUME NEW d \in Removers,
             del_remove_documents(d) \/ remove(d) \/ Removing(d) \/ ReadFails(d)
      PROVE  /\ apply' \in {apply, d, None} /\ torn' = torn /\ spoiled' = spoiled
             /\ \/ raced' = raced
                \/ raced' \subseteq raced \cup {Found(del[d].ids)[i].id : i \in DOMAIN Found(del[d].ids)}
  BY <1>4, ZenonT(40) DEF Removing, del_remove_documents, remove, stateful_remove_docs, ReadFails,
     remove_if_found_many, RemoveIdKey, RemoveDocKey, on_deferred_process_request, Began, BatchOver,
     locks
<1>5. ASSUME NEW t \in Adders PROVE Range(call[t].batch) \subseteq Ids
  <2>1. call[t].batch \in Seq(Ids)
    BY CallTyped, Zenon
  <2> QED BY <2>1 DEF Range
<1>6. ASSUME NEW d \in Removers
      PROVE  {Found(del[d].ids)[i].id : i \in DOMAIN Found(del[d].ids)} \subseteq Ids
  <2>1. del[d].ids \in Seq(Seqs) /\ IsInjective(del[d].ids)
    BY DelTyped, Zenon DEF Shapes, DelShape, DelOk
  <2>2. PICK got : got = Found(del[d].ids)
    BY Zenon
  <2>3. \A i \in DOMAIN got : got[i].id \in Ids
    BY <2>1, <2>2, FoundIs, Zenon
  <2> QED BY <2>2, <2>3, Zenon
<1>7. ASSUME Crash \/ UNCHANGED vars PROVE Control'
  <2>1. /\ apply' \in {apply, None} /\ raced' = raced /\ spoiled' \in {spoiled, {}}
        /\ torn' = torn \/ torn' = torn \cup Stranded
    BY <1>7, Zenon DEF Crash, vars, locks
  <2>2. Stranded \subseteq Ids
    BY Zenon DEF Stranded
  <2> QED BY <1>1, <1>2, <2>1, <2>2, Zenon DEF Control
<1>8. ASSUME NEW t \in Adders, add_many(t) \/ Adding(t) \/ StoreFails(t) PROVE Control'
  BY <1>1, <1>2, <1>3, <1>5, <1>8, Zenon DEF Control
<1>9. ASSUME NEW d \in Removers,
             del_remove_documents(d) \/ remove(d) \/ Removing(d) \/ ReadFails(d)
      PROVE  Control'
  BY <1>1, <1>2, <1>4, <1>6, <1>9, Zenon DEF Control
<1>10. ASSUME NEW t \in Adders, IndexThrows(t) PROVE Control'
  <2>1. /\ apply' = apply /\ torn' = torn /\ raced' = raced
        /\ spoiled' = spoiled \cup {r.id : r \in Accepted(t)}
    BY <1>10, Zenon DEF IndexThrows, locks
  <2>2. \A r \in Accepted(t) : r.id \in Ids
    BY CallTyped, Zenon DEF Accepted, Recs
  <2> QED BY <1>1, <1>2, <2>1, <2>2, Zenon DEF Control
<1> QED BY <1>7, <1>8, <1>9, <1>10, Zenon DEF Next

(* Every step keeps the bounds of the count.                               *)
LEMMA NextBounds ==
    ASSUME Types, Shapes, Kept, Bounded, [Next]_vars
    PROVE  Bounded'
<1>1. ASSUME NEW t \in Adders, add_many(t) \/ LockStripe(t) PROVE Bounded'
  BY <1>1, AddingBounds, Zenon
<1>2. ASSUME NEW t \in Adders, Stored(t) \/ StoreFails(t) PROVE Bounded'
  <2>1. \E failed : failed \subseteq Accepted(t) /\ batch_index(t, failed)
    BY <1>2, Zenon DEF Stored, StoreFails
  <2> QED BY <2>1, AddingBounds, Zenon
<1>3. ASSUME NEW t \in Adders, prepare_document_for_indexing(t) PROVE Bounded'
  BY <1>3, PrepareBounds, Zenon
<1>4. ASSUME NEW t \in Adders, batch_memory_index(t) \/ IndexThrows(t) PROVE Bounded'
  BY <1>4, MemoryIndexBounds, Zenon
<1>5. ASSUME NEW d \in Removers,
             del_remove_documents(d) \/ remove(d) \/ Removing(d) \/ ReadFails(d)
      PROVE  Bounded'
  BY <1>5, RemovingBounds, Zenon
<1>6. ASSUME Crash PROVE Bounded'
  BY <1>6, CrashBounds, Zenon
<1>7. ASSUME UNCHANGED vars PROVE Bounded'
  <2>1. next' = next /\ num' = num /\ call' = call
    BY <1>7, Zenon DEF vars, stored, memory
  <2>2. num' \in Nat /\ num' <= num
    BY <2>1 DEF Bounded
  <2> QED BY <2>1, <2>2, CallsAside, Zenon
<1> QED BY <1>1, <1>2, <1>3, <1>4, <1>5, <1>6, <1>7, Zenon DEF Next, Adding

(* TypeOK for any documents, stripes, threads, calls and batch size:       *)
(* num_documents neither wraps below 0 nor passes the sequence ids given   *)
(* out, whatever removals and other calls have in hand at once.            *)
THEOREM TypeCorrect == Spec => []TypeOK
<1>1. Init => Types /\ Shapes /\ Kept /\ Tracked /\ Bounded /\ Control
  BY InitKept, InitTracked, InitBounds, Zenon
<1>2. (Types /\ Shapes /\ Kept /\ Tracked /\ Bounded /\ Control) /\ [Next]_vars
        => (Types /\ Shapes /\ Kept /\ Tracked /\ Bounded /\ Control)'
  BY NextKeeps, NextTracks, NextBounds, ControlKept, Zenon
<1>3. ASSUME Types, Tracked, Bounded, Control PROVE TypeOK
  <2>1. num \in 0..MaxSeq
    <3>1. IsFiniteSet(Seqs) /\ Used \subseteq Seqs /\ Cardinality(Used) \in Nat
      BY SeqsFinite, Zenon DEF Used
    <3>2. Cardinality(Seqs) = MaxSeq
      BY FS_Interval, Constant DEF Seqs
    <3>3. Cardinality(Used) <= MaxSeq
      BY <3>1, <3>2, FS_Subset, Zenon
    <3> QED BY <1>3, <3>1, <3>3, Constant DEF Bounded
  <2>2. \A t \in Adders : call[t].pc \in {"idle", "lock", "prepare", "index", "store"}
    BY <1>3, CallTyped, Zenon DEF Calls
  <2>3. \A d \in Removers :
          /\ del[d].pc \in {"idle", "fetch", "unindex", "idkey", "dockey", "deferred"}
          /\ del[d].ids \in Seq(Seqs)
    BY <1>3, DelTyped, Zenon DEF Dels
  <2> QED BY <1>3, <2>1, <2>2, <2>3, Zenon DEF Types, Docs, Tracked, Control, TypeOK
<1> QED BY <1>1, <1>2, <1>3, PTL DEF Spec

=============================================================================
