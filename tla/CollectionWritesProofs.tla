----------------------- MODULE CollectionWritesProofs -----------------------
(***************************************************************************)
(* Proofs about what CollectionWrites stores, for every set of documents,  *)
(* stripes, calls and removals, every batch size and every number of       *)
(* failed writes and crashes.                                              *)
(***************************************************************************)
EXTENDS CollectionWrites, FiniteSetTheorems, NaturalsInduction, TLAPS

-----------------------------------------------------------------------------
(* Sequences.                                                              *)

(* A set of naturals has a least element.                                  *)
LEMMA LeastNat ==
    ASSUME NEW T, T \subseteq Nat, T # {}
    PROVE  \E n \in T : \A m \in T : n <= m
<1>1. PICK n \in T : \A m \in T : ~(<<m, n>> \in OpToRel(<, Nat))
  BY WFMin, NatLessThanWellFounded, Zenon
<1>2. \A m \in T : ~(m < n)
  BY <1>1, Zenon DEF OpToRel
<1> QED BY <1>2

(* A bounded set of naturals has its maximum.                              *)
LEMMA MaxIsIn ==
    ASSUME NEW n \in Nat, NEW S, S \subseteq 1..n, S # {}
    PROVE  Max(S) \in S
<1> DEFINE T == {n - x : x \in S}
<1>1. T \subseteq Nat /\ T # {}
  <2>1. \A x \in S : n - x \in Nat
    OBVIOUS
  <2> QED BY <2>1, Zenon
<1>2. PICK k \in T : \A m \in T : k <= m
  <2> HIDE DEF T
  <2> QED BY <1>1, LeastNat, Zenon
<1>3. PICK x \in S : k = n - x
  BY <1>2, Zenon
<1>4. \A y \in S : n - x <= n - y
  BY <1>2, <1>3, Zenon
<1>5. \A y \in S : x >= y
  BY <1>4
<1> QED BY <1>5, Zenon DEF Max

(* A batch of add_many is a prefix of the lines that has no id twice.      *)
LEMMA BatchIs ==
    ASSUME NEW lines \in Seq(Ids), lines # <<>>
    PROVE  /\ BatchLen(lines) \in 1..Len(lines)
           /\ SubSeq(lines, 1, BatchLen(lines)) \in Seq(Ids)
           /\ SubSeq(lines, BatchLen(lines) + 1, Len(lines)) \in Seq(Ids)
           /\ IsInjective(SubSeq(lines, 1, BatchLen(lines)))
<1> DEFINE S == {n \in 1..Len(lines) : IsInjective(SubSeq(lines, 1, n))}
<1>1. Len(lines) \in Nat /\ 1 \in 1..Len(lines)
  OBVIOUS
<1>2. IsInjective(SubSeq(lines, 1, 1))
  BY <1>1 DEF IsInjective
<1>3. Max(S) \in S
  <2>1. S \subseteq 1..Len(lines) /\ S # {}
    BY <1>1, <1>2, Zenon
  <2> HIDE DEF S
  <2> QED BY <1>1, <2>1, MaxIsIn, Zenon
<1>4. BatchLen(lines) \in 1..Len(lines) /\ IsInjective(SubSeq(lines, 1, BatchLen(lines)))
  BY <1>3, Zenon DEF BatchLen
<1> QED BY <1>1, <1>4

(* Any set of naturals up to n can be listed in ascending order.           *)
LEMMA AscendingExists ==
    ASSUME NEW n \in Nat, NEW S, S \subseteq 1..n
    PROVE  \E q \in [1..Cardinality(S) -> S] : \A i, j \in DOMAIN q : i < j => q[i] < q[j]
<1> DEFINE P(m) == \A U \in SUBSET (1..m) :
              \E q \in [1..Cardinality(U) -> U] : \A i, j \in 1..Cardinality(U) : i < j => q[i] < q[j]
           Bad == {m \in Nat : ~P(m)}
<1>1. P(0)
  <2>1. \A U \in SUBSET (1..0) : U = {}
    OBVIOUS
  <2>2. [i \in 1..0 |-> i] \in [1..0 -> {}]
    OBVIOUS
  <2> QED BY <2>1, <2>2, FS_EmptySet, Zenon
<1>2. ASSUME NEW m \in Nat, P(m) PROVE P(m + 1)
  <2> SUFFICES ASSUME NEW U \in SUBSET (1..(m + 1))
               PROVE  \E q \in [1..Cardinality(U) -> U] :
                          \A i, j \in 1..Cardinality(U) : i < j => q[i] < q[j]
    BY Zenon
  <2> DEFINE V == U \ {m + 1}
  <2>1. V \in SUBSET (1..m)
    OBVIOUS
  <2>2. IsFiniteSet(U) /\ Cardinality(U) \in Nat
    <3>1. IsFiniteSet(1..(m + 1))
      BY FS_Interval
    <3>2. IsFiniteSet(U)
      BY <3>1, FS_Subset, Zenon
    <3> QED BY <3>2, FS_CardinalityType, Zenon
  <2>3. PICK q \in [1..Cardinality(V) -> V] :
          \A i, j \in 1..Cardinality(V) : i < j => q[i] < q[j]
    BY <1>2, <2>1, Zenon
  <2>4. CASE m + 1 \notin U
    <3>1. V = U
      BY <2>4, Zenon
    <3> QED BY <2>3, <3>1, Zenon
  <2>5. CASE m + 1 \in U
    <3>1. Cardinality(V) = Cardinality(U) - 1
      BY <2>2, <2>5, FS_RemoveElement, Zenon
    <3> DEFINE k == Cardinality(U)
               p == [i \in 1..k |-> IF i = k THEN m + 1 ELSE q[i]]
    <3>2. \A i \in 1..k : i # k => i \in 1..Cardinality(V)
      BY <2>2, <3>1
    <3>3. p \in [1..k -> U]
      BY <2>3, <2>5, <3>2, Zenon
    <3>4. \A i \in 1..Cardinality(V) : q[i] \in 1..m
      BY <2>1, <2>3, Zenon
    <3>5. ASSUME NEW i \in 1..k, NEW j \in 1..k, i < j PROVE p[i] < p[j]
      <4>1. i # k /\ i \in 1..Cardinality(V) /\ p[i] = q[i] /\ q[i] \in 1..m
        <5>1. i # k
          BY <2>2, <3>5
        <5> QED BY <3>2, <3>4, <5>1, Zenon
      <4>2. CASE j = k
        BY <4>1, <4>2
      <4>3. CASE j # k
        BY <2>3, <3>2, <3>5, <4>1, <4>3, Zenon
      <4> QED BY <4>2, <4>3, Zenon
    <3> QED BY <3>3, <3>5, Zenon
  <2> QED BY <2>4, <2>5, Zenon
<1>3. Bad = {}
  <2> SUFFICES ASSUME Bad # {} PROVE FALSE
    BY Zenon
  <2>1. PICK m \in Bad : \A k \in Bad : m <= k
    <3>1. Bad \subseteq Nat
      BY Zenon
    <3> HIDE DEF Bad
    <3> QED BY <3>1, LeastNat, Zenon
  <2>2. m \in Nat /\ m # 0 /\ ~P(m)
    <3>1. m \in Nat /\ ~P(m)
      BY <2>1, Zenon
    <3> HIDE DEF P
    <3> QED BY <1>1, <3>1, Zenon
  <2>3. m - 1 \in Nat /\ m - 1 \notin Bad
    <3> HIDE DEF P, Bad
    <3> QED BY <2>1, <2>2
  <2>4. P(m - 1)
    <3> HIDE DEF P
    <3> QED BY <2>3, Zenon
  <2>5. P((m - 1) + 1)
    <3> HIDE DEF P
    <3> QED BY <1>2, <2>3, <2>4, Zenon
  <2>6. (m - 1) + 1 = m
    BY <2>2
  <2> HIDE DEF P
  <2> QED BY <2>2, <2>5, <2>6, Zenon
<1>4. P(n)
  <2> HIDE DEF P
  <2> QED BY <1>3, Zenon
<1> QED BY <1>4, Zenon

(* The list of a filter result has no sequence id twice.                   *)
LEMMA AscendingIs ==
    ASSUME NEW S, S \subseteq Seqs
    PROVE  /\ Ascending(S) \in Seq(S)
           /\ IsInjective(Ascending(S))
<1>1. MaxSeq \in Nat
  BY WritesAssumption, Zenon
<1>2. IsFiniteSet(S) /\ Cardinality(S) \in Nat
  <2>1. IsFiniteSet(Seqs)
    BY <1>1, FS_Interval DEF Seqs
  <2>2. IsFiniteSet(S)
    BY <2>1, FS_Subset, Zenon
  <2> QED BY <2>2, FS_CardinalityType, Zenon
<1> DEFINE q == Ascending(S)
<1>3. /\ q \in [1..Cardinality(S) -> S]
      /\ \A i, j \in DOMAIN q : i < j => q[i] < q[j]
  BY <1>1, AscendingExists, Zenon DEF Ascending, Seqs
<1> HIDE DEF q
<1>4. q \in Seq(S)
  BY <1>2, <1>3
<1>5. \A i \in DOMAIN q : i \in Nat /\ q[i] \in Nat
  <2>1. \A i \in DOMAIN q : i \in 1..Cardinality(S) /\ q[i] \in S
    BY <1>3, Zenon
  <2>2. \A x \in S : x \in Nat
    BY <1>1 DEF Seqs
  <2> QED BY <1>2, <2>1, <2>2
<1>6. IsInjective(q)
  BY <1>3, <1>5 DEF IsInjective
<1> QED BY <1>4, <1>6, Zenon DEF q

-----------------------------------------------------------------------------
(* The inductive invariant for what is stored.                             *)

Docs == [id : Ids \cup {None}, val : SUBSET Fields]
Recs == [id : Ids, seq : Nat, isUpdate : BOOLEAN, old : SUBSET Fields,
         ok : BOOLEAN, new : SUBSET Fields]
Gots == [seq : Seqs, id : Ids, val : SUBSET Fields]
Calls == [pc : {"idle", "lock", "prepare", "index", "store"}, op : Ops \cup {None},
          todo : Seq(Ids), batch : Seq(Ids), recs : Seq(Recs)]
Dels == [pc : {"idle", "fetch", "unindex", "idkey", "dockey", "deferred"},
         ids : Seq(Seqs), got : Seq(Gots)]

Types ==
    /\ idKey \in [Ids -> 0..MaxSeq]
    /\ docs \in [Seqs -> Docs]
    /\ next \in 1..(MaxSeq + 1)
    /\ owner \in [{Stripe[id] : id \in Ids} -> Adders \cup {None}]
    /\ call \in [Adders -> Calls]
    /\ del \in [Removers -> Dels]
    /\ written \in [Seqs -> SUBSET Fields]

(* What a call makes of the old version of a document.                     *)
Merged(op, old) == IF op.kind = "upsert" THEN {op.field} ELSE old \cup {op.field}

(* A call has read only while it has every stripe of its batch, which has  *)
(* no id twice.                                                            *)
CallShape(t) ==
    LET c == call[t] IN
    /\ c.pc # "idle" => c.op \in Ops /\ IsInjective(c.batch)
    /\ c.pc \notin {"index", "store"} => c.recs = <<>>
    /\ c.pc \in {"prepare", "index", "store"} =>
           \A i \in DOMAIN c.batch : owner[Stripe[c.batch[i]]] = t
    /\ \A i \in DOMAIN c.recs :
         /\ i \in DOMAIN c.batch /\ c.recs[i].id = c.batch[i]
         /\ c.recs[i].new = Merged(c.op, c.recs[i].old)
         /\ c.recs[i].isUpdate \/ c.recs[i].ok => c.recs[i].seq \in Seqs
         /\ ~c.recs[i].isUpdate => c.recs[i].old = {}

(* A removal has documents in hand from the fetch on.                      *)
DelOk(n) ==
    /\ n.pc \in {"unindex", "idkey", "dockey"} <=> n.got # <<>>
    /\ IsInjective(n.ids)
    /\ \A i, j \in DOMAIN n.got : n.got[i].seq = n.got[j].seq => i = j

DelShape(d) == DelOk(del[d])

Shapes == /\ \A t \in Adders : CallShape(t)
          /\ \A d \in Removers : DelShape(d)
          /\ \A s \in Seqs : docs[s].id = None => docs[s] = NoDoc /\ written[s] = {}

(* The sequence id s stands for the document id, in the store or in        *)
(* somebody's hands.                                                       *)
Stands(s, id) ==
    \/ docs[s].id = id
    \/ idKey[id] = s
    \/ \E t \in Adders : \E i \in DOMAIN call[t].recs :
         /\ call[t].recs[i].isUpdate \/ call[t].recs[i].ok
         /\ call[t].recs[i].seq = s /\ call[t].recs[i].id = id
    \/ \E d \in Removers : \E i \in DOMAIN del[d].got :
         del[d].got[i].seq = s /\ del[d].got[i].id = id

(* A sequence id stands for one document for ever, also when the document  *)
(* is gone.                                                                *)
OneId ==
    \A s \in Seqs : \A x \in Ids :
        Stands(s, x) => s < next /\ \A y \in Ids : Stands(s, y) => x = y

(* Who has a document in hand while another call has it is known.          *)
Overlaps ==
    /\ \A t \in Adders, d \in Removers : AdditionHas(t) \cap RemovalHas(d) \subseteq raced
    /\ \A d, e \in Removers : d # e => RemovalHas(d) \cap RemovalHas(e) \subseteq raced

(* What a call has read is still so when it writes.                        *)
ReadsHold ==
    \A t \in Adders : \A i \in DOMAIN call[t].recs :
        LET r == call[t].recs[i] IN
        /\ ~r.isUpdate /\ r.ok => docs[r.seq] = NoDoc
        /\ r.id \notin raced /\ r.isUpdate =>
               idKey[r.id] = r.seq /\ docs[r.seq] = [id |-> r.id, val |-> r.old]
        /\ r.id \notin raced /\ ~r.isUpdate => idKey[r.id] = 0

(* The id keys of what a removal has in hand.                              *)
RemovalsHold ==
    \A d \in Removers :
        /\ del[d].pc = "dockey" =>
               Head(del[d].got).id \in raced \/ idKey[Head(del[d].got).id] = 0
        /\ \A i \in DOMAIN del[d].got : del[d].got[i].id \notin raced \cup torn =>
               idKey[del[d].got[i].id] \in {0, del[d].got[i].seq}
-----------------------------------------------------------------------------
(* Types and shapes, step by step.                                         *)

(* What is assumed of the constants, fact by fact.                         *)
LEMMA Constant ==
    /\ Stripe \in [Ids -> Nat] /\ MaxSeq \in Nat /\ RemoveMax \in Nat /\ RemoveMax > 0
    /\ None \notin Ids /\ None \notin Adders /\ None \notin Removers
    /\ \A op \in Ops : /\ op.kind \in {"create", "upsert", "update", "emplace"}
                       /\ op.field \in Fields
                       /\ op.lines \in Seq(Ids) /\ op.lines # <<>>
  BY WritesAssumption

(* The types of a call and of its records.                                 *)
LEMMA CallTyped ==
    ASSUME Types, NEW t \in Adders
    PROVE  /\ call[t] \in Calls
           /\ call[t].todo \in Seq(Ids) /\ call[t].batch \in Seq(Ids)
           /\ call[t].recs \in Seq(Recs)
           /\ \A i \in DOMAIN call[t].recs : call[t].recs[i] \in Recs
<1>1. call[t] \in Calls
  BY Zenon DEF Types
<1>2. call[t].todo \in Seq(Ids) /\ call[t].batch \in Seq(Ids) /\ call[t].recs \in Seq(Recs)
  BY <1>1, Zenon DEF Calls
<1>3. \A q \in Seq(Recs) : \A i \in DOMAIN q : q[i] \in Recs
  OBVIOUS
<1> QED BY <1>1, <1>2, <1>3, Zenon

(* The types of a removal and of what it has read.                         *)
LEMMA DelTyped ==
    ASSUME Types, NEW d \in Removers
    PROVE  /\ del[d] \in Dels
           /\ del[d].ids \in Seq(Seqs) /\ del[d].got \in Seq(Gots)
           /\ \A i \in DOMAIN del[d].got : del[d].got[i] \in Gots
<1>1. del[d] \in Dels
  BY Zenon DEF Types
<1>2. del[d].ids \in Seq(Seqs) /\ del[d].got \in Seq(Gots)
  BY <1>1, Zenon DEF Dels
<1>3. \A q \in Seq(Gots) : \A i \in DOMAIN q : q[i] \in Gots
  OBVIOUS
<1> QED BY <1>1, <1>2, <1>3, Zenon

(* The next batch of a call, or its end, has read nothing yet.             *)
LEMMA NextBatchIs ==
    ASSUME NEW c \in Calls, NEW lines \in Seq(Ids), c.op \in Ops
    PROVE  LET n == NextBatch(c, lines)
           IN  /\ n \in Calls /\ n.recs = <<>>
               /\ n.pc \in {"idle", "lock"}
               /\ n.pc # "idle" => n.op \in Ops /\ IsInjective(n.batch)
<1>1. CASE lines = <<>>
  <2>1. NextBatch(c, lines) = Idle
    BY <1>1, Zenon DEF NextBatch
  <2>2. Idle \in Calls
    BY DEF Idle, Calls
  <2> QED BY <2>1, <2>2 DEF Idle
<1>2. CASE lines # <<>>
  <2> DEFINE b == SubSeq(lines, 1, BatchLen(lines))
             w == SubSeq(lines, BatchLen(lines) + 1, Len(lines))
  <2>1. b \in Seq(Ids) /\ w \in Seq(Ids) /\ IsInjective(b)
    BY <1>2, BatchIs, Zenon
  <2>2. NextBatch(c, lines) = [c EXCEPT !.pc = "lock", !.recs = <<>>, !.batch = b, !.todo = w]
    BY <1>2, Zenon DEF NextBatch
  <2> HIDE DEF b, w
  <2>3. <<>> \in Seq(Recs)
    OBVIOUS
  <2>4. NextBatch(c, lines) = [pc |-> "lock", op |-> c.op, todo |-> w, batch |-> b, recs |-> <<>>]
    BY <2>2, Zenon DEF Calls
  <2> QED BY <2>1, <2>3, <2>4 DEF Calls
<1> QED BY <1>1, <1>2, Zenon

(* The shape of a call that takes no step depends on its stripes only.     *)
LEMMA CallSame ==
    ASSUME NEW u \in Adders, CallShape(u), call'[u] = call[u],
           Types,
           \A s \in {Stripe[id] : id \in Ids} : owner[s] = u => owner'[s] = u
    PROVE  CallShape(u)'
<1>1. \A i \in DOMAIN call[u].batch : Stripe[call[u].batch[i]] \in {Stripe[id] : id \in Ids}
  BY CallTyped
<1> QED BY <1>1 DEF CallShape

(* A removal that does not move keeps its shape.                           *)
LEMMA DelSame ==
    ASSUME NEW e \in Removers, DelShape(e), del'[e] = del[e]
    PROVE  DelShape(e)'
  BY Zenon DEF DelShape

(* Steps that leave the store, and what the calls have read, as they are.  *)
Frame ==
    /\ UNCHANGED <<idKey, docs, next, written, raced, torn>>
    /\ \A t \in Adders : call'[t].recs = call[t].recs
    /\ \A d \in Removers : /\ del'[d].got = del[d].got
                           /\ del'[d].pc = "dockey" <=> del[d].pc = "dockey"

(* The begin of a call moves nothing but the call.                         *)
LEMMA AddManyShape ==
    ASSUME Types, Shapes, NEW t \in Adders, add_many(t)
    PROVE  Types' /\ Shapes' /\ Frame
<1>1. PICK op \in Ops : call' = [call EXCEPT ![t] = NextBatch([Idle EXCEPT !.op = op], op.lines)]
  BY Zenon DEF add_many
<1> DEFINE c == [Idle EXCEPT !.op = op]
<1>2. c \in Calls /\ c.op \in Ops
  <2>1. c = [pc |-> "idle", op |-> op, todo |-> <<>>, batch |-> <<>>, recs |-> <<>>]
    BY DEF Idle
  <2>2. <<>> \in Seq(Ids) /\ <<>> \in Seq(Recs)
    OBVIOUS
  <2> QED BY <2>1, <2>2, Zenon DEF Calls
<1> DEFINE n == NextBatch(c, op.lines)
<1>3. /\ n \in Calls /\ n.recs = <<>> /\ n.pc \in {"idle", "lock"}
      /\ n.pc # "idle" => n.op \in Ops /\ IsInjective(n.batch)
  BY <1>2, NextBatchIs, Constant, Zenon
<1>4. call' = [call EXCEPT ![t] = n]
  BY <1>1, Zenon
<1> HIDE DEF c, n
<1>5. /\ UNCHANGED <<idKey, docs, next, written, raced, torn, owner, del>>
      /\ call[t].pc = "idle"
  BY Zenon DEF add_many, stored
<1>6. call' \in [Adders -> Calls] /\ call'[t] = n /\ \A u \in Adders : u # t => call'[u] = call[u]
  BY <1>3, <1>4, Zenon DEF Types
<1>7. call[t].recs = <<>>
  BY <1>5, Zenon DEF Shapes, CallShape
<1>8. CallShape(t)'
  BY <1>3, <1>6 DEF CallShape
<1>9. ASSUME NEW u \in Adders, u # t PROVE CallShape(u)'
  BY <1>5, <1>6, <1>9, CallSame, Zenon DEF Shapes
<1>10. \A d \in Removers : DelShape(d)'
  BY <1>5, DelSame, Zenon DEF Shapes
<1>11. Types'
  BY <1>5, <1>6, Zenon DEF Types
<1>12. Shapes'
  BY <1>5, <1>8, <1>9, <1>10, Zenon DEF Shapes
<1>13. Frame
  BY <1>3, <1>5, <1>6, <1>7, Zenon DEF Frame
<1> QED BY <1>11, <1>12, <1>13, Zenon

(* A call has every stripe of its batch once it prepares.                  *)
LEMMA LockStripeShape ==
    ASSUME Types, Shapes, NEW t \in Adders, LockStripe(t)
    PROVE  Types' /\ Shapes' /\ Frame
<1>1. PICK s : LockOne(t, s) /\ call[t].pc = "lock"
  BY Zenon DEF LockStripe
<1>2. /\ UNCHANGED <<idKey, docs, next, written, raced, torn, del>>
      /\ owner[s] = None /\ owner' = [owner EXCEPT ![s] = t]
      /\ call' = [call EXCEPT ![t].pc = IF Missing(t) = {s} THEN "prepare" ELSE "lock"]
  BY <1>1, Zenon DEF LockOne, stored
<1>3. PICK p \in {"prepare", "lock"} :
        /\ p = "prepare" => Missing(t) = {s}
        /\ call' = [call EXCEPT ![t].pc = p]
  BY <1>2, Zenon
<1>4. /\ \A u \in Adders : u # t => call'[u] = call[u]
      /\ call'[t] = [call[t] EXCEPT !.pc = p]
  BY <1>3, Zenon DEF Types
<1>5. /\ call'[t].pc = p /\ call'[t].op = call[t].op /\ call'[t].todo = call[t].todo
      /\ call'[t].batch = call[t].batch /\ call'[t].recs = call[t].recs /\ call'[t] \in Calls
  BY <1>4, CallTyped, Zenon DEF Calls
<1>6. call' \in [Adders -> Calls]
  BY <1>3, <1>5, Zenon DEF Types
<1>7. \A x \in {Stripe[id] : id \in Ids} : owner'[x] = IF x = s THEN t ELSE owner[x]
  BY <1>2, Zenon DEF Types
<1>8. CallShape(t)'
  <2>1. call[t].recs = <<>> /\ call[t].op \in Ops /\ IsInjective(call[t].batch)
    BY <1>1, Zenon DEF Shapes, CallShape
  <2>2. ASSUME p = "prepare", NEW i \in DOMAIN call[t].batch
        PROVE  owner'[Stripe[call[t].batch[i]]] = t
    <3>1. call[t].batch[i] \in Ids /\ call[t].batch[i] \in Range(call[t].batch)
      BY CallTyped DEF Range
    <3>2. \A x : x \in Missing(t) <=> x = s
      BY <1>3, <2>2, Zenon
    <3> QED BY <1>7, <3>1, <3>2, Zenon DEF Missing
  <2> QED BY <1>5, <2>1, <2>2 DEF CallShape
<1>9. ASSUME NEW u \in Adders, u # t PROVE CallShape(u)'
  <2>1. \A x \in {Stripe[id] : id \in Ids} : owner[x] = u => owner'[x] = u
    BY <1>2, <1>7, Constant, Zenon
  <2>2. call'[u] = call[u] /\ CallShape(u)
    BY <1>4, <1>9, Zenon DEF Shapes
  <2> QED BY <2>1, <2>2, CallSame, Zenon
<1>10. \A d \in Removers : DelShape(d)'
  BY <1>2, DelSame, Zenon DEF Shapes
<1>11. Types'
  BY <1>2, <1>6, Zenon DEF Types
<1>12. Shapes'
  BY <1>2, <1>8, <1>9, <1>10, Zenon DEF Shapes
<1>13. Frame
  BY <1>2, <1>4, <1>5, Zenon DEF Frame
<1> QED BY <1>11, <1>12, <1>13, Zenon

(* The memory index of a batch leaves the store as it is.                  *)
LEMMA MemoryIndexShape ==
    ASSUME Types, Shapes, NEW t \in Adders, batch_memory_index(t)
    PROVE  Types' /\ Shapes' /\ Frame
<1>1. /\ UNCHANGED <<idKey, docs, next, written, raced, torn, owner, del>>
      /\ call[t].pc = "index" /\ call' = [call EXCEPT ![t].pc = "store"]
  BY Zenon DEF batch_memory_index, stored, locks
<1>2. /\ \A u \in Adders : u # t => call'[u] = call[u]
      /\ call'[t] = [call[t] EXCEPT !.pc = "store"]
  BY <1>1, Zenon DEF Types
<1>3. /\ call'[t].pc = "store" /\ call'[t].op = call[t].op /\ call'[t].todo = call[t].todo
      /\ call'[t].batch = call[t].batch /\ call'[t].recs = call[t].recs /\ call'[t] \in Calls
  BY <1>2, CallTyped, Zenon DEF Calls
<1>4. call' \in [Adders -> Calls]
  BY <1>1, <1>3, Zenon DEF Types
<1>5. CallShape(t)'
  <2>1. CallShape(t)
    BY Zenon DEF Shapes
  <2> QED BY <1>1, <1>3, <2>1 DEF CallShape
<1>6. ASSUME NEW u \in Adders, u # t PROVE CallShape(u)'
  BY <1>1, <1>2, <1>6, CallSame, Zenon DEF Shapes
<1>7. \A d \in Removers : DelShape(d)'
  BY <1>1, DelSame, Zenon DEF Shapes
<1>8. Types'
  BY <1>1, <1>4, Zenon DEF Types
<1>9. Shapes'
  BY <1>1, <1>5, <1>6, <1>7, Zenon DEF Shapes
<1>10. Frame
  BY <1>1, <1>2, <1>3, Zenon DEF Frame
<1> QED BY <1>8, <1>9, <1>10, Zenon

(* An exception of the indexing fails the records of the batch and changes *)
(* nothing else of the call.                                               *)
LEMMA ThrowEffect ==
    ASSUME Types, NEW t \in Adders, IndexThrows(t)
    PROVE  /\ UNCHANGED <<idKey, docs, next, written, raced, torn, owner, del>>
           /\ call[t].pc = "index" /\ call' \in [Adders -> Calls]
           /\ \A u \in Adders : u # t => call'[u] = call[u]
           /\ call'[t].pc = "store" /\ call'[t].op = call[t].op /\ call'[t].todo = call[t].todo
           /\ call'[t].batch = call[t].batch
           /\ DOMAIN call'[t].recs = DOMAIN call[t].recs
           /\ \A i \in DOMAIN call[t].recs :
                LET r == call[t].recs[i]
                    q == call'[t].recs[i]
                IN  /\ ~q.ok /\ q.id = r.id /\ q.seq = r.seq /\ q.isUpdate = r.isUpdate
                    /\ q.old = r.old /\ q.new = r.new
<1>1. /\ UNCHANGED <<idKey, docs, next, written, raced, torn, owner, del>>
      /\ call[t].pc = "index"
      /\ call' = [call EXCEPT ![t].pc = "store", ![t].recs = Failed(@)]
  BY Zenon DEF IndexThrows, stored, locks
<1>2. call[t] \in Calls /\ call[t].recs \in Seq(Recs)
      /\ \A i \in DOMAIN call[t].recs : call[t].recs[i] \in Recs
  BY CallTyped, Zenon
<1>3. PICK f : f = Failed(call[t].recs)
  BY Zenon
<1>4. /\ DOMAIN f = DOMAIN call[t].recs
      /\ \A i \in DOMAIN call[t].recs : f[i] = [call[t].recs[i] EXCEPT !.ok = FALSE]
  BY <1>3, Zenon DEF Failed
<1>5. \A r \in Recs : \A q : q = [r EXCEPT !.ok = FALSE] =>
        /\ q \in Recs /\ ~q.ok /\ q.id = r.id /\ q.seq = r.seq
        /\ q.isUpdate = r.isUpdate /\ q.old = r.old /\ q.new = r.new
  BY DEF Recs
<1>6. \A i \in DOMAIN call[t].recs :
        LET r == call[t].recs[i]
        IN  /\ f[i] \in Recs /\ ~f[i].ok /\ f[i].id = r.id /\ f[i].seq = r.seq
            /\ f[i].isUpdate = r.isUpdate /\ f[i].old = r.old /\ f[i].new = r.new
  BY <1>2, <1>4, <1>5, Zenon
<1>7. f \in Seq(Recs)
  <2>1. Len(call[t].recs) \in Nat /\ DOMAIN call[t].recs = 1..Len(call[t].recs)
    BY <1>2
  <2>2. f \in [1..Len(call[t].recs) -> Recs]
    <3>1. f = [i \in DOMAIN call[t].recs |-> f[i]]
      BY <1>3, Zenon DEF Failed
    <3>2. \A i \in DOMAIN call[t].recs : f[i] \in Recs
      BY <1>6, Zenon
    <3> QED BY <2>1, <3>1, <3>2, Zenon
  <2> QED BY <2>1, <2>2
<1>8. /\ \A u \in Adders : u # t => call'[u] = call[u]
      /\ call'[t] = [call[t] EXCEPT !.pc = "store", !.recs = f]
      /\ call' = [call EXCEPT ![t] = [call[t] EXCEPT !.pc = "store", !.recs = f]]
  BY <1>1, <1>3, Zenon DEF Types
<1>9. /\ call'[t].pc = "store" /\ call'[t].op = call[t].op /\ call'[t].todo = call[t].todo
      /\ call'[t].batch = call[t].batch /\ call'[t].recs = f /\ call'[t] \in Calls
  <2>1. \A c \in Calls : \A n : n = [c EXCEPT !.pc = "store", !.recs = f] =>
          /\ n \in Calls /\ n.pc = "store" /\ n.op = c.op /\ n.todo = c.todo
          /\ n.batch = c.batch /\ n.recs = f
    BY <1>7 DEF Calls
  <2> QED BY <1>2, <1>8, <2>1, Zenon
<1>10. call' \in [Adders -> Calls]
  BY <1>8, <1>9, Zenon DEF Types
<1> QED BY <1>1, <1>4, <1>6, <1>8, <1>9, <1>10, Zenon

(* A step of one removal leaves the others alone.                          *)
LEMMA DelStep ==
    ASSUME Types, Shapes, NEW d \in Removers, NEW n \in Dels, DelOk(n),
           del' = [del EXCEPT ![d] = n], UNCHANGED <<call, owner>>
    PROVE  /\ del' \in [Removers -> Dels] /\ del'[d] = n
           /\ \A e \in Removers : e # d => del'[e] = del[e]
           /\ \A e \in Removers : DelShape(e)'
           /\ \A t \in Adders : CallShape(t)'
<1>1. /\ del' \in [Removers -> Dels] /\ del'[d] = n
      /\ \A e \in Removers : e # d => del'[e] = del[e]
  BY Zenon DEF Types
<1>2. DelShape(d)'
  BY <1>1, Zenon DEF DelShape
<1>3. \A e \in Removers : e # d => DelShape(e)'
  BY <1>1, DelSame, Zenon DEF Shapes
<1>4. \A t \in Adders : CallShape(t)'
  BY CallSame, Zenon DEF Shapes
<1> QED BY <1>1, <1>2, <1>3, <1>4, Zenon

(* The begin of a removal moves nothing but the removal.                   *)
LEMMA DeleteShape ==
    ASSUME Types, Shapes, NEW d \in Removers, del_remove_documents(d) \/ remove(d)
    PROVE  Types' /\ Shapes' /\ Frame
<1>1. /\ UNCHANGED <<idKey, docs, next, written, raced, torn, owner, call>>
      /\ del[d].pc = "idle"
  BY Zenon DEF del_remove_documents, remove, stored
<1>2. PICK ids \in Seq(Seqs) :
        /\ IsInjective(ids)
        /\ del' = [del EXCEPT ![d] = [pc |-> "fetch", ids |-> ids, got |-> <<>>]]
  <2>1. CASE del_remove_documents(d)
    <3>1. PICK f \in Filters :
            del' = [del EXCEPT ![d] = [pc |-> "fetch", ids |-> FilterIds(f), got |-> <<>>]]
      BY <2>1, Zenon DEF del_remove_documents
    <3> DEFINE S == {s \in Seqs : f \in index[s]}
    <3>2. S \subseteq Seqs /\ FilterIds(f) = Ascending(S)
      BY Zenon DEF FilterIds
    <3> HIDE DEF S
    <3>3. FilterIds(f) \in Seq(S) /\ IsInjective(FilterIds(f))
      BY <3>2, AscendingIs, Zenon
    <3>4. FilterIds(f) \in Seq(Seqs)
      BY <3>2, <3>3
    <3> QED BY <3>1, <3>3, <3>4, Zenon
  <2>2. CASE remove(d)
    <3>1. PICK id \in Ids :
            /\ idKey[id] # 0
            /\ del' = [del EXCEPT ![d] = [pc |-> "fetch", ids |-> <<idKey[id]>>, got |-> <<>>]]
      BY <2>2, Zenon DEF remove
    <3>2. idKey[id] \in Seqs
      BY <3>1, Constant DEF Types, Seqs
    <3>3. <<idKey[id]>> \in Seq(Seqs) /\ IsInjective(<<idKey[id]>>)
      BY <3>2 DEF IsInjective
    <3> QED BY <3>1, <3>3, Zenon
  <2> QED BY <2>1, <2>2, Zenon
<1> DEFINE n == [pc |-> "fetch", ids |-> ids, got |-> <<>>]
<1>3. n \in Dels /\ DelOk(n)
  <2>1. <<>> \in Seq(Gots)
    OBVIOUS
  <2> QED BY <1>2, <2>1 DEF Dels, DelOk
<1>4. del' = [del EXCEPT ![d] = n] /\ n.pc = "fetch" /\ n.got = <<>>
  BY <1>2, Zenon
<1> HIDE DEF n
<1>5. /\ del' \in [Removers -> Dels] /\ del'[d] = n
      /\ \A e \in Removers : e # d => del'[e] = del[e]
      /\ \A e \in Removers : DelShape(e)'
      /\ \A t \in Adders : CallShape(t)'
  BY <1>1, <1>3, <1>4, DelStep, Zenon
<1>6. del[d].got = <<>>
  BY <1>1, Zenon DEF Shapes, DelShape, DelOk
<1>7. Types'
  BY <1>1, <1>5, Zenon DEF Types
<1>8. Shapes'
  BY <1>1, <1>5, Zenon DEF Shapes
<1>9. Frame
  BY <1>1, <1>4, <1>5, <1>6, Zenon DEF Frame
<1> QED BY <1>7, <1>8, <1>9, Zenon

(* Steps of a removal that only move it on.                                *)
LEMMA MoveShape ==
    ASSUME Types, Shapes, NEW d \in Removers, NEW p \in {"idkey", "dockey", "fetch"},
           del' = [del EXCEPT ![d].pc = p], UNCHANGED <<call, owner>>,
           p = "fetch" <=> del[d].got = <<>>
    PROVE  /\ del' \in [Removers -> Dels]
           /\ del'[d].pc = p /\ del'[d].got = del[d].got /\ del'[d].ids = del[d].ids
           /\ \A e \in Removers : e # d => del'[e] = del[e]
           /\ \A e \in Removers : DelShape(e)'
           /\ \A t \in Adders : CallShape(t)'
<1> DEFINE n == [del[d] EXCEPT !.pc = p]
<1>1. n \in Dels /\ n.pc = p /\ n.ids = del[d].ids /\ n.got = del[d].got
  BY DelTyped, Zenon DEF Dels
<1>2. del' = [del EXCEPT ![d] = n]
  BY Zenon DEF Types
<1> HIDE DEF n
<1>3. DelOk(n)
  BY <1>1 DEF Shapes, DelShape, DelOk
<1>4. /\ del' \in [Removers -> Dels] /\ del'[d] = n
      /\ \A e \in Removers : e # d => del'[e] = del[e]
      /\ \A e \in Removers : DelShape(e)'
      /\ \A t \in Adders : CallShape(t)'
  BY <1>1, <1>2, <1>3, DelStep, Zenon
<1> QED BY <1>1, <1>4, Zenon

(* Two steps of a removal that leave the store as it is.                   *)
LEMMA RemovalMovesShape ==
    ASSUME Types, Shapes, NEW d \in Removers,
           remove_if_found_many(d) \/ on_deferred_process_request(d)
    PROVE  Types' /\ Shapes' /\ Frame
<1>1. PICK p \in {"idkey", "fetch"} :
        /\ del' = [del EXCEPT ![d].pc = p]
        /\ p = "idkey" <=> del[d].pc = "unindex"
        /\ p = "fetch" <=> del[d].pc = "deferred"
  BY Zenon DEF remove_if_found_many, on_deferred_process_request
<1>2. UNCHANGED <<idKey, docs, next, written, raced, torn, owner, call>>
  BY Zenon DEF remove_if_found_many, on_deferred_process_request, stored, locks
<1>3. p = "fetch" <=> del[d].got = <<>>
  BY <1>1, Zenon DEF Shapes, DelShape, DelOk
<1>4. /\ del' \in [Removers -> Dels]
      /\ del'[d].pc = p /\ del'[d].got = del[d].got
      /\ \A e \in Removers : e # d => del'[e] = del[e]
      /\ \A e \in Removers : DelShape(e)'
      /\ \A t \in Adders : CallShape(t)'
  BY <1>1, <1>2, <1>3, MoveShape, Zenon
<1>5. del[d].pc # "dockey" /\ p # "dockey"
  BY <1>1, Zenon
<1>6. Types'
  BY <1>2, <1>4, Zenon DEF Types
<1>7. Shapes'
  BY <1>2, <1>4, Zenon DEF Shapes
<1>8. Frame
  BY <1>2, <1>4, <1>5, Zenon DEF Frame
<1> QED BY <1>6, <1>7, <1>8, Zenon

-----------------------------------------------------------------------------
(* What is stored, step by step.                                           *)

Kept == OneId /\ Overlaps /\ ReadsHold /\ RemovalsHold /\ UpdatesKept /\ IdsResolve

(* A step that leaves the store and what was read keeps the invariant.     *)
LEMMA FrameKeeps ==
    ASSUME Types, Kept, Frame
    PROVE  Kept'
<1>1. /\ idKey' = idKey /\ docs' = docs /\ next' = next /\ written' = written
      /\ raced' = raced /\ torn' = torn
  BY Zenon DEF Frame
<1>2. \A t \in Adders : call'[t].recs = call[t].recs
  BY Zenon DEF Frame
<1>3. \A d \in Removers : del'[d].got = del[d].got /\ (del'[d].pc = "dockey" <=> del[d].pc = "dockey")
  BY Zenon DEF Frame
<1>4. OneId'
  <2>1. \A s, x : Stands(s, x)' <=> Stands(s, x)
    BY <1>1, <1>2, <1>3 DEF Stands
  <2> QED BY <1>1, <2>1, Zenon DEF Kept, OneId
<1>5. Overlaps'
  <2>1. /\ \A t \in Adders : AdditionHas(t)' = AdditionHas(t)
        /\ \A d \in Removers : RemovalHas(d)' = RemovalHas(d)
    BY <1>2, <1>3, Zenon DEF AdditionHas, RemovalHas
  <2> QED BY <1>1, <2>1, Zenon DEF Kept, Overlaps
<1>6. ReadsHold'
  BY <1>1, <1>2 DEF Kept, ReadsHold
<1>7. RemovalsHold'
  BY <1>1, <1>3, Zenon DEF Kept, RemovalsHold
<1>8. UpdatesKept'
  BY <1>1, Zenon DEF Kept, UpdatesKept
<1>9. IdsResolve'
  <2>1. ASSUME NEW s \in Seqs, docs[s] # NoDoc, docs[s].id \notin raced \cup torn
        PROVE  \/ idKey[docs[s].id] = s
               \/ \E d \in Removers : del'[d].pc = "dockey" /\ Head(del'[d].got).seq = s
    <3>1. CASE idKey[docs[s].id] = s
      BY <3>1, Zenon
    <3>2. CASE \E d \in Removers : del[d].pc = "dockey" /\ Head(del[d].got).seq = s
      BY <1>3, <3>2, Zenon
    <3> QED BY <2>1, <3>1, <3>2, Zenon DEF Kept, IdsResolve
  <2> QED BY <1>1, <2>1, Zenon DEF Kept, IdsResolve
<1> QED BY <1>4, <1>5, <1>6, <1>7, <1>8, <1>9, Zenon DEF Kept

(* An exception of the indexing gives up what the call was about to write. *)
LEMMA ThrowKeeps ==
    ASSUME Types, Shapes, Kept, NEW t \in Adders, IndexThrows(t)
    PROVE  Types' /\ Shapes' /\ Kept'
<1>1. /\ UNCHANGED <<idKey, docs, next, written, raced, torn, owner, del>>
      /\ call[t].pc = "index" /\ call' \in [Adders -> Calls]
      /\ \A u \in Adders : u # t => call'[u] = call[u]
      /\ call'[t].pc = "store" /\ call'[t].op = call[t].op /\ call'[t].batch = call[t].batch
  BY ThrowEffect, Zenon
<1>2. \A u \in Adders : DOMAIN call'[u].recs = DOMAIN call[u].recs
  BY <1>1, ThrowEffect, Zenon
<1>3. \A u \in Adders : \A i \in DOMAIN call[u].recs :
        LET r == call[u].recs[i]
            q == call'[u].recs[i]
        IN  /\ q.ok => r.ok
            /\ q.id = r.id /\ q.seq = r.seq /\ q.isUpdate = r.isUpdate
            /\ q.old = r.old /\ q.new = r.new
  BY <1>1, ThrowEffect, Zenon
<1>4. Types'
  BY <1>1, Zenon DEF Types
<1>5. CallShape(t)'
  <2>1. CallShape(t)
    BY Zenon DEF Shapes
  <2> QED BY <1>1, <1>2, <1>3, <2>1 DEF CallShape
<1>6. ASSUME NEW u \in Adders, u # t PROVE CallShape(u)'
  BY <1>1, <1>6, CallSame, Zenon DEF Shapes
<1>7. \A d \in Removers : DelShape(d)'
  BY <1>1, DelSame, Zenon DEF Shapes
<1>8. Shapes'
  BY <1>1, <1>5, <1>6, <1>7, Zenon DEF Shapes
<1>9. OneId'
  <2>1. \A s \in Seqs, x \in Ids : Stands(s, x)' => Stands(s, x)
    BY <1>1, <1>2, <1>3 DEF Stands
  <2> QED BY <1>1, <2>1, Zenon DEF Kept, OneId
<1>10. Overlaps'
  <2>1. \A u \in Adders : \A x : x \in AdditionHas(u)' => x \in AdditionHas(u)
    BY <1>2, <1>3, Zenon DEF AdditionHas
  <2>2. \A d \in Removers : RemovalHas(d)' = RemovalHas(d)
    BY <1>1, Zenon DEF RemovalHas
  <2> QED BY <1>1, <2>1, <2>2, Zenon DEF Kept, Overlaps
<1>11. ReadsHold'
  <2>1. ASSUME NEW u \in Adders, NEW i \in DOMAIN call[u].recs
        PROVE  LET q == call'[u].recs[i] IN
               /\ ~q.isUpdate /\ q.ok => docs[q.seq] = NoDoc
               /\ q.id \notin raced /\ q.isUpdate =>
                      idKey[q.id] = q.seq /\ docs[q.seq] = [id |-> q.id, val |-> q.old]
               /\ q.id \notin raced /\ ~q.isUpdate => idKey[q.id] = 0
    <3>1. PICK r : r = call[u].recs[i]
      BY Zenon
    <3>2. PICK q : q = call'[u].recs[i]
      BY Zenon
    <3>3. /\ q.ok => r.ok
          /\ q.id = r.id /\ q.seq = r.seq /\ q.isUpdate = r.isUpdate /\ q.old = r.old
      BY <1>3, <3>1, <3>2, Zenon
    <3>4. /\ ~r.isUpdate /\ r.ok => docs[r.seq] = NoDoc
          /\ r.id \notin raced /\ r.isUpdate =>
                 idKey[r.id] = r.seq /\ docs[r.seq] = [id |-> r.id, val |-> r.old]
          /\ r.id \notin raced /\ ~r.isUpdate => idKey[r.id] = 0
      BY <3>1, Zenon DEF Kept, ReadsHold
    <3> QED BY <3>2, <3>3, <3>4, Zenon
  <2> QED BY <1>1, <1>2, <2>1, Zenon DEF ReadsHold
<1>12. RemovalsHold' /\ UpdatesKept' /\ IdsResolve'
  BY <1>1, Zenon DEF Kept, RemovalsHold, UpdatesKept, IdsResolve
<1> QED BY <1>4, <1>8, <1>9, <1>10, <1>11, <1>12, Zenon DEF Kept

(* Nothing is stored and nobody has anything in hand at first.             *)
LEMMA InitKept ==
    ASSUME Init
    PROVE  Types /\ Shapes /\ Kept
<1>1. /\ idKey = [id \in Ids |-> 0] /\ docs = [s \in Seqs |-> NoDoc] /\ next = 1
      /\ owner = [s \in {Stripe[id] : id \in Ids} |-> None]
      /\ call = [t \in Adders |-> Idle] /\ del = [d \in Removers |-> NoDelete]
      /\ written = [s \in Seqs |-> {}] /\ raced = {} /\ torn = {}
  BY Zenon DEF Init
<1>2. <<>> \in Seq(Ids) /\ <<>> \in Seq(Recs) /\ <<>> \in Seq(Seqs) /\ <<>> \in Seq(Gots)
  OBVIOUS
<1>3. Idle \in Calls /\ NoDelete \in Dels /\ NoDoc \in Docs
  BY <1>2, Zenon DEF Idle, NoDelete, NoDoc, Calls, Dels, Docs
<1>4. Types
  BY <1>1, <1>3, Constant DEF Types
<1>5. \A t \in Adders : call[t] = Idle /\ call[t].pc = "idle" /\ call[t].recs = <<>>
  BY <1>1, Zenon DEF Idle
<1>6. \A d \in Removers : del[d] = NoDelete /\ del[d].pc = "idle" /\ del[d].got = <<>>
                          /\ del[d].ids = <<>>
  BY <1>1, Zenon DEF NoDelete
<1>7. Shapes
  <2>1. \A t \in Adders : CallShape(t)
    BY <1>5 DEF CallShape
  <2>2. \A d \in Removers : DelShape(d)
    BY <1>6 DEF DelShape, DelOk, IsInjective
  <2> QED BY <1>1, <2>1, <2>2, Zenon DEF Shapes
<1>8. OneId
  <2>1. \A s \in Seqs, x \in Ids : ~Stands(s, x)
    <3>1. \A s \in Seqs : s # 0 /\ docs[s].id = None
      BY <1>1, Constant DEF Seqs, NoDoc
    <3> QED BY <1>1, <1>5, <1>6, <3>1, Constant DEF Stands
  <2> QED BY <2>1, Zenon DEF OneId
<1>9. Overlaps
  BY <1>5, <1>6 DEF Overlaps, AdditionHas, RemovalHas
<1>10. ReadsHold /\ RemovalsHold
  BY <1>5, <1>6 DEF ReadsHold, RemovalsHold
<1>11. UpdatesKept /\ IdsResolve
  BY <1>1, Zenon DEF UpdatesKept, IdsResolve
<1> QED BY <1>4, <1>7, <1>8, <1>9, <1>10, <1>11, Zenon DEF Kept

(* A crash drops what calls and removals had in hand.                      *)
LEMMA CrashKeeps ==
    ASSUME Types, Shapes, Kept, Crash
    PROVE  Types' /\ Shapes' /\ Kept'
<1>1. /\ idKey' = idKey /\ docs' = docs /\ next' = next /\ written' = written /\ raced' = raced
      /\ owner' = [s \in DOMAIN owner |-> None] /\ torn' = torn \cup Stranded
      /\ call' = [t \in Adders |-> Idle] /\ del' = [d \in Removers |-> NoDelete]
  BY Zenon DEF Crash, stored
<1>2. <<>> \in Seq(Ids) /\ <<>> \in Seq(Recs) /\ <<>> \in Seq(Seqs) /\ <<>> \in Seq(Gots)
  OBVIOUS
<1>3. Idle \in Calls /\ NoDelete \in Dels
  BY <1>2, Zenon DEF Idle, NoDelete, Calls, Dels
<1>4. Types'
  BY <1>1, <1>3, Zenon DEF Types
<1>5. \A t \in Adders : call'[t] = Idle /\ call'[t].pc = "idle" /\ call'[t].recs = <<>>
  BY <1>1, Zenon DEF Idle
<1>6. \A d \in Removers : del'[d] = NoDelete /\ del'[d].pc = "idle" /\ del'[d].got = <<>>
                          /\ del'[d].ids = <<>>
  BY <1>1, Zenon DEF NoDelete
<1>7. Shapes'
  <2>1. \A t \in Adders : CallShape(t)'
    BY <1>5 DEF CallShape
  <2>2. \A d \in Removers : DelShape(d)'
    BY <1>6 DEF DelShape, DelOk, IsInjective
  <2> QED BY <1>1, <2>1, <2>2, Zenon DEF Shapes
<1>8. OneId'
  <2>1. \A s \in Seqs, x \in Ids : Stands(s, x)' => Stands(s, x)
    BY <1>1, <1>5, <1>6 DEF Stands
  <2> QED BY <1>1, <2>1, Zenon DEF Kept, OneId
<1>9. Overlaps'
  BY <1>5, <1>6 DEF Overlaps, AdditionHas, RemovalHas
<1>10. ReadsHold' /\ RemovalsHold'
  BY <1>5, <1>6 DEF ReadsHold, RemovalsHold
<1>11. UpdatesKept'
  BY <1>1, Zenon DEF Kept, UpdatesKept
<1>12. IdsResolve'
  <2>1. ASSUME NEW s \in Seqs, docs[s] # NoDoc, docs[s].id \notin raced \cup torn'
        PROVE  idKey[docs[s].id] = s
    <3>1. docs[s].id \in Ids
      BY <2>1, Zenon DEF Types, Shapes, Docs
    <3> QED BY <1>1, <2>1, <3>1, Zenon DEF Stranded
  <2> QED BY <1>1, <2>1, Zenon DEF Kept, IdsResolve
<1> QED BY <1>4, <1>7, <1>8, <1>9, <1>10, <1>11, <1>12, Zenon DEF Kept

(* What a removal deletes next.                                            *)
LEMMA Handed ==
    ASSUME Types, Shapes, NEW d \in Removers, del[d].pc \in {"unindex", "idkey", "dockey"}
    PROVE  /\ 1 \in DOMAIN del[d].got /\ Head(del[d].got) = del[d].got[1]
           /\ Head(del[d].got) \in Gots
           /\ Head(del[d].got).seq \in Seqs /\ Head(del[d].got).id \in Ids
           /\ Head(del[d].got).id \in RemovalHas(d)
<1>1. del[d].got \in Seq(Gots) /\ del[d].got # <<>>
  BY DelTyped, Zenon DEF Shapes, DelShape, DelOk
<1>2. 1 \in DOMAIN del[d].got /\ Head(del[d].got) = del[d].got[1] /\ Head(del[d].got) \in Gots
  BY <1>1
<1>3. Head(del[d].got).id \in RemovalHas(d)
  BY <1>2, Zenon DEF RemovalHas
<1> QED BY <1>2, <1>3, Zenon DEF Gots

(* Two hands on one sequence id have the same document.                    *)
LEMMA SameDocument ==
    ASSUME Kept, NEW s \in Seqs, NEW x \in Ids, NEW y \in Ids, Stands(s, x), Stands(s, y)
    PROVE  x = y
  BY Zenon DEF Kept, OneId

(* What a removal has read stands for its document.                        *)
LEMMA RemovalStands ==
    ASSUME Types, NEW d \in Removers, NEW i \in DOMAIN del[d].got
    PROVE  /\ del[d].got[i].seq \in Seqs /\ del[d].got[i].id \in Ids
           /\ Stands(del[d].got[i].seq, del[d].got[i].id)
           /\ del[d].got[i].id \in RemovalHas(d)
<1>1. del[d].got[i] \in Gots
  BY DelTyped, Zenon
<1> QED BY <1>1, Zenon DEF Gots, Stands, RemovalHas

(* So does what a call has read or reserved.                               *)
LEMMA RecordStands ==
    ASSUME Types, Shapes, NEW t \in Adders, NEW i \in DOMAIN call[t].recs
    PROVE  /\ call[t].recs[i] \in Recs /\ call[t].recs[i].id \in Ids
           /\ call[t].recs[i].id \in AdditionHas(t)
           /\ call[t].recs[i].isUpdate \/ call[t].recs[i].ok =>
                  /\ call[t].recs[i].seq \in Seqs
                  /\ Stands(call[t].recs[i].seq, call[t].recs[i].id)
<1>1. call[t].recs[i] \in Recs
  BY CallTyped, Zenon
<1>2. call[t].recs[i].isUpdate \/ call[t].recs[i].ok => call[t].recs[i].seq \in Seqs
  BY Zenon DEF Shapes, CallShape
<1> QED BY <1>1, <1>2, Zenon DEF Recs, Stands, AdditionHas

(* So does an id key.                                                      *)
LEMMA IdKeyStands ==
    ASSUME Types, NEW id \in Ids, idKey[id] # 0
    PROVE  idKey[id] \in Seqs /\ Stands(idKey[id], id)
  BY Constant DEF Types, Seqs, Stands

(* A removal deletes the id key first.                                     *)
LEMMA RemoveIdKeyKeeps ==
    ASSUME Types, Shapes, Kept, NEW d \in Removers, RemoveIdKey(d)
    PROVE  Types' /\ Shapes' /\ Kept'
<1> DEFINE h == Head(del[d].got)
<1>1. /\ docs' = docs /\ next' = next /\ written' = written /\ raced' = raced /\ torn' = torn
      /\ UNCHANGED <<call, owner>>
      /\ idKey' = [idKey EXCEPT ![h.id] = 0]
      /\ del[d].pc = "idkey" /\ del' = [del EXCEPT ![d].pc = "dockey"]
  BY Zenon DEF RemoveIdKey, locks
<1>2. h.seq \in Seqs /\ h.id \in Ids /\ h.id \in RemovalHas(d)
      /\ 1 \in DOMAIN del[d].got /\ h = del[d].got[1]
  BY <1>1, Handed, Zenon
<1>3. \A x \in Ids : idKey'[x] = IF x = h.id THEN 0 ELSE idKey[x]
  BY <1>1, <1>2, Zenon DEF Types
<1>4. del[d].got # <<>>
  BY <1>1, Zenon DEF Shapes, DelShape, DelOk
<1>5. /\ del' \in [Removers -> Dels]
      /\ del'[d].pc = "dockey" /\ del'[d].got = del[d].got
      /\ \A e \in Removers : e # d => del'[e] = del[e]
      /\ \A e \in Removers : DelShape(e)'
      /\ \A t \in Adders : CallShape(t)'
  <2>1. PICK p \in {"idkey", "dockey", "fetch"} : p = "dockey"
    BY Zenon
  <2>2. del' = [del EXCEPT ![d].pc = p] /\ (p = "fetch" <=> del[d].got = <<>>)
    BY <1>1, <1>4, <2>1, Zenon
  <2>3. UNCHANGED <<call, owner>>
    BY <1>1, Zenon
  <2> QED BY <2>1, <2>2, <2>3, MoveShape, Zenon
<1> HIDE DEF h
<1>6. Types'
  <2>1. 0 \in 0..MaxSeq
    BY Constant
  <2>2. idKey \in [Ids -> 0..MaxSeq] /\ idKey' = [idKey EXCEPT ![h.id] = 0]
    BY <1>1, Zenon DEF Types
  <2>3. idKey' \in [Ids -> 0..MaxSeq]
    BY <2>1, <2>2, Zenon
  <2> QED BY <1>1, <1>5, <2>3, Zenon DEF Types
<1>7. Shapes'
  BY <1>1, <1>5, Zenon DEF Shapes
<1>8. \A e \in Removers : del'[e].got = del[e].got
  BY <1>5, Zenon
<1>9. OneId'
  <2>1. \A s \in Seqs, x \in Ids : Stands(s, x)' => Stands(s, x)
    <3>1. \A s \in Seqs, x \in Ids : idKey'[x] = s => idKey[x] = s
      BY <1>3, Constant DEF Seqs
    <3> QED BY <1>1, <1>8, <3>1 DEF Stands
  <2> QED BY <1>1, <2>1, Zenon DEF Kept, OneId
<1>10. Overlaps'
  <2>1. /\ \A t \in Adders : AdditionHas(t)' = AdditionHas(t)
        /\ \A e \in Removers : RemovalHas(e)' = RemovalHas(e)
    BY <1>1, <1>8, Zenon DEF AdditionHas, RemovalHas
  <2> QED BY <1>1, <2>1, Zenon DEF Kept, Overlaps
<1>11. ReadsHold'
  <2>1. \A t \in Adders : \A i \in DOMAIN call[t].recs :
          LET r == call[t].recs[i]
          IN  r.id \in Ids /\ (r.id \notin raced => idKey'[r.id] = idKey[r.id])
    BY <1>2, <1>3, RecordStands, Zenon DEF Kept, Overlaps
  <2> QED BY <1>1, <2>1 DEF Kept, ReadsHold
<1>12. RemovalsHold'
  <2>1. Head(del'[d].got).id = h.id /\ idKey'[h.id] = 0
    BY <1>2, <1>3, <1>5, Zenon DEF h
  <2>2. ASSUME NEW e \in Removers, e # d, del'[e].pc = "dockey"
        PROVE  Head(del'[e].got).id \in raced' \/ idKey'[Head(del'[e].got).id] = 0
    <3>1. del'[e] = del[e] /\ del[e].pc = "dockey" /\ Head(del[e].got).id \in Ids
      BY <1>5, <2>2, Handed, Zenon
    <3> QED BY <1>1, <1>3, <3>1 DEF Kept, RemovalsHold
  <2>3. ASSUME NEW e \in Removers, NEW i \in DOMAIN del[e].got,
               del[e].got[i].id \notin raced' \cup torn'
        PROVE  idKey'[del[e].got[i].id] \in {0, del[e].got[i].seq}
    <3>1. del[e].got[i].id \in Ids
      BY RemovalStands, Zenon
    <3> QED BY <1>1, <1>3, <2>3, <3>1 DEF Kept, RemovalsHold
  <2> QED BY <1>8, <2>1, <2>2, <2>3, Zenon DEF RemovalsHold
<1>13. UpdatesKept'
  BY <1>1, Zenon DEF Kept, UpdatesKept
<1>14. IdsResolve'
  <2>1. ASSUME NEW s \in Seqs, docs[s] # NoDoc, docs[s].id \notin raced \cup torn
        PROVE  \/ idKey'[docs[s].id] = s
               \/ \E e \in Removers : del'[e].pc = "dockey" /\ Head(del'[e].got).seq = s
    <3>1. docs[s].id \in Ids
      BY <2>1, Zenon DEF Types, Shapes, Docs
    <3>2. CASE idKey[docs[s].id] = s /\ docs[s].id # h.id
      BY <1>3, <3>1, <3>2, Zenon
    <3>3. CASE idKey[docs[s].id] = s /\ docs[s].id = h.id
      <4>1. s # 0
        BY Constant DEF Seqs
      <4>2. h.seq = s
        BY <1>2, <2>1, <3>3, <4>1, Zenon DEF Kept, RemovalsHold
      <4> QED BY <1>5, <4>2, Zenon DEF h
    <3>4. CASE \E e \in Removers : del[e].pc = "dockey" /\ Head(del[e].got).seq = s
      <4>1. PICK e \in Removers : del[e].pc = "dockey" /\ Head(del[e].got).seq = s
        BY <3>4, Zenon
      <4> QED BY <1>1, <1>5, <4>1, Zenon
    <3> QED BY <2>1, <3>2, <3>3, <3>4, Zenon DEF Kept, IdsResolve
  <2>2. \A id \in Ids \ raced : idKey'[id] # 0 => docs[idKey'[id]].id = id
    BY <1>3, Zenon DEF Kept, IdsResolve
  <2> QED BY <1>1, <2>1, <2>2, Zenon DEF IdsResolve
<1> QED BY <1>6, <1>7, <1>9, <1>10, <1>11, <1>12, <1>13, <1>14, Zenon DEF Kept

(* A batch that is through leaves nothing in hand.                         *)
LEMMA BatchOverIs ==
    ASSUME Types, NEW d \in Removers, NEW ids \in Seq(Seqs), IsInjective(ids), BatchOver(d, ids)
    PROVE  \E n \in Dels : /\ del' = [del EXCEPT ![d] = n] /\ DelOk(n)
                           /\ n.got = <<>> /\ n.pc \in {"idle", "deferred"}
<1>1. <<>> \in Seq(Seqs) /\ <<>> \in Seq(Gots) /\ IsInjective(<<>>)
  BY DEF IsInjective
<1>2. CASE ids = <<>>
  <2>1. NoDelete \in Dels /\ DelOk(NoDelete) /\ NoDelete.got = <<>> /\ NoDelete.pc = "idle"
    BY <1>1 DEF NoDelete, Dels, DelOk
  <2>2. del' = [del EXCEPT ![d] = NoDelete]
    BY <1>2, Zenon DEF BatchOver
  <2> QED BY <2>1, <2>2, Zenon
<1>3. CASE ids # <<>>
  <2> DEFINE n == [pc |-> "deferred", ids |-> ids, got |-> <<>>]
  <2>1. n \in Dels /\ DelOk(n) /\ n.got = <<>> /\ n.pc = "deferred"
    BY <1>1 DEF Dels, DelOk
  <2>2. del' = [del EXCEPT ![d] = n]
    BY <1>3, Zenon DEF BatchOver
  <2>3. n.pc \in {"idle", "deferred"}
    BY <2>1, Zenon
  <2> HIDE DEF n
  <2> QED BY <2>1, <2>2, <2>3, Zenon
<1> QED BY <1>2, <1>3, Zenon

(* A read that fails ends the removal before it has anything in hand.      *)
LEMMA ReadFailsShape ==
    ASSUME Types, Shapes, NEW d \in Removers, ReadFails(d)
    PROVE  /\ Types' /\ Shapes' /\ Frame
           /\ \A e \in Removers : /\ e # d => del'[e] = del[e]
                                  /\ e = d => del'[e].pc \in {"idle", "deferred"}
<1>1. /\ UNCHANGED <<idKey, docs, next, written, raced, torn, owner, call>>
      /\ del[d].pc = "fetch" /\ BatchOver(d, <<>>)
  BY Zenon DEF ReadFails, stored
<1>2. <<>> \in Seq(Seqs) /\ IsInjective(<<>>)
  BY DEF IsInjective
<1>3. PICK n \in Dels : /\ del' = [del EXCEPT ![d] = n] /\ DelOk(n)
                        /\ n.got = <<>> /\ n.pc \in {"idle", "deferred"}
  BY <1>1, <1>2, BatchOverIs, Zenon
<1>4. /\ del' \in [Removers -> Dels] /\ del'[d] = n
      /\ \A e \in Removers : e # d => del'[e] = del[e]
      /\ \A e \in Removers : DelShape(e)'
      /\ \A t \in Adders : CallShape(t)'
  BY <1>1, <1>3, DelStep, Zenon
<1>5. del[d].got = <<>>
  BY <1>1, Zenon DEF Shapes, DelShape, DelOk
<1>6. Types'
  BY <1>1, <1>4, Zenon DEF Types
<1>7. Shapes'
  BY <1>1, <1>4, Zenon DEF Shapes
<1>8. Frame
  BY <1>1, <1>3, <1>4, <1>5, Zenon DEF Frame
<1> QED BY <1>3, <1>4, <1>6, <1>7, <1>8, Zenon

(* The document deleted leaves the hand of the removal.                    *)
LEMMA RemoveDocKeyShape ==
    ASSUME Types, Shapes, NEW d \in Removers, RemoveDocKey(d)
    PROVE  \E n \in Dels : /\ del' = [del EXCEPT ![d] = n] /\ DelOk(n)
                           /\ n.pc \in {"idle", "deferred", "idkey"}
                           /\ \A i \in DOMAIN n.got : \E j \in DOMAIN del[d].got :
                                j # 1 /\ n.got[i] = del[d].got[j]
                           /\ \A j \in DOMAIN del[d].got : j # 1 =>
                                /\ n.pc = "idkey"
                                /\ \E i \in DOMAIN n.got : n.got[i] = del[d].got[j]
<1>1. del[d].pc = "dockey"
  BY Zenon DEF RemoveDocKey
<1>2. /\ del[d] \in Dels /\ del[d].ids \in Seq(Seqs) /\ del[d].got \in Seq(Gots)
      /\ DelOk(del[d]) /\ del[d].got # <<>>
  BY <1>1, DelTyped, Zenon DEF Shapes, DelShape, DelOk
<1>3. CASE Len(del[d].got) = 1
  <2>1. BatchOver(d, del[d].ids)
    BY <1>3, Zenon DEF RemoveDocKey
  <2>2. PICK n \in Dels : /\ del' = [del EXCEPT ![d] = n] /\ DelOk(n)
                          /\ n.got = <<>> /\ n.pc \in {"idle", "deferred"}
    BY <1>2, <2>1, BatchOverIs, Zenon DEF DelOk
  <2>3. \A j \in DOMAIN del[d].got : j = 1
    BY <1>2, <1>3
  <2>4. \A i \in DOMAIN n.got : FALSE
    BY <2>2
  <2>5. n.pc \in {"idle", "deferred", "idkey"}
    BY <2>2, Zenon
  <2> QED BY <2>2, <2>3, <2>4, <2>5, Zenon
<1>4. CASE Len(del[d].got) # 1
  <2> DEFINE n == [del[d] EXCEPT !.pc = "idkey", !.got = Tail(del[d].got)]
  <2>1. del' = [del EXCEPT ![d] = n]
    <3>1. del' = [del EXCEPT ![d].pc = "idkey", ![d].got = Tail(@)]
      BY <1>4, Zenon DEF RemoveDocKey
    <3>2. del \in [Removers -> Dels]
      BY Zenon DEF Types
    <3> QED BY <3>1, <3>2, Zenon
  <2>2. Tail(del[d].got) \in Seq(Gots) /\ Tail(del[d].got) # <<>>
    <3>1. \A q \in Seq(Gots) : q # <<>> /\ Len(q) # 1 => Tail(q) \in Seq(Gots) /\ Len(Tail(q)) # 0
      OBVIOUS
    <3>2. Tail(del[d].got) \in Seq(Gots) /\ Len(Tail(del[d].got)) # 0
      BY <1>2, <1>4, <3>1, Zenon
    <3>3. Len(<<>>) = 0
      BY Zenon
    <3> QED BY <3>2, <3>3, Zenon
  <2>3. n \in Dels /\ n.pc = "idkey" /\ n.got = Tail(del[d].got) /\ n.ids = del[d].ids
    <3>1. PICK q \in Seq(Gots) : q = Tail(del[d].got)
      BY <2>2, Zenon
    <3>2. PICK r \in Dels : r = del[d]
      BY <1>2, Zenon
    <3>3. n = [r EXCEPT !.pc = "idkey", !.got = q]
      BY <3>1, <3>2, Zenon
    <3>4. n \in Dels /\ n.pc = "idkey" /\ n.got = q /\ n.ids = r.ids
      BY <3>3, Zenon DEF Dels
    <3> QED BY <3>1, <3>2, <3>4, Zenon
  <2> HIDE DEF n
  <2>4. /\ DOMAIN n.got = 1..(Len(del[d].got) - 1)
        /\ \A i \in DOMAIN n.got : n.got[i] = del[d].got[i + 1]
        /\ \A i \in DOMAIN n.got : i + 1 \in DOMAIN del[d].got /\ i + 1 # 1
        /\ \A i \in DOMAIN del[d].got : i # 1 => i - 1 \in DOMAIN n.got /\ (i - 1) + 1 = i
    BY <1>2, <2>3
  <2>5. ASSUME NEW i \in DOMAIN n.got, NEW j \in DOMAIN n.got, n.got[i].seq = n.got[j].seq
        PROVE  i = j
    <3>0. i + 1 \in DOMAIN del[d].got /\ j + 1 \in DOMAIN del[d].got
          /\ del[d].got[i + 1].seq = del[d].got[j + 1].seq
      BY <2>4, <2>5, Zenon
    <3>1. i + 1 = j + 1
      BY <1>2, <3>0, Zenon DEF DelOk
    <3> QED BY <1>2, <2>4, <3>1
  <2>6. DelOk(n)
    BY <1>2, <2>2, <2>3, <2>5, Zenon DEF DelOk
  <2>7. \A i \in DOMAIN n.got : \E j \in DOMAIN del[d].got : j # 1 /\ n.got[i] = del[d].got[j]
    BY <2>4, Zenon
  <2>8. \A j \in DOMAIN del[d].got : j # 1 => \E i \in DOMAIN n.got : n.got[i] = del[d].got[j]
    BY <2>4
  <2>9. n.pc \in {"idle", "deferred", "idkey"}
    BY <2>3, Zenon
  <2> QED BY <2>1, <2>3, <2>6, <2>7, <2>8, <2>9, Zenon
<1> QED BY <1>3, <1>4, Zenon

(* A removal deletes the document after its id key.                        *)
LEMMA RemoveDocKeyKeeps ==
    ASSUME Types, Shapes, Kept, NEW d \in Removers, RemoveDocKey(d)
    PROVE  Types' /\ Shapes' /\ Kept'
<1> DEFINE h == Head(del[d].got)
<1>1. /\ idKey' = idKey /\ next' = next /\ raced' = raced /\ torn' = torn
      /\ UNCHANGED <<call, owner>>
      /\ docs' = [docs EXCEPT ![h.seq] = NoDoc] /\ written' = [written EXCEPT ![h.seq] = {}]
      /\ del[d].pc = "dockey"
  BY Zenon DEF RemoveDocKey
<1>2. h.seq \in Seqs /\ h.id \in Ids /\ h.id \in RemovalHas(d)
      /\ 1 \in DOMAIN del[d].got /\ h = del[d].got[1]
  BY <1>1, Handed, Zenon
<1>3. PICK n \in Dels : /\ del' = [del EXCEPT ![d] = n] /\ DelOk(n)
                        /\ n.pc \in {"idle", "deferred", "idkey"}
                        /\ \A i \in DOMAIN n.got : \E j \in DOMAIN del[d].got :
                             j # 1 /\ n.got[i] = del[d].got[j]
  BY RemoveDocKeyShape, Zenon
<1>4. /\ del' \in [Removers -> Dels] /\ del'[d] = n
      /\ \A e \in Removers : e # d => del'[e] = del[e]
      /\ \A e \in Removers : DelShape(e)'
      /\ \A t \in Adders : CallShape(t)'
  <2>1. UNCHANGED <<call, owner>>
    BY <1>1, Zenon
  <2>2. del' = [del EXCEPT ![d] = n] /\ DelOk(n)
    BY <1>3, Zenon
  <2> QED BY <2>1, <2>2, DelStep, Zenon
<1>5. Stands(h.seq, h.id)
  BY <1>2, RemovalStands, Zenon
<1> HIDE DEF h
<1>6. \A s \in Seqs : /\ docs'[s] = IF s = h.seq THEN NoDoc ELSE docs[s]
                      /\ written'[s] = IF s = h.seq THEN {} ELSE written[s]
  BY <1>1, <1>2, Zenon DEF Types
<1>7. Types'
  <2>1. NoDoc \in Docs
    BY Zenon DEF NoDoc, Docs
  <2>2. /\ docs \in [Seqs -> Docs] /\ written \in [Seqs -> SUBSET Fields]
        /\ docs' = [docs EXCEPT ![h.seq] = NoDoc] /\ written' = [written EXCEPT ![h.seq] = {}]
    BY <1>1, Zenon DEF Types
  <2>3. docs' \in [Seqs -> Docs]
    BY <2>1, <2>2, Zenon
  <2>4. written' \in [Seqs -> SUBSET Fields]
    BY <2>2, Zenon
  <2> QED BY <1>1, <1>4, <2>3, <2>4, Zenon DEF Types
<1>8. Shapes'
  BY <1>4, <1>6, Zenon DEF Shapes
<1>9. \A e \in Removers : \A i \in DOMAIN del'[e].got :
        \E j \in DOMAIN del[e].got : del'[e].got[i] = del[e].got[j]
  BY <1>3, <1>4
<1>10. OneId'
  <2>1. ASSUME NEW s \in Seqs, NEW x \in Ids, Stands(s, x)' PROVE Stands(s, x)
    <3>1. docs'[s].id = x => docs[s].id = x
      BY <1>6, Constant DEF NoDoc
    <3>2. CASE \E e \in Removers : \E i \in DOMAIN del'[e].got :
                   del'[e].got[i].seq = s /\ del'[e].got[i].id = x
      BY <1>9, <3>2 DEF Stands
    <3> QED BY <1>1, <2>1, <3>1, <3>2, Zenon DEF Stands
  <2> QED BY <1>1, <2>1, Zenon DEF Kept, OneId
<1>11. Overlaps'
  <2>1. \A t \in Adders : AdditionHas(t)' = AdditionHas(t)
    BY <1>1, Zenon DEF AdditionHas
  <2>2. \A e \in Removers : RemovalHas(e)' \subseteq RemovalHas(e)
    BY <1>9 DEF RemovalHas
  <2>3. \A t \in Adders, e \in Removers : AdditionHas(t)' \cap RemovalHas(e)' \subseteq raced'
    BY <1>1, <2>1, <2>2, Zenon DEF Kept, Overlaps
  <2>4. \A c, e \in Removers : c # e => RemovalHas(c)' \cap RemovalHas(e)' \subseteq raced'
    BY <1>1, <2>2, Zenon DEF Kept, Overlaps
  <2> QED BY <2>3, <2>4, Zenon DEF Overlaps
<1>12. ReadsHold'
  <2>1. ASSUME NEW t \in Adders, NEW i \in DOMAIN call[t].recs, NEW r, r = call[t].recs[i]
        PROVE  /\ ~r.isUpdate /\ r.ok => docs'[r.seq] = NoDoc
               /\ r.id \notin raced /\ r.isUpdate =>
                      idKey[r.id] = r.seq /\ docs'[r.seq] = [id |-> r.id, val |-> r.old]
               /\ r.id \notin raced /\ ~r.isUpdate => idKey[r.id] = 0
    <3>1. /\ ~r.isUpdate /\ r.ok => docs[r.seq] = NoDoc
          /\ r.id \notin raced /\ r.isUpdate =>
                 idKey[r.id] = r.seq /\ docs[r.seq] = [id |-> r.id, val |-> r.old]
          /\ r.id \notin raced /\ ~r.isUpdate => idKey[r.id] = 0
      BY <2>1, Zenon DEF Kept, ReadsHold
    <3>2. /\ r.id \in Ids /\ r.id \in AdditionHas(t)
          /\ r.isUpdate \/ r.ok => r.seq \in Seqs /\ Stands(r.seq, r.id)
      BY <2>1, RecordStands, Zenon
    <3>3. r.isUpdate /\ r.id \notin raced => r.seq # h.seq
      <4>1. ASSUME r.isUpdate, r.seq = h.seq PROVE r.id \in raced
        <5>1. r.id = h.id
          BY <1>2, <1>5, <3>2, <4>1, SameDocument, Zenon
        <5> QED BY <1>2, <3>2, <5>1, Zenon DEF Kept, Overlaps
      <4> QED BY <4>1, Zenon
    <3> QED BY <1>6, <3>1, <3>2, <3>3, Zenon
  <2> QED BY <1>1, <2>1 DEF ReadsHold
<1>13. RemovalsHold'
  <2>1. ASSUME NEW e \in Removers, del'[e].pc = "dockey"
        PROVE  Head(del'[e].got).id \in raced' \/ idKey'[Head(del'[e].got).id] = 0
    <3>1. e # d /\ del'[e] = del[e]
      BY <1>3, <1>4, <2>1, Zenon
    <3> QED BY <1>1, <2>1, <3>1, Zenon DEF Kept, RemovalsHold
  <2>2. \A e \in Removers : \A i \in DOMAIN del'[e].got : del'[e].got[i].id \notin raced' \cup torn' =>
               idKey'[del'[e].got[i].id] \in {0, del'[e].got[i].seq}
    BY <1>1, <1>9 DEF Kept, RemovalsHold
  <2> QED BY <2>1, <2>2, Zenon DEF RemovalsHold
<1>14. UpdatesKept'
  BY <1>1, <1>6 DEF Kept, UpdatesKept
<1>15. IdsResolve'
  <2>1. ASSUME NEW s \in Seqs, docs'[s] # NoDoc, docs'[s].id \notin raced \cup torn
        PROVE  \/ idKey[docs'[s].id] = s
               \/ \E e \in Removers : del'[e].pc = "dockey" /\ Head(del'[e].got).seq = s
    <3>1. s # h.seq /\ docs'[s] = docs[s]
      BY <1>6, <2>1, Zenon
    <3>2. CASE idKey[docs[s].id] = s
      BY <3>1, <3>2, Zenon
    <3>3. CASE \E e \in Removers : del[e].pc = "dockey" /\ Head(del[e].got).seq = s
      <4>1. PICK e \in Removers : del[e].pc = "dockey" /\ Head(del[e].got).seq = s
        BY <3>3, Zenon
      <4>2. e # d
        BY <3>1, <4>1, Zenon DEF h
      <4> QED BY <1>4, <4>1, <4>2, Zenon
    <3> QED BY <2>1, <3>1, <3>2, <3>3, Zenon DEF Kept, IdsResolve
  <2>2. ASSUME NEW id \in Ids \ raced, idKey[id] # 0 PROVE docs'[idKey[id]].id = id
    <3>1. idKey[id] \in Seqs /\ Stands(idKey[id], id)
      BY <2>2, IdKeyStands, Zenon
    <3>2. idKey[id] # h.seq
      <4>1. ASSUME idKey[id] = h.seq PROVE FALSE
        <5>1. id = h.id
          BY <1>2, <1>5, <3>1, <4>1, SameDocument, Zenon
        <5> QED BY <1>1, <2>2, <5>1, Zenon DEF Kept, RemovalsHold, h
      <4> QED BY <4>1, Zenon
    <3> QED BY <1>6, <2>2, <3>1, <3>2, Zenon DEF Kept, IdsResolve
  <2> QED BY <1>1, <2>1, <2>2, Zenon DEF IdsResolve
<1> QED BY <1>7, <1>8, <1>10, <1>11, <1>12, <1>13, <1>14, <1>15, Zenon DEF Kept

(* A part of a sequence.                                                   *)
LEMMA Slice ==
    ASSUME NEW S, NEW q \in Seq(S), NEW m \in Nat, NEW n \in Nat, m >= 1, m <= n + 1, n <= Len(q)
    PROVE  /\ SubSeq(q, m, n) \in Seq(S)
           /\ Len(SubSeq(q, m, n)) = n - m + 1 /\ DOMAIN SubSeq(q, m, n) = 1..(n - m + 1)
           /\ \A i \in 1..(n - m + 1) : SubSeq(q, m, n)[i] = q[m + i - 1]
                                       /\ m + i - 1 \in DOMAIN q
<1>1. \A i \in m..n : q[i] \in S
  OBVIOUS
<1> QED BY <1>1

(* A prefix of a sequence.                                                 *)
LEMMA Prefix ==
    ASSUME NEW S, NEW q \in Seq(S), NEW n \in Nat, n <= Len(q)
    PROVE  SubSeq(q, 1, n) \in Seq(S) /\ Len(SubSeq(q, 1, n)) = n
<1>1. \A i \in 1..n : q[i] \in S
  OBVIOUS
<1> QED BY <1>1

(* The batch a removal takes and what it leaves for later.                 *)
LEMMA FirstRest ==
    ASSUME NEW ids \in Seq(Seqs), IsInjective(ids)
    PROVE  /\ First(ids) \in Seq(Seqs) /\ Rest(ids) \in Seq(Seqs)
           /\ IsInjective(Rest(ids))
<1>1. Len(ids) \in Nat /\ \A i \in 1..Len(ids) : ids[i] \in Seqs
  OBVIOUS
<1>2. PICK m \in Nat : m <= Len(ids) /\ m = Min({RemoveMax, Len(ids)})
  BY <1>1, Constant DEF Min
<1>3. First(ids) = SubSeq(ids, 1, m)
  BY <1>2, Zenon DEF First
<1>4. First(ids) \in Seq(Seqs) /\ Len(First(ids)) = m
  BY <1>2, <1>3, Prefix, Zenon
<1>5. Rest(ids) = SubSeq(ids, m + 1, Len(ids))
  BY <1>4, Zenon DEF Rest
<1>6. /\ Rest(ids) \in Seq(Seqs) /\ DOMAIN Rest(ids) = 1..(Len(ids) - m)
      /\ \A i \in DOMAIN Rest(ids) : Rest(ids)[i] = ids[m + i] /\ m + i \in DOMAIN ids
  <2>1. m + 1 \in Nat /\ m + 1 >= 1 /\ m + 1 <= Len(ids) + 1 /\ Len(ids) - (m + 1) + 1 = Len(ids) - m
    BY <1>1, <1>2
  <2>2. /\ Rest(ids) \in Seq(Seqs) /\ DOMAIN Rest(ids) = 1..(Len(ids) - m)
        /\ \A i \in 1..(Len(ids) - m) : Rest(ids)[i] = ids[(m + 1) + i - 1]
                                        /\ (m + 1) + i - 1 \in DOMAIN ids
    BY <1>1, <1>5, <2>1, Slice
  <2>3. \A i \in 1..(Len(ids) - m) : (m + 1) + i - 1 = m + i
    BY <1>1, <1>2
  <2> QED BY <2>2, <2>3, Zenon
<1>7. ASSUME NEW i \in DOMAIN Rest(ids), NEW j \in DOMAIN Rest(ids), Rest(ids)[i] = Rest(ids)[j]
      PROVE  i = j
  <2>1. m + i = m + j
    BY <1>6, <1>7, Zenon DEF IsInjective
  <2> QED BY <1>1, <1>2, <1>6, <2>1
<1> QED BY <1>4, <1>6, <1>7, Zenon DEF IsInjective

(* What a removal reads is what is stored.                                 *)
LEMMA FoundIs ==
    ASSUME Types, Shapes, NEW ids \in Seq(Seqs), IsInjective(ids)
    PROVE  LET got == Found(ids)
           IN  /\ got \in Seq(Gots)
               /\ \A i \in DOMAIN got :
                    /\ got[i].seq \in Seqs /\ got[i].id \in Ids
                    /\ docs[got[i].seq] = [id |-> got[i].id, val |-> got[i].val]
               /\ \A i, j \in DOMAIN got : got[i].seq = got[j].seq => i = j
<1> DEFINE S == {s \in Range(First(ids)) : docs[s] # NoDoc}
           there == Ascending(S)
<1>1. S \subseteq Seqs
  BY FirstRest DEF Range
<1>2. there \in Seq(S) /\ IsInjective(there)
  BY <1>1, AscendingIs, Zenon
<1>3. Found(ids) = [i \in DOMAIN there |->
                      [seq |-> there[i], id |-> docs[there[i]].id, val |-> docs[there[i]].val]]
  BY Zenon DEF Found
<1>4. \A s \in S : s \in Seqs /\ docs[s] \in Docs /\ docs[s].id \in Ids
  <2>1. \A s \in S : s \in Seqs /\ docs[s] \in Docs /\ docs[s] # NoDoc
    BY <1>1, Zenon DEF Types
  <2> HIDE DEF S
  <2> QED BY <2>1, Zenon DEF Shapes, Docs
<1> HIDE DEF S, there
<1>5. \A i \in DOMAIN there : there[i] \in S
  BY <1>2
<1>6. \A i \in DOMAIN there : there[i] \in Seqs /\ docs[there[i]] \in Docs /\ docs[there[i]].id \in Ids
  BY <1>4, <1>5, Zenon
<1>7. DOMAIN there = 1..Len(there) /\ Len(there) \in Nat
  BY <1>2
<1>8. PICK got : got = Found(ids)
  BY Zenon
<1>9. /\ DOMAIN got = 1..Len(there)
      /\ \A i \in 1..Len(there) :
           got[i] = [seq |-> there[i], id |-> docs[there[i]].id, val |-> docs[there[i]].val]
  BY <1>3, <1>7, <1>8, Zenon
<1>10. \A i \in 1..Len(there) : got[i] \in Gots
  BY <1>6, <1>7, <1>9 DEF Gots, Docs
<1>11. got \in Seq(Gots)
  <2>1. got = [i \in 1..Len(there) |-> got[i]]
    BY <1>3, <1>7, <1>8, Zenon
  <2> QED BY <1>7, <1>10, <2>1
<1>12. \A i \in DOMAIN got : /\ got[i].seq \in Seqs /\ got[i].id \in Ids
                             /\ docs[got[i].seq] = [id |-> got[i].id, val |-> got[i].val]
  BY <1>6, <1>7, <1>9 DEF Docs
<1>13. \A i, j \in DOMAIN got : got[i].seq = got[j].seq => i = j
  BY <1>2, <1>7, <1>9 DEF IsInjective
<1> QED BY <1>8, <1>11, <1>12, <1>13, Zenon

(* A removal has in hand what it found.                                    *)
LEMMA FetchShape ==
    ASSUME Types, Shapes, NEW d \in Removers, stateful_remove_docs(d)
    PROVE  \E n \in Dels :
             /\ del' = [del EXCEPT ![d] = n] /\ DelOk(n) /\ n.pc \in {"unindex", "idle", "deferred"}
             /\ n.got = Found(del[d].ids)
<1> DEFINE ids == del[d].ids
           got == Found(ids)
<1>1. del[d] \in Dels /\ ids \in Seq(Seqs) /\ IsInjective(ids)
  BY DelTyped, Zenon DEF Shapes, DelShape, DelOk
<1>2. Rest(ids) \in Seq(Seqs) /\ IsInjective(Rest(ids))
  BY <1>1, FirstRest, Zenon
<1>3. got \in Seq(Gots) /\ \A i, j \in DOMAIN got : got[i].seq = got[j].seq => i = j
  BY <1>1, FoundIs, Zenon
<1>4. CASE got = <<>>
  <2>1. BatchOver(d, Rest(ids))
    BY <1>4, Zenon DEF stateful_remove_docs
  <2>2. PICK n \in Dels : /\ del' = [del EXCEPT ![d] = n] /\ DelOk(n)
                          /\ n.got = <<>> /\ n.pc \in {"idle", "deferred"}
    <3> HIDE DEF ids
    <3> QED BY <1>2, <2>1, BatchOverIs, Zenon
  <2>3. n.pc \in {"unindex", "idle", "deferred"} /\ n.got = got
    BY <1>4, <2>2, Zenon
  <2> HIDE DEF got
  <2> QED BY <2>2, <2>3, Zenon DEF got
<1>5. CASE got # <<>>
  <2>1. del' = [del EXCEPT ![d].pc = "unindex", ![d].got = got, ![d].ids = Rest(@)]
    BY <1>5, Zenon DEF stateful_remove_docs
  <2>2. PICK q \in Seq(Gots) : q = got
    BY <1>3, Zenon
  <2>3. PICK w \in Seq(Seqs) : w = Rest(ids)
    BY <1>2, Zenon
  <2>4. PICK r \in Dels : r = del[d]
    BY <1>1, Zenon
  <2>5. PICK n : n = [r EXCEPT !.pc = "unindex", !.got = q, !.ids = w]
    BY Zenon
  <2>6. n \in Dels /\ n.pc = "unindex" /\ n.got = q /\ n.ids = w
    BY <2>5, Zenon DEF Dels
  <2>7. del' = [del EXCEPT ![d] = n]
    <3>1. del \in [Removers -> Dels]
      BY Zenon DEF Types
    <3> HIDE DEF got
    <3> QED BY <2>1, <2>2, <2>3, <2>4, <2>5, <3>1, Zenon
  <2>8. DelOk(n)
    BY <1>2, <1>3, <1>5, <2>2, <2>3, <2>6, Zenon DEF DelOk
  <2>9. n.pc \in {"unindex", "idle", "deferred"} /\ n.got = got
    BY <2>2, <2>6, Zenon
  <2> HIDE DEF got
  <2> QED BY <2>6, <2>7, <2>8, <2>9, Zenon DEF got
<1> QED BY <1>4, <1>5, Zenon

(* The read of a removal keeps the invariant.                              *)
LEMMA FetchKeeps ==
    ASSUME Types, Shapes, Kept, NEW d \in Removers, stateful_remove_docs(d)
    PROVE  Types' /\ Shapes' /\ Kept'
<1>1. PICK got : got = Found(del[d].ids)
  BY Zenon
<1>2. /\ idKey' = idKey /\ docs' = docs /\ next' = next /\ written' = written /\ torn' = torn
      /\ UNCHANGED <<call, owner>> /\ del[d].pc = "fetch"
      /\ raced' = raced \cup ({got[i].id : i \in DOMAIN got}
                                \cap (HeldByRemovals({d}) \cup HeldByAdditions))
  BY <1>1, Zenon DEF stateful_remove_docs, stored
<1>3. PICK n \in Dels :
        /\ del' = [del EXCEPT ![d] = n] /\ DelOk(n) /\ n.pc \in {"unindex", "idle", "deferred"}
        /\ n.got = got
  BY <1>1, FetchShape, Zenon
<1>4. /\ del' \in [Removers -> Dels] /\ del'[d] = n
      /\ \A e \in Removers : e # d => del'[e] = del[e]
      /\ \A e \in Removers : DelShape(e)'
      /\ \A t \in Adders : CallShape(t)'
  <2>1. UNCHANGED <<call, owner>>
    BY <1>2, Zenon
  <2> QED BY <1>3, <2>1, DelStep, Zenon
<1>5. \A i \in DOMAIN got : /\ got[i].seq \in Seqs /\ got[i].id \in Ids
                            /\ docs[got[i].seq].id = got[i].id
                            /\ docs[got[i].seq] # NoDoc
  <2>1. del[d].ids \in Seq(Seqs) /\ IsInjective(del[d].ids)
    BY DelTyped, Zenon DEF Shapes, DelShape, DelOk
  <2>2. \A i \in DOMAIN got : /\ got[i].seq \in Seqs /\ got[i].id \in Ids
                              /\ docs[got[i].seq] = [id |-> got[i].id, val |-> got[i].val]
    BY <1>1, <2>1, FoundIs, Zenon
  <2>3. \A i \in DOMAIN got : docs[got[i].seq].id = got[i].id /\ got[i].id # None
    <3> SUFFICES ASSUME NEW i \in DOMAIN got
                 PROVE  docs[got[i].seq].id = got[i].id /\ got[i].id # None
      BY Zenon
    <3>1. docs[got[i].seq] = [id |-> got[i].id, val |-> got[i].val] /\ got[i].id \in Ids
      BY <2>2, Zenon
    <3>2. None \notin Ids
      BY Constant, Zenon
    <3> QED BY <3>1, <3>2
  <2>4. NoDoc.id = None
    BY Zenon DEF NoDoc
  <2> QED BY <2>2, <2>3, <2>4, Zenon
<1>6. Types'
  BY <1>2, <1>4, Zenon DEF Types
<1>7. Shapes'
  BY <1>2, <1>4, Zenon DEF Shapes
<1>8. RemovalHas(d)' = {got[i].id : i \in DOMAIN got}
      /\ \A e \in Removers : e # d => RemovalHas(e)' = RemovalHas(e)
  BY <1>3, <1>4, Zenon DEF RemovalHas
<1>9. \A t \in Adders : AdditionHas(t)' = AdditionHas(t)
  BY <1>2, Zenon DEF AdditionHas
<1>10. /\ raced \subseteq raced'
       /\ \A t \in Adders : AdditionHas(t) \cap RemovalHas(d)' \subseteq raced'
       /\ \A e \in Removers : e # d => RemovalHas(e) \cap RemovalHas(d)' \subseteq raced'
  <2>1. \A t \in Adders : AdditionHas(t) \subseteq HeldByAdditions
    BY Zenon DEF HeldByAdditions
  <2>2. \A e \in Removers : e # d => RemovalHas(e) \subseteq HeldByRemovals({d})
    BY Zenon DEF HeldByRemovals
  <2> QED BY <1>2, <1>8, <2>1, <2>2, Zenon
<1>11. OneId'
  <2>1. ASSUME NEW s \in Seqs, NEW x \in Ids, Stands(s, x)' PROVE Stands(s, x)
    <3>1. ASSUME NEW e \in Removers, NEW i \in DOMAIN del'[e].got,
                 del'[e].got[i].seq = s, del'[e].got[i].id = x
          PROVE  Stands(s, x)
      <4>1. CASE e = d
        BY <1>3, <1>4, <1>5, <3>1, <4>1, Zenon DEF Stands
      <4>2. CASE e # d
        BY <1>4, <3>1, <4>2, Zenon DEF Stands
      <4> QED BY <4>1, <4>2, Zenon
    <3> QED BY <1>2, <2>1, <3>1, Zenon DEF Stands
  <2> QED BY <1>2, <2>1, Zenon DEF Kept, OneId
<1>12. Overlaps'
  <2>1. ASSUME NEW t \in Adders, NEW e \in Removers
        PROVE  AdditionHas(t)' \cap RemovalHas(e)' \subseteq raced'
    BY <1>8, <1>9, <1>10, Zenon DEF Kept, Overlaps
  <2>2. ASSUME NEW c \in Removers, NEW e \in Removers, c # e
        PROVE  RemovalHas(c)' \cap RemovalHas(e)' \subseteq raced'
    BY <1>8, <1>10, <2>2, Zenon DEF Kept, Overlaps
  <2> QED BY <2>1, <2>2, Zenon DEF Overlaps
<1>13. ReadsHold'
  BY <1>2, <1>10, ZenonT(40) DEF Kept, ReadsHold
<1>14. RemovalsHold'
  <2>1. ASSUME NEW e \in Removers, del'[e].pc = "dockey"
        PROVE  Head(del'[e].got).id \in raced' \/ idKey'[Head(del'[e].got).id] = 0
    <3>1. e # d /\ del'[e] = del[e]
      BY <1>3, <1>4, <2>1, Zenon
    <3> QED BY <1>2, <1>10, <2>1, <3>1, Zenon DEF Kept, RemovalsHold
  <2>2. ASSUME NEW i \in DOMAIN got, got[i].id \notin raced' \cup torn
        PROVE  idKey[got[i].id] \in {0, got[i].seq}
    <3>1. got[i].id \notin raced \cup torn
      BY <1>10, <2>2, Zenon
    <3>2. CASE \E e \in Removers : del[e].pc = "dockey" /\ Head(del[e].got).seq = got[i].seq
      <4>1. PICK e \in Removers : del[e].pc = "dockey" /\ Head(del[e].got).seq = got[i].seq
        BY <3>2, Zenon
      <4>2. /\ 1 \in DOMAIN del[e].got /\ Head(del[e].got) = del[e].got[1]
            /\ Head(del[e].got).id \in Ids /\ Head(del[e].got).id \in RemovalHas(e)
        BY <4>1, Handed, Zenon
      <4>3. Stands(got[i].seq, Head(del[e].got).id)
        BY <4>1, <4>2, Zenon DEF Stands
      <4>4. Stands(got[i].seq, got[i].id)
        BY <1>5, Zenon DEF Stands
      <4>5. got[i].id = Head(del[e].got).id
        BY <1>5, <4>2, <4>3, <4>4, SameDocument, Zenon
      <4>6. e # d
        BY <1>2, <4>1, Zenon
      <4>7. got[i].id \in RemovalHas(d)'
        BY <1>8, Zenon
      <4> QED BY <1>10, <2>2, <4>2, <4>5, <4>6, <4>7, Zenon
    <3> QED BY <1>5, <3>1, <3>2 DEF Kept, IdsResolve
  <2>3. ASSUME NEW e \in Removers, NEW i \in DOMAIN del'[e].got, del'[e].got[i].id \notin raced' \cup torn'
        PROVE  idKey'[del'[e].got[i].id] \in {0, del'[e].got[i].seq}
    <3>1. CASE e = d
      BY <1>2, <1>3, <1>4, <2>2, <2>3, <3>1, Zenon
    <3>2. CASE e # d
      BY <1>2, <1>4, <1>10, <2>3, <3>2, Zenon DEF Kept, RemovalsHold
    <3> QED BY <3>1, <3>2, Zenon
  <2> QED BY <2>1, <2>3, Zenon DEF RemovalsHold
<1>15. UpdatesKept'
  BY <1>2, <1>10, Zenon DEF Kept, UpdatesKept
<1>16. IdsResolve'
  <2>1. ASSUME NEW s \in Seqs, docs[s] # NoDoc, docs[s].id \notin raced' \cup torn
        PROVE  \/ idKey[docs[s].id] = s
               \/ \E e \in Removers : del'[e].pc = "dockey" /\ Head(del'[e].got).seq = s
    <3>1. docs[s].id \notin raced \cup torn
      BY <1>10, <2>1, Zenon
    <3>2. CASE \E e \in Removers : del[e].pc = "dockey" /\ Head(del[e].got).seq = s
      <4>1. PICK e \in Removers : del[e].pc = "dockey" /\ Head(del[e].got).seq = s
        BY <3>2, Zenon
      <4> QED BY <1>2, <1>4, <4>1, Zenon
    <3> QED BY <2>1, <3>1, <3>2, Zenon DEF Kept, IdsResolve
  <2>2. \A id \in Ids \ raced' : idKey[id] # 0 => docs[idKey[id]].id = id
    BY <1>10, Zenon DEF Kept, IdsResolve
  <2> QED BY <1>2, <2>1, <2>2, Zenon DEF IdsResolve
<1> QED BY <1>6, <1>7, <1>11, <1>12, <1>13, <1>14, <1>15, <1>16, Zenon DEF Kept

(* The new documents of a batch are numbered without gaps.                 *)
LEMMA Numbering ==
    ASSUME NEW n \in Nat, NEW N, N \subseteq 1..n
    PROVE  /\ IsFiniteSet(N) /\ Cardinality(N) \in Nat
           /\ \A i \in N : /\ Cardinality({j \in 1..(i - 1) : j \in N}) \in Nat
                           /\ Cardinality({j \in 1..(i - 1) : j \in N}) < Cardinality(N)
           /\ \A i, k \in N : i < k => Cardinality({j \in 1..(i - 1) : j \in N})
                                         < Cardinality({j \in 1..(k - 1) : j \in N})
<1> DEFINE B(i) == {j \in 1..(i - 1) : j \in N}
<1>1. IsFiniteSet(1..n)
  BY FS_Interval
<1>2. IsFiniteSet(N)
  BY <1>1, FS_Subset, Zenon
<1>3. \A T \in SUBSET N : IsFiniteSet(T) /\ Cardinality(T) \in Nat
  BY <1>2, FS_Subset, FS_CardinalityType, Zenon
<1>4. ASSUME NEW S \in SUBSET N, NEW T \in SUBSET S, T # S
      PROVE  Cardinality(T) < Cardinality(S)
  <2>1. IsFiniteSet(S) /\ Cardinality(S) \in Nat /\ Cardinality(T) \in Nat
    BY <1>3, Zenon
  <2>2. Cardinality(T) <= Cardinality(S) /\ (Cardinality(S) = Cardinality(T) => S = T)
    BY <2>1, FS_Subset, Zenon
  <2> QED BY <1>4, <2>1, <2>2
<1>5. \A i \in N : B(i) \in SUBSET N
  BY Zenon
<1>6. \A i \in N : i \in 1..n /\ i \notin B(i)
  OBVIOUS
<1>7. \A i, k \in N : i < k => B(i) \in SUBSET B(k) /\ i \in B(k)
  OBVIOUS
<1> HIDE DEF B
<1>8. \A i \in N : Cardinality(B(i)) \in Nat /\ Cardinality(B(i)) < Cardinality(N)
  BY <1>3, <1>4, <1>5, <1>6, Zenon
<1>9. \A i, k \in N : i < k => Cardinality(B(i)) < Cardinality(B(k))
  BY <1>4, <1>5, <1>6, <1>7, Zenon
<1>10. Cardinality(N) \in Nat
  BY <1>2, FS_CardinalityType, Zenon
<1> QED BY <1>2, <1>8, <1>9, <1>10, Zenon DEF B

(* What add_many makes of the lines of a batch.                            *)
LEMMA PreparedIs ==
    ASSUME Types, Shapes, NEW t \in Adders, prepare_document_for_indexing(t)
    PROVE  LET op == call[t].op
               batch == call[t].batch
               R(i) == Prepared(op, batch, i)
           IN  /\ op \in Ops /\ batch \in Seq(Ids) /\ Taken(op, batch) \in Nat
               /\ \A i \in DOMAIN batch :
                    /\ R(i) \in Recs /\ R(i).id = batch[i] /\ batch[i] \in Ids
                    /\ R(i).new = Merged(op, R(i).old)
                    /\ R(i).isUpdate <=> idKey[batch[i]] # 0
                    /\ R(i).isUpdate => R(i).seq = idKey[batch[i]]
                                        /\ R(i).old = docs[idKey[batch[i]]].val
                    /\ ~R(i).isUpdate => R(i).old = {}
                    /\ ~R(i).isUpdate /\ R(i).ok => next <= R(i).seq
                                                    /\ R(i).seq < next + Taken(op, batch)
               /\ \A i, k \in DOMAIN batch :
                    ~R(i).isUpdate /\ ~R(k).isUpdate /\ R(i).seq = R(k).seq => i = k
<1> DEFINE op == call[t].op
           batch == call[t].batch
           R(i) == Prepared(op, batch, i)
           N == {i \in DOMAIN batch : IsNew(batch[i])}
           B(i) == {j \in 1..(i - 1) : j \in N}
<1>1. op \in Ops /\ batch \in Seq(Ids)
  BY CallTyped, Zenon DEF prepare_document_for_indexing, Shapes, CallShape
<1>2. PICK n \in Nat : DOMAIN batch = 1..n /\ \A i \in 1..n : batch[i] \in Ids
  BY <1>1
<1>3. /\ IsFiniteSet(N) /\ Cardinality(N) \in Nat
      /\ \A i \in N : Cardinality(B(i)) \in Nat /\ Cardinality(B(i)) < Cardinality(N)
      /\ \A i, k \in N : i < k => Cardinality(B(i)) < Cardinality(B(k))
  <2>1. N \subseteq 1..n
    BY <1>2, Zenon
  <2> HIDE DEF N
  <2> QED BY <2>1, Numbering, Zenon
<1>4. \A i \in DOMAIN batch : {j \in 1..(i - 1) : IsNew(batch[j])} = B(i)
  BY <1>2
<1>5. Taken(op, batch) = IF op.kind = "update" THEN 0 ELSE Cardinality(N)
  BY Zenon DEF Taken
<1>6. next \in Nat
  BY Constant DEF Types
<1>a. PICK cr \in BOOLEAN : cr = (op.kind # "create")
  BY Zenon
<1>b. PICK up \in BOOLEAN : up = (op.kind # "update")
  BY Zenon
<1>7. ASSUME NEW i \in DOMAIN batch, idKey[batch[i]] # 0
      PROVE  R(i) = [id |-> batch[i], seq |-> idKey[batch[i]], isUpdate |-> TRUE,
                     old |-> docs[idKey[batch[i]]].val, ok |-> cr,
                     new |-> Merged(op, docs[idKey[batch[i]]].val)]
  BY <1>7, <1>a, Zenon DEF Prepared, IsNew, Merged
<1>8. ASSUME NEW i \in DOMAIN batch, idKey[batch[i]] = 0
      PROVE  R(i) = [id |-> batch[i], seq |-> next + Cardinality(B(i)), isUpdate |-> FALSE,
                     old |-> {}, ok |-> up, new |-> Merged(op, {})]
  <2>1. {j \in 1..(i - 1) : IsNew(batch[j])} = B(i)
    BY <1>4, Zenon
  <2> HIDE DEF B, batch, op
  <2> QED BY <1>8, <1>b, <2>1, Zenon DEF Prepared, IsNew, Merged
<1>9. op.field \in Fields /\ op.kind \in {"create", "upsert", "update", "emplace"}
  BY <1>1, Constant, Zenon
<1>10. \A old \in SUBSET Fields : Merged(op, old) \in SUBSET Fields
  BY <1>9, Zenon DEF Merged
<1>11. \A i \in DOMAIN batch : batch[i] \in Ids /\ idKey[batch[i]] \in Nat
         /\ (idKey[batch[i]] # 0 => docs[idKey[batch[i]]].val \in SUBSET Fields)
  BY <1>2, IdKeyStands, Constant DEF Types, Docs
<1>12. \A i \in DOMAIN batch : i \in N <=> idKey[batch[i]] = 0
  BY Zenon DEF IsNew
<1> HIDE DEF N, B, R, op, batch
<1>13. ASSUME NEW i \in DOMAIN batch
       PROVE  /\ R(i) \in Recs /\ R(i).id = batch[i] /\ batch[i] \in Ids
              /\ R(i).new = Merged(op, R(i).old)
              /\ R(i).isUpdate <=> idKey[batch[i]] # 0
              /\ R(i).isUpdate => R(i).seq = idKey[batch[i]]
                                  /\ R(i).old = docs[idKey[batch[i]]].val
              /\ ~R(i).isUpdate => R(i).old = {} /\ R(i).seq = next + Cardinality(B(i))
              /\ ~R(i).isUpdate /\ R(i).ok => next <= R(i).seq
                                              /\ R(i).seq < next + Taken(op, batch)
  <2>1. CASE idKey[batch[i]] # 0
    <3>1. R(i) \in Recs
      <4>1. PICK v, w : v = docs[idKey[batch[i]]].val /\ w = Merged(op, v)
        BY Zenon
      <4>2. v \in SUBSET Fields /\ w \in SUBSET Fields
        BY <1>10, <1>11, <2>1, <4>1, Zenon
      <4>3. R(i) = [id |-> batch[i], seq |-> idKey[batch[i]], isUpdate |-> TRUE,
                    old |-> v, ok |-> cr, new |-> w]
        BY <1>7, <2>1, <4>1, Zenon
      <4> QED BY <1>a, <1>11, <4>2, <4>3 DEF Recs
    <3> QED BY <1>7, <1>11, <2>1, <3>1
  <2>2. CASE idKey[batch[i]] = 0
    <3>0. i \in N /\ Cardinality(B(i)) \in Nat /\ Cardinality(B(i)) < Cardinality(N)
      BY <1>3, <1>12, <2>2, Zenon
    <3>1. R(i) \in Recs
      <4>1. PICK q, w : q = next + Cardinality(B(i)) /\ w = Merged(op, {})
        BY Zenon
      <4>2. q \in Nat /\ w \in SUBSET Fields
        BY <1>6, <1>10, <3>0, <4>1
      <4>3. R(i) = [id |-> batch[i], seq |-> q, isUpdate |-> FALSE,
                    old |-> {}, ok |-> up, new |-> w]
        BY <1>8, <2>2, <4>1, Zenon
      <4> QED BY <1>b, <1>11, <4>2, <4>3 DEF Recs
    <3>2. R(i).ok => op.kind # "update"
      <4>1. R(i).ok = up
        BY <1>8, <2>2
      <4> QED BY <1>b, <4>1, Zenon
    <3>3. R(i).seq = next + Cardinality(B(i)) /\ ~R(i).isUpdate
      BY <1>8, <2>2
    <3>4. R(i).ok => next <= R(i).seq /\ R(i).seq < next + Taken(op, batch)
      BY <1>3, <1>5, <1>6, <3>0, <3>2, <3>3
    <3>5. R(i).id = batch[i] /\ R(i).old = {} /\ R(i).new = Merged(op, {})
      BY <1>8, <2>2
    <3> QED BY <1>11, <2>2, <3>1, <3>3, <3>4, <3>5, Zenon
  <2> QED BY <2>1, <2>2, Zenon
<1>14. ASSUME NEW i \in DOMAIN batch, NEW k \in DOMAIN batch,
              ~R(i).isUpdate, ~R(k).isUpdate, R(i).seq = R(k).seq
       PROVE  i = k
  <2>1. i \in N /\ k \in N
    BY <1>12, <1>13, <1>14, Zenon
  <2>2. next + Cardinality(B(i)) = next + Cardinality(B(k))
    BY <1>13, <1>14
  <2>3. Cardinality(B(i)) \in Nat /\ Cardinality(B(k)) \in Nat
    BY <1>3, <2>1, Zenon
  <2>4. ~(i < k) /\ ~(k < i)
    BY <1>3, <1>6, <2>1, <2>2, <2>3
  <2> QED BY <1>2, <2>4
<1>15. Taken(op, batch) \in Nat
  BY <1>3, <1>5
<1> QED BY <1>1, <1>13, <1>14, <1>15, Zenon DEF R, op, batch

(* What a record of a call in flight has read still stands.                *)
LEMMA RecordRead ==
    ASSUME ReadsHold, NEW t \in Adders, NEW i \in DOMAIN call[t].recs,
           NEW r, r = call[t].recs[i]
    PROVE  /\ ~r.isUpdate /\ r.ok => docs[r.seq] = NoDoc
           /\ r.id \notin raced /\ r.isUpdate =>
                  idKey[r.id] = r.seq /\ docs[r.seq] = [id |-> r.id, val |-> r.old]
           /\ r.id \notin raced /\ ~r.isUpdate => idKey[r.id] = 0
BY Zenon DEF ReadsHold

(* The reads of a call keep the invariant: it has the stripes.             *)
LEMMA PrepareKeeps ==
    ASSUME Types, Shapes, Kept, NEW t \in Adders, prepare_document_for_indexing(t)
    PROVE  Types' /\ Shapes' /\ Kept'
<1>1. PICK op, batch, recs, k :
        /\ op = call[t].op /\ batch = call[t].batch /\ k = Taken(op, batch)
        /\ recs = [i \in DOMAIN batch |-> Prepared(op, batch, i)]
  BY Zenon
<1>2. /\ call[t].pc = "prepare" /\ next + k <= MaxSeq + 1 /\ next' = next + k
      /\ call' = [call EXCEPT ![t].pc = "index", ![t].recs = recs]
      /\ raced' = raced \cup (Range(batch) \cap HeldByRemovals({}))
      /\ idKey' = idKey /\ docs' = docs /\ written' = written /\ torn' = torn
      /\ UNCHANGED <<owner, del>>
  BY <1>1, Zenon DEF prepare_document_for_indexing, locks
<1>3. op \in Ops /\ batch \in Seq(Ids) /\ k \in Nat
  BY <1>1, PreparedIs, Zenon
<1>4. \A i \in DOMAIN batch :
        /\ recs[i] \in Recs /\ recs[i].id = batch[i] /\ batch[i] \in Ids
        /\ recs[i].new = Merged(op, recs[i].old)
        /\ recs[i].isUpdate <=> idKey[batch[i]] # 0
        /\ recs[i].isUpdate => recs[i].seq = idKey[batch[i]]
                               /\ recs[i].old = docs[idKey[batch[i]]].val
        /\ ~recs[i].isUpdate => recs[i].old = {}
        /\ ~recs[i].isUpdate /\ recs[i].ok => next <= recs[i].seq /\ recs[i].seq < next + k
  <2>1. \A i \in DOMAIN batch : recs[i] = Prepared(op, batch, i)
    BY <1>1, Zenon
  <2> QED BY <1>1, <2>1, PreparedIs, ZenonT(40)
<1>5. \A i, j \in DOMAIN batch :
        ~recs[i].isUpdate /\ ~recs[j].isUpdate /\ recs[i].seq = recs[j].seq => i = j
  <2>1. \A i \in DOMAIN batch : recs[i] = Prepared(op, batch, i)
    BY <1>1, Zenon
  <2> QED BY <1>1, <2>1, PreparedIs, Zenon
<1>6. DOMAIN recs = DOMAIN batch /\ recs \in Seq(Recs)
  <2>1. DOMAIN recs = DOMAIN batch
    BY <1>1, Zenon
  <2>2. PICK n \in Nat : DOMAIN batch = 1..n
    BY <1>3
  <2>3. recs \in [1..n -> Recs]
    <3>1. recs = [i \in 1..n |-> recs[i]]
      BY <1>1, <2>2, Zenon
    <3> QED BY <1>4, <2>2, <3>1, Zenon
  <2> QED BY <2>1, <2>2, <2>3
<1>7. /\ call' \in [Adders -> Calls] /\ \A u \in Adders : u # t => call'[u] = call[u]
      /\ call'[t].pc = "index" /\ call'[t].recs = recs
      /\ call'[t].op = op /\ call'[t].batch = batch
  <2>1. call \in [Adders -> Calls] /\ call[t] \in Calls
    BY Zenon DEF Types
  <2>2. /\ call'[t] = [call[t] EXCEPT !.pc = "index", !.recs = recs]
        /\ \A u \in Adders : u # t => call'[u] = call[u]
    BY <1>2, <2>1, Zenon
  <2>3. /\ call'[t].pc = "index" /\ call'[t].recs = recs
        /\ call'[t].op = op /\ call'[t].batch = batch /\ call'[t] \in Calls
    BY <1>1, <1>6, <2>1, <2>2, Zenon DEF Calls
  <2> QED BY <1>2, <2>1, <2>2, <2>3, Zenon
<1>8. next \in 1..(MaxSeq + 1) /\ MaxSeq \in Nat
  BY Constant, Zenon DEF Types
<1>9. \A i \in DOMAIN batch : recs[i].isUpdate \/ recs[i].ok => recs[i].seq \in Seqs
  <2>1. ASSUME NEW i \in DOMAIN batch, recs[i].isUpdate PROVE recs[i].seq \in Seqs
    BY <1>4, <2>1, IdKeyStands
  <2>2. ASSUME NEW i \in DOMAIN batch, ~recs[i].isUpdate, recs[i].ok PROVE recs[i].seq \in Seqs
    <3>1. recs[i].seq \in Nat
      BY <1>4, Zenon DEF Recs
    <3>2. next <= recs[i].seq /\ recs[i].seq < next + k
      BY <1>4, <2>2, Zenon
    <3> QED BY <1>2, <1>3, <1>8, <3>1, <3>2 DEF Seqs
  <2> QED BY <2>1, <2>2, Zenon
<1>10. Types'
  <2>1. next' \in 1..(MaxSeq + 1)
    BY <1>2, <1>3, <1>8
  <2> QED BY <1>2, <1>7, <2>1, Zenon DEF Types
<1>11. Shapes'
  <2>1. CallShape(t)'
    <3>1. IsInjective(batch) /\ \A i \in DOMAIN batch : owner[Stripe[batch[i]]] = t
      BY <1>1, <1>2, Zenon DEF Shapes, CallShape
    <3> QED BY <1>2, <1>3, <1>4, <1>6, <1>7, <1>9, <3>1 DEF CallShape
  <2>2. \A u \in Adders : u # t => CallShape(u)'
    BY <1>2, <1>7, CallSame, Zenon DEF Shapes
  <2>3. \A d \in Removers : DelShape(d)'
    BY <1>2, DelSame, Zenon DEF Shapes
  <2> QED BY <1>2, <2>1, <2>2, <2>3, Zenon DEF Shapes
<1>12. OneId'
  <2> DEFINE Fresh(s, x) == next <= s /\ s < next + k
                            /\ \E i \in DOMAIN batch : /\ ~recs[i].isUpdate
                                                       /\ recs[i].seq = s /\ recs[i].id = x
  <2>1. ASSUME NEW s \in Seqs, NEW x \in Ids, Stands(s, x)'
        PROVE  Stands(s, x) \/ Fresh(s, x)
    <3>1. ASSUME NEW i \in DOMAIN recs, recs[i].isUpdate \/ recs[i].ok,
                 recs[i].seq = s, recs[i].id = x
          PROVE  Stands(s, x) \/ Fresh(s, x)
      <4>1. CASE recs[i].isUpdate
        <5>1. idKey[x] = s
          BY <1>4, <1>6, <3>1, <4>1
        <5> QED BY <5>1, Zenon DEF Stands
      <4>2. CASE ~recs[i].isUpdate
        BY <1>4, <1>6, <3>1, <4>2, Zenon
      <4> QED BY <4>1, <4>2, Zenon
    <3>2. ASSUME NEW u \in Adders, NEW i \in DOMAIN call'[u].recs,
                 call'[u].recs[i].isUpdate \/ call'[u].recs[i].ok,
                 call'[u].recs[i].seq = s, call'[u].recs[i].id = x
          PROVE  Stands(s, x) \/ Fresh(s, x)
      <4> HIDE DEF Fresh
      <4>1. CASE u = t
        BY <1>7, <3>1, <3>2, <4>1, Zenon
      <4>2. CASE u # t
        BY <1>7, <3>2, <4>2, Zenon DEF Stands
      <4> QED BY <4>1, <4>2, Zenon
    <3> HIDE DEF Fresh
    <3> QED BY <1>2, <2>1, <3>2, Zenon DEF Stands
  <2>2. ASSUME NEW s \in Seqs, NEW x \in Ids, Stands(s, x) PROVE s < next /\ s < next + k
    <3>1. s < next
      BY <2>2, Zenon DEF Kept, OneId
    <3> QED BY <1>3, <1>8, <3>1 DEF Seqs
  <2>3. ASSUME NEW s \in Seqs, NEW x \in Ids, NEW y \in Ids,
               Stands(s, x) \/ Fresh(s, x), Stands(s, y) \/ Fresh(s, y)
        PROVE  x = y
    <3>1. CASE Fresh(s, x) /\ Fresh(s, y)
      BY <1>5, <3>1, Zenon
    <3>2. CASE Stands(s, x) /\ Stands(s, y)
      BY <3>2, SameDocument, Zenon
    <3>3. CASE (Stands(s, x) /\ Fresh(s, y)) \/ (Fresh(s, x) /\ Stands(s, y))
      <4>1. s < next /\ next <= s
        BY <2>2, <3>3, Zenon
      <4> QED BY <1>8, <4>1 DEF Seqs
    <3> HIDE DEF Fresh
    <3> QED BY <2>3, <3>1, <3>2, <3>3, Zenon
  <2>4. \A s, x : Fresh(s, x) => s < next + k
    BY Zenon
  <2> HIDE DEF Fresh
  <2> QED BY <1>2, <2>1, <2>2, <2>3, <2>4, Zenon DEF OneId
<1>13. raced \subseteq raced'
  BY <1>2, Zenon
<1>14. AdditionHas(t)' = Range(batch) /\ \A u \in Adders : u # t => AdditionHas(u)' = AdditionHas(u)
  BY <1>4, <1>6, <1>7 DEF AdditionHas, Range
<1>15. \A d \in Removers : RemovalHas(d)' = RemovalHas(d)
  BY <1>2, Zenon DEF RemovalHas
<1>16. Overlaps'
  <2>1. \A d \in Removers : RemovalHas(d) \subseteq HeldByRemovals({})
    BY Zenon DEF HeldByRemovals
  <2>2. ASSUME NEW u \in Adders, NEW d \in Removers
        PROVE  AdditionHas(u)' \cap RemovalHas(d)' \subseteq raced'
    <3>1. CASE u = t
      BY <1>2, <1>14, <1>15, <2>1, <3>1, Zenon
    <3>2. CASE u # t
      BY <1>13, <1>14, <1>15, <3>2, Zenon DEF Kept, Overlaps
    <3> QED BY <3>1, <3>2, Zenon
  <2>3. \A c, e \in Removers : c # e => RemovalHas(c)' \cap RemovalHas(e)' \subseteq raced'
    BY <1>13, <1>15, Zenon DEF Kept, Overlaps
  <2> QED BY <2>2, <2>3, Zenon DEF Overlaps
<1>17. ReadsHold'
  <2>1. ASSUME NEW i \in DOMAIN recs, ~recs[i].isUpdate, recs[i].ok PROVE docs[recs[i].seq] = NoDoc
    <3>1. recs[i].seq \in Seqs /\ next <= recs[i].seq
      BY <1>4, <1>6, <1>9, <2>1, Zenon
    <3>2. PICK s \in Seqs : s = recs[i].seq
      BY <3>1, Zenon
    <3>3. ASSUME docs[s].id \in Ids PROVE FALSE
      <4>1. Stands(s, docs[s].id)
        BY Zenon DEF Stands
      <4>2. s < next
        BY <3>3, <4>1, Zenon DEF Kept, OneId
      <4> QED BY <1>8, <3>1, <3>2, <4>2 DEF Seqs
    <3>4. docs[s] \in Docs
      BY Zenon DEF Types
    <3>5. docs[s].id = None
      BY <3>3, <3>4, Zenon DEF Docs
    <3> QED BY <3>2, <3>5, Zenon DEF Shapes
  <2>2. ASSUME NEW i \in DOMAIN recs, recs[i].isUpdate, recs[i].id \notin raced
        PROVE  /\ idKey[recs[i].id] = recs[i].seq
               /\ docs[recs[i].seq] = [id |-> recs[i].id, val |-> recs[i].old]
    <3>1. recs[i].id \in Ids /\ recs[i].seq = idKey[recs[i].id] /\ idKey[recs[i].id] # 0
          /\ recs[i].old = docs[recs[i].seq].val /\ recs[i].seq \in Seqs
      BY <1>4, <1>6, <1>9, <2>2
    <3>2. docs[recs[i].seq].id = recs[i].id
      BY <2>2, <3>1 DEF Kept, IdsResolve
    <3>3. docs[recs[i].seq] \in Docs
      BY <3>1, Zenon DEF Types
    <3>4. \A x \in Docs : x = [id |-> x.id, val |-> x.val]
      BY DEF Docs
    <3> QED BY <3>1, <3>2, <3>3, <3>4, Zenon
  <2>3. \A i \in DOMAIN recs : ~recs[i].isUpdate => idKey[recs[i].id] = 0
    BY <1>4, <1>6, Zenon
  <2>4. ASSUME NEW u \in Adders, NEW i \in DOMAIN call'[u].recs, NEW r, r = call'[u].recs[i]
        PROVE  /\ ~r.isUpdate /\ r.ok => docs[r.seq] = NoDoc
               /\ r.id \notin raced' /\ r.isUpdate =>
                      idKey[r.id] = r.seq /\ docs[r.seq] = [id |-> r.id, val |-> r.old]
               /\ r.id \notin raced' /\ ~r.isUpdate => idKey[r.id] = 0
    <3>1. CASE u = t
      BY <1>7, <1>13, <2>1, <2>2, <2>3, <2>4, <3>1, Zenon
    <3>2. CASE u # t
      <4>1. i \in DOMAIN call[u].recs /\ r = call[u].recs[i]
        BY <1>7, <2>4, <3>2, Zenon
      <4>2. ReadsHold
        BY Zenon DEF Kept
      <4>3. /\ ~r.isUpdate /\ r.ok => docs[r.seq] = NoDoc
            /\ r.id \notin raced /\ r.isUpdate =>
                   idKey[r.id] = r.seq /\ docs[r.seq] = [id |-> r.id, val |-> r.old]
            /\ r.id \notin raced /\ ~r.isUpdate => idKey[r.id] = 0
        BY <4>1, <4>2, RecordRead, Zenon
      <4> QED BY <1>13, <4>3, Zenon
    <3> QED BY <3>1, <3>2, Zenon
  <2>5. idKey' = idKey /\ docs' = docs
    BY <1>2, Zenon
  <2> QED BY <2>4, <2>5, ZenonT(60) DEF ReadsHold
<1>18. RemovalsHold'
  BY <1>2, <1>13, Zenon DEF Kept, RemovalsHold
<1>19. UpdatesKept'
  BY <1>2, <1>13, Zenon DEF Kept, UpdatesKept
<1>20. IdsResolve'
  BY <1>2, <1>13, Zenon DEF Kept, IdsResolve
<1> QED BY <1>10, <1>11, <1>12, <1>16, <1>17, <1>18, <1>19, <1>20, Zenon DEF Kept

(* The records a call is going to write.                                   *)
LEMMA AcceptedIs ==
    ASSUME Types, Shapes, Kept, NEW t \in Adders
    PROVE  /\ \A r \in Accepted(t) :
                /\ r \in Recs /\ r.ok /\ r.id \in Ids /\ r.seq \in Seqs
                /\ Stands(r.seq, r.id) /\ r.id \in AdditionHas(t)
                /\ r.new = Merged(call[t].op, r.old)
                /\ owner[Stripe[r.id]] = t
                /\ ~r.isUpdate => r.old = {} /\ docs[r.seq] = NoDoc
                /\ r.id \notin raced /\ r.isUpdate =>
                       idKey[r.id] = r.seq /\ docs[r.seq] = [id |-> r.id, val |-> r.old]
                /\ r.id \notin raced /\ ~r.isUpdate => idKey[r.id] = 0
           /\ \A q, r \in Accepted(t) : q.id = r.id \/ q.seq = r.seq => q = r
<1> DEFINE Fine(r) ==
      /\ r \in Recs /\ r.ok /\ r.id \in Ids /\ r.seq \in Seqs
      /\ Stands(r.seq, r.id) /\ r.id \in AdditionHas(t)
      /\ r.new = Merged(call[t].op, r.old)
      /\ owner[Stripe[r.id]] = t
      /\ ~r.isUpdate => r.old = {} /\ docs[r.seq] = NoDoc
      /\ r.id \notin raced /\ r.isUpdate =>
             idKey[r.id] = r.seq /\ docs[r.seq] = [id |-> r.id, val |-> r.old]
      /\ r.id \notin raced /\ ~r.isUpdate => idKey[r.id] = 0
<1>1. ASSUME NEW r \in Accepted(t)
      PROVE  \E i \in DOMAIN call[t].recs : r = call[t].recs[i] /\ r.ok
  BY Zenon DEF Accepted
<1>2. ASSUME NEW i \in DOMAIN call[t].recs, NEW r, r = call[t].recs[i], r.ok
      PROVE  /\ Fine(r)
             /\ i \in DOMAIN call[t].batch /\ r.id = call[t].batch[i]
  <2>1. /\ r \in Recs /\ r.id \in Ids /\ r.id \in AdditionHas(t)
        /\ r.isUpdate \/ r.ok => r.seq \in Seqs /\ Stands(r.seq, r.id)
    BY <1>2, RecordStands, Zenon
  <2>2. CallShape(t)
    BY Zenon DEF Shapes
  <2>3. /\ r.new = Merged(call[t].op, r.old)
        /\ ~r.isUpdate => r.old = {}
        /\ i \in DOMAIN call[t].batch /\ r.id = call[t].batch[i]
    BY <1>2, <2>2, Zenon DEF CallShape
  <2>4. call[t].pc \in {"index", "store"}
    <3>1. call[t].recs # <<>>
      BY <1>2
    <3> QED BY <2>2, <3>1, Zenon DEF CallShape
  <2>5. owner[Stripe[r.id]] = t
    BY <2>2, <2>3, <2>4, Zenon DEF CallShape
  <2>6. /\ ~r.isUpdate /\ r.ok => docs[r.seq] = NoDoc
        /\ r.id \notin raced /\ r.isUpdate =>
               idKey[r.id] = r.seq /\ docs[r.seq] = [id |-> r.id, val |-> r.old]
        /\ r.id \notin raced /\ ~r.isUpdate => idKey[r.id] = 0
    BY <1>2, Zenon DEF Kept, ReadsHold
  <2>7. Fine(r)
    BY <1>2, <2>1, <2>3, <2>5, <2>6, Zenon
  <2> QED BY <2>3, <2>7, Zenon
<1> HIDE DEF Fine
<1>3. ASSUME NEW q \in Accepted(t), NEW r \in Accepted(t), q.id = r.id \/ q.seq = r.seq
      PROVE  q = r
  <2>1. PICK i \in DOMAIN call[t].recs : q = call[t].recs[i] /\ q.ok
    BY <1>1, Zenon
  <2>2. PICK j \in DOMAIN call[t].recs : r = call[t].recs[j] /\ r.ok
    BY <1>1, Zenon
  <2>3. /\ q.id \in Ids /\ q.seq \in Seqs /\ Stands(q.seq, q.id)
        /\ i \in DOMAIN call[t].batch /\ q.id = call[t].batch[i]
    BY <1>2, <2>1, Zenon DEF Fine
  <2>4. /\ r.id \in Ids /\ r.seq \in Seqs /\ Stands(r.seq, r.id)
        /\ j \in DOMAIN call[t].batch /\ r.id = call[t].batch[j]
    BY <1>2, <2>2, Zenon DEF Fine
  <2>5. q.id = r.id
    BY <1>3, <2>3, <2>4, SameDocument, Zenon
  <2>6. IsInjective(call[t].batch)
    <3>1. CallShape(t) /\ call[t].recs # <<>>
      BY <2>1 DEF Shapes
    <3> QED BY <3>1, Zenon DEF CallShape
  <2>7. i = j
    BY <2>3, <2>4, <2>5, <2>6, Zenon DEF IsInjective
  <2> QED BY <2>1, <2>2, <2>7, Zenon
<1>4. ASSUME NEW r \in Accepted(t)
      PROVE  Fine(r)
  <2>1. PICK i \in DOMAIN call[t].recs : r = call[t].recs[i] /\ r.ok
    BY <1>1, Zenon
  <2> QED BY <1>2, <2>1, Zenon
<1> QED BY <1>3, <1>4, ZenonT(40) DEF Fine

(* The records good of a call are in the store, and nothing else changed.  *)
Writes(t, good) ==
    /\ \A r \in good : /\ docs'[r.seq] = [id |-> r.id, val |-> r.new]
                       /\ written'[r.seq] = Merged(call[t].op, written[r.seq])
                       /\ ~r.isUpdate => idKey'[r.id] = r.seq
    /\ \A s \in Seqs : (\A r \in good : r.seq # s) =>
           docs'[s] = docs[s] /\ written'[s] = written[s]
    /\ \A x \in Ids : (\A r \in good : r.id = x => r.isUpdate) => idKey'[x] = idKey[x]

(* What the write of a batch does to the store.                            *)
LEMMA StoreEffect ==
    ASSUME Types, Shapes, Kept, NEW t \in Adders, NEW failed, batch_index(t, failed)
    PROVE  /\ Writes(t, Accepted(t) \ failed)
           /\ docs' \in [Seqs -> Docs] /\ written' \in [Seqs -> SUBSET Fields]
           /\ idKey' \in [Ids -> 0..MaxSeq]
<1> DEFINE good == Accepted(t) \ failed
<1>1. /\ \A r \in good : r \in Recs /\ r.id \in Ids /\ r.seq \in Seqs /\ r.new \in SUBSET Fields
      /\ \A q, r \in good : q.id = r.id \/ q.seq = r.seq => q = r
  BY AcceptedIs, ZenonT(40) DEF Recs
<1>2. /\ docs' = [s \in Seqs |-> IF s \in SeqsOf(good)
                                 THEN [id |-> RecOf(good, s).id, val |-> RecOf(good, s).new]
                                 ELSE docs[s]]
      /\ idKey' = [id \in Ids |-> IF \E r \in good : r.id = id /\ ~r.isUpdate
                                  THEN (CHOOSE r \in good : r.id = id).seq ELSE idKey[id]]
      /\ written' = [s \in Seqs |-> IF s \notin SeqsOf(good) THEN written[s]
                                    ELSE Merged(call[t].op, written[s])]
  BY DEF batch_index, Merged
<1> HIDE DEF good
<1>3. \A s : s \in SeqsOf(good) <=> \E r \in good : r.seq = s
  BY Zenon DEF SeqsOf
<1>4. ASSUME NEW r \in good PROVE RecOf(good, r.seq) = r
  BY <1>1, Zenon DEF RecOf
<1>5. ASSUME NEW r \in good PROVE (CHOOSE q \in good : q.id = r.id) = r
  BY <1>1, Zenon
<1>6. ASSUME NEW r \in good
      PROVE  /\ docs'[r.seq] = [id |-> r.id, val |-> r.new]
             /\ written'[r.seq] = Merged(call[t].op, written[r.seq])
             /\ ~r.isUpdate => idKey'[r.id] = r.seq
  <2>1. r.seq \in Seqs /\ r.seq \in SeqsOf(good) /\ r.id \in Ids
    BY <1>1, <1>3, Zenon
  <2>2. docs'[r.seq] = [id |-> r.id, val |-> r.new]
    BY <1>2, <1>4, <2>1, Zenon
  <2>3. written'[r.seq] = Merged(call[t].op, written[r.seq])
    BY <1>2, <2>1, Zenon
  <2>4. ~r.isUpdate => idKey'[r.id] = r.seq
    BY <1>2, <1>5, <2>1, Zenon
  <2> QED BY <2>2, <2>3, <2>4, Zenon
<1>7. ASSUME NEW s \in Seqs, \A r \in good : r.seq # s
      PROVE  docs'[s] = docs[s] /\ written'[s] = written[s]
  BY <1>2, <1>3, <1>7, Zenon
<1>8. ASSUME NEW x \in Ids, \A r \in good : r.id = x => r.isUpdate
      PROVE  idKey'[x] = idKey[x]
  BY <1>2, <1>8, Zenon
<1>9. call[t].op \in Ops /\ call[t].op.field \in Fields
  <2>1. call[t].op \in Ops
    BY Zenon DEF batch_index, Shapes, CallShape
  <2> QED BY <2>1, Constant, Zenon
<1>10. \A s \in Seqs : docs[s] \in Docs /\ written[s] \in SUBSET Fields
  BY Zenon DEF Types
<1>11. ASSUME NEW s \in Seqs PROVE docs'[s] \in Docs /\ written'[s] \in SUBSET Fields
  <2>1. CASE \E r \in good : r.seq = s
    <3>1. PICK r \in good : r.seq = s
      BY <2>1, Zenon
    <3>2. docs'[s] = [id |-> r.id, val |-> r.new] /\ written'[s] = Merged(call[t].op, written[s])
      BY <1>6, <3>1, Zenon
    <3>3. r.id \in Ids /\ r.new \in SUBSET Fields
      BY <1>1, Zenon
    <3> QED BY <1>9, <1>10, <3>2, <3>3 DEF Docs, Merged
  <2>2. CASE \A r \in good : r.seq # s
    BY <1>7, <1>10, <2>2, Zenon
  <2> QED BY <2>1, <2>2, Zenon
<1>12. ASSUME NEW x \in Ids PROVE idKey'[x] \in 0..MaxSeq
  <2>1. CASE \E r \in good : r.id = x /\ ~r.isUpdate
    <3>1. PICK r \in good : r.id = x /\ ~r.isUpdate
      BY <2>1, Zenon
    <3>2. idKey'[x] \in Seqs
      BY <1>1, <1>6, <3>1, Zenon
    <3> QED BY <3>2, Constant DEF Seqs
  <2>2. CASE \A r \in good : r.id = x => r.isUpdate
    BY <1>8, <2>2, Zenon DEF Types
  <2> QED BY <2>1, <2>2, Zenon
<1>13. docs' \in [Seqs -> Docs]
  <2>1. docs' = [s \in Seqs |-> docs'[s]]
    BY <1>2, Zenon
  <2> QED BY <1>11, <2>1, Zenon
<1>14. written' \in [Seqs -> SUBSET Fields]
  <2>1. written' = [s \in Seqs |-> written'[s]]
    BY <1>2, Zenon
  <2> QED BY <1>11, <2>1, Zenon
<1>15. idKey' \in [Ids -> 0..MaxSeq]
  <2>1. idKey' = [x \in Ids |-> idKey'[x]]
    BY <1>2
  <2> QED BY <1>12, <2>1, Zenon
<1>16. Writes(t, good)
  BY <1>6, <1>7, <1>8, Zenon DEF Writes
<1> QED BY <1>13, <1>14, <1>15, <1>16, Zenon DEF good

(* A call that has written has nothing in hand.                            *)
LEMMA ContinueShape ==
    ASSUME Types, Shapes, NEW t \in Adders, call[t].pc = "store", Continue(t), UNCHANGED del
    PROVE  /\ owner' \in [{Stripe[id] : id \in Ids} -> Adders \cup {None}]
           /\ call' \in [Adders -> Calls] /\ call'[t].recs = <<>>
           /\ \A u \in Adders : u # t => call'[u] = call[u]
           /\ \A u \in Adders : CallShape(u)'
           /\ \A d \in Removers : DelShape(d)'
<1>1. PICK n : n = NextBatch(call[t], call[t].todo)
  BY Zenon
<1>2. /\ call' = [call EXCEPT ![t] = n]
      /\ owner' = [s \in DOMAIN owner |-> IF owner[s] = t THEN None ELSE owner[s]]
  <2>1. call' = [call EXCEPT ![t] = NextBatch(@, @.todo)] /\ owner' = Released(t)
    BY Zenon DEF Continue
  <2>2. call \in [Adders -> Calls]
    BY Zenon DEF Types
  <2> QED BY <1>1, <2>1, <2>2, Zenon DEF Released
<1>3. /\ n \in Calls /\ n.recs = <<>> /\ n.pc \in {"idle", "lock"}
      /\ n.pc # "idle" => n.op \in Ops /\ IsInjective(n.batch)
  <2>1. call[t] \in Calls /\ call[t].todo \in Seq(Ids) /\ call[t].op \in Ops
    BY CallTyped, Zenon DEF Shapes, CallShape
  <2> QED BY <1>1, <2>1, NextBatchIs, Zenon
<1>4. call' \in [Adders -> Calls] /\ call'[t] = n /\ \A u \in Adders : u # t => call'[u] = call[u]
  BY <1>2, <1>3, Zenon DEF Types
<1>5. /\ owner' \in [{Stripe[id] : id \in Ids} -> Adders \cup {None}]
      /\ \A s \in {Stripe[id] : id \in Ids} : owner'[s] = IF owner[s] = t THEN None ELSE owner[s]
  BY <1>2, Zenon DEF Types
<1>6. CallShape(t)'
  BY <1>3, <1>4 DEF CallShape
<1>7. ASSUME NEW u \in Adders, u # t PROVE CallShape(u)'
  <2>1. \A s \in {Stripe[id] : id \in Ids} : owner[s] = u => owner'[s] = u
    BY <1>5, <1>7, Zenon
  <2>2. call'[u] = call[u] /\ CallShape(u)
    BY <1>4, <1>7, Zenon DEF Shapes
  <2> QED BY <2>1, <2>2, CallSame, Zenon
<1>8. \A d \in Removers : DelShape(d)'
  BY DelSame, Zenon DEF Shapes
<1> QED BY <1>3, <1>4, <1>5, <1>6, <1>7, <1>8, Zenon

(* The write of a batch keeps the invariant, whatever of it fails.         *)
LEMMA StoreKeeps ==
    ASSUME Types, Shapes, Kept, NEW t \in Adders, NEW failed, batch_index(t, failed)
    PROVE  Types' /\ Shapes' /\ Kept'
<1>1. PICK good : good = Accepted(t) \ failed
  BY Zenon
<1>2. /\ call[t].pc = "store" /\ Continue(t) /\ next' = next /\ del' = del
      /\ raced' = raced /\ torn' = torn
  BY Zenon DEF batch_index
<1>3. \A r \in good :
        /\ r.id \in Ids /\ r.seq \in Seqs /\ r.ok
        /\ Stands(r.seq, r.id) /\ r.id \in AdditionHas(t)
        /\ r.new = Merged(call[t].op, r.old)
        /\ owner[Stripe[r.id]] = t
        /\ ~r.isUpdate => r.old = {} /\ docs[r.seq] = NoDoc
        /\ r.id \notin raced /\ r.isUpdate =>
               idKey[r.id] = r.seq /\ docs[r.seq] = [id |-> r.id, val |-> r.old]
        /\ r.id \notin raced /\ ~r.isUpdate => idKey[r.id] = 0
  BY <1>1, AcceptedIs, ZenonT(40)
<1>4. \A q, r \in good : q.id = r.id \/ q.seq = r.seq => q = r
  BY <1>1, AcceptedIs, ZenonT(40)
<1>5. /\ \A r \in good : /\ docs'[r.seq] = [id |-> r.id, val |-> r.new]
                         /\ written'[r.seq] = Merged(call[t].op, written[r.seq])
                         /\ ~r.isUpdate => idKey'[r.id] = r.seq
      /\ \A s \in Seqs : (\A r \in good : r.seq # s) =>
             docs'[s] = docs[s] /\ written'[s] = written[s]
      /\ \A x \in Ids : (\A r \in good : r.id = x => r.isUpdate) => idKey'[x] = idKey[x]
  <2>1. Writes(t, Accepted(t) \ failed)
    BY StoreEffect, Zenon
  <2>2. Writes(t, good)
    BY <1>1, <2>1
  <2> QED BY <2>2, Zenon DEF Writes
<1>6. /\ owner' \in [{Stripe[id] : id \in Ids} -> Adders \cup {None}]
      /\ call' \in [Adders -> Calls] /\ call'[t].recs = <<>>
      /\ \A u \in Adders : u # t => call'[u] = call[u]
      /\ \A u \in Adders : CallShape(u)'
      /\ \A d \in Removers : DelShape(d)'
  BY <1>2, ContinueShape, Zenon
<1>a. \A r \in good : r.id \in Ids /\ r.seq \in Seqs /\ Stands(r.seq, r.id)
  BY <1>3, Zenon
<1>b. \A r \in good : docs'[r.seq].id = r.id /\ docs'[r.seq].val = r.new
  <2> SUFFICES ASSUME NEW r \in good PROVE docs'[r.seq].id = r.id /\ docs'[r.seq].val = r.new
    BY Zenon
  <2>1. docs'[r.seq] = [id |-> r.id, val |-> r.new]
    BY <1>5, Zenon
  <2> QED BY <2>1
<1>c. \A r \in good : ~r.isUpdate => idKey'[r.id] = r.seq
  BY <1>5, Zenon
<1>d. \A s \in Seqs : (\A r \in good : r.seq # s) => docs'[s] = docs[s] /\ written'[s] = written[s]
  BY <1>5, Zenon
<1>e. \A x \in Ids : (\A r \in good : r.id = x => r.isUpdate) => idKey'[x] = idKey[x]
  BY <1>5, Zenon
<1>7. None \notin Ids /\ 0 \notin Seqs
  BY Constant DEF Seqs
<1>8. Types'
  <2>1. docs' \in [Seqs -> Docs] /\ written' \in [Seqs -> SUBSET Fields]
        /\ idKey' \in [Ids -> 0..MaxSeq]
    BY StoreEffect, Zenon
  <2> QED BY <1>2, <1>6, <2>1, Zenon DEF Types
<1>9. Shapes'
  <2>1. ASSUME NEW s \in Seqs, docs'[s].id = None PROVE docs'[s] = NoDoc /\ written'[s] = {}
    <3>1. \A r \in good : r.seq # s
      BY <1>a, <1>b, <1>7, <2>1
    <3>2. docs'[s] = docs[s] /\ written'[s] = written[s]
      BY <1>d, <3>1, Zenon
    <3> QED BY <2>1, <3>2, Zenon DEF Shapes
  <2> QED BY <1>6, <2>1, Zenon DEF Shapes
<1>10. \A u \in Adders : call'[u].recs = <<>> \/ (u # t /\ call'[u].recs = call[u].recs)
  BY <1>6, Zenon
<1>11. OneId'
  <2>1. ASSUME NEW s \in Seqs, NEW x \in Ids, Stands(s, x)' PROVE Stands(s, x)
    <3>1. CASE docs'[s].id = x
      <4>1. CASE \E r \in good : r.seq = s
        BY <1>a, <1>b, <3>1, <4>1, Zenon
      <4>2. CASE \A r \in good : r.seq # s
        BY <1>d, <3>1, <4>2, Zenon DEF Stands
      <4> QED BY <4>1, <4>2, Zenon
    <3>2. CASE idKey'[x] = s
      <4>1. CASE \E r \in good : r.id = x /\ ~r.isUpdate
        BY <1>a, <1>c, <3>2, <4>1, Zenon
      <4>2. CASE \A r \in good : r.id = x => r.isUpdate
        BY <1>e, <3>2, <4>2, Zenon DEF Stands
      <4> QED BY <4>1, <4>2, Zenon
    <3>3. CASE \E u \in Adders : \E i \in DOMAIN call'[u].recs :
                 /\ call'[u].recs[i].isUpdate \/ call'[u].recs[i].ok
                 /\ call'[u].recs[i].seq = s /\ call'[u].recs[i].id = x
      BY <1>10, <3>3 DEF Stands
    <3>4. CASE \E d \in Removers : \E i \in DOMAIN del'[d].got :
                 del'[d].got[i].seq = s /\ del'[d].got[i].id = x
      BY <1>2, <3>4, Zenon DEF Stands
    <3> QED BY <2>1, <3>1, <3>2, <3>3, <3>4, Zenon DEF Stands
  <2> QED BY <1>2, <2>1, Zenon DEF Kept, OneId
<1>12. \A u \in Adders : AdditionHas(u)' \subseteq AdditionHas(u)
  BY <1>10 DEF AdditionHas
<1>13. \A d \in Removers : RemovalHas(d)' = RemovalHas(d)
  BY <1>2, Zenon DEF RemovalHas
<1>14. Overlaps'
  <2>1. \A u \in Adders, d \in Removers : AdditionHas(u)' \cap RemovalHas(d)' \subseteq raced'
    BY <1>2, <1>12, <1>13, Zenon DEF Kept, Overlaps
  <2>2. \A c, e \in Removers : c # e => RemovalHas(c)' \cap RemovalHas(e)' \subseteq raced'
    BY <1>2, <1>13, Zenon DEF Kept, Overlaps
  <2> QED BY <2>1, <2>2, Zenon DEF Overlaps
<1>15. ReadsHold'
  <2>1. ASSUME NEW u \in Adders, NEW i \in DOMAIN call'[u].recs, NEW r, r = call'[u].recs[i]
        PROVE  /\ ~r.isUpdate /\ r.ok => docs'[r.seq] = NoDoc
               /\ r.id \notin raced /\ r.isUpdate =>
                      idKey'[r.id] = r.seq /\ docs'[r.seq] = [id |-> r.id, val |-> r.old]
               /\ r.id \notin raced /\ ~r.isUpdate => idKey'[r.id] = 0
    <3>1. u # t /\ i \in DOMAIN call[u].recs /\ r = call[u].recs[i]
      BY <1>10, <2>1
    <3>2. /\ ~r.isUpdate /\ r.ok => docs[r.seq] = NoDoc
          /\ r.id \notin raced /\ r.isUpdate =>
                 idKey[r.id] = r.seq /\ docs[r.seq] = [id |-> r.id, val |-> r.old]
          /\ r.id \notin raced /\ ~r.isUpdate => idKey[r.id] = 0
      BY <3>1, Zenon DEF Kept, ReadsHold
    <3>3. /\ r.id \in Ids
          /\ r.isUpdate \/ r.ok => r.seq \in Seqs /\ Stands(r.seq, r.id)
      BY <3>1, RecordStands, Zenon
    <3>4. owner[Stripe[r.id]] = u
      <4>1. CallShape(u) /\ call[u].recs # <<>>
        BY <3>1 DEF Shapes
      <4>2. call[u].pc \in {"index", "store"} /\ i \in DOMAIN call[u].batch /\ r.id = call[u].batch[i]
        BY <3>1, <4>1, Zenon DEF CallShape
      <4> QED BY <4>1, <4>2 DEF CallShape
    <3>5. \A q \in good : q.id # r.id
      BY <1>3, <3>1, <3>4, Zenon
    <3>6. idKey'[r.id] = idKey[r.id]
      BY <1>e, <3>3, <3>5, Zenon
    <3>7. r.isUpdate \/ r.ok => docs'[r.seq] = docs[r.seq]
      <4>1. ASSUME r.isUpdate \/ r.ok PROVE \A q \in good : q.seq # r.seq
        BY <1>a, <3>3, <3>5, <4>1, SameDocument, Zenon
      <4> QED BY <1>d, <3>3, <4>1, Zenon
    <3> QED BY <3>2, <3>6, <3>7, Zenon
  <2> QED BY <1>2, <2>1 DEF ReadsHold
<1>16. \A d \in Removers : \A i \in DOMAIN del[d].got :
         del[d].got[i].id \in Ids /\
         (del[d].got[i].id \in raced \/ idKey'[del[d].got[i].id] = idKey[del[d].got[i].id])
  <2> SUFFICES ASSUME NEW d \in Removers, NEW i \in DOMAIN del[d].got, NEW x,
                      x = del[d].got[i].id, x \notin raced
               PROVE  x \in Ids /\ idKey'[x] = idKey[x]
    BY RemovalStands, Zenon
  <2>1. x \in Ids /\ x \in RemovalHas(d)
    BY RemovalStands, Zenon
  <2>2. \A r \in good : r.id # x
    BY <1>3, <2>1, Zenon DEF Kept, Overlaps
  <2> QED BY <1>e, <2>1, <2>2, Zenon
<1>17. RemovalsHold'
  <2>1. ASSUME NEW d \in Removers, del[d].pc = "dockey"
        PROVE  Head(del[d].got).id \in raced \/ idKey'[Head(del[d].got).id] = 0
    <3>1. 1 \in DOMAIN del[d].got /\ Head(del[d].got) = del[d].got[1]
      BY <2>1, Handed, Zenon
    <3> QED BY <1>16, <2>1, <3>1 DEF Kept, RemovalsHold
  <2>2. \A d \in Removers : \A i \in DOMAIN del[d].got : del[d].got[i].id \notin raced \cup torn =>
          idKey'[del[d].got[i].id] \in {0, del[d].got[i].seq}
    BY <1>16, Zenon DEF Kept, RemovalsHold
  <2> QED BY <1>2, <2>1, <2>2, Zenon DEF RemovalsHold
<1>18. UpdatesKept'
  <2>1. ASSUME NEW s \in Seqs, docs'[s] # NoDoc, docs'[s].id \notin raced
        PROVE  docs'[s].val = written'[s]
    <3>1. CASE \E r \in good : r.seq = s
      <4>1. PICK r \in good : r.seq = s
        BY <3>1, Zenon
      <4>2. /\ docs'[s].id = r.id /\ docs'[s].val = Merged(call[t].op, r.old)
            /\ written'[s] = Merged(call[t].op, written[s])
        <5>1. docs'[s].id = r.id /\ docs'[s].val = r.new
          BY <1>b, <4>1, Zenon
        <5>2. r.new = Merged(call[t].op, r.old)
          BY <1>3, Zenon
        <5>3. written'[s] = Merged(call[t].op, written[s])
          BY <1>5, <4>1, Zenon
        <5> QED BY <5>1, <5>2, <5>3, Zenon
      <4>3. r.old = written[s]
        <5>1. CASE r.isUpdate
          <6>1. docs[s] = [id |-> r.id, val |-> r.old] /\ r.id \in Ids
            BY <1>3, <2>1, <4>1, <4>2, <5>1, Zenon
          <6>2. docs[s].id = r.id /\ docs[s].val = r.old /\ docs[s] # NoDoc
            BY <1>7, <6>1 DEF NoDoc
          <6> QED BY <2>1, <4>2, <6>2, Zenon DEF Kept, UpdatesKept
        <5>2. CASE ~r.isUpdate
          <6>1. r.old = {} /\ docs[s] = NoDoc
            BY <1>3, <4>1, <5>2, Zenon
          <6>2. docs[s].id = None
            BY <6>1 DEF NoDoc
          <6> QED BY <6>1, <6>2, Zenon DEF Shapes
        <5> QED BY <5>1, <5>2, Zenon
      <4> QED BY <4>2, <4>3, Zenon
    <3>2. CASE \A r \in good : r.seq # s
      BY <1>d, <2>1, <3>2, Zenon DEF Kept, UpdatesKept
    <3> QED BY <3>1, <3>2, Zenon
  <2> QED BY <1>2, <2>1, Zenon DEF UpdatesKept
<1>19. IdsResolve'
  <2>1. ASSUME NEW s \in Seqs, docs'[s] # NoDoc, docs'[s].id \notin raced \cup torn
        PROVE  \/ idKey'[docs'[s].id] = s
               \/ \E d \in Removers : del[d].pc = "dockey" /\ Head(del[d].got).seq = s
    <3>1. CASE \E r \in good : r.seq = s
      <4>1. PICK r \in good : r.seq = s
        BY <3>1, Zenon
      <4>2. docs'[s].id = r.id /\ r.id \in Ids
        BY <1>a, <1>b, <4>1, Zenon
      <4>3. CASE r.isUpdate
        <5>1. idKey[r.id] = s
          BY <1>3, <2>1, <4>1, <4>2, <4>3, Zenon
        <5>2. \A q \in good : q.id = r.id => q.isUpdate
          BY <1>4, <4>3, Zenon
        <5> QED BY <1>e, <4>2, <5>1, <5>2, Zenon
      <4>4. CASE ~r.isUpdate
        BY <1>c, <4>1, <4>2, <4>4, Zenon
      <4> QED BY <4>3, <4>4, Zenon
    <3>2. CASE \A r \in good : r.seq # s
      <4>1. docs'[s] = docs[s]
        BY <1>d, <3>2, Zenon
      <4>2. docs[s].id \in Ids
        BY <2>1, <4>1, Zenon DEF Types, Shapes, Docs
      <4>3. CASE idKey[docs[s].id] = s
        <5>1. \A r \in good : r.id = docs[s].id => r.isUpdate
          BY <1>3, <1>7, <2>1, <4>1, <4>3, ZenonT(40)
        <5> QED BY <1>e, <4>1, <4>2, <4>3, <5>1, Zenon
      <4> QED BY <2>1, <4>1, <4>3, Zenon DEF Kept, IdsResolve
    <3> QED BY <3>1, <3>2, Zenon
  <2>2. ASSUME NEW x \in Ids \ raced, idKey'[x] # 0 PROVE docs'[idKey'[x]].id = x
    <3>1. CASE \E r \in good : r.id = x /\ ~r.isUpdate
      BY <1>b, <1>c, <3>1
    <3>2. CASE \A r \in good : r.id = x => r.isUpdate
      <4>1. idKey'[x] = idKey[x]
        BY <1>e, <3>2, Zenon
      <4>2. PICK s \in Seqs : s = idKey[x] /\ Stands(s, x)
        BY <2>2, <4>1, IdKeyStands, Zenon
      <4>3. CASE \E r \in good : r.seq = s
        <5>1. PICK r \in good : r.seq = s
          BY <4>3, Zenon
        <5>2. r.id = x
          BY <1>a, <4>2, <5>1, SameDocument, Zenon
        <5> QED BY <1>b, <4>1, <4>2, <5>1, <5>2, Zenon
      <4>4. CASE \A r \in good : r.seq # s
        <5>1. docs[s].id = x
          BY <2>2, <4>1, <4>2, Zenon DEF Kept, IdsResolve
        <5> QED BY <1>d, <4>1, <4>2, <4>4, <5>1, Zenon
      <4> QED BY <4>3, <4>4, Zenon
    <3> QED BY <3>1, <3>2, Zenon
  <2> QED BY <1>2, <2>1, <2>2, Zenon DEF IdsResolve
<1> QED BY <1>8, <1>9, <1>11, <1>14, <1>15, <1>17, <1>18, <1>19, Zenon DEF Kept

-----------------------------------------------------------------------------
(* Every step keeps the invariant for what is stored.                      *)
LEMMA NextKeeps ==
    ASSUME Types, Shapes, Kept, [Next]_vars
    PROVE  Types' /\ Shapes' /\ Kept'
<1>1. ASSUME NEW t \in Adders, add_many(t) \/ LockStripe(t) \/ batch_memory_index(t)
      PROVE  Types' /\ Shapes' /\ Kept'
  BY <1>1, AddManyShape, LockStripeShape, MemoryIndexShape, FrameKeeps, Zenon
<1>2. ASSUME NEW t \in Adders, prepare_document_for_indexing(t)
      PROVE  Types' /\ Shapes' /\ Kept'
  BY <1>2, PrepareKeeps, Zenon
<1>3. ASSUME NEW t \in Adders, Stored(t) \/ StoreFails(t)
      PROVE  Types' /\ Shapes' /\ Kept'
  <2>1. PICK failed : batch_index(t, failed)
    BY <1>3, Zenon DEF Stored, StoreFails
  <2> QED BY <2>1, StoreKeeps, Zenon
<1>4. ASSUME NEW d \in Removers, \/ del_remove_documents(d) \/ remove(d)
                                 \/ remove_if_found_many(d) \/ on_deferred_process_request(d)
      PROVE  Types' /\ Shapes' /\ Kept'
  BY <1>4, DeleteShape, RemovalMovesShape, FrameKeeps, Zenon
<1>5. ASSUME NEW d \in Removers, stateful_remove_docs(d)
      PROVE  Types' /\ Shapes' /\ Kept'
  BY <1>5, FetchKeeps, Zenon
<1>6. ASSUME NEW d \in Removers, RemoveIdKey(d)
      PROVE  Types' /\ Shapes' /\ Kept'
  BY <1>6, RemoveIdKeyKeeps, Zenon
<1>7. ASSUME NEW d \in Removers, RemoveDocKey(d)
      PROVE  Types' /\ Shapes' /\ Kept'
  BY <1>7, RemoveDocKeyKeeps, Zenon
<1>8. ASSUME Crash PROVE Types' /\ Shapes' /\ Kept'
  BY <1>8, CrashKeeps, Zenon
<1>10. ASSUME NEW t \in Adders, IndexThrows(t) PROVE Types' /\ Shapes' /\ Kept'
  BY <1>10, ThrowKeeps, Zenon
<1>11. ASSUME NEW d \in Removers, ReadFails(d) PROVE Types' /\ Shapes' /\ Kept'
  BY <1>11, ReadFailsShape, FrameKeeps, Zenon
<1>9. ASSUME UNCHANGED vars PROVE Types' /\ Shapes' /\ Kept'
  <2>1. UNCHANGED <<idKey, docs, next, written, raced, torn, owner, call, del>>
    BY <1>9, Zenon DEF vars, stored, locks
  <2>2. Types'
    BY <2>1, Zenon DEF Types
  <2>3. \A t \in Adders : CallShape(t)'
    BY <2>1, CallSame, Zenon DEF Shapes
  <2>4. \A d \in Removers : DelShape(d)'
    BY <2>1, DelSame, Zenon DEF Shapes
  <2>5. Shapes'
    BY <2>1, <2>3, <2>4, Zenon DEF Shapes
  <2>6. Frame
    BY <2>1, Zenon DEF Frame
  <2> QED BY <2>2, <2>5, <2>6, FrameKeeps, Zenon
<1> QED BY <1>1, <1>2, <1>3, <1>4, <1>5, <1>6, <1>7, <1>8, <1>9, <1>10, <1>11, Zenon
        DEF Next, Adding, Removing

(* Whatever the calls, the removals, failed writes and crashes: what is    *)
(* stored is consistent in the sense of the inductive invariant.           *)
THEOREM StoreIsKept == Spec => [](Types /\ Shapes /\ Kept)
<1>1. Init => Types /\ Shapes /\ Kept
  BY InitKept, Zenon
<1>2. (Types /\ Shapes /\ Kept) /\ [Next]_vars => (Types /\ Shapes /\ Kept)'
  BY NextKeeps, Zenon
<1> QED BY <1>1, <1>2, PTL DEF Spec

(* UpdatesKept for any documents, stripes, threads, calls and batch size:  *)
(* the striped locks of add_many lose no field of a successful call.       *)
THEOREM UpdatesAreKept == Spec => []UpdatesKept
<1>1. Types /\ Shapes /\ Kept => UpdatesKept
  BY Zenon DEF Kept
<1> QED BY <1>1, StoreIsKept, PTL

(* IdsResolve for any documents, stripes, threads, calls and batch size.   *)
THEOREM IdsAreResolved == Spec => []IdsResolve
<1>1. Types /\ Shapes /\ Kept => IdsResolve
  BY Zenon DEF Kept
<1> QED BY <1>1, StoreIsKept, PTL
=============================================================================
