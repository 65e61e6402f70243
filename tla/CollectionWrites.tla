-------------------------- MODULE CollectionWrites --------------------------
(***************************************************************************)
(* Writes to the documents of one collection, by threads that overlap.     *)
(*                                                                         *)
(* A document lives in three places: under its id key (the sequence id)    *)
(* and under its sequence key (the document) in the RocksDB store, and in  *)
(* the in-memory index.  Collection::add_many reads the first two, changes *)
(* the index and then the store, and is kept apart from other calls on the *)
(* same documents by striped locks.  The removals (Collection::remove and  *)
(* remove_if_found_many) read, change the index and then the store as      *)
(* well, and take no stripe.                                               *)
(*                                                                         *)
(* The mirror worker applies one log entry at a time, under                *)
(* live_apply_mutex_.  But a delete by filter removes only a batch of what *)
(* matched in its first call; the rest follows in calls that the event     *)
(* loop defers to the thread pool, outside that mutex.                     *)
(*                                                                         *)
(* A document is the set of the fields it has, which is enough to tell a   *)
(* lost, a merged and a replaced version apart.  Every document comes with *)
(* its id; one without takes its sequence id for id, locks no stripe and   *)
(* looks nothing up.  References between collections are left out.         *)
(* External: RocksDB, whose single operations are atomic and durable in    *)
(* their order.                                                            *)
(***************************************************************************)
EXTENDS Integers, Sequences, FiniteSets, FiniteSetsExt, Functions

CONSTANTS
    Ids,          \* document ids
    Fields,       \* fields a document may have
    Stripe,       \* Ids -> the stripe of document_write_mutexes_ its hash selects
    Adders,       \* threads that call add_many
    Removers,     \* calls that remove, each with its state across batches
    Ops,          \* what may be written: [kind, field, lines]
    Filters,      \* the fields deletes by filter may ask for
    RemoveMax,    \* INTERNAL_REMOVE_BATCH_MAX, or batch_size when it is less
    Serial,       \* may the callers be the mirror worker (TRUE), threads (FALSE)
    MaxSeq,       \* bound: sequence ids
    MaxCalls,     \* bound: calls
    MaxFaults,    \* bound: failed writes and reads, and exceptions of the indexing
    MaxCrashes,   \* bound: crashes
    None

ASSUME WritesAssumption ==
    /\ Stripe \in [Ids -> Nat]
    /\ RemoveMax \in Nat \ {0}
    /\ Serial \subseteq BOOLEAN
    /\ MaxSeq \in Nat
    /\ None \notin Ids \cup Adders \cup Removers
    /\ \A op \in Ops : /\ op.kind \in {"create", "upsert", "update", "emplace"}
                       /\ op.field \in Fields
                       /\ op.lines \in Seq(Ids) \ {<<>>}

VARIABLES
    idKey,     \* get_doc_id_key: the sequence id of a document, 0 if there is none
    docs,      \* get_seq_id_key: the stored document of a sequence id
    next,      \* next_seq_id
    index,     \* the fields each sequence id is indexed under
    num,       \* num_documents
    owner,     \* who holds each stripe
    serial,    \* the callers are the mirror worker
    apply,     \* who holds live_apply_mutex_
    call,      \* the add_many call of each thread
    del,       \* the removal of each remover
    log,       \* history: what was called, in order
    written,   \* history: the fields each stored document owes to successful calls
    raced,     \* history: ids a removal and another call had in hand at once
    spoiled,   \* history: ids whose indexing ended in an exception, since the last load
    torn,      \* history: ids a crash left with one of their two keys
    late,      \* history: a call began, or a crash came, before a removal was through
    faults, crashes

stored == <<idKey, docs, next>>
memory == <<index, num>>
locks == <<owner, serial, apply>>
bounds == <<faults, crashes>>
vars == <<stored, memory, locks, call, del, log, written, raced, spoiled, torn, late, bounds>>

Seqs == 1..MaxSeq
NoDoc == [id |-> None, val |-> {}]
Idle == [pc |-> "idle", op |-> None, todo |-> <<>>, batch |-> <<>>, recs |-> <<>>]
NoDelete == [pc |-> "idle", ids |-> <<>>, got |-> <<>>]

Quiet == /\ \A t \in Adders : call[t].pc = "idle"
         /\ \A d \in Removers : del[d].pc = "idle"
-----------------------------------------------------------------------------
(* What the overlap of two calls is.                                       *)

(* The ids a removal has read and not yet removed from the store.          *)
RemovalHas(d) == {del[d].got[i].id : i \in DOMAIN del[d].got}

(* The ids a call has read and not yet written.                            *)
AdditionHas(t) == {call[t].recs[i].id : i \in DOMAIN call[t].recs}

HeldByRemovals(but) == UNION {RemovalHas(d) : d \in Removers \ but}
HeldByAdditions == UNION {AdditionHas(t) : t \in Adders}

Unfinished == \E d \in Removers : del[d].pc # "idle"

(* live_apply_mutex_ is taken for the call of a log entry.                 *)
MayBegin == /\ Len(log) < MaxCalls
            /\ serial => apply = None

Began(who, entry) ==
    /\ log' = Append(log, entry)
    /\ late' = (late \/ Unfinished)
    /\ apply' = IF serial THEN who ELSE None
-----------------------------------------------------------------------------
(* Collection::add_many                                                    *)

(* Lines are collected into a batch up to the first id that is in it       *)
(* already.                                                                *)
BatchLen(lines) == Max({n \in 1..Len(lines) : IsInjective(SubSeq(lines, 1, n))})

NextBatch(c, lines) ==
    IF lines = <<>> THEN Idle
    ELSE [c EXCEPT !.pc = "lock", !.recs = <<>>,
                   !.batch = SubSeq(lines, 1, BatchLen(lines)),
                   !.todo = SubSeq(lines, BatchLen(lines) + 1, Len(lines))]

add_many(t) ==
    /\ call[t].pc = "idle"
    /\ MayBegin
    /\ \E op \in Ops :
         /\ call' = [call EXCEPT ![t] = NextBatch([Idle EXCEPT !.op = op], op.lines)]
         /\ Began(t, op)
    /\ UNCHANGED <<stored, memory, owner, serial, del, written, raced, spoiled, torn, bounds>>

(* The stripes of the batch that are still to be locked.                   *)
Missing(t) == {s \in {Stripe[id] : id \in Range(call[t].batch)} : owner[s] # t}

LockOne(t, s) ==
    /\ owner[s] = None
    /\ owner' = [owner EXCEPT ![s] = t]
    /\ call' = [call EXCEPT ![t].pc = IF Missing(t) = {s} THEN "prepare" ELSE "lock"]
    /\ UNCHANGED <<stored, memory, serial, apply, del, log, written, raced, spoiled, torn, late, bounds>>

(* Mutant: the stripes are locked in the order of the lines.               *)
LockInLineOrder(t) ==
    LET first == Min({i \in DOMAIN call[t].batch : owner[Stripe[call[t].batch[i]]] # t})
    IN  call[t].pc = "lock" /\ LockOne(t, Stripe[call[t].batch[first]])

(* Mutant: nothing is locked.                                              *)
LockNothing(t) ==
    /\ call[t].pc = "lock"
    /\ call' = [call EXCEPT ![t].pc = "prepare"]
    /\ UNCHANGED <<stored, memory, locks, del, log, written, raced, spoiled, torn, late, bounds>>

(* Mutant: updates, which create nothing, lock nothing.                    *)
LockUnlessUpdate(t) ==
    /\ call[t].pc = "lock"
    /\ IF call[t].op.kind = "update" THEN LockNothing(t) ELSE LockOne(t, Min(Missing(t)))

(* document_write_locks: sorted and without duplicates.                    *)
LockStripe(t) == call[t].pc = "lock" /\ LockOne(t, Min(Missing(t)))

(* prepare_document_for_indexing decides by the id key whether the         *)
(* document is new, and add_many reads the old version of one that is not. *)
(* A create of a document that exists and an update of one that does not   *)
(* fail.                                                                   *)
IsNew(id) == idKey[id] = 0

Prepared(op, batch, i) ==
    LET id == batch[i]
        newBefore == Cardinality({j \in 1..(i - 1) : IsNew(batch[j])})
        seq == IF ~IsNew(id) THEN idKey[id] ELSE next + newBefore
        old == IF IsNew(id) THEN {} ELSE docs[seq].val
    IN  [id |-> id, seq |-> seq, isUpdate |-> ~IsNew(id), old |-> old,
         ok |-> IF IsNew(id) THEN op.kind # "update" ELSE op.kind # "create",
         new |-> IF op.kind = "upsert" THEN {op.field} ELSE old \cup {op.field}]

(* A sequence id is taken for every new document, unless it is an update.  *)
Taken(op, batch) ==
    IF op.kind = "update" THEN 0 ELSE Cardinality({i \in DOMAIN batch : IsNew(batch[i])})

prepare_document_for_indexing(t) ==
    LET c == call[t] IN
    /\ c.pc = "prepare"
    /\ next + Taken(c.op, c.batch) <= MaxSeq + 1
    /\ call' = [call EXCEPT ![t].pc = "index",
                            ![t].recs = [i \in DOMAIN c.batch |-> Prepared(c.op, c.batch, i)]]
    /\ next' = next + Taken(c.op, c.batch)
    /\ raced' = raced \cup (Range(c.batch) \cap HeldByRemovals({}))
    /\ UNCHANGED <<idKey, docs, memory, locks, del, log, written, spoiled, torn, late, bounds>>

Accepted(t) == {call[t].recs[i] : i \in {i \in DOMAIN call[t].recs : call[t].recs[i].ok}}

RecOf(recs, s) == CHOOSE r \in recs : r.seq = s
SeqsOf(recs) == {r.seq : r \in recs}

(* batch_index_in_memory, under the unique lock of the collection.  For an *)
(* update get_doc_changes leaves the fields that went to be removed and    *)
(* those that came to be indexed.                                          *)
batch_memory_index(t) ==
    LET recs == Accepted(t) IN
    /\ call[t].pc = "index"
    /\ index' = [s \in Seqs |->
                   IF s \notin SeqsOf(recs) THEN index[s]
                   ELSE LET r == RecOf(recs, s)
                        IN  (index[s] \ (r.old \ r.new)) \cup (r.new \ r.old)]
    /\ num' = num + Cardinality({r \in recs : ~r.isUpdate})
    /\ call' = [call EXCEPT ![t].pc = "store"]
    /\ UNCHANGED <<stored, locks, del, log, written, raced, spoiled, torn, late, bounds>>

Failed(recs) == [i \in DOMAIN recs |-> [recs[i] EXCEPT !.ok = FALSE]]

(* An exception while one of the fields is indexed fails every document of *)
(* the batch, so that none is stored.  What was indexed of the others, what*)
(* was removed of the old versions, and the count stay.                    *)
IndexThrows(t) ==
    LET recs == Accepted(t) IN
    /\ call[t].pc = "index"
    /\ recs # {} /\ faults < MaxFaults
    /\ \E done \in SUBSET SeqsOf(recs) :
         index' = [s \in Seqs |->
                     IF s \notin SeqsOf(recs) THEN index[s]
                     ELSE LET r == RecOf(recs, s)
                          IN  (index[s] \ (r.old \ r.new))
                                  \cup (IF s \in done THEN r.new \ r.old ELSE {})]
    /\ num' = num + Cardinality({r \in recs : ~r.isUpdate})
    /\ call' = [call EXCEPT ![t].pc = "store", ![t].recs = Failed(@)]
    /\ spoiled' = spoiled \cup {r.id : r \in recs}
    /\ faults' = faults + 1
    /\ UNCHANGED <<stored, locks, del, log, written, raced, torn, late, crashes>>

(* num_documents is decremented only while it is not 0.                    *)
Down(n, k) == IF n > k THEN n - k ELSE 0

Released(t) == [s \in DOMAIN owner |-> IF owner[s] = t THEN None ELSE owner[s]]

(* The next batch of the call, or its return.                              *)
Continue(t) ==
    /\ call' = [call EXCEPT ![t] = NextBatch(@, @.todo)]
    /\ owner' = Released(t)
    /\ apply' = IF call[t].todo = <<>> /\ apply = t THEN None ELSE apply

(* Mutant: the index is left as it is when the write fails.                *)
KeepIndexed(failed) == index

(* A document that could not be written is taken out of the index, and the *)
(* old version of an updated one put back.                                 *)
Restored(failed) ==
    [s \in Seqs |-> IF s \notin SeqsOf(failed) THEN index[s]
                    ELSE (index[s] \ RecOf(failed, s).new) \cup RecOf(failed, s).old]

(* batch_index: one write for the batch; when it fails every document is   *)
(* written by itself.                                                      *)
batch_index(t, failed) ==
    LET good == Accepted(t) \ failed IN
    /\ call[t].pc = "store"
    /\ docs' = [s \in Seqs |-> IF s \in SeqsOf(good)
                               THEN [id |-> RecOf(good, s).id, val |-> RecOf(good, s).new]
                               ELSE docs[s]]
    /\ idKey' = [id \in Ids |-> IF \E r \in good : r.id = id /\ ~r.isUpdate
                                THEN (CHOOSE r \in good : r.id = id).seq ELSE idKey[id]]
    /\ index' = Restored(failed)
    /\ num' = Down(num, Cardinality({r \in failed : ~r.isUpdate}))
    /\ written' = [s \in Seqs |-> IF s \notin SeqsOf(good) THEN written[s]
                                  ELSE IF call[t].op.kind = "upsert" THEN {call[t].op.field}
                                  ELSE written[s] \cup {call[t].op.field}]
    /\ Continue(t)
    /\ UNCHANGED <<next, serial, del, log, raced, spoiled, torn, late>>

Stored(t) == batch_index(t, {}) /\ UNCHANGED bounds

StoreFails(t) ==
    /\ faults < MaxFaults
    /\ \E failed \in SUBSET Accepted(t) \ {{}} : batch_index(t, failed)
    /\ faults' = faults + 1
    /\ UNCHANGED crashes
-----------------------------------------------------------------------------
(* Removals.                                                               *)

(* Filter results are arrays of sequence ids in ascending order.           *)
Ascending(S) ==
    CHOOSE q \in [1..Cardinality(S) -> S] : \A i, j \in DOMAIN q : i < j => q[i] < q[j]

(* del_remove_documents, its first call: what matches is computed once.    *)
FilterIds(f) == Ascending({s \in Seqs : f \in index[s]})

del_remove_documents(d) ==
    /\ del[d].pc = "idle"
    /\ MayBegin
    /\ \E f \in Filters :
         /\ del' = [del EXCEPT ![d] = [pc |-> "fetch", ids |-> FilterIds(f), got |-> <<>>]]
         /\ Began(d, [kind |-> "delete", field |-> f, lines |-> <<>>])
    /\ UNCHANGED <<stored, memory, owner, serial, call, written, raced, spoiled, torn, bounds>>

(* Collection::remove: the sequence id is looked up by the document's id.  *)
remove(d) ==
    /\ del[d].pc = "idle"
    /\ MayBegin
    /\ \E id \in Ids :
         /\ idKey[id] # 0
         /\ del' = [del EXCEPT ![d] = [pc |-> "fetch", ids |-> <<idKey[id]>>, got |-> <<>>]]
         /\ Began(d, [kind |-> "remove", field |-> None, lines |-> <<id>>])
    /\ UNCHANGED <<stored, memory, owner, serial, call, written, raced, spoiled, torn, bounds>>

(* A batch is through: the handler returns, at the first call to the       *)
(* mirror worker, and is called again when ids are left.                   *)
BatchOver(d, ids) ==
    /\ del' = [del EXCEPT ![d] = IF ids = <<>> THEN NoDelete
                                 ELSE [pc |-> "deferred", ids |-> ids, got |-> <<>>]]
    /\ apply' = IF apply = d THEN None ELSE apply

(* INTERNAL_REMOVE_BATCH_MAX ids at a time, and what is left of them.       *)
First(ids) == SubSeq(ids, 1, Min({RemoveMax, Len(ids)}))
(* Mutant: one id more is skipped than was taken.                          *)
RestSkipsOne(ids) == SubSeq(ids, Len(First(ids)) + 2, Len(ids))

Rest(ids) == SubSeq(ids, Len(First(ids)) + 1, Len(ids))

(* The documents of a batch that are still in the store.                   *)
Found(ids) ==
    LET there == Ascending({s \in Range(First(ids)) : docs[s] # NoDoc})
    IN  [i \in DOMAIN there |->
            [seq |-> there[i], id |-> docs[there[i]].id, val |-> docs[there[i]].val]]

(* stateful_remove_docs takes a batch of the ids, and remove_if_found_many *)
(* reads their documents.                                                  *)
stateful_remove_docs(d) ==
    LET got == Found(del[d].ids) IN
    /\ del[d].pc = "fetch"
    /\ raced' = raced \cup ({got[i].id : i \in DOMAIN got}
                               \cap (HeldByRemovals({d}) \cup HeldByAdditions))
    /\ IF got = <<>>
       THEN BatchOver(d, Rest(del[d].ids))
       ELSE /\ del' = [del EXCEPT ![d].pc = "unindex", ![d].got = got, ![d].ids = Rest(@)]
            /\ UNCHANGED apply
    /\ UNCHANGED <<stored, memory, owner, serial, call, log, written, spoiled, torn, late, bounds>>

(* The store cannot read one of them: the removal ends with what is done.  *)
ReadFails(d) ==
    /\ del[d].pc = "fetch"
    /\ del[d].ids # <<>> /\ faults < MaxFaults
    /\ BatchOver(d, <<>>)
    /\ faults' = faults + 1
    /\ UNCHANGED <<stored, memory, owner, serial, call, log, written, raced, spoiled, torn, late,
                   crashes>>

(* The index, under the unique lock of the collection.                     *)
remove_if_found_many(d) ==
    LET got == del[d].got IN
    /\ del[d].pc = "unindex"
    /\ index' = [s \in Seqs |->
                   index[s] \ UNION {got[i].val : i \in {j \in DOMAIN got : got[j].seq = s}}]
    /\ num' = Down(num, Len(got))
    /\ del' = [del EXCEPT ![d].pc = "idkey"]
    /\ UNCHANGED <<stored, locks, call, log, written, raced, spoiled, torn, late, bounds>>

(* The store, document by document: the id key, then the document.         *)
RemoveIdKey(d) ==
    /\ del[d].pc = "idkey"
    /\ idKey' = [idKey EXCEPT ![Head(del[d].got).id] = 0]
    /\ del' = [del EXCEPT ![d].pc = "dockey"]
    /\ UNCHANGED <<docs, next, memory, locks, call, log, written, raced, spoiled, torn, late, bounds>>

RemoveDocKey(d) ==
    LET s == Head(del[d].got).seq IN
    /\ del[d].pc = "dockey"
    /\ docs' = [docs EXCEPT ![s] = NoDoc]
    /\ written' = [written EXCEPT ![s] = {}]
    /\ IF Len(del[d].got) = 1
       THEN BatchOver(d, del[d].ids)
       ELSE /\ del' = [del EXCEPT ![d].pc = "idkey", ![d].got = Tail(@)]
            /\ UNCHANGED apply
    /\ UNCHANGED <<idKey, next, memory, owner, serial, call, log, raced, spoiled, torn, late, bounds>>

(* The event loop has the thread pool call the handler again.              *)
on_deferred_process_request(d) ==
    /\ del[d].pc = "deferred"
    /\ del' = [del EXCEPT ![d].pc = "fetch"]
    /\ UNCHANGED <<stored, memory, locks, call, log, written, raced, spoiled, torn, late, bounds>>
-----------------------------------------------------------------------------
(* A crash and the load of the collection: every document under a sequence *)
(* key is indexed again, calls and removals are gone.                      *)
Stranded == {id \in Ids : \E s \in Seqs : docs[s].id = id /\ idKey[id] # s}

Crash ==
    /\ crashes < MaxCrashes
    /\ crashes' = crashes + 1
    /\ index' = [s \in Seqs |-> docs[s].val]
    /\ num' = Cardinality({s \in Seqs : docs[s] # NoDoc})
    /\ owner' = [s \in DOMAIN owner |-> None]
    /\ apply' = None
    /\ call' = [t \in Adders |-> Idle]
    /\ del' = [d \in Removers |-> NoDelete]
    /\ spoiled' = {}
    /\ torn' = torn \cup Stranded
    /\ late' = (late \/ ~Quiet)
    /\ UNCHANGED <<stored, serial, log, written, raced, faults>>
-----------------------------------------------------------------------------
Init ==
    /\ idKey = [id \in Ids |-> 0]
    /\ docs = [s \in Seqs |-> NoDoc]
    /\ next = 1
    /\ index = [s \in Seqs |-> {}]
    /\ num = 0
    /\ owner = [s \in {Stripe[id] : id \in Ids} |-> None]
    /\ serial \in Serial
    /\ apply = None
    /\ call = [t \in Adders |-> Idle]
    /\ del = [d \in Removers |-> NoDelete]
    /\ log = <<>>
    /\ written = [s \in Seqs |-> {}]
    /\ raced = {} /\ spoiled = {} /\ torn = {} /\ late = FALSE
    /\ faults = 0 /\ crashes = 0

Adding(t) ==
    \/ LockStripe(t)
    \/ prepare_document_for_indexing(t)
    \/ batch_memory_index(t)
    \/ Stored(t)

Removing(d) ==
    \/ stateful_remove_docs(d)
    \/ remove_if_found_many(d)
    \/ RemoveIdKey(d)
    \/ RemoveDocKey(d)
    \/ on_deferred_process_request(d)

Next ==
    \/ \E t \in Adders : add_many(t) \/ Adding(t) \/ IndexThrows(t) \/ StoreFails(t)
    \/ \E d \in Removers :
          del_remove_documents(d) \/ remove(d) \/ Removing(d) \/ ReadFails(d)
    \/ Crash

Spec == Init /\ [][Next]_vars

(* Threads, the event loop and the pool run.  Nobody has to call, and      *)
(* nothing has to fail.                                                    *)
FairSpec ==
    /\ Spec
    /\ \A t \in Adders : WF_vars(Adding(t))
    /\ \A d \in Removers : WF_vars(Removing(d))
-----------------------------------------------------------------------------
(* Types; num_documents, decremented by every removal that read a document *)
(* in time, never wraps below 0.                                           *)
TypeOK ==
    /\ idKey \in [Ids -> 0..MaxSeq]
    /\ docs \in [Seqs -> [id : Ids \cup {None}, val : SUBSET Fields]]
    /\ next \in 1..(MaxSeq + 1)
    /\ index \in [Seqs -> SUBSET Fields]
    /\ num \in 0..MaxSeq
    /\ owner \in [{Stripe[id] : id \in Ids} -> Adders \cup {None}]
    /\ serial \in BOOLEAN
    /\ apply \in Adders \cup Removers \cup {None}
    /\ \A t \in Adders : call[t].pc \in {"idle", "lock", "prepare", "index", "store"}
    /\ \A d \in Removers :
         /\ del[d].pc \in {"idle", "fetch", "unindex", "idkey", "dockey", "deferred"}
         /\ del[d].ids \in Seq(Seqs)
    /\ raced \cup spoiled \cup torn \subseteq Ids

(* Concurrent updates of a document are all in it: a stored document has   *)
(* exactly the fields that the calls that succeeded left it with           *)
(* (collection_operations_test: partial updates "PreserveDisjointFields"). *)
(* The exception are documents that a removal had in hand as well.         *)
UpdatesKept ==
    \A s \in Seqs : docs[s] # NoDoc /\ docs[s].id \notin raced => docs[s].val = written[s]

(* A document is found by its id, and only once: two calls never create it *)
(* under two sequence ids, and an id key never leads to nothing.  The      *)
(* exceptions are the two removals of the keys, and what a crash between   *)
(* them or the overlap with a removal leaves.                              *)
IdsResolve ==
    /\ \A s \in Seqs : docs[s] # NoDoc /\ docs[s].id \notin raced \cup torn =>
           \/ idKey[docs[s].id] = s
           \/ \E d \in Removers : del[d].pc = "dockey" /\ Head(del[d].got).seq = s
    /\ \A id \in Ids \ raced : idKey[id] # 0 => docs[idKey[id]].id = id

(* When no call is under way the index, the count and the store say the    *)
(* same, also after failed writes and reads and after a restart.  The      *)
(* exceptions are documents that a removal had in hand as well, and those  *)
(* whose indexing threw: what that left goes with the next load only.      *)
IndexMatchesStore ==
    Quiet =>
        /\ \A s \in Seqs : docs[s] # NoDoc /\ docs[s].id \notin raced \cup spoiled =>
               index[s] = docs[s].val
        /\ raced \cup spoiled = {} =>
               /\ \A s \in Seqs : docs[s] = NoDoc => index[s] = {}
               /\ num = Cardinality({s \in Seqs : docs[s] # NoDoc})

(* What the collection has, id by id; {} is no document.                   *)
Contents == [id \in Ids |-> IF idKey[id] = 0 THEN {} ELSE docs[idKey[id]].val]

(* What applying one log entry after the other gives.                      *)
Applied(c, e) ==
    [id \in Ids |->
        LET hit == id \in Range(e.lines) IN
        CASE e.kind = "create" /\ hit /\ c[id] = {}  -> {e.field}
          [] e.kind = "upsert" /\ hit                -> {e.field}
          [] e.kind = "update" /\ hit /\ c[id] # {}  -> c[id] \cup {e.field}
          [] e.kind = "emplace" /\ hit               -> c[id] \cup {e.field}
          [] e.kind = "remove" /\ hit                -> {}
          [] e.kind = "delete" /\ e.field \in c[id]  -> {}
          [] OTHER                                   -> c[id]]

Replay ==
    LET after[n \in 0..Len(log)] ==
            IF n = 0 THEN [id \in Ids |-> {}] ELSE Applied(after[n - 1], log[n])
    IN  after[Len(log)]

(* When the mirror worker has applied a prefix of the log and nothing is   *)
(* under way, the collection is what the prefix makes of it, provided that *)
(* no entry was applied, and no crash came, before a delete by filter was  *)
(* through with all its batches.                                           *)
ReplayUnlessLate ==
    Quiet /\ serial /\ ~late /\ faults = 0 => Contents = Replay

(* The same without the proviso: "deterministic request-level replication" *)
(* (MODERNIZATION_PLAN.md:286).  It does not hold (README, section 3).     *)
QuietIsReplay ==
    Quiet /\ serial /\ crashes = 0 /\ faults = 0 => Contents = Replay

(* Every call returns and every removal gets through its batches (each of  *)
(* them is idle again and again): calls that lock several stripes do not   *)
(* wait for each other in a circle.                                        *)
EveryCallReturns ==
    /\ \A t \in Adders : []<>(call[t].pc = "idle")
    /\ \A d \in Removers : []<>(del[d].pc = "idle")
=============================================================================
