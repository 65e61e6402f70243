------------------------------ MODULE LogStore ------------------------------
(***************************************************************************)
(* TypesenseLogStore: the RocksDB-backed Raft log.                         *)
(*                                                                         *)
(* Two pieces of state are durable: the entries, one key per index, and    *)
(* the start index under the key "meta/start_index".  start_index_ and     *)
(* next_index_ live in memory and are rebuilt from the durable ones by     *)
(* load_meta when the store is opened.  Every public method runs under the *)
(* store's lock, so it is one action here; compact is two, because its     *)
(* DeleteRange and its Put of the start index are two separate writes and  *)
(* the process can die between them.                                       *)
(*                                                                         *)
(* The caller is the NuRaft library (external).  It appends at the next    *)
(* slot, overwrites a conflicting suffix with write_at, installs packs at  *)
(* or below the next slot, and compacts to any index, past the tail too    *)
(* (what a follower does after it installed a snapshot).                   *)
(***************************************************************************)
EXTENDS Integers, FiniteSets, Functions

CONSTANTS
    Entry,       \* log entries; only their identity matters
    MaxIndex,    \* bound: the highest index the caller uses
    NoIndex      \* the start-index key is absent

(* The entry of term 0 the readers make up; NuRaft's terms start at 1.     *)
Dummy == "dummy"

ASSUME LogStoreAssumption ==
    /\ MaxIndex \in Nat \ {0}
    /\ NoIndex \notin Nat
    /\ Dummy \notin Entry

Index == 1..MaxIndex

VARIABLES
    entries,       \* durable: the function from the stored indices to entries
    meta_start,    \* durable: "meta/start_index", or NoIndex
    start_index,   \* start_index_
    next_index,    \* next_index_
    pc,            \* "closed", "open", or "compacting": DeleteRange done, Put not yet
    compacted      \* history: the highest index compact was called with, or 0

vars == <<entries, meta_start, start_index, next_index, pc, compacted>>

Stored == DOMAIN entries

Highest(S) == CHOOSE i \in S : \A j \in S : j <= i

-----------------------------------------------------------------------------
(* The constructor: load_meta.  The start index is the durable one, or 1;  *)
(* the next index follows the last stored entry, or is the start index.    *)

LoadedStart == IF meta_start = NoIndex THEN 1 ELSE meta_start

LoadedNext == IF Stored = {} THEN LoadedStart ELSE Highest(Stored) + 1

load_meta ==
    /\ pc = "closed"
    /\ start_index' = LoadedStart
    /\ next_index' = LoadedNext
    /\ pc' = "open"
    /\ UNCHANGED <<entries, meta_start, compacted>>

append(e) ==
    /\ pc = "open"
    /\ next_index \in Index
    /\ entries' = [i \in Stored \cup {next_index} |->
                       IF i = next_index THEN e ELSE entries[i]]
    /\ next_index' = next_index + 1
    /\ UNCHANGED <<meta_start, start_index, pc, compacted>>

(* Mutant of write_at: the suffix is not deleted.                          *)
WriteAtKeepsSuffix(index, e) ==
    /\ pc = "open"
    /\ index \in start_index..next_index
    /\ index \in Index
    /\ entries' = [i \in Stored \cup {index} |-> IF i = index THEN e ELSE entries[i]]
    /\ next_index' = index + 1
    /\ UNCHANGED <<meta_start, start_index, pc, compacted>>

(* One write batch: delete index .. next_index_ - 1, then put the entry.   *)
write_at(index, e) ==
    /\ pc = "open"
    /\ index \in start_index..next_index
    /\ index \in Index
    /\ entries' = [i \in (Stored \ (index..(next_index - 1))) \cup {index} |->
                       IF i = index THEN e ELSE entries[i]]
    /\ next_index' = index + 1
    /\ UNCHANGED <<meta_start, start_index, pc, compacted>>

(* One write batch of the packed entries; nothing beyond them is truncated *)
(* and next_index_ only grows.  The leader packs from the next slot this   *)
(* store reported; a pack that is sent again starts at a stored index.     *)
apply_pack(index, pack, count) ==
    /\ pc = "open"
    /\ index \in Stored \cup {next_index}
    /\ index + count - 1 <= MaxIndex
    /\ entries' = [i \in Stored \cup (index..(index + count - 1)) |->
                       IF i \in index..(index + count - 1)
                       THEN pack[i - index + 1] ELSE entries[i]]
    /\ next_index' = IF index + count > next_index THEN index + count ELSE next_index
    /\ UNCHANGED <<meta_start, start_index, pc, compacted>>

(* Mutant of compact: the range starts one entry late.                     *)
CompactKeepsFirst(last_log_index) ==
    /\ pc = "open"
    /\ last_log_index >= start_index
    /\ entries' = Restrict(entries, Stored \ ((start_index + 1)..last_log_index))
    /\ start_index' = last_log_index + 1
    /\ next_index' = IF next_index < last_log_index + 1
                     THEN last_log_index + 1 ELSE next_index
    /\ pc' = "compacting"
    /\ compacted' = IF compacted < last_log_index THEN last_log_index ELSE compacted
    /\ UNCHANGED meta_start

(* Mutant of compact: the exclusive end of DeleteRange taken as inclusive. *)
CompactInclusiveEnd(last_log_index) ==
    /\ pc = "open"
    /\ last_log_index >= start_index
    /\ entries' = Restrict(entries, Stored \ (start_index..(last_log_index + 1)))
    /\ start_index' = last_log_index + 1
    /\ next_index' = IF next_index < last_log_index + 1
                     THEN last_log_index + 1 ELSE next_index
    /\ pc' = "compacting"
    /\ compacted' = IF compacted < last_log_index THEN last_log_index ELSE compacted
    /\ UNCHANGED meta_start

(* compact, first half: DeleteRange and the new in-memory indices.  Below  *)
(* the start index compact returns at once and changes nothing.            *)
compact(last_log_index) ==
    /\ pc = "open"
    /\ last_log_index >= start_index
    /\ entries' = Restrict(entries, Stored \ (start_index..last_log_index))
    /\ start_index' = last_log_index + 1
    /\ next_index' = IF next_index < last_log_index + 1
                     THEN last_log_index + 1 ELSE next_index
    /\ pc' = "compacting"
    /\ compacted' = IF compacted < last_log_index THEN last_log_index ELSE compacted
    /\ UNCHANGED meta_start

(* compact, second half: the Put of the start index.                       *)
persist_start_index ==
    /\ pc = "compacting"
    /\ meta_start' = start_index
    /\ pc' = "open"
    /\ UNCHANGED <<entries, start_index, next_index, compacted>>

(* The process stops, at any point.  What RocksDB wrote stays.             *)
Crash ==
    /\ pc # "closed"
    /\ pc' = "closed"
    /\ start_index' = 1
    /\ next_index' = 1
    /\ UNCHANGED <<entries, meta_start, compacted>>

Init ==
    /\ entries = [i \in {} |-> i]
    /\ meta_start = NoIndex
    /\ start_index = 1
    /\ next_index = 1
    /\ pc = "closed"
    /\ compacted = 0

Next ==
    \/ load_meta
    \/ \E e \in Entry : append(e)
    \/ \E index \in Index, e \in Entry : write_at(index, e)
    \/ \E index \in Index, count \in 0..MaxIndex :
           \E pack \in [1..count -> Entry] : apply_pack(index, pack, count)
    \/ \E last \in Index : compact(last)
    \/ persist_start_index
    \/ Crash

Spec == Init /\ [][Next]_vars

-----------------------------------------------------------------------------
(* The readers.                                                            *)

entry_at(index) ==
    IF index < start_index \/ index >= next_index \/ index \notin Stored
    THEN Dummy ELSE entries[index]

last_entry ==
    IF next_index <= start_index \/ (next_index - 1) \notin Stored
    THEN Dummy ELSE entries[next_index - 1]

(* log_entries: the stored entries of start .. end - 1, in index order,    *)
(* with no marker where an index is missing.                               *)
log_entries(start, end) == {i \in Stored : start <= i /\ i < end}

(* pack stops at the first index that is not stored.                       *)
pack_indices(index, cnt) ==
    {i \in index..(index + cnt - 1) : \A j \in index..i : j \in Stored}

-----------------------------------------------------------------------------
TypeOK ==
    /\ DOMAIN entries \subseteq Index
    /\ \A i \in DOMAIN entries : entries[i] \in Entry
    /\ meta_start \in 1..(MaxIndex + 1) \cup {NoIndex}
    /\ start_index \in 1..(MaxIndex + 1)
    /\ next_index \in 1..(MaxIndex + 1)
    /\ pc \in {"closed", "open", "compacting"}
    /\ compacted \in 0..MaxIndex

(* The stored entries have no gap, whatever interleaving of appends,       *)
(* overwrites, packs, compactions and crashes led here: an iterator over   *)
(* the entry keys (log_entries_ext) numbers its results by position, so a  *)
(* gap would hand a follower an entry under the wrong index.               *)
Contiguous ==
    \A i, j \in Stored : \A k \in i..j : k \in Stored

(* Opening the store again at any point between two calls gives back the   *)
(* very indices it had: start_index_ and next_index_ are never ahead of    *)
(* what load_meta can recover, past-the-tail compactions included.         *)
RestartStable ==
    pc = "open" =>
        /\ start_index = LoadedStart
        /\ next_index = LoadedNext

(* next_slot() is never behind start_index(), after compactions past the   *)
(* tail and after a crash inside one: else status reports impossible       *)
(* indices and replication after a snapshot stalls.                        *)
NextNotBehindStart == pc # "closed" => start_index <= next_index

(* From a stored index on, the three ways to read a range of the log agree *)
(* on what is there: the iterator of log_entries_ext, the point reads of   *)
(* entry_at, and pack, which stops at the first missing key.               *)
ReadersAgree ==
    pc = "open" =>
        \A i \in Stored : \A j \in i..next_index :
            /\ log_entries(i, j) = pack_indices(i, j - i)
            /\ log_entries(i, j) = {k \in i..(j - 1) : entry_at(k) # Dummy}

(* Between start_index_ and next_index_ an entry may be missing (entry_at  *)
(* makes up a term-0 entry) only where a compaction had been deleting: a   *)
(* crash between its two writes brings the old start index back, and never *)
(* uncovers an index that no compaction had reached.                       *)
HolesOnlyWhereCompacted ==
    pc = "open" =>
        \A i \in start_index..(next_index - 1) :
            entry_at(i) = Dummy => i <= compacted
=============================================================================
