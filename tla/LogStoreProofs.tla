--------------------------- MODULE LogStoreProofs ---------------------------
(***************************************************************************)
(* For every set of entries and every bound on the index: the log store's  *)
(* durable entries are contiguous and a reopened store recovers the very   *)
(* indices it had.                                                         *)
(***************************************************************************)
EXTENDS LogStore, TLAPS

(* The stored index that every other one is at or below, if any is stored. *)
HasTop == Stored # {} => \E h \in Stored : \A j \in Stored : j <= h

(* While the store is running, the entries lie in start_index_ ..          *)
(* next_index_ - 1 and the last of those slots is filled.                  *)
Window ==
    pc # "closed" =>
        /\ \A i \in Stored : start_index <= i /\ i < next_index
        /\ Stored # {} => next_index - 1 \in Stored
        /\ Stored = {} => next_index = start_index

(* Contiguous and RestartStable, strengthened until every step keeps them. *)
IInv ==
    /\ TypeOK
    /\ HasTop
    /\ Contiguous
    /\ Window
    /\ \A i \in Stored : LoadedStart <= i
    /\ pc = "open" => start_index = LoadedStart

(* The code's SeekForPrev finds the one highest key: an index that is      *)
(* stored and bounds the stored ones is what Highest returns.              *)
LEMMA HighestIs ==
    ASSUME NEW S \in SUBSET Int, NEW h \in S, \A j \in S : j <= h
    PROVE  Highest(S) = h
<1>1. \E i \in S : \A j \in S : j <= i
  OBVIOUS
<1>2. Highest(S) \in S /\ \A j \in S : j <= Highest(S)
  BY <1>1 DEF Highest
<1>3. Highest(S) <= h /\ h <= Highest(S)
  BY <1>2
<1>4. Highest(S) \in Int /\ h \in Int
  BY <1>2
<1> QED
  BY <1>3, <1>4

(* A fresh store satisfies the invariant.                                  *)
LEMMA InitIInv == Init => IInv
BY LogStoreAssumption
   DEF Init, IInv, TypeOK, HasTop, Contiguous, Window, Stored, LoadedStart, Index

(* Every call, and a crash at any point, keeps it.                         *)
LEMMA NextIInv == IInv /\ [Next]_vars => IInv'
<1> SUFFICES ASSUME IInv, [Next]_vars PROVE IInv'
  OBVIOUS
<1> USE LogStoreAssumption
<1> USE DEF IInv, TypeOK, HasTop, Contiguous, Window, Stored, Index
<1>0. /\ LoadedStart \in 1..(MaxIndex + 1)
      /\ pc # "closed" => start_index <= next_index
  <2>1. LoadedStart \in 1..(MaxIndex + 1)
    BY DEF LoadedStart
  <2>2. ASSUME pc # "closed", Stored # {} PROVE start_index <= next_index
    <3>1. start_index <= next_index - 1 /\ next_index \in Int /\ start_index \in Int
      BY <2>2
    <3> QED
      BY <3>1
  <2>3. ASSUME pc # "closed", Stored = {} PROVE start_index <= next_index
    <3>1. start_index = next_index /\ next_index \in Int
      BY <2>3
    <3> QED
      BY <3>1
  <2> QED
    BY <2>1, <2>2, <2>3
<1>1. CASE load_meta
  <2>0. LoadedStart' = LoadedStart
    BY <1>1 DEF load_meta, LoadedStart
  <2>1. CASE Stored = {}
    BY <1>0, <1>1, <2>0, <2>1 DEF load_meta, LoadedNext
  <2>2. CASE Stored # {}
    <3>1. PICK h \in Stored : \A j \in Stored : j <= h
      BY <2>2
    <3>2. Highest(Stored) = h
      BY <3>1, HighestIs
    <3> QED
      BY <1>0, <1>1, <2>0, <2>2, <3>1, <3>2 DEF load_meta, LoadedNext
  <2> QED
    BY <2>1, <2>2
<1>2. ASSUME NEW e \in Entry, append(e) PROVE IInv'
  <2>1. /\ Stored' = Stored \cup {next_index}
        /\ \A i \in Stored' : entries'[i] \in Entry
    BY <1>2 DEF append
  <2>2. TypeOK'
    BY <1>2, <2>1 DEF append
  <2>3. Window'
    BY <1>0, <1>2, <2>1 DEF append
  <2>6. HasTop'
    <3>1. pc' # "closed"
      BY <1>2 DEF append
    <3>2. Stored' \in SUBSET Int /\ next_index' \in Int
      BY <2>2
    <3>3. ASSUME Stored' # {} PROVE next_index' - 1 \in Stored'
      BY <2>3, <3>1, <3>3
    <3>4. \A j \in Stored' : j <= next_index' - 1
      BY <2>3, <3>1, <3>2
    <3> QED
      BY <3>3, <3>4
  <2>4. Contiguous'
    BY <1>2, <2>1 DEF append
  <2>5. /\ \A i \in Stored' : LoadedStart' <= i
        /\ pc' = "open" => start_index' = LoadedStart'
    <3>1. LoadedStart' = LoadedStart
      BY <1>2 DEF append, LoadedStart
    <3> QED
      BY <1>0, <1>2, <2>1, <3>1 DEF append
  <2> QED
    BY <2>2, <2>3, <2>4, <2>5, <2>6
<1>3. ASSUME NEW index \in Index, NEW e \in Entry, write_at(index, e) PROVE IInv'
  <2>1. /\ Stored' = (Stored \ (index..(next_index - 1))) \cup {index}
        /\ \A i \in Stored' : entries'[i] \in Entry
    BY <1>3 DEF write_at
  <2>2. TypeOK'
    BY <1>3, <2>1 DEF write_at
  <2>3. Window'
    BY <1>0, <1>3, <2>1 DEF write_at
  <2>6. HasTop'
    <3>1. pc' # "closed"
      BY <1>3 DEF write_at
    <3>2. Stored' \in SUBSET Int /\ next_index' \in Int
      BY <2>2
    <3>3. ASSUME Stored' # {} PROVE next_index' - 1 \in Stored'
      BY <2>3, <3>1, <3>3
    <3>4. \A j \in Stored' : j <= next_index' - 1
      BY <2>3, <3>1, <3>2
    <3> QED
      BY <3>3, <3>4
  <2>4. Contiguous'
    BY <1>3, <2>1 DEF write_at
  <2>5. /\ \A i \in Stored' : LoadedStart' <= i
        /\ pc' = "open" => start_index' = LoadedStart'
    <3>1. LoadedStart' = LoadedStart
      BY <1>3 DEF write_at, LoadedStart
    <3> QED
      BY <1>0, <1>3, <2>1, <3>1 DEF write_at
  <2> QED
    BY <2>2, <2>3, <2>4, <2>5, <2>6
<1>4. ASSUME NEW index \in Index, NEW count \in 0..MaxIndex,
             NEW pack \in [1..count -> Entry], apply_pack(index, pack, count)
      PROVE IInv'
  <2>1. /\ Stored' = Stored \cup (index..(index + count - 1))
        /\ \A i \in Stored' : entries'[i] \in Entry
    BY <1>4 DEF apply_pack
  <2>2. TypeOK'
    BY <1>4, <2>1 DEF apply_pack
  <2>3. Window'
    <3>1. /\ start_index' = start_index /\ start_index \in Int /\ next_index \in Int
          /\ index \in Int /\ count \in Nat /\ index + count \in Int
      BY <1>4 DEF apply_pack
    <3>2. /\ index + count > next_index => next_index' = index + count
          /\ ~(index + count > next_index) => next_index' = next_index
      BY <1>4 DEF apply_pack
    <3>3. /\ \A i \in Stored : i \in Int /\ start_index <= i /\ i < next_index
          /\ Stored # {} => next_index - 1 \in Stored
          /\ Stored = {} => next_index = start_index
      BY <1>4 DEF apply_pack
    <3>4. start_index <= index /\ index <= next_index
      BY <1>0, <1>4, <3>3 DEF apply_pack
    <3>a. next_index <= next_index' /\ index + count <= next_index' /\ next_index' \in Int
      BY <3>1, <3>2
    <3>5. ASSUME NEW i \in Stored' PROVE start_index' <= i /\ i < next_index'
      <4>1. CASE i \in Stored
        BY <3>1, <3>3, <3>a, <4>1
      <4>2. CASE i \in index..(index + count - 1)
        BY <3>1, <3>4, <3>a, <4>2
      <4> QED
        BY <2>1, <4>1, <4>2
    <3>6. ASSUME Stored' # {} PROVE next_index' - 1 \in Stored'
      <4>1. CASE index + count > next_index
        <5>1. next_index' - 1 \in index..(index + count - 1)
          BY <3>1, <3>2, <3>4, <4>1
        <5> QED
          BY <2>1, <5>1
      <4>2. CASE ~(index + count > next_index) /\ Stored # {}
        BY <2>1, <3>2, <3>3, <4>2
      <4>3. CASE ~(index + count > next_index) /\ Stored = {}
        <5>1. index = next_index /\ count = 0
          BY <3>1, <3>3, <3>4, <4>3
        <5>2. index..(index + count - 1) = {}
          BY <3>1, <5>1
        <5> QED
          BY <2>1, <3>6, <4>3, <5>2
      <4> QED
        BY <4>1, <4>2, <4>3
    <3>7. ASSUME Stored' = {} PROVE next_index' = start_index'
      <4>1. index..(index + count - 1) = {} /\ Stored = {}
        BY <2>1, <3>7
      <4>2. index \notin index..(index + count - 1)
        BY <4>1
      <4>3. ~(index + count > next_index)
        BY <3>1, <3>3, <3>4, <4>1, <4>2
      <4> QED
        BY <3>1, <3>2, <3>3, <4>1, <4>3
    <3> QED
      BY <3>5, <3>6, <3>7
  <2>6. HasTop'
    <3>1. pc' # "closed"
      BY <1>4 DEF apply_pack
    <3>2. Stored' \in SUBSET Int /\ next_index' \in Int
      BY <2>2
    <3>3. ASSUME Stored' # {} PROVE next_index' - 1 \in Stored'
      BY <2>3, <3>1, <3>3
    <3>4. \A j \in Stored' : j <= next_index' - 1
      BY <2>3, <3>1, <3>2
    <3> QED
      BY <3>3, <3>4
  <2>4. Contiguous'
    BY <1>4, <2>1 DEF apply_pack
  <2>5. /\ \A i \in Stored' : LoadedStart' <= i
        /\ pc' = "open" => start_index' = LoadedStart'
    <3>1. LoadedStart' = LoadedStart
      BY <1>4 DEF apply_pack, LoadedStart
    <3> QED
      BY <1>0, <1>4, <2>1, <3>1 DEF apply_pack
  <2> QED
    BY <2>2, <2>3, <2>4, <2>5, <2>6
<1>5. ASSUME NEW last \in Index, compact(last) PROVE IInv'
  <2>1. /\ Stored' = Stored \ (start_index..last)
        /\ \A i \in Stored' : entries'[i] \in Entry
    BY <1>5 DEF compact, Restrict
  <2>2. TypeOK'
    BY <1>5, <2>1 DEF compact, Restrict
  <2>3. Window'
    <3>1. CASE Stored' = {}
      <4>1. next_index <= last + 1
        <5>1. CASE Stored = {}
          BY <1>5, <5>1 DEF compact
        <5>2. CASE Stored # {}
          <6>1. next_index - 1 \in Stored
            BY <1>5, <5>2 DEF compact
          <6>2. next_index - 1 \in start_index..last
            BY <2>1, <3>1, <6>1
          <6> QED
            BY <6>2
        <5> QED
          BY <5>1, <5>2
      <4>2. next_index' = last + 1 /\ start_index' = last + 1
        BY <1>5, <4>1 DEF compact
      <4> QED
        BY <3>1, <4>2
    <3>2. CASE Stored' # {}
      <4>1. PICK k \in Stored : k \notin start_index..last
        BY <2>1, <3>2
      <4>2. /\ last < k /\ k < next_index /\ next_index - 1 \in Stored
            /\ \A i \in Stored : start_index <= i /\ i < next_index
        BY <1>5, <4>1 DEF compact
      <4>3. /\ next_index' = next_index /\ start_index' = last + 1
        BY <1>5, <4>1, <4>2 DEF compact
      <4>4. next_index - 1 \in Stored'
        BY <2>1, <4>1, <4>2
      <4>5. \A i \in Stored' : last + 1 <= i /\ i < next_index
        BY <2>1, <4>2
      <4> QED
        BY <3>2, <4>3, <4>4, <4>5
    <3> QED
      BY <3>1, <3>2
  <2>6. HasTop'
    <3>1. pc' # "closed"
      BY <1>5 DEF compact
    <3>2. Stored' \in SUBSET Int /\ next_index' \in Int
      BY <2>2
    <3>3. ASSUME Stored' # {} PROVE next_index' - 1 \in Stored'
      BY <2>3, <3>1, <3>3
    <3>4. \A j \in Stored' : j <= next_index' - 1
      BY <2>3, <3>1, <3>2
    <3> QED
      BY <3>3, <3>4
  <2>4. Contiguous'
    BY <1>5, <2>1 DEF compact, Restrict
  <2>5. /\ \A i \in Stored' : LoadedStart' <= i
        /\ pc' = "open" => start_index' = LoadedStart'
    <3>1. LoadedStart' = LoadedStart
      BY <1>5 DEF compact, Restrict, LoadedStart
    <3> QED
      BY <1>0, <1>5, <2>1, <3>1 DEF compact, Restrict
  <2> QED
    BY <2>2, <2>3, <2>4, <2>5, <2>6
<1>6. CASE persist_start_index
  BY <1>6 DEF persist_start_index, LoadedStart
<1>7. CASE Crash
  BY <1>7 DEF Crash, LoadedStart
<1>8. CASE UNCHANGED vars
  BY <1>8 DEF vars, LoadedStart
<1> QED
  BY <1>1, <1>2, <1>3, <1>4, <1>5, <1>6, <1>7, <1>8 DEF Next

(* For every reachable state of the log store, Contiguous: the durable     *)
(* entry keys have no gap, so log_entries_ext numbers its results right.   *)
THEOREM LogContiguous == Spec => []Contiguous
<1>1. IInv => Contiguous
  BY DEF IInv
<1> QED
  BY <1>1, InitIInv, NextIInv, PTL DEF Spec

(* For every reachable state of the log store, RestartStable: what         *)
(* load_meta would rebuild is what start_index_ and next_index_ hold.      *)
THEOREM LogRestartStable == Spec => []RestartStable
<1>1. IInv => RestartStable
  <2> SUFFICES ASSUME IInv, pc = "open"
               PROVE  start_index = LoadedStart /\ next_index = LoadedNext
    BY DEF RestartStable
  <2>1. CASE Stored = {}
    BY <2>1 DEF IInv, Window, LoadedNext
  <2>2. CASE Stored # {}
    <3>1. /\ next_index - 1 \in Stored
          /\ \A j \in Stored : j <= next_index - 1
          /\ Stored \in SUBSET Int
          /\ next_index \in Int
      BY <2>2 DEF IInv, TypeOK, Window, Stored, Index
    <3>2. Highest(Stored) = next_index - 1
      BY <3>1, HighestIs
    <3> QED
      BY <2>2, <3>1, <3>2 DEF IInv, LoadedNext
  <2> QED
    BY <2>1, <2>2
<1> QED
  BY <1>1, InitIInv, NextIInv, PTL DEF Spec

(* For every reachable state of the log store, next_slot() is at or after  *)
(* start_index(), whatever was compacted and wherever the process died.    *)
THEOREM LogNextNotBehindStart == Spec => []NextNotBehindStart
<1>1. IInv => NextNotBehindStart
  <2> SUFFICES ASSUME IInv, pc # "closed" PROVE start_index <= next_index
    BY DEF NextNotBehindStart
  <2>0. start_index \in Int /\ next_index \in Int
    BY LogStoreAssumption DEF IInv, TypeOK
  <2>1. CASE Stored = {}
    BY <2>0, <2>1 DEF IInv, Window
  <2>2. CASE Stored # {}
    <3>1. PICK i : i \in Stored
      BY <2>2
    <3>2. i \in Int
      BY <3>1 DEF IInv, TypeOK, Stored, Index
    <3>3. start_index <= i /\ i < next_index
      BY <3>1 DEF IInv, Window
    <3> QED
      BY <2>0, <3>2, <3>3
  <2> QED
    BY <2>1, <2>2
<1> QED
  BY <1>1, InitIInv, NextIInv, PTL DEF Spec

(* The state of the log store has its type in every reachable state: all   *)
(* indices stay within the range of the log.                               *)
THEOREM LogTypeOK == Spec => []TypeOK
<1>1. IInv => TypeOK
  BY DEF IInv
<1> QED
  BY <1>1, InitIInv, NextIInv, PTL DEF Spec
-----------------------------------------------------------------------------
(* What a reader finds missing.                                            *)

(* Below a stored index, from where the store would start when it is       *)
(* opened again, every index is stored or was reached by a compaction; and *)
(* the durable start index is never ahead of the one in memory.            *)
HoleInv ==
    /\ \A j \in Stored : \A i \in LoadedStart..j : i \in Stored \/ i <= compacted
    /\ pc # "closed" => LoadedStart <= start_index

(* A step that stores entries and leaves the start alone keeps it, if what *)
(* it stores follows what was there.                                       *)
LEMMA StoreKeepsHoles ==
    ASSUME IInv, HoleInv, IInv', pc = "open", pc' = pc,
           NEW index \in Index, index \in Stored \/ index <= next_index,
           UNCHANGED <<meta_start, start_index, compacted>>,
           \A j \in Stored' : j \in Stored \/ j >= index,
           \A i \in Stored : i < index => i \in Stored',
           \A j \in Stored' : j < index \/ \A i \in index..j : i \in Stored'
    PROVE  HoleInv'
<1> USE LogStoreAssumption
<1>1. LoadedStart' = LoadedStart /\ LoadedStart = start_index /\ LoadedStart \in Nat
  BY DEF LoadedStart, IInv, TypeOK
<1>2. /\ Stored \subseteq Nat /\ Stored' \subseteq Nat /\ index \in Nat /\ next_index \in Nat
      /\ compacted \in Nat
  BY DEF IInv, TypeOK, Stored, Index
<1>3. ASSUME NEW i \in LoadedStart..(index - 1)
      PROVE  i \in Stored \/ i <= compacted
  <2>1. CASE index \in Stored
    BY <1>1, <1>2, <2>1 DEF HoleInv
  <2>2. CASE Stored # {} /\ index <= next_index
    <3>1. next_index - 1 \in Stored
      BY <2>2 DEF IInv, Window
    <3>2. i \in LoadedStart..(next_index - 1)
      BY <1>1, <1>2, <2>2
    <3> QED BY <3>1, <3>2 DEF HoleInv
  <2>3. CASE Stored = {} /\ index <= next_index
    <3>1. next_index = LoadedStart
      BY <1>1, <2>3 DEF IInv, Window
    <3> QED BY <1>1, <1>2, <2>3, <3>1
  <2> QED BY <2>1, <2>2, <2>3
<1>4. ASSUME NEW j \in Stored', NEW i \in LoadedStart..j
      PROVE  i \in Stored' \/ i <= compacted
  <2>0. i \in Nat /\ j \in Nat
    BY <1>1, <1>2
  <2>1. CASE i < index
    <3>1. i \in Stored \/ i <= compacted
      BY <1>1, <1>2, <1>3, <2>0, <2>1
    <3> QED BY <2>1, <3>1
  <2>2. CASE i >= index
    BY <1>2, <2>0, <2>2
  <2> QED BY <1>2, <2>0, <2>1, <2>2
<1> QED BY <1>1, <1>4 DEF HoleInv

(* No call, and no crash inside compact, uncovers an index that no         *)
(* compaction had reached.                                                 *)
LEMMA NextHoleInv == IInv /\ HoleInv /\ IInv' /\ [Next]_vars => HoleInv'
<1> SUFFICES ASSUME IInv, HoleInv, IInv', [Next]_vars PROVE HoleInv'
  OBVIOUS
<1> USE LogStoreAssumption
<1>0. /\ LoadedStart \in Nat /\ Stored \subseteq Nat /\ next_index \in Nat
      /\ start_index \in Nat /\ compacted \in Nat
  BY DEF LoadedStart, IInv, TypeOK, Stored, Index
<1>1. CASE load_meta
  BY <1>0, <1>1 DEF load_meta, HoleInv, LoadedStart, Stored
<1>2. ASSUME NEW e \in Entry, append(e) PROVE HoleInv'
  <2>1. Stored' = Stored \cup {next_index} /\ next_index \in Index
    BY <1>2 DEF append, Stored
  <2>2. \A j \in Stored : j < next_index
    BY <1>2 DEF append, IInv, Window
  <2>3. \A j \in Stored' : j < next_index \/ \A i \in next_index..j : i \in Stored'
    BY <1>0, <2>1, <2>2
  <2> QED BY <1>0, <1>2, <2>1, <2>3, StoreKeepsHoles DEF append
<1>3. ASSUME NEW index \in Index, NEW e \in Entry, write_at(index, e) PROVE HoleInv'
  <2>1. Stored' = (Stored \ (index..(next_index - 1))) \cup {index} /\ index <= next_index
    BY <1>0, <1>3 DEF write_at, Stored, Index
  <2>2. \A j \in Stored : j < next_index
    BY <1>3 DEF write_at, IInv, Window
  <2>3. \A j \in Stored' : j < index \/ \A i \in index..j : i \in Stored'
    BY <1>0, <2>1, <2>2 DEF Index
  <2>4. \A j \in Stored' : j \in Stored \/ j >= index
    BY <1>0, <2>1 DEF Index
  <2>5. \A i \in Stored : i < index => i \in Stored'
    BY <1>0, <2>1 DEF Index
  <2> QED BY <1>3, <2>1, <2>3, <2>4, <2>5, StoreKeepsHoles DEF write_at
<1>4. ASSUME NEW index \in Index, NEW count \in 0..MaxIndex,
             NEW pack \in [1..count -> Entry], apply_pack(index, pack, count)
      PROVE HoleInv'
  <2>1. /\ Stored' = Stored \cup (index..(index + count - 1))
        /\ index \in Stored \/ index <= next_index
    BY <1>0, <1>4 DEF apply_pack, Stored
  <2>2. \A j \in Stored' : j < index \/ \A i \in index..j : i \in Stored'
    <3> SUFFICES ASSUME NEW j \in Stored', j >= index, NEW i \in index..j PROVE i \in Stored'
      BY <1>0, <2>1 DEF Index
    <3>1. CASE j \in index..(index + count - 1)
      BY <2>1, <3>1 DEF Index
    <3>2. CASE j \in Stored
      <4>1. CASE index \in Stored
        BY <2>1, <3>2, <4>1 DEF IInv, Contiguous
      <4>2. CASE index = next_index
        BY <1>0, <1>4, <3>2, <4>2 DEF apply_pack, IInv, Window
      <4> QED BY <1>4, <4>1, <4>2 DEF apply_pack
    <3> QED BY <2>1, <3>1, <3>2
  <2>3. \A j \in Stored' : j \in Stored \/ j >= index
    BY <2>1 DEF Index
  <2> QED BY <1>4, <2>1, <2>2, <2>3, StoreKeepsHoles DEF apply_pack
<1>5. ASSUME NEW last \in Index, compact(last) PROVE HoleInv'
  <2>1. /\ Stored' = Stored \ (start_index..last)
        /\ LoadedStart' = LoadedStart /\ LoadedStart = start_index
        /\ start_index' = last + 1 /\ last >= start_index
    BY <1>5 DEF compact, Restrict, Stored, LoadedStart, IInv
  <2>2. last <= compacted' /\ compacted <= compacted' /\ compacted' \in Nat
    BY <1>0, <1>5 DEF compact, Index
  <2>3. ASSUME NEW j \in Stored', NEW i \in LoadedStart..j
        PROVE  i \in Stored' \/ i <= compacted'
    <3>1. i \in Stored \/ i <= compacted
      BY <2>1 DEF HoleInv
    <3>2. i \in Nat /\ last \in Nat
      BY <1>0, <2>1 DEF Index
    <3>3. CASE i \in start_index..last
      BY <1>0, <2>2, <3>2, <3>3
    <3>4. CASE i \notin start_index..last
      BY <1>0, <2>1, <2>2, <3>1, <3>2, <3>4
    <3> QED BY <3>3, <3>4
  <2> QED BY <1>0, <2>1, <2>3 DEF HoleInv, Index
<1>6. CASE persist_start_index
  <2>1. /\ LoadedStart' = start_index /\ LoadedStart <= start_index
        /\ UNCHANGED <<entries, start_index, compacted>>
    BY <1>0, <1>6 DEF persist_start_index, LoadedStart, HoleInv
  <2> QED BY <1>0, <2>1 DEF HoleInv, Stored
<1>7. CASE Crash
  BY <1>7 DEF Crash, HoleInv, LoadedStart, Stored
<1>8. CASE UNCHANGED vars
  BY <1>8 DEF vars, HoleInv, LoadedStart, Stored
<1> QED
  BY <1>1, <1>2, <1>3, <1>4, <1>5, <1>6, <1>7, <1>8 DEF Next

(* For every reachable state of the log store, an index between            *)
(* start_index_ and next_index_ for which entry_at makes up an entry was   *)
(* reached by a compaction: a crash between the two writes of compact      *)
(* brings an old start index back and nothing else is lost.                *)
THEOREM LogHolesOnlyWhereCompacted == Spec => []HolesOnlyWhereCompacted
<1>1. Init => HoleInv
  BY DEF Init, HoleInv, Stored
<1>2. IInv /\ HoleInv => HolesOnlyWhereCompacted
  <2> SUFFICES ASSUME IInv, HoleInv, pc = "open", NEW i \in start_index..(next_index - 1),
                      entry_at(i) = Dummy
               PROVE  i <= compacted
    BY DEF HolesOnlyWhereCompacted
  <2>1. start_index = LoadedStart /\ start_index \in Nat /\ next_index \in Nat
    BY LogStoreAssumption DEF IInv, TypeOK
  <2>2. i \notin Stored
    BY <2>1, LogStoreAssumption DEF entry_at, IInv, TypeOK, Stored
  <2>3. Stored # {}
    BY <2>1 DEF IInv, Window
  <2>4. next_index - 1 \in Stored
    BY <2>3 DEF IInv, Window
  <2> QED BY <2>1, <2>2, <2>4 DEF HoleInv
<1> QED BY <1>1, <1>2, InitIInv, NextIInv, NextHoleInv, PTL DEF Spec

(* For every reachable state of the log store, the iterator, the point     *)
(* reads and pack see the same entries from a stored index on.             *)
THEOREM LogReadersAgree == Spec => []ReadersAgree
<1>1. IInv => ReadersAgree
  <2> SUFFICES ASSUME IInv, pc = "open", NEW i \in Stored, NEW j \in i..next_index
               PROVE  /\ log_entries(i, j) = pack_indices(i, j - i)
                      /\ log_entries(i, j) = {k \in i..(j - 1) : entry_at(k) # Dummy}
    BY DEF ReadersAgree
  <2>1. /\ Stored \subseteq Nat /\ i \in Nat /\ next_index \in Nat /\ start_index \in Nat
        /\ j \in Nat /\ i <= j /\ j <= next_index /\ start_index <= i
        /\ next_index - 1 \in Stored
    BY LogStoreAssumption DEF IInv, TypeOK, Window, Stored, Index
  <2>2. \A k \in i..(j - 1) : k \in Stored
    BY <2>1 DEF IInv, Contiguous
  <2>3. log_entries(i, j) = i..(j - 1)
    <3>1. ASSUME NEW k \in log_entries(i, j) PROVE k \in i..(j - 1)
      BY <2>1 DEF log_entries
    <3>2. ASSUME NEW k \in i..(j - 1) PROVE k \in log_entries(i, j)
      BY <2>1, <2>2 DEF log_entries
    <3> QED BY <3>1, <3>2
  <2>4. pack_indices(i, j - i) = i..(j - 1)
    <3>1. i + (j - i) - 1 = j - 1
      BY <2>1
    <3>2. \A k \in i..(j - 1) : \A l \in i..k : l \in Stored
      BY <2>1, <2>2
    <3>3. pack_indices(i, j - i) = {k \in i..(j - 1) : \A l \in i..k : l \in Stored}
      BY <3>1 DEF pack_indices
    <3> QED BY <3>2, <3>3
  <2>5. \A k \in i..(j - 1) : entry_at(k) # Dummy
    <3> SUFFICES ASSUME NEW k \in i..(j - 1) PROVE entry_at(k) # Dummy
      OBVIOUS
    <3>1. k \in Stored /\ ~(k < start_index) /\ ~(k >= next_index)
      BY <2>1, <2>2
    <3>2. entries[k] \in Entry
      BY <3>1 DEF IInv, TypeOK, Stored
    <3> QED BY <3>1, <3>2, LogStoreAssumption DEF entry_at
  <2> QED BY <2>3, <2>4, <2>5
<1> QED BY <1>1, InitIInv, NextIInv, PTL DEF Spec
=============================================================================
