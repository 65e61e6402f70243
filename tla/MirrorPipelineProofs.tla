------------------------ MODULE MirrorPipelineProofs ------------------------
(***************************************************************************)
(* Proofs about MirrorPipeline, for every set of requests and readers,     *)
(* every log length, every number of crashes, with and without peers; and  *)
(* as long as the process has not stopped.                                 *)
(***************************************************************************)
EXTENDS MirrorPipeline, TLAPS

(* What the type proofs need to know of numbers.                           *)
LEMMA Numbers ==
    /\ 0 \in Nat /\ 1 \in Nat
    /\ \A n \in Nat : n + 1 \in Nat /\ 1..n \subseteq Nat
    /\ \A n \in Nat : \A k \in 0..n : k < n => k + 1 \in 0..n
OBVIOUS

(* A refresh keeps the startup record well typed.                          *)
LEMMA RefreshType ==
    ASSUME NEW s \in StartupState,
           NEW rec \in BOOLEAN, NEW kv, NEW applied, NEW committed
    PROVE  Refresh(s, rec, kv, applied, committed) \in StartupState
BY Zenon DEF Refresh, StartupState

(* What the Raft server may answer is a Boolean.                           *)
LEMMA RecoveringType == Recovering \subseteq BOOLEAN
BY Zenon DEF Recovering

(* A write handler may take any of its program points.                     *)
LEMMA ClientPc ==
    ASSUME NEW q \in ClientState,
           NEW pc \in {"idle", "append", "submitted", "result", "done", "failed"}
    PROVE  [q EXCEPT !.pc = pc] \in ClientState
BY Zenon DEF ClientState

(* Taking a token.                                                         *)
LEMMA ClientAppend ==
    ASSUME NEW q \in ClientState, NEW t \in Nat
    PROVE  [q EXCEPT !.pc = "append", !.attempt = 0, !.token = t] \in ClientState
<1>1. 0 \in 0..kMaxRetries
  BY PipelineAssumption
<1> QED
  BY <1>1, Zenon DEF ClientState

(* Counting a retry.                                                       *)
LEMMA ClientRetry ==
    ASSUME NEW q \in ClientState, q.attempt # kMaxRetries
    PROVE  [q EXCEPT !.attempt = q.attempt + 1] \in ClientState
<1>1. q.attempt + 1 \in 0..kMaxRetries
  BY PipelineAssumption DEF ClientState
<1> QED
  BY <1>1, Zenon DEF ClientState

(* Recording the index of an appended chunk.                               *)
LEMMA ClientSubmits ==
    ASSUME NEW q \in ClientState, NEW i \in Nat
    PROVE  [q EXCEPT !.pc = "submitted", !.own = Append(q.own, i)] \in ClientState
<1>1. q.own \in Seq(Nat)
  BY Zenon DEF ClientState
<1>2. Append(q.own, i) \in Seq(Nat)
  BY <1>1
<1> QED
  BY <1>2, Zenon DEF ClientState

(* Recording an answer.                                                    *)
LEMMA ClientAnswered ==
    ASSUME NEW q \in ClientState, NEW i \in Nat, NEW pc \in {"idle", "done", "failed"}
    PROVE  [q EXCEPT !.pc = pc, !.got = Append(q.got, i)] \in ClientState
<1>1. q.got \in Seq(Nat)
  BY Zenon DEF ClientState
<1>2. Append(q.got, i) \in Seq(Nat)
  BY <1>1
<1> QED
  BY <1>2, Zenon DEF ClientState

(* An element of a sequence has the type of the sequence.                  *)
LEMMA ElementType ==
    ASSUME NEW S, NEW s \in Seq(S), NEW i \in 1..Len(s)
    PROVE  s[i] \in S
OBVIOUS

(* An entry of the log, and the log with one entry more.                   *)
LEMMA LogEntryType ==
    ASSUME NEW log \in Seq([kind : AllKinds, self : BOOLEAN, token : Nat]),
           NEW i \in 1..Len(log)
    PROVE  log[i].token \in Nat
<1>1. log[i] \in [kind : AllKinds, self : BOOLEAN, token : Nat]
  BY ElementType, Zenon
<1> QED
  BY <1>1, Zenon

(* The initial state is well typed.                                        *)
LEMMA InitTypeOK == Init => TypeOK
BY PipelineAssumption DEF Init, TypeOK, NoRequest, NoRead, NoResults,
                           StartupState, ClientState, ReaderState

(* The worker holds an index of the log.                                   *)
WorkerInLog == worker.pc # "idle" => worker.idx \in 1..Len(raft_log)

(* Every action keeps the types; storing a result reads the log at the     *)
(* worker's index.                                                         *)
LEMMA NextTypeOK == TypeOK /\ WorkerInLog /\ [Next]_vars => TypeOK'
<1> SUFFICES ASSUME TypeOK, WorkerInLog, [Next]_vars PROVE TypeOK'
  BY Zenon
<1> USE PipelineAssumption DEF TypeOK, raftVars, durableVars, commitVars, workerVars, historyVars
<1>1. CASE OpenSink
  BY <1>1, Zenon DEF OpenSink, StartupState
<1>2. CASE initialize_raft_server
  BY <1>2, Zenon DEF initialize_raft_server
<1>3. CASE Align
  <2>1. PICK rec \in BOOLEAN, again \in BOOLEAN :
           LET aligned == Greater(live, last_commit_index)
               moved   == IF aligned > live
                          THEN Refresh(startup, rec, kv_applied, aligned, sm_commit)
                          ELSE startup
           IN  \/ /\ startup' = Refresh(startup, again, kv_applied, live, sm_commit)
                  /\ live' = live
               \/ /\ startup' = Refresh([moved EXCEPT !.base = aligned],
                                         again, kv_applied, aligned, sm_commit)
                  /\ live' = aligned
    BY <1>3, RecoveringType, Zenon DEF Align
  <2> DEFINE aligned == Greater(live, last_commit_index)
             moved   == IF aligned > live
                        THEN Refresh(startup, rec, kv_applied, aligned, sm_commit)
                        ELSE startup
  <2>2. aligned \in Nat
    BY Zenon DEF Greater
  <2>3. moved \in StartupState
    BY RefreshType, Zenon
  <2>4. [moved EXCEPT !.base = aligned] \in StartupState
    BY <2>2, <2>3, Zenon DEF StartupState
  <2>5. startup' \in StartupState /\ live' \in Nat
    <3> HIDE DEF aligned, moved
    <3>1. CASE startup' = Refresh(startup, again, kv_applied, live, sm_commit) /\ live' = live
      BY <3>1, RefreshType, Zenon
    <3>2. CASE /\ startup' = Refresh([moved EXCEPT !.base = aligned],
                                     again, kv_applied, aligned, sm_commit)
               /\ live' = aligned
      BY <3>2, <2>2, <2>4, RefreshType, Zenon
    <3> QED
      BY <2>1, <3>1, <3>2, Zenon DEF aligned, moved
  <2> QED
    BY <1>3, <2>5, Zenon DEF Align
<1>4. CASE GraceElapses
  BY <1>4, Zenon DEF GraceElapses, StartupState
<1>5. CASE Probe
  BY <1>5, RefreshType, RecoveringType DEF Probe
<1>6. CASE Crash
  <2>1. client' \in [Clients -> ClientState]
    BY <1>6, ClientPc, Zenon DEF Crash
  <2>2. reader' \in [Readers -> ReaderState]
    BY <1>6, Zenon DEF Crash, NoRead, ReaderState
  <2>3. lost' \in SUBSET Nat
    BY <1>6, Numbers, Zenon DEF Crash
  <2>4. /\ DOMAIN mirrored_results' \subseteq Nat
        /\ \A t \in DOMAIN mirrored_results' : mirrored_results'[t] \in Nat
    BY <1>6, Zenon DEF Crash, NoResults
  <2>5. /\ crashes' \in 0..MaxCrashes /\ next_response_token' \in Nat
        /\ sm_commit' \in Nat /\ last_commit_index' \in Nat /\ live' \in Nat
        /\ mirror_worker_queue' \in Seq(Nat)
        /\ worker' \in [pc : {"idle", "popped", "applied", "advanced"}, idx : Nat]
    <3>1. <<>> \in Seq(Nat)
      OBVIOUS
    <3> QED
      BY <1>6, <3>1, Numbers, Zenon DEF Crash
  <2> QED
    BY <1>6, <2>1, <2>2, <2>3, <2>4, <2>5, Zenon DEF Crash
<1>7. ASSUME NEW kind \in Kinds, NEW token \in 0..1, OtherAppend(kind, token) PROVE TypeOK'
  BY <1>7 DEF OtherAppend
<1>8. CASE RaftCommit
  BY <1>8 DEF RaftCommit
<1>9. CASE CommitSkip
  BY <1>9 DEF CommitSkip
<1>10. CASE CommitToSink
  BY <1>10 DEF CommitToSink
<1>11. CASE CommitIndex
  BY <1>11 DEF CommitIndex
<1>12. CASE enqueue_mirrored_request
  BY <1>12, RefreshType, RecoveringType DEF enqueue_mirrored_request
<1>13. CASE WorkerPop
  BY <1>13 DEF WorkerPop
<1>14. CASE apply_mirrored_request
  <2>1. store_applied' \in Seq(Nat)
    BY <1>14 DEF apply_mirrored_request
  <2>2. worker' \in [pc : {"idle", "popped", "applied", "advanced"}, idx : Nat]
    BY <1>14, Zenon DEF apply_mirrored_request
  <2> QED
    BY <1>14, <2>1, <2>2, Zenon DEF apply_mirrored_request
<1>15. CASE advance_live_product_state_applied_index
  <2>1. startup' \in StartupState
    BY <1>15, RefreshType, RecoveringType DEF advance_live_product_state_applied_index
  <2>2. live' \in Nat /\ worker' \in [pc : {"idle", "popped", "applied", "advanced"}, idx : Nat]
    BY <1>15, Zenon DEF advance_live_product_state_applied_index, Greater
  <2> QED
    BY <1>15, <2>1, <2>2, Zenon DEF advance_live_product_state_applied_index
<1>16. CASE store_mirrored_result
  <2>1. worker.idx \in Nat /\ raft_log[worker.idx].token \in Nat
    BY <1>16, LogEntryType, Zenon DEF store_mirrored_result, WorkerInLog
  <2>4. /\ DOMAIN mirrored_results' \subseteq Nat
        /\ \A t \in DOMAIN mirrored_results' : mirrored_results'[t] \in Nat
    <3>1. \/ mirrored_results' = mirrored_results
          \/ mirrored_results' =
                [t \in DOMAIN mirrored_results \cup {raft_log[worker.idx].token} |->
                     IF t = raft_log[worker.idx].token THEN worker.idx ELSE mirrored_results[t]]
      BY <1>16, Zenon DEF store_mirrored_result
    <3> QED
      BY <2>1, <3>1, Zenon
  <2> QED
    BY <1>16, <2>4, Zenon DEF store_mirrored_result
<1>17. ASSUME NEW c \in Clients, Writing(c) PROVE TypeOK'
  <2> USE DEF Unmoved
  <2>0. client[c] \in ClientState
    BY Zenon
  <2>1. CASE allocate_response_token(c)
    <3> DEFINE next == [client[c] EXCEPT !.pc = "append", !.attempt = 0,
                                       !.token = next_response_token]
    <3>a. next \in ClientState
      BY <2>0, ClientAppend, Zenon
    <3>b. client' = [client EXCEPT ![c] = next]
      BY <2>1, Zenon DEF allocate_response_token
    <3>1. client' \in [Clients -> ClientState]
      <4> HIDE DEF next
      <4> QED
        BY <3>a, <3>b, Zenon
    <3> QED
      BY <2>1, <3>1, Numbers, Zenon DEF allocate_response_token
  <2>2. CASE AppendNotLeader(c)
    <3> DEFINE next == IF client[c].attempt = kMaxRetries
                    THEN [client[c] EXCEPT !.pc = "failed"]
                    ELSE [client[c] EXCEPT !.attempt = client[c].attempt + 1]
    <3>a. next \in ClientState
      BY <2>0, ClientPc, ClientRetry, Zenon
    <3>b. client' = [client EXCEPT ![c] = next]
      BY <2>2, Zenon DEF AppendNotLeader
    <3>1. client' \in [Clients -> ClientState]
      <4> HIDE DEF next
      <4> QED
        BY <3>a, <3>b, Zenon
    <3> QED
      BY <2>2, <3>1, Zenon DEF AppendNotLeader
  <2>3. ASSUME NEW kind \in Kinds \ {"bad", "conf"}, Submit(c, kind) PROVE TypeOK'
    <3> DEFINE next == [client[c] EXCEPT !.pc = "submitted",
                                       !.own = Append(client[c].own, Len(raft_log) + 1)]
    <3>a. next \in ClientState
      <4>1. Len(raft_log) + 1 \in Nat
        OBVIOUS
      <4> QED
        BY <2>0, <4>1, ClientSubmits, Zenon
    <3>b. client' = [client EXCEPT ![c] = next]
      BY <2>3, Zenon DEF Submit
    <3>1. client' \in [Clients -> ClientState]
      <4> HIDE DEF next
      <4> QED
        BY <3>a, <3>b, Zenon
    <3>2. raft_log' \in Seq([kind : AllKinds, self : BOOLEAN, token : Nat])
      BY <2>0, <2>3 DEF Submit, ClientState
    <3> QED
      BY <2>3, <3>1, <3>2, Zenon DEF Submit
  <2>4. CASE AppendFails(c)
    <3>1. client' \in [Clients -> ClientState]
      BY <2>0, <2>4, Zenon DEF AppendFails, ClientState
    <3> QED
      BY <2>4, <3>1, Zenon DEF AppendFails
  <2>5. CASE AppendAccepted(c)
    <3>1. client' \in [Clients -> ClientState]
      BY <2>0, <2>5, Zenon DEF AppendAccepted, ClientState
    <3> QED
      BY <2>5, <3>1, Zenon DEF AppendAccepted
  <2>6. CASE wait_for_mirrored_result(c)
    <3> DEFINE next == [client[c] EXCEPT
                      !.pc = IF raft_log[mirrored_results[client[c].token]].kind = "refused"
                                  /\ Chunks[c] > 1
                             THEN "failed"
                             ELSE IF Len(client[c].own) < Chunks[c] THEN "idle" ELSE "done",
                      !.got = Append(client[c].got, mirrored_results[client[c].token])]
    <3>a. next \in ClientState
      BY <2>0, <2>6, ClientAnswered, Zenon DEF wait_for_mirrored_result
    <3>b. client' = [client EXCEPT ![c] = next]
      BY <2>6, Zenon DEF wait_for_mirrored_result
    <3>1. client' \in [Clients -> ClientState]
      <4> HIDE DEF next
      <4> QED
        BY <3>a, <3>b, Zenon
    <3>2. /\ DOMAIN mirrored_results' \subseteq Nat
          /\ \A t \in DOMAIN mirrored_results' : mirrored_results'[t] \in Nat
      BY <2>6, Zenon DEF wait_for_mirrored_result
    <3> QED
      BY <2>6, <3>1, <3>2, Zenon DEF wait_for_mirrored_result
  <2>7. CASE ResultTimeout(c)
    <3>1. client' \in [Clients -> ClientState]
      BY <2>0, <2>7, Zenon DEF ResultTimeout, ClientState
    <3> QED
      BY <2>7, <3>1, Zenon DEF ResultTimeout
  <2> QED
    BY <1>17, <2>1, <2>2, <2>3, <2>4, <2>5, <2>6, <2>7, Zenon DEF Writing
<1>18. ASSUME NEW r \in Readers, Reading(r) PROVE TypeOK'
  <2>1. reader' \in [Readers -> ReaderState]
    <3>1. CASE ReadBegins(r)
      BY <3>1, Zenon DEF ReadBegins, ReaderState
    <3>2. CASE wait_for_live_product_state(r)
      BY <3>2, Zenon DEF wait_for_live_product_state, ReaderState
    <3>3. CASE ReadTimeout(r)
      BY <3>3, Zenon DEF ReadTimeout, ReaderState
    <3> QED
      BY <1>18, <3>1, <3>2, <3>3, Zenon DEF Reading
  <2> QED
    BY <1>18, <2>1, ZenonT(40) DEF Reading, ReadBegins, wait_for_live_product_state, ReadTimeout
<1>19. CASE UNCHANGED vars
  BY <1>19, Zenon DEF vars
<1> QED
  BY <1>1, <1>2, <1>3, <1>4, <1>5, <1>6, <1>7, <1>8, <1>9, <1>10, <1>11, <1>12, <1>13,
     <1>14, <1>15, <1>16, <1>17, <1>18, <1>19, Zenon
     DEF Next, Startup, Committing, Working
-----------------------------------------------------------------------------
(* The inductive invariant, over the committed part of the log: MIdx are   *)
(* the committed indices that are to be mirrored, KIdx those of them the   *)
(* KV sink refuses.                                                        *)

Running == boot \in {"raft", "up"}

MIdx == {i \in 1..raft_commit : Mirrored(i)}

KIdx == {i \in 1..raft_commit : raft_log[i].kind = "kvfail"}

(* The queue is sorted and lies between the entry the worker has and the   *)
(* one the commit thread is at; what is applied or on its way is committed.*)
Ordered ==
    /\ kv_applied <= raft_commit
    /\ sm_commit <= raft_commit
    /\ ~Running => mirror_worker_queue = <<>> /\ worker.pc = "idle" /\ commit_pc = "idle"
    /\ commit_pc # "idle" => sm_commit + 1 \in MIdx
    /\ worker.pc # "idle" => worker.idx \in MIdx /\ worker.idx <= sm_commit
    /\ \A p \in 1..Len(mirror_worker_queue) :
           /\ mirror_worker_queue[p] \in MIdx
           /\ mirror_worker_queue[p] <= sm_commit
           /\ worker.pc # "idle" => worker.idx < mirror_worker_queue[p]
    /\ \A p, q \in 1..Len(mirror_worker_queue) :
           p < q => mirror_worker_queue[p] < mirror_worker_queue[q]
    /\ \A p \in 1..Len(store_applied) : store_applied[p] \in MIdx
    /\ lost \subseteq MIdx

(* The KV sink is never behind an entry it accepts and that the commit     *)
(* thread has passed, in this run of the process or in an earlier one.     *)
SinkCovers ==
    /\ Running => kv_applied <= sm_commit + 1
    /\ Running /\ commit_pc = "idle" => kv_applied <= sm_commit
    /\ Running => \A i \in MIdx \ KIdx : i <= sm_commit => i <= kv_applied
    /\ commit_pc # "idle" => sm_commit + 1 \in KIdx \/ sm_commit + 1 <= kv_applied
    /\ \A p \in 1..Len(store_applied) : \A i \in MIdx \ KIdx :
           i <= store_applied[p] => i <= kv_applied

(* What is on its way to a handler is above everything already applied,    *)
(* but for entries the KV sink refuses.                                    *)
Behind(x) ==
    \A p \in 1..Len(store_applied) :
        store_applied[p] >= x => store_applied[p] \in KIdx /\ x \in KIdx

FlightBehind ==
    /\ \A p \in 1..Len(mirror_worker_queue) : Behind(mirror_worker_queue[p])
    /\ worker.pc = "popped" => Behind(worker.idx)
    /\ commit_pc # "idle" => Behind(sm_commit + 1)

(* ReappliedOnlyRefused over KIdx.                                         *)
AppliedInOrder ==
    \A p, q \in 1..Len(store_applied) :
        p < q /\ store_applied[p] >= store_applied[q] =>
            store_applied[p] \in KIdx /\ store_applied[q] \in KIdx

(* While the process is down, what the KV sink covers is applied or lost;  *)
(* while it runs, what the commit thread has passed is, or is in flight.   *)
Accounted ==
    /\ ~Running => \A i \in MIdx : i <= kv_applied => i \in Applied \cup lost
    /\ Running => \A i \in MIdx : i <= sm_commit => i \in Applied \cup InFlight \cup lost

(* Parts of the invariant that need the log, and the two volatile indices. *)
InLog == raft_commit <= Len(raft_log)

IndicesCommitted == last_commit_index <= raft_commit /\ live <= raft_commit

SInv ==
    /\ Ordered
    /\ SinkCovers
    /\ FlightBehind
    /\ AppliedInOrder
    /\ Accounted

coreVars == <<kv_applied, store_applied, sm_commit, commit_pc, mirror_worker_queue,
              worker, lost>>

(* The invariant holds of a node that has never run.                       *)
LEMMA InitSInv == Init => SInv /\ InLog /\ IndicesCommitted
<1> SUFFICES ASSUME Init PROVE SInv /\ InLog /\ IndicesCommitted
  BY Zenon
<1>1. MIdx = {} /\ KIdx = {}
  BY DEF Init, MIdx, KIdx
<1>2. Len(store_applied) = 0 /\ Len(mirror_worker_queue) = 0 /\ Len(raft_log) = 0
  BY Zenon DEF Init
<1> QED
  BY <1>1, <1>2 DEF Init, SInv, Ordered, SinkCovers, FlightBehind, Behind, AppliedInOrder,
       Accounted, Running, InLog, IndicesCommitted

(* A step that changes neither the committed part of the log nor the       *)
(* variables of the invariant.                                             *)
LEMMA FrameSInv ==
    ASSUME SInv, UNCHANGED coreVars, UNCHANGED raft_commit, MIdx' = MIdx, KIdx' = KIdx,
           Running' = Running
    PROVE  SInv'
BY DEF SInv, Ordered, SinkCovers, FlightBehind, Behind, AppliedInOrder, Accounted,
       Applied, InFlight, Queued, coreVars

(* With the log unchanged, so are the indices of its entries.              *)
LEMMA SameLog == UNCHANGED raftVars => MIdx' = MIdx /\ KIdx' = KIdx /\ UNCHANGED raft_commit
BY Zenon DEF raftVars, MIdx, KIdx, Mirrored

(* A step that only makes the log longer.                                  *)
LEMMA LongerLog ==
    ASSUME TypeOK, InLog,
           NEW e \in [kind : AllKinds, self : BOOLEAN, token : Nat],
           raft_log' = Append(raft_log, e), UNCHANGED raft_commit
    PROVE  MIdx' = MIdx /\ KIdx' = KIdx /\ InLog'
<1>1. /\ Len(raft_log') = Len(raft_log) + 1
      /\ \A i \in 1..Len(raft_log) : raft_log'[i] = raft_log[i]
  BY DEF TypeOK
<1>2. \A i \in 1..raft_commit : raft_log'[i] = raft_log[i]
  BY <1>1 DEF TypeOK, InLog
<1>3. InLog'
  BY <1>1 DEF TypeOK, InLog
<1> QED
  BY <1>2, <1>3, Zenon DEF MIdx, KIdx, Mirrored

(* The sets the invariant is about are sets of indices.                    *)
LEMMA IndexSets ==
    ASSUME TypeOK
    PROVE  /\ MIdx \subseteq 1..raft_commit
           /\ KIdx \subseteq MIdx
           /\ raft_commit \in Nat
BY Zenon DEF TypeOK, MIdx, KIdx, Mirrored

(* The types the arithmetic of the action lemmas needs.                    *)
LEMMA CoreTypes ==
    ASSUME TypeOK
    PROVE  /\ kv_applied \in Nat /\ sm_commit \in Nat /\ raft_commit \in Nat
           /\ worker.idx \in Nat
           /\ Len(store_applied) \in Nat /\ Len(mirror_worker_queue) \in Nat
           /\ \A p \in 1..Len(store_applied) : store_applied[p] \in Nat
           /\ \A p \in 1..Len(mirror_worker_queue) : mirror_worker_queue[p] \in Nat
           /\ \A i \in MIdx : i \in Nat /\ 1 <= i /\ i <= raft_commit
           /\ \A i \in KIdx : i \in MIdx
BY IndexSets, ElementType DEF TypeOK

(* What Append and Tail do to a sequence of indices.                       *)
LEMMA AppendIndex ==
    ASSUME NEW s \in Seq(Nat), NEW x \in Nat
    PROVE  /\ Append(s, x) \in Seq(Nat)
           /\ Len(Append(s, x)) = Len(s) + 1
           /\ \A p \in 1..Len(s) : Append(s, x)[p] = s[p]
           /\ Append(s, x)[Len(s) + 1] = x
OBVIOUS

LEMMA TailIndex ==
    ASSUME NEW s \in Seq(Nat), s # <<>>
    PROVE  /\ Len(s) \in Nat \ {0}
           /\ Head(s) = s[1]
           /\ Tail(s) \in Seq(Nat)
           /\ Len(Tail(s)) = Len(s) - 1
           /\ \A p \in 1..(Len(s) - 1) : Tail(s)[p] = s[p + 1]
OBVIOUS

(* initialize_raft_server resumes at the KV sink's index.                  *)
LEMMA StartSInv ==
    ASSUME TypeOK, SInv, initialize_raft_server
    PROVE  SInv'
<1> USE IndexSets DEF TypeOK, initialize_raft_server, durableVars, workerVars, historyVars
<1>1. MIdx' = MIdx /\ KIdx' = KIdx /\ UNCHANGED raft_commit
  BY SameLog, Zenon
<1>2. ~Running /\ Running' /\ sm_commit' = kv_applied
  BY Zenon DEF Running
<1>3. mirror_worker_queue = <<>> /\ worker.pc = "idle" /\ commit_pc = "idle"
  BY <1>2, Zenon DEF SInv, Ordered
<1>4. Ordered'
  BY <1>1, <1>2, <1>3 DEF SInv, Ordered
<1>5. SinkCovers'
  BY <1>1, <1>2, <1>3 DEF SInv, Ordered, SinkCovers
<1>6. FlightBehind' /\ AppliedInOrder'
  BY <1>1, <1>2, <1>3 DEF SInv, FlightBehind, Behind, AppliedInOrder
<1>7. Accounted'
  BY <1>1, <1>2, <1>3, Zenon DEF SInv, Accounted, Applied
<1> QED
  BY <1>4, <1>5, <1>6, <1>7, Zenon DEF SInv

(* A stop moves what was in flight to lost.                                *)
LEMMA CrashSInv ==
    ASSUME TypeOK, SInv, Crash
    PROVE  SInv'
<1> USE IndexSets DEF TypeOK, Crash, durableVars
<1>1. MIdx' = MIdx /\ KIdx' = KIdx /\ UNCHANGED raft_commit
  BY SameLog, Zenon
<1>2. ~Running' /\ sm_commit' = 0 /\ UNCHANGED <<kv_applied, store_applied>>
  BY Zenon DEF Running
<1>3. /\ mirror_worker_queue' = <<>> /\ worker'.pc = "idle" /\ commit_pc' = "idle"
      /\ Len(mirror_worker_queue') = 0
  BY Zenon
<1>4. lost' = lost \cup {i \in MIdx : i <= kv_applied /\ i \notin Applied}
  BY DEF SInv, Ordered, MIdx
<1>5. Ordered'
  BY <1>1, <1>2, <1>3, <1>4 DEF SInv, Ordered
<1>6. SinkCovers'
  BY <1>1, <1>2, <1>3 DEF SInv, SinkCovers
<1>7. FlightBehind' /\ AppliedInOrder'
  BY <1>1, <1>2, <1>3 DEF SInv, FlightBehind, Behind, AppliedInOrder
<1>8. Accounted'
  BY <1>1, <1>2, <1>4, Zenon DEF SInv, Accounted, Applied
<1> QED
  BY <1>5, <1>6, <1>7, <1>8, Zenon DEF SInv

(* One more committed entry: none of the sets reaches it yet.              *)
LEMMA RaftCommitSInv ==
    ASSUME TypeOK, SInv, RaftCommit
    PROVE  SInv'
<1> DEFINE n == raft_commit + 1
<1>1. /\ raft_commit' = n
      /\ UNCHANGED coreVars
      /\ Running' = Running
  BY Zenon DEF RaftCommit, durableVars, commitVars, workerVars, historyVars, coreVars, Running
<1>2. /\ MIdx \subseteq MIdx' /\ MIdx' \subseteq MIdx \cup {n}
      /\ KIdx \subseteq KIdx' /\ KIdx' \subseteq KIdx \cup {n}
  <2>1. raft_commit \in Nat /\ raft_commit' = raft_commit + 1 /\ raft_log' = raft_log
    BY Zenon DEF TypeOK, RaftCommit
  <2>2. 1..raft_commit' = 1..raft_commit \cup {n}
    BY <2>1
  <2> HIDE DEF n
  <2> QED
    BY <2>1, <2>2, Zenon DEF MIdx, KIdx, Mirrored
<1>3. \A i \in MIdx : i < n /\ (i \in KIdx' <=> i \in KIdx)
  BY <1>2, IndexSets DEF TypeOK
<1> HIDE DEF n
<1>4. Ordered'
  BY <1>1, <1>2, IndexSets DEF TypeOK, SInv, Ordered, coreVars, n
<1>5. SinkCovers'
  <2>1. kv_applied < n /\ sm_commit < n /\ \A p \in 1..Len(store_applied) : store_applied[p] < n
    BY <1>3, IndexSets DEF SInv, Ordered, TypeOK, n
  <2> QED
    BY <1>1, <1>2, <1>3, <2>1, IndexSets DEF SInv, SinkCovers, coreVars, TypeOK, n
<1>6. FlightBehind' /\ AppliedInOrder'
  BY <1>1, <1>2, Zenon DEF SInv, FlightBehind, Behind, AppliedInOrder, coreVars
<1>7. Accounted'
  <2>1. kv_applied < n /\ sm_commit < n
    BY IndexSets DEF SInv, Ordered, TypeOK, n
  <2>2. UNCHANGED <<Applied, InFlight>>
    BY <1>1, Zenon DEF Applied, InFlight, Queued, coreVars
  <2> QED
    BY <1>1, <1>2, <2>1, <2>2 DEF SInv, Accounted, coreVars, TypeOK, n
<1> QED
  BY <1>4, <1>5, <1>6, <1>7, Zenon DEF SInv

(* An entry that is not mirrored is passed over.                           *)
LEMMA CommitSkipSInv ==
    ASSUME TypeOK, SInv, CommitSkip
    PROVE  SInv'
<1> USE IndexSets DEF TypeOK, CommitSkip, CommitReady, durableVars, workerVars, historyVars
<1>1. MIdx' = MIdx /\ KIdx' = KIdx /\ UNCHANGED raft_commit
  BY SameLog, Zenon
<1>2. Running /\ Running' /\ sm_commit' = sm_commit + 1 /\ sm_commit < raft_commit
  BY Zenon DEF Running
<1>3. sm_commit + 1 \notin MIdx
  BY Zenon DEF MIdx
<1>4. Ordered'
  BY <1>1, <1>2 DEF SInv, Ordered
<1>5. SinkCovers'
  BY <1>1, <1>2, <1>3 DEF SInv, SinkCovers
<1>6. FlightBehind' /\ AppliedInOrder'
  BY <1>1, <1>2, Zenon DEF SInv, FlightBehind, Behind, AppliedInOrder
<1>7. Accounted'
  <2>1. UNCHANGED <<Applied, InFlight, lost>>
    BY <1>2, Zenon DEF Applied, InFlight, Queued
  <2>2. \A i \in MIdx : i <= sm_commit + 1 => i <= sm_commit
    <3> HIDE DEF TypeOK, CommitSkip, CommitReady
    <3> QED
      BY <1>3, CoreTypes
  <2> QED
    BY <1>1, <1>2, <2>1, <2>2, Zenon DEF SInv, Accounted
<1> QED
  BY <1>4, <1>5, <1>6, <1>7, Zenon DEF SInv

(* The entry enters the KV sink and the commit thread's hands.             *)
LEMMA CommitToSinkSInv ==
    ASSUME TypeOK, SInv, CommitToSink
    PROVE  SInv'
<1> USE IndexSets DEF TypeOK, CommitToSink, CommitReady, workerVars, historyVars
<1>1. MIdx' = MIdx /\ KIdx' = KIdx /\ UNCHANGED raft_commit
  BY SameLog, Zenon
<1>2. /\ Running /\ Running' /\ UNCHANGED sm_commit /\ sm_commit < raft_commit
      /\ commit_pc = "idle" /\ commit_pc' = "applied"
  BY Zenon DEF Running
<1>3. sm_commit + 1 \in MIdx
  <2>1. sm_commit + 1 \in 1..raft_commit
    <3> HIDE DEF TypeOK, CommitToSink, CommitReady
    <3> QED
      BY <1>2, CoreTypes
  <2> QED
    BY <2>1, Zenon DEF MIdx
<1>4. kv_applied' = IF sm_commit + 1 \in KIdx THEN kv_applied ELSE sm_commit + 1
  <2>1. sm_commit + 1 \in 1..raft_commit
    BY <1>3, Zenon DEF MIdx
  <2> QED
    BY <2>1, Zenon DEF KIdx
<1>5. kv_applied <= sm_commit
  BY <1>2, Zenon DEF SInv, SinkCovers
<1>6. Ordered'
  BY <1>1, <1>2, <1>3, <1>4 DEF SInv, Ordered
<1>7. SinkCovers'
  BY <1>1, <1>2, <1>4, <1>5 DEF SInv, SinkCovers, Ordered
<1>8. Behind(sm_commit + 1)
  <2> SUFFICES ASSUME NEW p \in 1..Len(store_applied), store_applied[p] >= sm_commit + 1
               PROVE  store_applied[p] \in KIdx /\ sm_commit + 1 \in KIdx
    BY Zenon DEF Behind
  <2>1. store_applied[p] \in MIdx
    BY Zenon DEF SInv, Ordered
  <2>2. \A i \in MIdx \ KIdx : i <= store_applied[p] => i <= kv_applied
    BY Zenon DEF SInv, SinkCovers
  <2>3. store_applied[p] \in Nat /\ sm_commit \in Nat /\ kv_applied \in Nat
    BY CoreTypes, Zenon
  <2>4. ~(store_applied[p] <= kv_applied) /\ ~(sm_commit + 1 <= kv_applied)
    <3> HIDE DEF TypeOK, CommitToSink, CommitReady
    <3> QED
      BY <1>5, <2>3
  <2>5. store_applied[p] <= store_applied[p] /\ sm_commit + 1 <= store_applied[p]
    <3> HIDE DEF TypeOK, CommitToSink, CommitReady
    <3> QED
      BY <2>3
  <2> QED
    BY <1>3, <2>1, <2>2, <2>4, <2>5, Zenon
<1>9. FlightBehind' /\ AppliedInOrder'
  BY <1>1, <1>2, <1>8, Zenon DEF SInv, FlightBehind, Behind, AppliedInOrder
<1>10. Accounted'
  BY <1>1, <1>2, Zenon DEF SInv, Accounted, Applied, InFlight, Queued
<1> QED
  BY <1>6, <1>7, <1>9, <1>10, Zenon DEF SInv

(* last_commit_index_ is not read by the invariant.                        *)
LEMMA CommitIndexSInv ==
    ASSUME TypeOK, SInv, CommitIndex
    PROVE  SInv'
<1>1. MIdx' = MIdx /\ KIdx' = KIdx /\ UNCHANGED raft_commit
  BY SameLog, Zenon DEF CommitIndex
<1>2. /\ Running' = Running
      /\ commit_pc # "idle" /\ commit_pc' # "idle"
      /\ UNCHANGED <<kv_applied, store_applied, sm_commit, mirror_worker_queue, worker, lost>>
  BY Zenon DEF CommitIndex, Running, durableVars, workerVars, historyVars
<1>3. UNCHANGED <<Applied, InFlight>>
  BY <1>2, Zenon DEF Applied, InFlight, Queued
<1> QED
  BY <1>1, <1>2, <1>3, Zenon DEF SInv, Ordered, SinkCovers, FlightBehind, Behind, AppliedInOrder,
                          Accounted

(* The entry goes from the commit thread to the end of the queue.          *)
LEMMA EnqueueSInv ==
    ASSUME TypeOK, SInv, enqueue_mirrored_request
    PROVE  SInv'
<1> DEFINE n == sm_commit + 1
<1>1. MIdx' = MIdx /\ KIdx' = KIdx /\ UNCHANGED raft_commit
  BY SameLog, Zenon DEF enqueue_mirrored_request
<1>2. /\ commit_pc # "idle" /\ commit_pc' = "idle"
      /\ sm_commit' = n
      /\ Running' = Running
      /\ UNCHANGED <<kv_applied, store_applied, worker, lost>>
  BY Zenon DEF enqueue_mirrored_request, Running, durableVars, historyVars
<1>3. Running /\ n \in MIdx /\ n \in Nat
  BY <1>2, CoreTypes, Zenon DEF SInv, Ordered
<1>4. /\ Len(mirror_worker_queue') = Len(mirror_worker_queue) + 1
      /\ \A p \in 1..Len(mirror_worker_queue) : mirror_worker_queue'[p] = mirror_worker_queue[p]
      /\ mirror_worker_queue'[Len(mirror_worker_queue) + 1] = n
      /\ mirror_worker_queue' \in Seq(Nat)
  BY <1>3, AppendIndex DEF enqueue_mirrored_request, TypeOK
<1>5. \A p \in 1..Len(mirror_worker_queue) : mirror_worker_queue[p] < n
  BY CoreTypes DEF SInv, Ordered
<1> DEFINE m == Len(mirror_worker_queue)
<1>a. \A p \in 1..Len(mirror_worker_queue') : p \in 1..m \/ p = m + 1
  BY <1>4, CoreTypes
<1> HIDE DEF n, m
<1>6. Ordered'
  <2>1. ASSUME NEW p \in 1..Len(mirror_worker_queue')
        PROVE  /\ mirror_worker_queue'[p] \in MIdx
               /\ mirror_worker_queue'[p] <= n
               /\ worker.pc # "idle" => worker.idx < mirror_worker_queue'[p]
    <3>1. CASE p \in 1..m
      <4>1. mirror_worker_queue'[p] = mirror_worker_queue[p]
        BY <3>1, <1>4, Zenon DEF m
      <4>2. /\ mirror_worker_queue[p] \in MIdx
            /\ worker.pc # "idle" => worker.idx < mirror_worker_queue[p]
        BY <3>1, Zenon DEF SInv, Ordered, m
      <4>3. mirror_worker_queue[p] < n /\ mirror_worker_queue[p] \in Nat
        BY <3>1, <1>5, CoreTypes, Zenon DEF m
      <4> QED
        BY <4>1, <4>2, <4>3, <1>3
    <3>2. CASE p = m + 1
      <4>1. mirror_worker_queue'[p] = n
        BY <3>2, <1>4, Zenon DEF m
      <4>2. worker.pc # "idle" => worker.idx < n
        BY CoreTypes DEF SInv, Ordered, n
      <4> QED
        BY <4>1, <4>2, <1>3
    <3> QED
      BY <3>1, <3>2, <1>a, Zenon
  <2>2. ASSUME NEW p \in 1..Len(mirror_worker_queue'), NEW q \in 1..Len(mirror_worker_queue'),
               p < q
        PROVE  mirror_worker_queue'[p] < mirror_worker_queue'[q]
    <3>1. p \in 1..m
      BY <2>2, <1>4, CoreTypes DEF m
    <3>2. CASE q \in 1..m
      BY <3>1, <3>2, <2>2, <1>4, CoreTypes, Zenon DEF SInv, Ordered, m
    <3>3. CASE q = m + 1
      BY <3>1, <3>3, <1>4, <1>5, Zenon DEF m
    <3> QED
      BY <3>2, <3>3, <1>a, Zenon
  <2>3. kv_applied <= raft_commit /\ n <= raft_commit
    BY <1>3, CoreTypes, Zenon DEF SInv, Ordered
  <2>4. worker.pc # "idle" => worker.idx \in MIdx /\ worker.idx <= n
    BY CoreTypes DEF SInv, Ordered, n
  <2> QED
    BY <1>1, <1>2, <1>3, <2>1, <2>2, <2>3, <2>4, Zenon DEF SInv, Ordered
<1>7. SinkCovers'
  BY <1>1, <1>2, <1>3, CoreTypes DEF SInv, SinkCovers, n
<1>8. FlightBehind'
  <2>1. \A p \in 1..Len(mirror_worker_queue') : Behind(mirror_worker_queue'[p])
    BY <1>a, <1>2, <1>4, Zenon DEF SInv, FlightBehind, n, m
  <2> QED
    BY <1>1, <1>2, <2>1, Zenon DEF SInv, FlightBehind, Behind
<1>9. AppliedInOrder'
  BY <1>1, <1>2, Zenon DEF SInv, AppliedInOrder
<1>10. Accounted'
  <2>1. Queued' = Queued \cup {n}
    <3>1. /\ DOMAIN mirror_worker_queue = 1..m
          /\ DOMAIN mirror_worker_queue' = 1..Len(mirror_worker_queue')
          /\ \A p \in 1..m : p \in 1..Len(mirror_worker_queue')
          /\ m + 1 \in 1..Len(mirror_worker_queue')
      BY <1>4 DEF TypeOK, m
    <3> QED
      BY <1>4, <1>a, <3>1, Zenon DEF Queued, m
  <2>2. InFlight' = InFlight /\ n \in InFlight
    BY <2>1, <1>2, Zenon DEF InFlight, n
  <2>3. Applied' = Applied
    BY <1>2, Zenon DEF Applied
  <2> QED
    BY <1>1, <1>2, <1>3, <2>2, <2>3, CoreTypes DEF SInv, Accounted, n
<1> QED
  BY <1>6, <1>7, <1>8, <1>9, <1>10, Zenon DEF SInv

(* The entry goes from the head of the queue to the worker.                *)
LEMMA WorkerPopSInv ==
    ASSUME TypeOK, SInv, WorkerPop
    PROVE  SInv'
<1> DEFINE x == Head(mirror_worker_queue)
<1>1. MIdx' = MIdx /\ KIdx' = KIdx /\ UNCHANGED raft_commit
  BY SameLog, Zenon DEF WorkerPop
<1>2. /\ worker.pc = "idle" /\ worker'.pc = "popped" /\ worker'.idx = x
      /\ Running' = Running
      /\ UNCHANGED <<kv_applied, store_applied, sm_commit, commit_pc, lost>>
  BY Zenon DEF WorkerPop, Running, durableVars, commitVars, historyVars
<1>3. /\ Len(mirror_worker_queue) \in Nat \ {0}
      /\ x = mirror_worker_queue[1]
      /\ Len(mirror_worker_queue') = Len(mirror_worker_queue) - 1
      /\ mirror_worker_queue' \in Seq(Nat)
      /\ \A p \in 1..Len(mirror_worker_queue') :
             mirror_worker_queue'[p] = mirror_worker_queue[p + 1]
  BY TailIndex, Zenon DEF WorkerPop, TypeOK
<1>4. \A p \in 1..Len(mirror_worker_queue') :
         p + 1 \in 1..Len(mirror_worker_queue) /\ 1 < p + 1
  BY <1>3
<1>5. 1 \in 1..Len(mirror_worker_queue)
  BY <1>3
<1> HIDE DEF x
<1>6. Running
  BY <1>5, <1>3 DEF SInv, Ordered
<1>7. Ordered'
  <2>1. x \in MIdx /\ x <= sm_commit
    BY <1>3, <1>5, Zenon DEF SInv, Ordered
  <2>2. ASSUME NEW p \in 1..Len(mirror_worker_queue')
        PROVE  /\ mirror_worker_queue'[p] \in MIdx
               /\ mirror_worker_queue'[p] <= sm_commit
               /\ x < mirror_worker_queue'[p]
    BY <1>3, <1>4, <1>5, Zenon DEF SInv, Ordered
  <2>3. ASSUME NEW p \in 1..Len(mirror_worker_queue'), NEW q \in 1..Len(mirror_worker_queue'),
               p < q
        PROVE  mirror_worker_queue'[p] < mirror_worker_queue'[q]
    <3>1. p + 1 < q + 1
      BY <2>3, <1>3
    <3> QED
      BY <3>1, <1>3, <1>4, Zenon DEF SInv, Ordered
  <2> QED
    BY <1>1, <1>2, <1>6, <2>1, <2>2, <2>3, Zenon DEF SInv, Ordered
<1>8. SinkCovers' /\ AppliedInOrder'
  BY <1>1, <1>2, Zenon DEF SInv, SinkCovers, AppliedInOrder
<1>9. FlightBehind'
  <2>1. \A p \in 1..Len(mirror_worker_queue') : Behind(mirror_worker_queue'[p])
    BY <1>3, <1>4, Zenon DEF SInv, FlightBehind
  <2>2. Behind(x)
    BY <1>3, <1>5, Zenon DEF SInv, FlightBehind
  <2> QED
    BY <1>1, <1>2, <2>1, <2>2, Zenon DEF SInv, FlightBehind, Behind
<1>10. Accounted'
  <2>1. /\ DOMAIN mirror_worker_queue = 1..Len(mirror_worker_queue)
        /\ DOMAIN mirror_worker_queue' = 1..Len(mirror_worker_queue')
    BY <1>3 DEF TypeOK
  <2>2. \A p \in 1..Len(mirror_worker_queue) :
           p = 1 \/ (p - 1 \in 1..Len(mirror_worker_queue') /\ (p - 1) + 1 = p)
    BY <1>3
  <2>3. Queued \subseteq Queued' \cup {x}
    <3> SUFFICES ASSUME NEW p \in 1..Len(mirror_worker_queue)
                 PROVE  mirror_worker_queue[p] \in Queued' \cup {x}
      BY <2>1, Zenon DEF Queued
    <3>1. CASE p = 1
      BY <3>1, <1>3, Zenon
    <3>2. CASE p - 1 \in 1..Len(mirror_worker_queue') /\ (p - 1) + 1 = p
      <4>1. mirror_worker_queue'[p - 1] = mirror_worker_queue[p]
        BY <3>2, <1>3, Zenon
      <4> QED
        BY <3>2, <4>1, <2>1, Zenon DEF Queued
    <3> QED
      BY <3>1, <3>2, <2>2, Zenon
  <2>4. InFlight \subseteq InFlight'
    BY <2>3, <1>2, Zenon DEF InFlight
  <2>5. Applied' = Applied
    BY <1>2, Zenon DEF Applied
  <2> QED
    BY <1>1, <1>2, <1>6, <2>4, <2>5, Zenon DEF SInv, Accounted
<1> QED
  BY <1>7, <1>8, <1>9, <1>10, Zenon DEF SInv

(* The entry goes from the worker to the product state.                    *)
LEMMA ApplySInv ==
    ASSUME TypeOK, SInv, apply_mirrored_request
    PROVE  SInv'
<1> DEFINE x == worker.idx
           m == Len(store_applied)
<1>1. MIdx' = MIdx /\ KIdx' = KIdx /\ UNCHANGED raft_commit
  BY SameLog, Zenon DEF apply_mirrored_request
<1>2. /\ worker.pc = "popped" /\ worker'.pc = "applied" /\ worker'.idx = x
      /\ Running' = Running
      /\ UNCHANGED <<kv_applied, sm_commit, commit_pc, mirror_worker_queue, lost>>
  BY Zenon DEF apply_mirrored_request, Running, commitVars, historyVars, TypeOK
<1>3. Running /\ x \in MIdx /\ x <= sm_commit /\ x \in Nat
  BY <1>2, CoreTypes, Zenon DEF SInv, Ordered
<1>4. /\ Len(store_applied') = m + 1
      /\ store_applied' \in Seq(Nat)
      /\ \A p \in 1..m : store_applied'[p] = store_applied[p]
      /\ store_applied'[m + 1] = x
  BY <1>3, AppendIndex DEF apply_mirrored_request, TypeOK
<1>5. \A p \in 1..Len(store_applied') : p \in 1..m \/ p = m + 1
  BY <1>4, CoreTypes
<1> HIDE DEF x, m
<1>6. Ordered'
  <2>1. \A p \in 1..Len(store_applied') : store_applied'[p] \in MIdx
    BY <1>3, <1>4, <1>5, Zenon DEF SInv, Ordered, m
  <2> QED
    BY <1>1, <1>2, <1>3, <2>1, Zenon DEF SInv, Ordered, x
<1>7. SinkCovers'
  <2>1. \A p \in 1..Len(store_applied') : \A i \in MIdx \ KIdx :
            i <= store_applied'[p] => i <= kv_applied
    <3>1. \A i \in MIdx \ KIdx : i <= x => i <= sm_commit
      BY <1>3, CoreTypes
    <3>2. \A i \in MIdx \ KIdx : i <= x => i <= kv_applied
      BY <1>3, <3>1, Zenon DEF SInv, SinkCovers
    <3> QED
      BY <1>4, <1>5, <3>2, Zenon DEF SInv, SinkCovers, m
  <2> QED
    BY <1>1, <1>2, <2>1, Zenon DEF SInv, SinkCovers
<1>8. FlightBehind'
  <2>1. ASSUME NEW y \in Nat, Behind(y), x < y
        PROVE  Behind(y)'
    BY <1>1, <1>3, <1>4, <1>5, <2>1 DEF Behind, m
  <2>2. \A p \in 1..Len(mirror_worker_queue) : Behind(mirror_worker_queue[p])'
    BY <1>2, <2>1, CoreTypes, Zenon DEF SInv, FlightBehind, Ordered, x
  <2>3. commit_pc # "idle" => Behind(sm_commit + 1)'
    BY <1>2, <1>3, <2>1, CoreTypes DEF SInv, FlightBehind
  <2> QED
    BY <1>2, <2>2, <2>3, Zenon DEF FlightBehind
<1>9. AppliedInOrder'
  <2> SUFFICES ASSUME NEW p \in 1..Len(store_applied'), NEW q \in 1..Len(store_applied'),
                      p < q, store_applied'[p] >= store_applied'[q]
               PROVE  store_applied'[p] \in KIdx /\ store_applied'[q] \in KIdx
    BY <1>1, Zenon DEF AppliedInOrder
  <2>1. p \in 1..m
    BY <1>4, CoreTypes DEF m
  <2>2. CASE q \in 1..m
    BY <2>1, <2>2, <1>4, Zenon DEF SInv, AppliedInOrder, m
  <2>3. CASE q = m + 1
    BY <2>1, <2>3, <1>2, <1>4, Zenon DEF SInv, FlightBehind, Behind, m, x
  <2> QED
    BY <2>2, <2>3, <1>5, Zenon
<1>10. Accounted'
  <2>1. /\ DOMAIN store_applied = 1..m
        /\ DOMAIN store_applied' = 1..Len(store_applied')
        /\ \A p \in 1..m : p \in 1..Len(store_applied')
        /\ m + 1 \in 1..Len(store_applied')
    BY <1>4 DEF TypeOK, m
  <2>2. Applied' = Applied \cup {x}
    BY <1>4, <1>5, <2>1, Zenon DEF Applied
  <2>3. InFlight \subseteq InFlight' \cup {x}
    BY <1>2, Zenon DEF InFlight, Queued, x
  <2> QED
    BY <1>1, <1>2, <1>3, <2>2, <2>3, Zenon DEF SInv, Accounted
<1> QED
  BY <1>6, <1>7, <1>8, <1>9, <1>10, Zenon DEF SInv

(* The live index moves; the entry is applied already.                     *)
LEMMA AdvanceSInv ==
    ASSUME TypeOK, SInv, advance_live_product_state_applied_index
    PROVE  SInv'
<1>1. MIdx' = MIdx /\ KIdx' = KIdx /\ UNCHANGED raft_commit
  BY SameLog, Zenon DEF advance_live_product_state_applied_index
<1>2. /\ Running' = Running
      /\ worker.pc = "applied" /\ worker'.pc = "advanced" /\ worker'.idx = worker.idx
      /\ UNCHANGED <<kv_applied, store_applied, sm_commit, commit_pc, mirror_worker_queue, lost>>
  BY Zenon DEF advance_live_product_state_applied_index, Running, durableVars, commitVars,
         historyVars, TypeOK
<1>3. UNCHANGED <<Applied, InFlight>>
  BY <1>2, Zenon DEF Applied, InFlight, Queued
<1> QED
  BY <1>1, <1>2, <1>3, Zenon DEF SInv, Ordered, SinkCovers, FlightBehind, Behind, AppliedInOrder,
                          Accounted

(* The worker becomes idle.                                                *)
LEMMA StoreResultSInv ==
    ASSUME TypeOK, SInv, store_mirrored_result
    PROVE  SInv'
<1>1. MIdx' = MIdx /\ KIdx' = KIdx /\ UNCHANGED raft_commit
  BY SameLog, Zenon DEF store_mirrored_result
<1>2. /\ Running' = Running
      /\ worker.pc = "advanced" /\ worker'.pc = "idle"
      /\ UNCHANGED <<kv_applied, store_applied, sm_commit, commit_pc, mirror_worker_queue, lost>>
  BY Zenon DEF store_mirrored_result, Running, durableVars, commitVars, historyVars
<1>3. UNCHANGED <<Applied, InFlight>>
  BY <1>2, Zenon DEF Applied, InFlight, Queued
<1> QED
  BY <1>1, <1>2, <1>3, Zenon DEF SInv, Ordered, SinkCovers, FlightBehind, Behind, AppliedInOrder,
                          Accounted

-----------------------------------------------------------------------------
IInv == TypeOK /\ InLog /\ IndicesCommitted /\ SInv

(* Steps that touch neither the log nor the variables of the invariant.    *)
LEMMA QuietIInv ==
    ASSUME TypeOK, InLog, SInv,
           UNCHANGED coreVars, UNCHANGED raftVars, Running' = Running
    PROVE  InLog' /\ SInv'
BY SameLog, FrameSInv, Zenon DEF InLog, raftVars

(* One step per action; NextTypeOK has shown the types.                    *)
LEMMA NextIInv == IInv /\ [Next]_vars => InLog' /\ IndicesCommitted' /\ SInv'
<1> SUFFICES ASSUME IInv, [Next]_vars PROVE InLog' /\ IndicesCommitted' /\ SInv'
  BY Zenon
<1>0. /\ TypeOK /\ InLog /\ IndicesCommitted /\ SInv
      /\ kv_applied \in Nat /\ kv_applied <= raft_commit /\ raft_commit \in Nat
      /\ live \in Nat /\ last_commit_index \in Nat
  BY Zenon DEF IInv, TypeOK, SInv, Ordered
<1> USE <1>0
<1>a. ASSUME UNCHANGED raftVars, live' <= raft_commit, last_commit_index' <= raft_commit
      PROVE  InLog' /\ IndicesCommitted'
  BY <1>a, Zenon DEF InLog, IndicesCommitted, raftVars
<1>b. ASSUME UNCHANGED coreVars, UNCHANGED raftVars, Running' = Running,
             UNCHANGED <<live, last_commit_index>>
      PROVE  InLog' /\ IndicesCommitted' /\ SInv'
  BY <1>b, <1>a, QuietIInv, Zenon DEF IndicesCommitted
<1> USE DEF durableVars, commitVars, workerVars, historyVars
<1>1. CASE OpenSink
  <2>1. UNCHANGED coreVars /\ UNCHANGED raftVars /\ Running' = Running
    BY <1>1 DEF OpenSink, coreVars, Running
  <2>2. live' <= raft_commit /\ last_commit_index' <= raft_commit
    BY <1>1, Zenon DEF OpenSink, IndicesCommitted
  <2> QED
    BY <2>1, <2>2, <1>a, QuietIInv, Zenon
<1>2. CASE initialize_raft_server
  <2>1. UNCHANGED raftVars /\ live' <= raft_commit /\ last_commit_index' <= raft_commit
    BY <1>2, Zenon DEF initialize_raft_server, IndicesCommitted
  <2> QED
    BY <1>2, <2>1, <1>a, StartSInv, Zenon
<1>3. CASE Align
  <2>1. UNCHANGED coreVars /\ UNCHANGED raftVars /\ Running' = Running
    BY <1>3 DEF Align, coreVars, Running
  <2>2. UNCHANGED last_commit_index /\ live' \in {live, Greater(live, last_commit_index)}
    BY <1>3, Zenon DEF Align
  <2>3. live' <= raft_commit /\ last_commit_index' <= raft_commit
    BY <2>2, Zenon DEF IndicesCommitted, Greater
  <2> QED
    BY <2>1, <2>3, <1>a, QuietIInv, Zenon
<1>4. CASE GraceElapses
  BY <1>4, <1>b, Zenon DEF GraceElapses, coreVars, Running
<1>5. CASE Probe
  BY <1>5, <1>b, Zenon DEF Probe, coreVars, Running
<1>6. CASE Crash
  <2>1. UNCHANGED raftVars /\ live' <= raft_commit /\ last_commit_index' <= raft_commit
    BY <1>6 DEF Crash
  <2> QED
    BY <1>6, <2>1, <1>a, CrashSInv, Zenon
<1>c. ASSUME NEW e \in [kind : AllKinds, self : BOOLEAN, token : Nat],
             raft_log' = Append(raft_log, e), UNCHANGED raft_commit,
             UNCHANGED coreVars, Running' = Running, UNCHANGED <<live, last_commit_index>>
      PROVE  InLog' /\ IndicesCommitted' /\ SInv'
  BY <1>c, LongerLog, FrameSInv, Zenon DEF IndicesCommitted
<1>7. ASSUME NEW kind \in Kinds, NEW token \in 0..1, OtherAppend(kind, token)
      PROVE  InLog' /\ IndicesCommitted' /\ SInv'
  <2>1. [kind |-> kind, self |-> FALSE, token |-> token]
            \in [kind : AllKinds, self : BOOLEAN, token : Nat]
    BY PipelineAssumption
  <2> QED
    BY <1>7, <2>1, <1>c, Zenon DEF OtherAppend, coreVars, Running
<1>8. CASE RaftCommit
  <2>1. /\ raft_commit' = raft_commit + 1 /\ raft_commit < Len(raft_log)
        /\ UNCHANGED <<raft_log, live, last_commit_index>>
    BY <1>8, Zenon DEF RaftCommit
  <2>2. InLog' /\ IndicesCommitted'
    BY <2>1 DEF InLog, IndicesCommitted, TypeOK
  <2> QED
    BY <1>8, <2>2, RaftCommitSInv, Zenon
<1>9. CASE CommitSkip
  <2>1. UNCHANGED raftVars /\ live' <= raft_commit /\ last_commit_index' <= raft_commit
    <3>1. /\ UNCHANGED raftVars /\ live' = live /\ sm_commit < raft_commit
          /\ last_commit_index' = last_commit_index \/ last_commit_index' = sm_commit + 1
      BY <1>9, Zenon DEF CommitSkip, CommitReady
    <3>2. sm_commit \in Nat
      BY Zenon DEF TypeOK
    <3> QED
      BY <3>1, <3>2 DEF IndicesCommitted
  <2> QED
    BY <1>9, <2>1, <1>a, CommitSkipSInv, Zenon
<1>10. CASE CommitToSink
  BY <1>10, <1>a, CommitToSinkSInv, Zenon DEF CommitToSink, IndicesCommitted
<1>11. CASE CommitIndex
  <2>1. UNCHANGED raftVars /\ live' <= raft_commit /\ last_commit_index' <= raft_commit
    BY <1>11, CoreTypes, Zenon DEF CommitIndex, IndicesCommitted, SInv, Ordered
  <2> QED
    BY <1>11, <2>1, <1>a, CommitIndexSInv, Zenon
<1>12. CASE enqueue_mirrored_request
  BY <1>12, <1>a, EnqueueSInv, Zenon DEF enqueue_mirrored_request, IndicesCommitted
<1>13. CASE WorkerPop
  BY <1>13, <1>a, WorkerPopSInv, Zenon DEF WorkerPop, IndicesCommitted
<1>14. CASE apply_mirrored_request
  BY <1>14, <1>a, ApplySInv, Zenon DEF apply_mirrored_request, IndicesCommitted
<1>15. CASE advance_live_product_state_applied_index
  <2>1. worker.idx <= raft_commit /\ worker.idx \in Nat
    BY <1>15, CoreTypes, Zenon DEF advance_live_product_state_applied_index, SInv, Ordered
  <2>2. UNCHANGED raftVars /\ live' <= raft_commit /\ last_commit_index' <= raft_commit
    BY <1>15, <2>1, Zenon DEF advance_live_product_state_applied_index, IndicesCommitted, Greater
  <2> QED
    BY <1>15, <2>2, <1>a, AdvanceSInv, Zenon
<1>16. CASE store_mirrored_result
  BY <1>16, <1>a, StoreResultSInv, Zenon DEF store_mirrored_result, IndicesCommitted
<1>17. ASSUME NEW c \in Clients, Writing(c)
       PROVE  InLog' /\ IndicesCommitted' /\ SInv'
  <2>1. ASSUME NEW kind \in Kinds \ {"bad", "conf"}, Submit(c, kind)
        PROVE  InLog' /\ IndicesCommitted' /\ SInv'
    <3>1. client[c].token \in Nat
      BY Zenon DEF TypeOK, ClientState
    <3>2. [kind |-> kind, self |-> TRUE, token |-> client[c].token]
              \in [kind : AllKinds, self : BOOLEAN, token : Nat]
      BY <3>1, PipelineAssumption, Zenon
    <3> QED
      BY <2>1, <3>2, <1>c, Zenon DEF Submit, Unmoved, coreVars, Running
  <2>2. ASSUME UNCHANGED <<Unmoved, raft_log>>
        PROVE  InLog' /\ IndicesCommitted' /\ SInv'
    BY <2>2, <1>b, Zenon DEF Unmoved, coreVars, raftVars, Running
  <2>3. \/ UNCHANGED <<Unmoved, raft_log>>
        \/ \E kind \in Kinds \ {"bad", "conf"} : Submit(c, kind)
    BY <1>17, Zenon DEF Writing, allocate_response_token, AppendNotLeader, AppendFails,
                 AppendAccepted, wait_for_mirrored_result, ResultTimeout
  <2> QED
    BY <2>1, <2>2, <2>3, Zenon
<1>18. ASSUME NEW r \in Readers, Reading(r)
       PROVE  InLog' /\ IndicesCommitted' /\ SInv'
  BY <1>18, <1>b, Zenon DEF Reading, ReadBegins, wait_for_live_product_state, ReadTimeout,
                     coreVars, Running
<1>19. CASE UNCHANGED vars
  BY <1>19, <1>b, Zenon DEF vars, coreVars, Running
<1> QED
  BY <1>1, <1>2, <1>3, <1>4, <1>5, <1>6, <1>7, <1>8, <1>9, <1>10, <1>11, <1>12, <1>13,
     <1>14, <1>15, <1>16, <1>17, <1>18, <1>19, Zenon DEF Next, Startup, Committing, Working

(* IInv holds of every reachable state.                                    *)
LEMMA Inductive == Spec => []IInv
<1>1. Init => IInv
  BY InitTypeOK, InitSInv, Zenon DEF IInv
<1>2. IInv /\ [Next]_vars => IInv'
  <2> SUFFICES ASSUME IInv, [Next]_vars PROVE IInv'
    BY Zenon
  <2>1. WorkerInLog
    BY CoreTypes DEF IInv, TypeOK, InLog, SInv, Ordered, WorkerInLog
  <2> QED
    BY <2>1, NextTypeOK, NextIInv, Zenon DEF IInv
<1> QED
  BY <1>1, <1>2, PTL DEF Spec

(* Type correctness of the write path.                                     *)
THEOREM PipelineTypeOK == Spec => []TypeOK
<1>1. IInv => TypeOK
  BY Zenon DEF IInv
<1> QED
  BY <1>1, Inductive, PTL

(* Nothing in the pipeline runs ahead of the cluster's commit index, for   *)
(* any number of requests, crashes and any interleaving: the KV sink, the  *)
(* state machine's commit index, the live index, the queue, the worker and *)
(* the product state.                                                      *)
THEOREM PipelineOnlyCommitted == Spec => []OnlyCommitted
<1>1. IInv => OnlyCommitted
  <2> SUFFICES ASSUME IInv PROVE OnlyCommitted
    BY Zenon
  <2>0. TypeOK /\ SInv /\ InLog /\ IndicesCommitted /\ MIdx \subseteq 1..raft_commit
    BY IndexSets, Zenon DEF IInv
  <2>1. Applied \subseteq MIdx
    BY <2>0 DEF TypeOK, SInv, Ordered, Applied
  <2>2. InFlight \subseteq MIdx
    <3>1. Queued \subseteq MIdx
      BY <2>0 DEF TypeOK, SInv, Ordered, Queued
    <3> QED
      BY <2>0, <3>1, Zenon DEF SInv, Ordered, InFlight
  <2>3. lost \subseteq MIdx
    BY <2>0, Zenon DEF SInv, Ordered
  <2> QED
    BY <2>0, <2>1, <2>2, <2>3, Zenon DEF SInv, Ordered, InLog, IndicesCommitted, OnlyCommitted
<1> QED
  BY <1>1, Inductive, PTL

(* The product handlers run the committed entries in log order and once,   *)
(* over all restarts, but for entries the KV sink had refused.             *)
THEOREM PipelineReappliedOnlyRefused == Spec => []ReappliedOnlyRefused
<1>1. IInv => ReappliedOnlyRefused
  <2> SUFFICES ASSUME IInv PROVE ReappliedOnlyRefused
    BY Zenon
  <2>1. DOMAIN store_applied = 1..Len(store_applied)
    BY DEF IInv, TypeOK
  <2> QED
    BY <2>1, Zenon DEF IInv, SInv, AppliedInOrder, ReappliedOnlyRefused, KIdx
<1> QED
  BY <1>1, Inductive, PTL

(* A committed entry the state machine has passed is in the product state, *)
(* on its way there, or was taken by a stop of the process: no             *)
(* interleaving of the threads loses one in another way.                   *)
THEOREM PipelineLossOnlyAtCrash == Spec => []LossOnlyAtCrash
<1>1. IInv => LossOnlyAtCrash
  <2> SUFFICES ASSUME IInv, Running,
                      NEW i \in 1..sm_commit, Mirrored(i)
               PROVE  i \in Applied \cup InFlight \cup lost
    BY Zenon DEF LossOnlyAtCrash, Running
  <2>1. i \in MIdx /\ i <= sm_commit
    BY DEF IInv, TypeOK, SInv, Ordered, MIdx
  <2> QED
    BY <2>1, Zenon DEF IInv, SInv, Accounted
<1> QED
  BY <1>1, Inductive, PTL
-----------------------------------------------------------------------------
(* As long as the process has not stopped: what the live index, the strong *)
(* reads and the answers of the write handlers are worth, and that the     *)
(* write path implements ProductLog.                                       *)

(* What an Append adds.                                                    *)
LEMMA AppendIs ==
    ASSUME NEW S, NEW q \in Seq(S), NEW e \in S
    PROVE  /\ Append(q, e) \in Seq(S) /\ Len(Append(q, e)) = Len(q) + 1
           /\ \A i \in 1..Len(q) : Append(q, e)[i] = q[i]
           /\ Append(q, e)[Len(q) + 1] = e
OBVIOUS

(* Sequences of equal length and equal elements are equal.                 *)
LEMMA SameSeq ==
    ASSUME NEW S, NEW q \in Seq(S), NEW r \in Seq(S), Len(q) = Len(r),
           \A i \in 1..Len(q) : q[i] = r[i]
    PROVE  q = r
<1>1. /\ q = [i \in 1..Len(q) |-> q[i]]
      /\ r = [i \in 1..Len(q) |-> r[i]]
  OBVIOUS
<1> QED BY <1>1, Zenon

(* What is applied and what is on its way are strictly apart, and nothing  *)
(* is run a second time.                                                   *)
Strict ==
    /\ lost = {}
    /\ ~Running => store_applied = <<>> /\ kv_applied = 0
    /\ \A p, q \in 1..Len(store_applied) : p < q => store_applied[p] < store_applied[q]
    /\ \A p \in 1..Len(store_applied) :
           /\ store_applied[p] <= sm_commit
           /\ worker.pc = "popped" => store_applied[p] < worker.idx
           /\ \A q \in 1..Len(mirror_worker_queue) : store_applied[p] < mirror_worker_queue[q]
    /\ worker.pc \in {"applied", "advanced"} => worker.idx \in Applied

Active(c) == client[c].pc \in {"append", "submitted", "result"}

Sent(c) == client[c].pc \in {"submitted", "result"}

(* A response token names at most one request in flight and at most one    *)
(* entry of the log that came in on this node.                             *)
Tokens ==
    /\ next_response_token >= 1
    /\ \A c \in Clients : client[c].token < next_response_token
    /\ \A i \in 1..Len(raft_log) : raft_log[i].self => raft_log[i].token < next_response_token
    /\ \A i, j \in 1..Len(raft_log) :
           raft_log[i].self /\ raft_log[j].self /\ raft_log[i].token = raft_log[j].token => i = j
    /\ \A c, d \in Clients :
           Active(c) /\ Active(d) /\ client[c].token = client[d].token => c = d
    /\ \A c \in Clients : client[c].pc = "append" =>
           \A i \in 1..Len(raft_log) : raft_log[i].self => raft_log[i].token # client[c].token
    /\ \A c \in Clients : Sent(c) =>
           \E i \in 1..Len(raft_log) :
               /\ i = client[c].own[Len(client[c].own)]
               /\ raft_log[i].self
               /\ raft_log[i].token = client[c].token

(* An answer lies under the token of the entry it answers, and that entry  *)
(* has been run.                                                           *)
Results ==
    \A t \in DOMAIN mirrored_results :
        \E i \in 1..Len(raft_log) :
            /\ i = mirrored_results[t]
            /\ raft_log[i].self
            /\ raft_log[i].token = t
            /\ i \in Applied

(* The chunks of a request and the answers it has: q is a write handler    *)
(* that makes n chunks, ran the entries that were run, len the length of   *)
(* the log.                                                                *)
Chunked(q, n, ran, len) ==
    /\ \A k \in 1..Len(q.got) : k <= Len(q.own) /\ q.got[k] = q.own[k] /\ q.got[k] \in ran
    /\ q.pc \in {"idle", "append"} => Len(q.own) = Len(q.got) /\ Len(q.own) < n
    /\ q.pc \in {"submitted", "result"} => Len(q.own) = Len(q.got) + 1 /\ Len(q.own) <= n
    /\ q.pc = "done" => Len(q.own) = n /\ Len(q.got) = n
    /\ \A k \in 1..Len(q.own) : q.own[k] \in 1..len
    /\ \A k, l \in 1..Len(q.own) : k < l => q.own[k] < q.own[l]

AllChunked == \A c \in Clients : Chunked(client[c], Chunks[c], Applied, Len(raft_log))

(* A node without peers has only configurations in its log until it serves *)
(* requests.                                                               *)
AloneAtStart ==
    ~Peers /\ boot # "up" =>
        /\ last_commit_index = 0 /\ kv_applied = 0 /\ live = 0
        /\ \A i \in 1..Len(raft_log) : raft_log[i].kind = "conf"
        /\ \A c \in Clients : client[c].pc = "idle"

FirstRunInv ==
    crashes = 0 =>
        /\ Strict /\ Tokens /\ Results /\ AllChunked /\ AloneAtStart
        /\ ~Peers => LiveIndexHonest /\ StrongReadSees

(* What a stop took is below the KV sink's index, and so below the live    *)
(* index of the next run.                                                  *)
LostBelowLive == \A i \in lost : i <= kv_applied /\ (boot # "down" => i <= live)

(* A strong read waits for a committed index.                              *)
TargetsCommitted == \A r \in Readers : reader[r].target <= raft_commit
-----------------------------------------------------------------------------
(* Which steps touch which part of the state.                              *)

(* The queue, the worker, the two durable stores and the commit thread.    *)
LEMMA CoreStep ==
    ASSUME [Next]_vars
    PROVE  \/ UNCHANGED coreVars /\ Running' = Running
           \/ initialize_raft_server \/ Crash
           \/ Committing
           \/ Working
<1> USE DEF durableVars, commitVars, workerVars, historyVars, coreVars, Running
<1>1. CASE OpenSink \/ Align \/ GraceElapses \/ Probe
  BY <1>1 DEF OpenSink, Align, GraceElapses, Probe
<1>2. CASE RaftCommit \/ \E kind \in Kinds, token \in 0..1 : OtherAppend(kind, token)
  BY <1>2, Zenon DEF RaftCommit, OtherAppend
<1>3. ASSUME NEW c \in Clients, Writing(c)
      PROVE  UNCHANGED coreVars /\ Running' = Running
  <2>1. UNCHANGED Unmoved
    BY <1>3, Zenon DEF Writing, allocate_response_token, AppendNotLeader, Submit, AppendFails,
                AppendAccepted, wait_for_mirrored_result, ResultTimeout
  <2> QED
    BY <2>1, Zenon DEF Unmoved
<1>4. ASSUME NEW r \in Readers, Reading(r)
      PROVE  UNCHANGED coreVars /\ Running' = Running
  BY <1>4, Zenon DEF Reading, ReadBegins, wait_for_live_product_state, ReadTimeout
<1>5. CASE UNCHANGED vars
  BY <1>5, Zenon DEF vars
<1> QED
  BY <1>1, <1>2, <1>3, <1>4, <1>5, Zenon DEF Next, Startup

(* The requests, the answers and the log.                                  *)
requestVars == <<raft_log, mirrored_results, next_response_token, client>>

LEMMA RequestStep ==
    ASSUME [Next]_vars
    PROVE  \/ UNCHANGED requestVars
           \/ Crash
           \/ \E kind \in Kinds, token \in 0..1 : OtherAppend(kind, token)
           \/ store_mirrored_result
           \/ \E c \in Clients : Writing(c)
<1> USE DEF raftVars, workerVars, requestVars
<1>1. CASE Startup \/ GraceElapses \/ Probe \/ RaftCommit
  BY <1>1, Zenon DEF Startup, OpenSink, initialize_raft_server, Align, GraceElapses, Probe, RaftCommit
<1>2. CASE Committing
  BY <1>2, Zenon DEF Committing, CommitSkip, CommitToSink, CommitIndex, enqueue_mirrored_request
<1>3. CASE WorkerPop \/ apply_mirrored_request \/ advance_live_product_state_applied_index
  BY <1>3, Zenon DEF WorkerPop, apply_mirrored_request, advance_live_product_state_applied_index
<1>4. ASSUME NEW r \in Readers, Reading(r) PROVE UNCHANGED requestVars
  BY <1>4, Zenon DEF Reading, ReadBegins, wait_for_live_product_state, ReadTimeout
<1>5. CASE UNCHANGED vars
  BY <1>5, Zenon DEF vars
<1> QED
  BY <1>1, <1>2, <1>3, <1>4, <1>5, Zenon DEF Next, Working

(* The product state only grows.                                           *)
LEMMA AppliedGrows ==
    ASSUME TypeOK, [Next]_vars
    PROVE  Applied \subseteq Applied'
<1>1. CASE apply_mirrored_request
  <2>1. /\ Len(store_applied') = Len(store_applied) + 1
        /\ store_applied' \in Seq(Nat)
        /\ \A p \in 1..Len(store_applied) : store_applied'[p] = store_applied[p]
    BY <1>1, AppendIndex DEF apply_mirrored_request, TypeOK
  <2>2. /\ DOMAIN store_applied = 1..Len(store_applied)
        /\ DOMAIN store_applied' = 1..Len(store_applied')
        /\ \A p \in 1..Len(store_applied) : p \in 1..Len(store_applied')
    BY <2>1 DEF TypeOK
  <2> QED
    BY <2>1, <2>2, Zenon DEF Applied
<1>2. CASE UNCHANGED store_applied
  BY <1>2, Zenon DEF Applied
<1>3. apply_mirrored_request \/ UNCHANGED store_applied
  <2> USE DEF durableVars, coreVars
  <2>1. CASE initialize_raft_server \/ Crash
    BY <2>1, Zenon DEF initialize_raft_server, Crash
  <2>2. CASE Committing
    BY <2>2, Zenon DEF Committing, CommitSkip, CommitToSink, CommitIndex, enqueue_mirrored_request
  <2>3. CASE Working
    BY <2>3, Zenon DEF Working, WorkerPop, advance_live_product_state_applied_index,
                store_mirrored_result
  <2> QED
    BY <2>1, <2>2, <2>3, CoreStep, Zenon
<1> QED
  BY <1>1, <1>2, <1>3, Zenon

(* The log only grows.                                                     *)
LEMMA LogGrows ==
    ASSUME TypeOK, [Next]_vars
    PROVE  /\ Len(raft_log) \in Nat /\ Len(raft_log') \in Nat
           /\ Len(raft_log) <= Len(raft_log')
           /\ \A i \in 1..Len(raft_log) : i \in 1..Len(raft_log') /\ raft_log'[i] = raft_log[i]
<1>1. ASSUME NEW e, raft_log' = Append(raft_log, e),
             e \in [kind : AllKinds, self : BOOLEAN, token : Nat]
      PROVE  /\ Len(raft_log') = Len(raft_log) + 1
             /\ \A i \in 1..Len(raft_log) : raft_log'[i] = raft_log[i]
  BY <1>1 DEF TypeOK
<1>2. Len(raft_log) \in Nat
  BY DEF TypeOK
<1>3. CASE UNCHANGED raft_log
  BY <1>2, <1>3
<1>4. ASSUME NEW kind \in Kinds, NEW token \in 0..1, OtherAppend(kind, token)
      PROVE  \E e \in [kind : AllKinds, self : BOOLEAN, token : Nat] :
                 raft_log' = Append(raft_log, e)
  <2>1. [kind |-> kind, self |-> FALSE, token |-> token]
            \in [kind : AllKinds, self : BOOLEAN, token : Nat]
    BY PipelineAssumption
  <2> QED
    BY <1>4, <2>1, Zenon DEF OtherAppend
<1>5. ASSUME NEW c \in Clients, Writing(c)
      PROVE  \/ UNCHANGED raft_log
             \/ \E e \in [kind : AllKinds, self : BOOLEAN, token : Nat] :
                    raft_log' = Append(raft_log, e)
  <2>1. client[c].token \in Nat
    BY Zenon DEF TypeOK, ClientState
  <2>2. ASSUME NEW kind \in Kinds \ {"bad", "conf"}, Submit(c, kind)
        PROVE  \E e \in [kind : AllKinds, self : BOOLEAN, token : Nat] :
                   raft_log' = Append(raft_log, e)
    BY <2>1, <2>2, PipelineAssumption, Zenon DEF Submit
  <2> QED
    BY <1>5, <2>2, Zenon DEF Writing, allocate_response_token, AppendNotLeader, AppendFails,
                     AppendAccepted, wait_for_mirrored_result, ResultTimeout
<1>6. Crash \/ store_mirrored_result => UNCHANGED raft_log
  BY Zenon DEF Crash, store_mirrored_result, raftVars
<1> QED
  <2>1. \/ UNCHANGED raft_log
        \/ \E e \in [kind : AllKinds, self : BOOLEAN, token : Nat] :
               raft_log' = Append(raft_log, e)
    BY <1>4, <1>5, <1>6, RequestStep, Zenon DEF requestVars
  <2>2. CASE \E e \in [kind : AllKinds, self : BOOLEAN, token : Nat] :
                 raft_log' = Append(raft_log, e)
    <3>1. /\ Len(raft_log') = Len(raft_log) + 1
          /\ \A i \in 1..Len(raft_log) : raft_log'[i] = raft_log[i]
      BY <1>1, <2>2, Zenon
    <3> QED
      BY <1>2, <3>1
  <2> QED
    BY <1>3, <2>1, <2>2, Zenon
-----------------------------------------------------------------------------
(* The queue, the worker and the product state while nothing has stopped.  *)

LEMMA StrictStep ==
    ASSUME IInv, Strict, [Next]_vars, ~Crash
    PROVE  Strict'
<1>0. /\ TypeOK /\ SInv /\ Ordered
      /\ Applied \subseteq Applied'
  BY AppliedGrows, Zenon DEF IInv, SInv
<1> USE <1>0
<1>1. CASE UNCHANGED coreVars /\ Running' = Running
  BY <1>1, Zenon DEF Strict, coreVars
<1>2. CASE initialize_raft_server
  <2>1. /\ Len(store_applied') = 0 /\ worker'.pc = "idle" /\ lost' = lost /\ Running'
    BY <1>2, Zenon DEF initialize_raft_server, Running, Strict, Ordered, durableVars, workerVars,
                historyVars
  <2> QED
    BY <2>1 DEF Strict
<1>3. CASE CommitSkip \/ CommitToSink \/ CommitIndex
  <2>1. /\ UNCHANGED <<store_applied, worker, mirror_worker_queue, lost>>
        /\ sm_commit <= sm_commit'
        /\ Running /\ Running'
    BY <1>3, CoreTypes DEF CommitSkip, CommitToSink, CommitIndex, CommitReady, Running, Ordered,
                durableVars, workerVars, historyVars
  <2>2. sm_commit' \in Nat
    BY <1>3, CoreTypes DEF CommitSkip, CommitToSink, CommitIndex
  <2> QED
    BY <2>1, <2>2, CoreTypes DEF Strict
<1>4. CASE enqueue_mirrored_request
  <2> DEFINE m == Len(mirror_worker_queue)
  <2>1. /\ UNCHANGED <<store_applied, worker, lost>>
        /\ sm_commit' = sm_commit + 1
        /\ Running /\ Running'
    BY <1>4, Zenon DEF enqueue_mirrored_request, Running, Ordered, durableVars, historyVars
  <2>2. /\ \A q \in 1..Len(mirror_worker_queue') : q \in 1..m \/ q = m + 1
        /\ \A q \in 1..m : mirror_worker_queue'[q] = mirror_worker_queue[q]
        /\ mirror_worker_queue'[m + 1] = sm_commit + 1
    <3>1. sm_commit + 1 \in Nat /\ mirror_worker_queue \in Seq(Nat)
      BY CoreTypes DEF TypeOK
    <3>2. mirror_worker_queue' = Append(mirror_worker_queue, sm_commit + 1)
      BY <1>4, Zenon DEF enqueue_mirrored_request
    <3> QED
      BY <3>1, <3>2
  <2>3. \A p \in 1..Len(store_applied) :
            store_applied[p] < sm_commit + 1 /\ store_applied[p] <= sm_commit + 1
    BY CoreTypes DEF Strict
  <2>4. ASSUME NEW p \in 1..Len(store_applied), NEW q \in 1..Len(mirror_worker_queue')
        PROVE  store_applied[p] < mirror_worker_queue'[q]
    BY <2>2, <2>3, Zenon DEF Strict
  <2> QED
    BY <2>1, <2>3, <2>4, Zenon DEF Strict, Applied
<1>5. CASE WorkerPop
  <2>1. /\ UNCHANGED <<store_applied, sm_commit, lost>> /\ Running' = Running
        /\ UNCHANGED kv_applied
        /\ worker'.pc = "popped" /\ worker'.idx = Head(mirror_worker_queue)
    BY <1>5, Zenon DEF WorkerPop, Running, durableVars, commitVars, historyVars
  <2>2. /\ 1 \in 1..Len(mirror_worker_queue)
        /\ Head(mirror_worker_queue) = mirror_worker_queue[1]
        /\ \A q \in 1..Len(mirror_worker_queue') :
               /\ q + 1 \in 1..Len(mirror_worker_queue)
               /\ mirror_worker_queue'[q] = mirror_worker_queue[q + 1]
    BY <1>5, TailIndex DEF WorkerPop, TypeOK
  <2> QED
    BY <2>1, <2>2 DEF Strict
<1>6. CASE apply_mirrored_request
  <2> DEFINE m == Len(store_applied)
  <2>1. /\ UNCHANGED <<mirror_worker_queue, sm_commit, lost>>
        /\ Running /\ Running'
        /\ worker.pc = "popped" /\ worker'.pc = "applied" /\ worker'.idx = worker.idx
    BY <1>6, Zenon DEF apply_mirrored_request, Running, Ordered, commitVars, historyVars, TypeOK
  <2>2. /\ \A p \in 1..Len(store_applied') : p \in 1..m \/ p = m + 1
        /\ \A p \in 1..m : store_applied'[p] = store_applied[p]
        /\ store_applied'[m + 1] = worker.idx
        /\ DOMAIN store_applied' = 1..Len(store_applied')
        /\ m + 1 \in 1..Len(store_applied')
        /\ m \in Nat
    <3>1. worker.idx \in Nat /\ store_applied \in Seq(Nat)
      BY CoreTypes, Zenon DEF TypeOK
    <3>2. store_applied' = Append(store_applied, worker.idx)
      BY <1>6, Zenon DEF apply_mirrored_request
    <3> QED
      BY <3>1, <3>2
  <2>3. worker.idx \in Applied'
    BY <2>2, Zenon DEF Applied
  <2>4. ASSUME NEW p \in 1..Len(store_applied')
        PROVE  /\ store_applied'[p] <= sm_commit
               /\ \A q \in 1..Len(mirror_worker_queue) :
                      store_applied'[p] < mirror_worker_queue[q]
    BY <2>1, <2>2, Zenon DEF Strict, Ordered
  <2>5. ASSUME NEW p \in 1..Len(store_applied'), NEW q \in 1..Len(store_applied'), p < q
        PROVE  store_applied'[p] < store_applied'[q]
    <3>1. p \in 1..m
      BY <2>2, <2>5
    <3> QED
      BY <2>1, <2>2, <2>5, <3>1, Zenon DEF Strict
  <2> QED
    BY <2>1, <2>3, <2>4, <2>5, Zenon DEF Strict
<1>7. CASE advance_live_product_state_applied_index \/ store_mirrored_result
  <2>1. /\ UNCHANGED <<store_applied, mirror_worker_queue, sm_commit, kv_applied, lost>>
        /\ Running' = Running
        /\ worker'.pc # "popped"
        /\ \/ worker'.pc = "idle"
           \/ worker.pc = "applied" /\ worker'.idx = worker.idx
    BY <1>7 DEF advance_live_product_state_applied_index, store_mirrored_result, Running,
                durableVars, commitVars, historyVars, TypeOK
  <2> QED
    BY <2>1, Zenon DEF Strict, Applied
<1> QED
  BY <1>1, <1>2, <1>3, <1>4, <1>5, <1>6, <1>7, CoreStep, Zenon DEF Committing, Working
-----------------------------------------------------------------------------
(* The chunks of one request.                                              *)

(* More entries in the log and in the product state.                       *)
LEMMA ChunkedGrows ==
    ASSUME NEW q \in ClientState, NEW n, NEW ran, NEW more, ran \subseteq more,
           NEW len \in Nat, NEW longer \in Nat, len <= longer, Chunked(q, n, ran, len)
    PROVE  Chunked(q, n, more, longer)
<1>1. 1..len \subseteq 1..longer
  OBVIOUS
<1> QED
  BY <1>1, Zenon DEF Chunked

(* A handler that gives up, retries, or takes a token.                     *)
LEMMA ChunkedSameChunks ==
    ASSUME NEW q \in ClientState, NEW r \in ClientState, NEW n, NEW ran, NEW len \in Nat,
           Chunked(q, n, ran, len), r.own = q.own, r.got = q.got,
           \/ r.pc = "failed"
           \/ r.pc = q.pc
           \/ q.pc = "idle" /\ r.pc = "append"
           \/ q.pc = "submitted" /\ r.pc = "result"
    PROVE  Chunked(r, n, ran, len)
BY Zenon DEF Chunked

(* A chunk enters the log.                                                 *)
LEMMA ChunkedSubmit ==
    ASSUME NEW q \in ClientState, NEW r \in ClientState, NEW n \in Nat, NEW ran,
           NEW len \in Nat, Chunked(q, n, ran, len), q.pc = "append", r.pc = "submitted",
           r.own = Append(q.own, len + 1), r.got = q.got
    PROVE  Chunked(r, n, ran, len + 1)
<1> DEFINE m == Len(q.own)
<1>1. q.own \in Seq(Nat) /\ q.got \in Seq(Nat) /\ len + 1 \in Nat
  BY DEF ClientState
<1>2. /\ Len(r.own) = m + 1
      /\ \A k \in 1..m : r.own[k] = q.own[k]
      /\ r.own[m + 1] = len + 1
      /\ m \in Nat /\ Len(q.got) \in Nat
      /\ \A k \in 1..Len(r.own) : k \in 1..m \/ k = m + 1
  BY <1>1, AppendIndex
<1>3. Len(q.got) = m /\ m < n
  BY Zenon DEF Chunked
<1>4. \A k \in 1..m : q.own[k] \in 1..len
  BY Zenon DEF Chunked
<1> HIDE DEF m
<1>5. \A k \in 1..Len(r.own) : r.own[k] \in 1..(len + 1)
  BY <1>2, <1>4
<1>6. ASSUME NEW k \in 1..Len(r.own), NEW l \in 1..Len(r.own), k < l
      PROVE  r.own[k] < r.own[l]
  <2>1. k \in 1..m
    BY <1>2, <1>6
  <2>2. CASE l \in 1..m
    BY <1>2, <1>6, <2>1, <2>2, Zenon DEF Chunked, m
  <2>3. CASE l = m + 1
    <3>1. r.own[k] = q.own[k] /\ q.own[k] \in 1..len /\ r.own[l] = len + 1
      BY <1>2, <1>4, <2>1, <2>3, Zenon
    <3> QED
      BY <3>1
  <2> QED
    BY <1>2, <2>2, <2>3, Zenon
<1>7. \A k \in 1..Len(r.got) : k <= Len(r.own) /\ r.got[k] = r.own[k] /\ r.got[k] \in ran
  BY <1>2, <1>3 DEF Chunked
<1> QED
  BY <1>2, <1>3, <1>5, <1>6, <1>7 DEF Chunked

(* The chunk in flight is answered.                                        *)
LEMMA ChunkedAnswer ==
    ASSUME NEW q \in ClientState, NEW r \in ClientState, NEW n \in Nat, NEW ran,
           NEW len \in Nat, Chunked(q, n, ran, len), q.pc = "result",
           q.own[Len(q.own)] \in ran,
           r.own = q.own, r.got = Append(q.got, q.own[Len(q.own)]),
           \/ r.pc = "failed"
           \/ r.pc = "idle" /\ Len(q.own) < n
           \/ r.pc = "done" /\ ~(Len(q.own) < n)
    PROVE  Chunked(r, n, ran, len)
<1> DEFINE m == Len(q.got)
           x == q.own[Len(q.own)]
<1>1. /\ q.own \in Seq(Nat) /\ q.got \in Seq(Nat) /\ Len(q.own) \in Nat
      /\ Len(q.own) = m + 1 /\ Len(q.own) <= n /\ m \in Nat
  <2>1. q.own \in Seq(Nat) /\ q.got \in Seq(Nat)
    BY Zenon DEF ClientState
  <2>2. Len(q.own) \in Nat /\ m \in Nat
    BY <2>1
  <2> QED
    BY <2>1, <2>2, Zenon DEF Chunked
<1>2. x \in Nat
  BY <1>1, ElementType
<1>3. /\ Len(r.got) = m + 1
      /\ \A k \in 1..m : r.got[k] = q.got[k]
      /\ r.got[m + 1] = x
      /\ \A k \in 1..Len(r.got) : k \in 1..m \/ k = m + 1
  <2>1. r.got = Append(q.got, x)
    BY Zenon
  <2> HIDE DEF x
  <2>2. /\ Len(r.got) = m + 1 /\ r.got[m + 1] = x
        /\ \A k \in 1..m : r.got[k] = q.got[k]
    BY <1>1, <1>2, <2>1, AppendIndex
  <2> HIDE DEF m
  <2>3. \A k \in 1..(m + 1) : k \in 1..m \/ k = m + 1
    BY <1>1
  <2> QED
    BY <2>2, <2>3, Zenon
<1>4. x = q.own[m + 1] /\ x \in ran
  BY <1>1, Zenon
<1>5. \A k \in 1..m : k <= Len(q.own) /\ q.got[k] = q.own[k] /\ q.got[k] \in ran
  BY Zenon DEF Chunked
<1> HIDE DEF m, x
<1>6. \A k \in 1..Len(r.got) : k <= Len(r.own) /\ r.got[k] = r.own[k] /\ r.got[k] \in ran
  BY <1>1, <1>3, <1>4, <1>5
<1> QED
  BY <1>1, <1>3, <1>6 DEF Chunked

-----------------------------------------------------------------------------
(* Requests, tokens and answers while nothing has stopped.                 *)

(* The record of one write handler is replaced.                            *)
LEMMA OneClient ==
    ASSUME TypeOK, NEW c \in Clients, NEW q, client' = [client EXCEPT ![c] = q]
    PROVE  /\ client'[c] = q
           /\ \A d \in Clients : d # c => client'[d] = client[d]
           /\ \A d \in Clients : client[d] \in ClientState
BY Zenon DEF TypeOK

(* A step that leaves the log alone, takes no token and moves no handler   *)
(* towards the log.                                                        *)
LEMMA TokensKept ==
    ASSUME Tokens, UNCHANGED <<raft_log, next_response_token>>,
           \A d \in Clients :
               /\ client'[d].token = client[d].token
               /\ Active(d)' => Active(d)
               /\ client'[d].pc = "append" => client[d].pc = "append"
               /\ Sent(d)' => Sent(d) /\ client'[d].own = client[d].own
    PROVE  Tokens'
BY DEF Tokens

(* The log gets an entry of another node, or a configuration.              *)
LEMMA TokensOther ==
    ASSUME TypeOK, Tokens, UNCHANGED <<next_response_token, client>>,
           NEW e \in [kind : AllKinds, self : BOOLEAN, token : Nat], ~e.self,
           raft_log' = Append(raft_log, e)
    PROVE  Tokens'
<1>1. /\ Len(raft_log) \in Nat
      /\ Len(raft_log') = Len(raft_log) + 1
      /\ \A i \in 1..Len(raft_log) : raft_log'[i] = raft_log[i]
      /\ raft_log'[Len(raft_log) + 1] = e
  BY DEF TypeOK
<1>2. \A i \in 1..Len(raft_log') :
          raft_log'[i].self => i \in 1..Len(raft_log) /\ raft_log'[i] = raft_log[i]
  BY <1>1
<1>3. \A i \in 1..Len(raft_log) : i \in 1..Len(raft_log')
  BY <1>1
<1>4. \A d \in Clients : (Active(d)' <=> Active(d)) /\ (Sent(d)' <=> Sent(d))
  BY Zenon DEF Active, Sent
<1> QED
  BY <1>1, <1>2, <1>3, <1>4 DEF Tokens

(* A handler takes the next token.                                         *)
LEMMA TokensAllocate ==
    ASSUME TypeOK, Tokens, NEW c \in Clients, allocate_response_token(c)
    PROVE  Tokens'
<1>1. /\ client'[c].pc = "append" /\ client'[c].token = next_response_token
      /\ \A d \in Clients : d # c => client'[d] = client[d]
      /\ next_response_token \in Nat
      /\ next_response_token' = next_response_token + 1
      /\ UNCHANGED raft_log
      /\ \A d \in Clients : client[d].token \in Nat
      /\ \A i \in 1..Len(raft_log) : raft_log[i].token \in Nat
  BY LogEntryType, Zenon DEF allocate_response_token, TypeOK, ClientState
<1>2. \A d \in Clients : d # c => (Active(d)' <=> Active(d)) /\ (Sent(d)' <=> Sent(d))
  BY <1>1, Zenon DEF Active, Sent
<1>3. ~Sent(c)'
  BY <1>1, Zenon DEF Sent
<1>4. \A d \in Clients : client'[d].token < next_response_token'
  BY <1>1 DEF Tokens
<1>5. \A i \in 1..Len(raft_log) : raft_log[i].self =>
          raft_log[i].token < next_response_token' /\ raft_log[i].token # next_response_token
  BY <1>1 DEF Tokens
<1>6. \A d \in Clients : d # c => client'[d].token # client'[c].token
  BY <1>1 DEF Tokens
<1>7. next_response_token' >= 1
  BY <1>1
<1>8. \A a, b \in Clients :
          Active(a)' /\ Active(b)' /\ client'[a].token = client'[b].token => a = b
  BY <1>1, <1>2, <1>6 DEF Tokens
<1>9. ASSUME NEW d \in Clients, client'[d].pc = "append"
      PROVE  \A i \in 1..Len(raft_log) : raft_log[i].self => raft_log[i].token # client'[d].token
  BY <1>1, <1>5, <1>9 DEF Tokens
<1>10. ASSUME NEW d \in Clients, Sent(d)'
       PROVE  d # c /\ Sent(d)
  BY <1>2, <1>3, <1>10, Zenon
<1> QED
  BY <1>1, <1>4, <1>5, <1>7, <1>8, <1>9, <1>10 DEF Tokens

(* A handler's entry enters the log.                                       *)
LEMMA TokensSubmit ==
    ASSUME TypeOK, Tokens, NEW c \in Clients, NEW kind \in AllKinds, Submit(c, kind)
    PROVE  Tokens'
<1> DEFINE n == Len(raft_log) + 1
           e == [kind |-> kind, self |-> TRUE, token |-> client[c].token]
<1>0. /\ client[c] \in ClientState /\ client[c].token \in Nat /\ client[c].own \in Seq(Nat)
      /\ Len(raft_log) \in Nat /\ n \in Nat
      /\ e \in [kind : AllKinds, self : BOOLEAN, token : Nat]
  BY DEF TypeOK, ClientState
<1>1. /\ Len(raft_log') = n
      /\ \A i \in 1..Len(raft_log) : raft_log'[i] = raft_log[i] /\ i \in 1..Len(raft_log')
      /\ raft_log'[n] = e
      /\ \A i \in 1..Len(raft_log') : i \in 1..Len(raft_log) \/ i = n
      /\ n \in 1..Len(raft_log')
  <2>1. raft_log' = Append(raft_log, e)
    BY Zenon DEF Submit
  <2> HIDE DEF e
  <2> QED
    BY <1>0, <2>1 DEF TypeOK
<1>2. /\ client[c].pc = "append" /\ client'[c].pc = "submitted"
      /\ client'[c].token = client[c].token
      /\ client'[c].own[Len(client'[c].own)] = n
      /\ UNCHANGED next_response_token
      /\ \A d \in Clients : d # c => client'[d] = client[d]
  <2>1. client'[c].own = Append(client[c].own, n)
    BY <1>0, Zenon DEF Submit, TypeOK, ClientState
  <2>2. client'[c].own[Len(client'[c].own)] = n
    BY <1>0, <2>1, AppendIndex
  <2> QED
    BY <1>0, <2>2, Zenon DEF Submit, TypeOK, ClientState
<1>3. \A d \in Clients : d # c => (Active(d)' <=> Active(d)) /\ (Sent(d)' <=> Sent(d))
  BY <1>2, Zenon DEF Active, Sent
<1>4. Active(c) /\ Active(c)' /\ Sent(c)'
  BY <1>2, Zenon DEF Active, Sent
<1>5. e.self /\ e.token = client[c].token
  BY Zenon
<1> HIDE DEF n, e
<1>6. /\ \A d \in Clients : client'[d].token < next_response_token'
      /\ next_response_token' >= 1
      /\ \A i \in 1..Len(raft_log') : raft_log'[i].self =>
             raft_log'[i].token < next_response_token'
  BY <1>1, <1>2, <1>5 DEF Tokens
<1>7. \A i, j \in 1..Len(raft_log') :
          raft_log'[i].self /\ raft_log'[j].self /\ raft_log'[i].token = raft_log'[j].token => i = j
  BY <1>1, <1>2, <1>5 DEF Tokens
<1>8. \A a, b \in Clients :
          Active(a)' /\ Active(b)' /\ client'[a].token = client'[b].token => a = b
  BY <1>2, <1>3, <1>4 DEF Tokens
<1>9. ASSUME NEW d \in Clients, client'[d].pc = "append", NEW i \in 1..Len(raft_log'),
             raft_log'[i].self
      PROVE  raft_log'[i].token # client'[d].token
  <2>1. d # c /\ client'[d] = client[d]
    BY <1>2, <1>9, Zenon
  <2>2. Active(d)
    BY <1>9, <2>1, Zenon DEF Active
  <2>3. CASE i = n
    BY <1>1, <1>4, <1>5, <2>1, <2>2, <2>3 DEF Tokens
  <2>4. CASE i \in 1..Len(raft_log)
    BY <1>1, <1>9, <2>1, <2>4 DEF Tokens
  <2> QED
    BY <1>1, <2>3, <2>4, Zenon
<1>10. ASSUME NEW d \in Clients, Sent(d)'
       PROVE  \E i \in 1..Len(raft_log') :
                  /\ i = client'[d].own[Len(client'[d].own)]
                  /\ raft_log'[i].self
                  /\ raft_log'[i].token = client'[d].token
  <2>1. CASE d = c
    BY <1>1, <1>2, <1>5, <2>1, Zenon
  <2>2. CASE d # c
    BY <1>1, <1>2, <1>3, <1>10, <2>2 DEF Tokens
  <2> QED
    BY <2>1, <2>2, Zenon
<1> QED
  BY <1>6, <1>7, <1>8, <1>9, <1>10, Zenon DEF Tokens

(* The answers stay right when the log and the product state grow, and     *)
(* when one of them is taken.                                              *)
LEMMA ResultsKept ==
    ASSUME TypeOK, [Next]_vars, Results,
           DOMAIN mirrored_results' \subseteq DOMAIN mirrored_results,
           \A t \in DOMAIN mirrored_results' : mirrored_results'[t] = mirrored_results[t]
    PROVE  Results'
BY AppliedGrows, LogGrows DEF Results

(* The worker leaves an answer.                                            *)
LEMMA ResultsStored ==
    ASSUME TypeOK, [Next]_vars, Results, Strict, WorkerInLog, store_mirrored_result
    PROVE  Results'
<1>1. /\ worker.idx \in 1..Len(raft_log) /\ worker.idx \in Applied
      /\ UNCHANGED <<raft_log, store_applied>>
  BY Zenon DEF store_mirrored_result, WorkerInLog, Strict, raftVars, durableVars
<1>2. Applied' = Applied
  BY <1>1, Zenon DEF Applied
<1>3. CASE mirrored_results' = mirrored_results
  BY <1>3, ResultsKept, Zenon
<1>4. CASE /\ raft_log[worker.idx].self
           /\ mirrored_results' =
                 [t \in DOMAIN mirrored_results \cup {raft_log[worker.idx].token} |->
                      IF t = raft_log[worker.idx].token THEN worker.idx ELSE mirrored_results[t]]
  BY <1>1, <1>2, <1>4, Zenon DEF Results
<1> QED
  BY <1>3, <1>4, Zenon DEF store_mirrored_result

(* An answer that a handler finds is the one to its chunk in flight.       *)
LEMMA AnswerIsOwn ==
    ASSUME Tokens, Results, NEW c \in Clients, client[c].pc = "result",
           client[c].token \in DOMAIN mirrored_results
    PROVE  /\ mirrored_results[client[c].token] = client[c].own[Len(client[c].own)]
           /\ mirrored_results[client[c].token] \in Applied
<1>1. PICK i \in 1..Len(raft_log) :
          /\ i = client[c].own[Len(client[c].own)]
          /\ raft_log[i].self
          /\ raft_log[i].token = client[c].token
  BY Zenon DEF Tokens, Sent
<1>2. PICK j \in 1..Len(raft_log) :
          /\ j = mirrored_results[client[c].token]
          /\ raft_log[j].self
          /\ raft_log[j].token = client[c].token
          /\ j \in Applied
  BY Zenon DEF Results
<1>3. i = j
  BY <1>1, <1>2 DEF Tokens
<1> QED
  BY <1>1, <1>2, <1>3, Zenon

RequestInv == Tokens /\ Results /\ AllChunked

(* One request moves: the chunks of the others are as before.              *)
LEMMA OtherChunks ==
    ASSUME TypeOK, [Next]_vars, AllChunked, NEW c \in Clients,
           \A d \in Clients : d # c => client'[d] = client[d],
           Chunked(client'[c], Chunks[c], Applied', Len(raft_log'))
    PROVE  AllChunked'
<1>1. \A d \in Clients : client[d] \in ClientState
  BY Zenon DEF TypeOK
<1> QED
  BY <1>1, AppliedGrows, LogGrows, ChunkedGrows, Zenon DEF AllChunked

(* A write handler moves.                                                  *)
LEMMA WritingKeeps ==
    ASSUME TypeOK, TypeOK', [Next]_vars, RequestInv, NEW c \in Clients, Writing(c)
    PROVE  RequestInv'
<1> DEFINE q == client[c]
           r == client'[c]
           len == Len(raft_log)
<1>0. /\ Tokens /\ Results /\ AllChunked
      /\ q \in ClientState /\ r \in ClientState
      /\ Chunks[c] \in Nat /\ len \in Nat /\ Len(raft_log') \in Nat /\ len <= Len(raft_log')
      /\ Applied \subseteq Applied'
      /\ Chunked(q, Chunks[c], Applied, len)
  BY PipelineAssumption, AppliedGrows, LogGrows, Zenon DEF TypeOK, RequestInv, AllChunked
<1>a. ASSUME Chunked(r, Chunks[c], Applied, len) PROVE Chunked(r, Chunks[c], Applied', Len(raft_log'))
  BY <1>0, <1>a, ChunkedGrows, Zenon
<1>1. CASE allocate_response_token(c)
  <2>1. /\ \A d \in Clients : d # c => client'[d] = client[d]
        /\ r.pc = "append" /\ q.pc = "idle" /\ r.own = q.own /\ r.got = q.got
        /\ UNCHANGED mirrored_results
    BY <1>1 DEF allocate_response_token, TypeOK, ClientState
  <2>2. Chunked(r, Chunks[c], Applied, len)
    BY <1>0, <2>1, ChunkedSameChunks, Zenon
  <2>3. AllChunked'
    BY <1>0, <1>a, <2>1, <2>2, OtherChunks, Zenon
  <2> QED
    BY <1>0, <1>1, <2>1, <2>3, TokensAllocate, ResultsKept, Zenon DEF RequestInv
<1>b. ASSUME UNCHANGED <<raft_log, next_response_token, mirrored_results>>,
             \A d \in Clients : d # c => client'[d] = client[d],
             r.token = q.token, r.own = q.own, r.got = q.got,
             \/ r.pc = "failed"
             \/ r.pc = q.pc
             \/ q.pc = "submitted" /\ r.pc = "result"
      PROVE  RequestInv'
  <2>1. AllChunked'
    BY <1>0, <1>a, <1>b, ChunkedSameChunks, OtherChunks, Zenon
  <2>2. ASSUME NEW d \in Clients
        PROVE  /\ client'[d].token = client[d].token
               /\ Active(d)' => Active(d)
               /\ client'[d].pc = "append" => client[d].pc = "append"
               /\ Sent(d)' => Sent(d) /\ client'[d].own = client[d].own
    BY <1>b, Zenon DEF Active, Sent
  <2>3. Tokens'
    BY <1>0, <1>b, <2>2, TokensKept, Zenon
  <2> QED
    BY <1>0, <1>b, <2>1, <2>3, ResultsKept, Zenon DEF RequestInv
<1>2. CASE AppendNotLeader(c)
  <2>1. /\ \A d \in Clients : d # c => client'[d] = client[d]
        /\ r = IF q.attempt = kMaxRetries THEN [q EXCEPT !.pc = "failed"]
               ELSE [q EXCEPT !.attempt = q.attempt + 1]
        /\ UNCHANGED <<raft_log, next_response_token, mirrored_results>>
    BY <1>2, Zenon DEF AppendNotLeader, TypeOK
  <2>2. r.token = q.token /\ r.own = q.own /\ r.got = q.got /\ (r.pc = "failed" \/ r.pc = q.pc)
    BY <1>0, <2>1, Zenon DEF ClientState
  <2> QED
    BY <1>b, <2>1, <2>2, Zenon
<1>3. ASSUME NEW kind \in Kinds \ {"bad", "conf"}, Submit(c, kind) PROVE RequestInv'
  <2>1. /\ \A d \in Clients : d # c => client'[d] = client[d]
        /\ r.pc = "submitted" /\ q.pc = "append" /\ r.own = Append(q.own, len + 1) /\ r.got = q.got
        /\ UNCHANGED <<mirrored_results, store_applied>>
    BY <1>3, Zenon DEF Submit, Unmoved, TypeOK, ClientState
  <2>2. Len(raft_log') = len + 1
    <3>1. [kind |-> kind, self |-> TRUE, token |-> q.token]
              \in [kind : AllKinds, self : BOOLEAN, token : Nat]
      BY <1>0, PipelineAssumption, Zenon DEF ClientState
    <3> QED
      BY <1>3, <3>1 DEF Submit, TypeOK
  <2>3. Chunked(r, Chunks[c], Applied, len + 1)
    <3> HIDE DEF q, r, len
    <3> QED
      BY <1>0, <2>1, ChunkedSubmit, Zenon
  <2>4. Applied' = Applied
    BY <2>1, Zenon DEF Applied
  <2>5. AllChunked'
    BY <1>0, <2>1, <2>2, <2>3, <2>4, OtherChunks, Zenon
  <2> QED
    BY <1>0, <1>3, <2>1, <2>5, PipelineAssumption, TokensSubmit, ResultsKept, Zenon DEF RequestInv
<1>4. CASE AppendFails(c) \/ AppendAccepted(c) \/ ResultTimeout(c)
  <2>1. /\ \A d \in Clients : d # c => client'[d] = client[d]
        /\ \/ r = [q EXCEPT !.pc = "failed"]
           \/ q.pc = "submitted" /\ r = [q EXCEPT !.pc = "result"]
        /\ UNCHANGED <<raft_log, next_response_token, mirrored_results>>
    BY <1>4, Zenon DEF AppendFails, AppendAccepted, ResultTimeout, TypeOK
  <2>2. /\ r.token = q.token /\ r.own = q.own /\ r.got = q.got
        /\ r.pc = "failed" \/ (q.pc = "submitted" /\ r.pc = "result")
    <3> HIDE DEF q, r
    <3>1. ASSUME NEW pc, r = [q EXCEPT !.pc = pc]
          PROVE  r.token = q.token /\ r.own = q.own /\ r.got = q.got /\ r.pc = pc
      BY <1>0, <3>1, Zenon DEF ClientState
    <3> QED
      BY <2>1, <3>1, Zenon
  <2> QED
    BY <1>b, <2>1, <2>2, Zenon
<1>5. CASE wait_for_mirrored_result(c)
  <2> DEFINE idx == mirrored_results[q.token]
  <2>1. /\ q.pc = "result" /\ q.token \in DOMAIN mirrored_results
        /\ UNCHANGED <<raft_log, next_response_token, store_applied>>
        /\ mirrored_results' =
              [t \in DOMAIN mirrored_results \ {q.token} |-> mirrored_results[t]]
        /\ \A d \in Clients : d # c => client'[d] = client[d]
    BY <1>5, Zenon DEF wait_for_mirrored_result, Unmoved, TypeOK
  <2>2. idx = q.own[Len(q.own)] /\ idx \in Applied
    BY <1>0, <2>1, AnswerIsOwn, Zenon
  <2>3. /\ r.token = q.token /\ r.own = q.own /\ r.got = Append(q.got, idx)
        /\ \/ r.pc = "failed"
           \/ r.pc = "idle" /\ Len(q.own) < Chunks[c]
           \/ r.pc = "done" /\ ~(Len(q.own) < Chunks[c])
    <3> DEFINE pc == IF raft_log[idx].kind = "refused" /\ Chunks[c] > 1 THEN "failed"
                     ELSE IF Len(q.own) < Chunks[c] THEN "idle" ELSE "done"
    <3>1. r = [q EXCEPT !.pc = pc, !.got = Append(q.got, idx)]
      BY <1>5, Zenon DEF wait_for_mirrored_result, TypeOK
    <3>2. \/ pc = "failed"
          \/ pc = "idle" /\ Len(q.own) < Chunks[c]
          \/ pc = "done" /\ ~(Len(q.own) < Chunks[c])
      BY Zenon
    <3> HIDE DEF q, r, pc, idx
    <3>3. r.token = q.token /\ r.own = q.own /\ r.got = Append(q.got, idx) /\ r.pc = pc
      BY <1>0, <3>1, Zenon DEF ClientState
    <3> QED
      BY <3>2, <3>3, Zenon
  <2>4. Chunked(r, Chunks[c], Applied, len)
    <3> HIDE DEF q, r, len, idx
    <3> QED
      BY <1>0, <2>1, <2>2, <2>3, ChunkedAnswer, Zenon
  <2>5. AllChunked'
    BY <1>0, <1>a, <2>1, <2>4, OtherChunks, Zenon
  <2>6. ASSUME NEW d \in Clients
        PROVE  /\ client'[d].token = client[d].token
               /\ Active(d)' => Active(d)
               /\ client'[d].pc = "append" => client[d].pc = "append"
               /\ Sent(d)' => Sent(d) /\ client'[d].own = client[d].own
    BY <2>1, <2>3, Zenon DEF Active, Sent
  <2>7. Tokens'
    BY <1>0, <2>1, <2>6, TokensKept, Zenon
  <2>8. Results'
    BY <1>0, <2>1, ResultsKept, Zenon
  <2> QED
    BY <2>5, <2>7, <2>8, Zenon DEF RequestInv
<1> QED
  BY <1>1, <1>2, <1>3, <1>4, <1>5, Zenon DEF Writing

(* Every step but a stop keeps the requests and their answers apart.       *)
LEMMA RequestInvStep ==
    ASSUME TypeOK, TypeOK', WorkerInLog, Strict, RequestInv, [Next]_vars, ~Crash
    PROVE  RequestInv'
<1>0. Tokens /\ Results /\ AllChunked
  BY Zenon DEF RequestInv
<1>a. ASSUME UNCHANGED client PROVE AllChunked'
  <2>1. \A d \in Clients : client[d] \in ClientState
    BY Zenon DEF TypeOK
  <2> QED
    BY <1>0, <1>a, <2>1, AppliedGrows, LogGrows, ChunkedGrows, Zenon DEF AllChunked
<1>1. CASE UNCHANGED requestVars
  <2>1. Tokens'
    BY <1>0, <1>1, TokensKept, Zenon DEF requestVars, Active, Sent
  <2> QED
    BY <1>0, <1>1, <1>a, <2>1, ResultsKept, Zenon DEF requestVars, RequestInv
<1>2. ASSUME NEW kind \in Kinds, NEW token \in 0..1, OtherAppend(kind, token)
      PROVE  RequestInv'
  <2> DEFINE e == [kind |-> kind, self |-> FALSE, token |-> token]
  <2>1. /\ e \in [kind : AllKinds, self : BOOLEAN, token : Nat] /\ ~e.self
        /\ raft_log' = Append(raft_log, e)
        /\ UNCHANGED <<next_response_token, client, mirrored_results>>
    BY <1>2, PipelineAssumption DEF OtherAppend, workerVars
  <2>2. Tokens'
    <3> HIDE DEF e
    <3> QED
      BY <1>0, <2>1, TokensOther, Zenon
  <2> QED
    BY <1>0, <1>a, <2>1, <2>2, ResultsKept, Zenon DEF RequestInv
<1>3. CASE store_mirrored_result
  <2>1. UNCHANGED <<raft_log, next_response_token, client>>
    BY <1>3, Zenon DEF store_mirrored_result, raftVars
  <2>2. Tokens'
    BY <1>0, <2>1, TokensKept, Zenon DEF Active, Sent
  <2> QED
    BY <1>0, <1>3, <1>a, <2>1, <2>2, ResultsStored, Zenon DEF RequestInv
<1> QED
  BY <1>1, <1>2, <1>3, WritingKeeps, RequestStep, Zenon
-----------------------------------------------------------------------------
(* The live index and the strong reads.                                    *)

(* The steps that move the live index, the readers, or the end of a boot.  *)
LEMMA LiveStep ==
    ASSUME [Next]_vars
    PROVE  \/ UNCHANGED <<live, boot, lost, reader>>
           \/ OpenSink \/ Align \/ Crash \/ advance_live_product_state_applied_index
           \/ initialize_raft_server
           \/ \E r \in Readers : Reading(r)
<1> USE DEF durableVars, workerVars, historyVars
<1>1. CASE GraceElapses \/ Probe \/ RaftCommit
  BY <1>1, Zenon DEF GraceElapses, Probe, RaftCommit
<1>2. ASSUME NEW kind \in Kinds, NEW token \in 0..1, OtherAppend(kind, token)
      PROVE  UNCHANGED <<live, boot, lost, reader>>
  BY <1>2, Zenon DEF OtherAppend
<1>3. CASE Committing
  BY <1>3, Zenon DEF Committing, CommitSkip, CommitToSink, CommitReady, CommitIndex,
              enqueue_mirrored_request
<1>4. CASE WorkerPop \/ apply_mirrored_request \/ store_mirrored_result
  BY <1>4, Zenon DEF WorkerPop, apply_mirrored_request, store_mirrored_result
<1>5. ASSUME NEW c \in Clients, Writing(c)
      PROVE  UNCHANGED <<live, boot, lost, reader>>
  <2>1. UNCHANGED Unmoved
    BY <1>5, Zenon DEF Writing, allocate_response_token, AppendNotLeader, Submit, AppendFails,
                AppendAccepted, wait_for_mirrored_result, ResultTimeout
  <2> QED
    BY <2>1, Zenon DEF Unmoved
<1>6. CASE UNCHANGED vars
  BY <1>6, Zenon DEF vars
<1> QED
  BY <1>1, <1>2, <1>3, <1>4, <1>5, <1>6, Zenon DEF Next, Startup, Working

(* The KV sink's index never goes back.                                    *)
LEMMA SinkGrows ==
    ASSUME TypeOK, SInv, [Next]_vars
    PROVE  kv_applied' \in Nat /\ kv_applied <= kv_applied'
<1>1. CASE CommitToSink
  <2>1. kv_applied \in Nat /\ sm_commit \in Nat /\ kv_applied <= sm_commit
    BY <1>1, CoreTypes, Zenon DEF CommitToSink, CommitReady, SInv, SinkCovers, Running
  <2> QED
    BY <1>1, <2>1 DEF CommitToSink
<1>2. CASE UNCHANGED kv_applied
  BY <1>2, CoreTypes
<1>3. CommitToSink \/ UNCHANGED kv_applied
  BY CoreStep, Zenon DEF coreVars, durableVars, initialize_raft_server, Crash, Committing, CommitSkip,
       CommitIndex, enqueue_mirrored_request, Working, WorkerPop, apply_mirrored_request,
       advance_live_product_state_applied_index, store_mirrored_result
<1> QED
  BY <1>1, <1>2, <1>3, Zenon

(* What a stop took stays below the live index.                            *)
LEMMA LostBelowLiveStep ==
    ASSUME TypeOK, SInv, LostBelowLive, [Next]_vars
    PROVE  LostBelowLive'
<1>0. /\ live \in Nat /\ kv_applied \in Nat /\ last_commit_index \in Nat /\ worker.idx \in Nat
      /\ lost \subseteq Nat
      /\ kv_applied' \in Nat /\ kv_applied <= kv_applied'
  BY SinkGrows, Zenon DEF TypeOK
<1>a. ASSUME UNCHANGED lost, live' \in Nat,
             boot' # "down" => boot # "down" /\ live <= live'
      PROVE  LostBelowLive'
  BY <1>0, <1>a DEF LostBelowLive
<1>1. CASE UNCHANGED <<live, boot, lost, reader>>
  BY <1>0, <1>1, <1>a
<1>2. CASE OpenSink
  BY <1>0, <1>2, Zenon DEF OpenSink, historyVars, durableVars, LostBelowLive
<1>3. CASE Align
  BY <1>0, <1>3, <1>a DEF Align, historyVars, Greater
<1>4. CASE Crash
  BY <1>0, <1>4 DEF Crash, durableVars, LostBelowLive
<1>5. CASE advance_live_product_state_applied_index
  BY <1>0, <1>5, <1>a DEF advance_live_product_state_applied_index, historyVars, Greater
<1>6. CASE initialize_raft_server
  BY <1>0, <1>6, <1>a DEF initialize_raft_server, workerVars, historyVars
<1>7. ASSUME NEW r \in Readers, Reading(r) PROVE LostBelowLive'
  BY <1>0, <1>7, <1>a DEF Reading, ReadBegins, wait_for_live_product_state, ReadTimeout,
                          workerVars, historyVars
<1> QED
  BY <1>1, <1>2, <1>3, <1>4, <1>5, <1>6, <1>7, LiveStep, Zenon

(* An entry at or below the one the worker has run has been run, or was    *)
(* lost.                                                                   *)
LEMMA RunBelowWorker ==
    ASSUME TypeOK, SInv, InLog, worker.pc # "idle", worker.pc # "popped",
           NEW i \in 1..worker.idx, Mirrored(i)
    PROVE  i \in Applied \cup lost
<1>1. /\ Running /\ worker.idx \in MIdx /\ worker.idx <= sm_commit
      /\ worker.idx \in Nat /\ sm_commit \in Nat /\ raft_commit \in Nat
      /\ worker.idx <= raft_commit
  BY CoreTypes, Zenon DEF SInv, Ordered
<1>2. i \in MIdx /\ i <= sm_commit
  BY <1>1 DEF MIdx
<1>3. i \in Applied \cup InFlight \cup lost
  BY <1>1, <1>2, Zenon DEF SInv, Accounted
<1>4. i \notin Queued
  <2> SUFFICES ASSUME NEW p \in 1..Len(mirror_worker_queue), i = mirror_worker_queue[p]
               PROVE  FALSE
    BY DEF Queued, TypeOK
  <2>1. worker.idx < mirror_worker_queue[p] /\ mirror_worker_queue[p] \in Nat
    BY CoreTypes, Zenon DEF SInv, Ordered
  <2> QED
    BY <1>1, <2>1
<1>5. i # sm_commit + 1
  BY <1>1, <1>2
<1> QED
  BY <1>3, <1>4, <1>5, Zenon DEF InFlight

(* Only the start of the process may set the live index beyond what is in  *)
(* the product state.                                                      *)
LEMMA HonestKept ==
    ASSUME IInv, LostBelowLive, LiveIndexHonest, [Next]_vars, ~OpenSink, ~Align
    PROVE  LiveIndexHonest'
<1>0. /\ TypeOK /\ SInv /\ InLog /\ IndicesCommitted
      /\ live \in Nat /\ raft_commit \in Nat /\ Len(raft_log) \in Nat
      /\ worker.idx \in Nat
  BY DEF IInv, TypeOK
<1>1. \A i \in 1..raft_commit : i \in 1..Len(raft_log) /\ (Mirrored(i)' <=> Mirrored(i))
  BY <1>0, LogGrows DEF InLog, Mirrored
<1>2. CASE UNCHANGED live
  <2>1. \A i \in 1..live : i \in 1..raft_commit
    BY <1>0 DEF IndicesCommitted
  <2> QED
    BY <1>0, <1>1, <1>2, <2>1, AppliedGrows, Zenon DEF LiveIndexHonest
<1>3. CASE Crash
  BY <1>3 DEF Crash, LiveIndexHonest
<1>4. CASE advance_live_product_state_applied_index
  <2>1. /\ worker.pc = "applied" /\ live' = Greater(live, worker.idx)
        /\ UNCHANGED <<raft_log, store_applied, boot>>
    BY <1>4, Zenon DEF advance_live_product_state_applied_index, raftVars, durableVars
  <2>2. boot # "down"
    BY <1>0, <2>1, Zenon DEF SInv, Ordered, Running
  <2> SUFFICES ASSUME NEW i \in 1..live', Mirrored(i)
               PROVE  i \in Applied
    BY <2>1, Zenon DEF LiveIndexHonest, Applied, Mirrored
  <2>3. i \in Nat /\ 1 <= i /\ (i <= live \/ i <= worker.idx)
    BY <1>0, <2>1 DEF Greater
  <2>4. CASE i <= live
    BY <1>0, <2>3, <2>4 DEF LiveIndexHonest
  <2>5. CASE i <= worker.idx
    <3>1. i \in 1..worker.idx
      BY <1>0, <2>3, <2>5
    <3>2. i \in Applied \/ i \in lost
      BY <1>0, <2>1, <3>1, RunBelowWorker, Zenon
    <3>3. CASE i \in lost
      BY <2>2, <2>4, <3>3, Zenon DEF LostBelowLive
    <3> QED
      BY <3>2, <3>3, Zenon
  <2> QED
    BY <2>3, <2>4, <2>5, Zenon
<1>5. initialize_raft_server \/ (\E r \in Readers : Reading(r)) => UNCHANGED live
  BY Zenon DEF initialize_raft_server, Reading, ReadBegins, wait_for_live_product_state, ReadTimeout,
         workerVars
<1> QED
  BY <1>2, <1>3, <1>4, <1>5, LiveStep, Zenon

(* What a step of one reader does.                                         *)
LEMMA ReaderMoves ==
    ASSUME TypeOK, NEW r \in Readers, Reading(r)
    PROVE  /\ \A s \in Readers : s # r => reader'[s] = reader[s]
           /\ reader'[r].target \in {reader[r].target, last_commit_index}
           /\ reader'[r].pc = "fresh" =>
                  reader'[r].target = reader[r].target /\ live >= reader[r].target
<1>0. reader \in [Readers -> ReaderState] /\ reader[r] \in ReaderState
  BY Zenon DEF TypeOK
<1>1. CASE ReadBegins(r)
  BY <1>0, <1>1, Zenon DEF ReadBegins, ReaderState
<1>2. CASE wait_for_live_product_state(r)
  BY <1>0, <1>2, Zenon DEF wait_for_live_product_state, ReaderState
<1>3. CASE ReadTimeout(r)
  BY <1>0, <1>3, Zenon DEF ReadTimeout, ReaderState
<1> QED
  BY <1>1, <1>2, <1>3, Zenon DEF Reading

(* The readers wait for committed indices.                                 *)
LEMMA TargetsStep ==
    ASSUME IInv, TargetsCommitted, [Next]_vars
    PROVE  TargetsCommitted'
<1>0. /\ TypeOK /\ IndicesCommitted
      /\ raft_commit \in Nat /\ last_commit_index \in Nat
      /\ \A r \in Readers : reader[r].target \in Nat
  BY Zenon DEF IInv, TypeOK, ReaderState
<1>1. raft_commit' \in Nat /\ raft_commit <= raft_commit'
  <2>1. UNCHANGED raft_commit \/ RaftCommit
    BY Zenon DEF Next, vars, Startup, OpenSink, initialize_raft_server, Align, GraceElapses, Probe,
           Crash, OtherAppend, Committing, CommitSkip, CommitToSink, CommitIndex,
           enqueue_mirrored_request, Working, WorkerPop, apply_mirrored_request,
           advance_live_product_state_applied_index, store_mirrored_result,
           Writing, allocate_response_token, AppendNotLeader, Submit, AppendFails,
           AppendAccepted, wait_for_mirrored_result, ResultTimeout, Unmoved,
           Reading, ReadBegins, wait_for_live_product_state, ReadTimeout, raftVars
  <2> QED
    BY <1>0, <2>1 DEF RaftCommit
<1>2. CASE UNCHANGED reader
  BY <1>0, <1>1, <1>2 DEF TargetsCommitted
<1>3. CASE Crash
  BY <1>0, <1>1, <1>3 DEF Crash, TargetsCommitted, NoRead
<1>4. ASSUME NEW r \in Readers, Reading(r)
      PROVE  TargetsCommitted'
  <2>1. /\ \A s \in Readers : s # r => reader'[s] = reader[s]
        /\ reader'[r].target \in {reader[r].target, last_commit_index}
    BY <1>0, <1>4, ReaderMoves, Zenon
  <2> QED
    BY <1>0, <1>1, <2>1 DEF TargetsCommitted, IndicesCommitted
<1>5. OpenSink \/ Align \/ advance_live_product_state_applied_index \/ initialize_raft_server
        => UNCHANGED reader
  BY Zenon DEF OpenSink, Align, advance_live_product_state_applied_index, initialize_raft_server
<1> QED
  BY <1>2, <1>3, <1>4, <1>5, LiveStep, Zenon

(* While the live index is honest, a strong read that did not time out     *)
(* sees what was committed when it began.                                  *)
LEMMA StrongReadKept ==
    ASSUME IInv, TargetsCommitted, LiveIndexHonest, StrongReadSees, [Next]_vars
    PROVE  StrongReadSees'
<1>0. /\ TypeOK /\ InLog
      /\ live \in Nat /\ raft_commit \in Nat /\ Len(raft_log) \in Nat
      /\ \A r \in Readers : reader[r].target \in Nat /\ reader[r].target <= raft_commit
  BY DEF IInv, TypeOK, ReaderState, TargetsCommitted
<1>1. \A i \in 1..raft_commit : i \in 1..Len(raft_log) /\ (Mirrored(i)' <=> Mirrored(i))
  BY <1>0, LogGrows DEF InLog, Mirrored
<1>2. ASSUME NEW r \in Readers, \A i \in 1..reader[r].target : Mirrored(i) => i \in Applied
      PROVE  \A i \in 1..reader[r].target : Mirrored(i)' => i \in Applied'
  <2>1. 1..reader[r].target \subseteq 1..raft_commit
    BY <1>0
  <2> QED
    BY <1>0, <1>1, <1>2, <2>1, AppliedGrows, Zenon
<1>3. CASE UNCHANGED reader
  BY <1>2, <1>3, Zenon DEF StrongReadSees
<1>4. CASE Crash
  BY <1>4, Zenon DEF Crash, StrongReadSees, NoRead
<1>5. ASSUME NEW r \in Readers, Reading(r)
      PROVE  StrongReadSees'
  <2>1. /\ \A s \in Readers : s # r => reader'[s] = reader[s]
        /\ reader'[r].pc = "fresh" => reader'[r].target = reader[r].target /\ live >= reader[r].target
    BY <1>0, <1>5, ReaderMoves, Zenon
  <2>2. live >= reader[r].target =>
            \A i \in 1..reader[r].target : Mirrored(i) => i \in Applied
    BY <1>0 DEF LiveIndexHonest
  <2> QED
    BY <1>2, <2>1, <2>2, Zenon DEF StrongReadSees
<1>6. OpenSink \/ Align \/ advance_live_product_state_applied_index \/ initialize_raft_server
        => UNCHANGED reader
  BY Zenon DEF OpenSink, Align, advance_live_product_state_applied_index, initialize_raft_server
<1> QED
  BY <1>3, <1>4, <1>5, <1>6, LiveStep, Zenon
-----------------------------------------------------------------------------
(* A node without peers, before it serves requests.                        *)

LEMMA AloneStep ==
    ASSUME IInv, Strict, AloneAtStart, [Next]_vars, ~Crash
    PROVE  AloneAtStart'
<1> SUFFICES ASSUME ~Peers, boot' # "up"
             PROVE  /\ last_commit_index' = 0 /\ kv_applied' = 0 /\ live' = 0
                    /\ \A i \in 1..Len(raft_log') : raft_log'[i].kind = "conf"
                    /\ \A c \in Clients : client'[c].pc = "idle"
  BY Zenon DEF AloneAtStart
<1>0. /\ TypeOK /\ SInv /\ InLog
      /\ sm_commit \in Nat /\ raft_commit \in Nat /\ Len(raft_log) \in Nat
      /\ raft_commit <= Len(raft_log)
  BY CoreTypes DEF IInv, InLog, TypeOK
<1>1. boot # "up"
  BY LiveStep, Zenon DEF OpenSink, Align, advance_live_product_state_applied_index,
       initialize_raft_server, Reading, ReadBegins, wait_for_live_product_state, ReadTimeout
<1>2. /\ last_commit_index = 0 /\ kv_applied = 0 /\ live = 0
      /\ \A i \in 1..Len(raft_log) : raft_log[i].kind = "conf"
      /\ \A c \in Clients : client[c].pc = "idle"
  BY <1>1, Zenon DEF AloneAtStart
<1>3. MIdx = {}
  BY <1>0, <1>2 DEF MIdx, Mirrored
<1>4. worker.pc = "idle" /\ commit_pc = "idle"
  BY <1>0, <1>3, Zenon DEF SInv, Ordered
<1>5. Len(mirror_worker_queue) = 0 /\ mirror_worker_queue = <<>>
  <2>1. \A p \in 1..Len(mirror_worker_queue) : FALSE
    BY <1>0, <1>3, Zenon DEF SInv, Ordered
  <2> QED
    BY <1>0, <2>1 DEF TypeOK
<1>a. ASSUME UNCHANGED <<last_commit_index, kv_applied, live, raft_log, client>>
      PROVE  /\ last_commit_index' = 0 /\ kv_applied' = 0 /\ live' = 0
             /\ \A i \in 1..Len(raft_log') : raft_log'[i].kind = "conf"
             /\ \A c \in Clients : client'[c].pc = "idle"
  BY <1>2, <1>a, Zenon
<1> USE DEF raftVars, durableVars, commitVars, workerVars
<1>6. CASE OpenSink \/ initialize_raft_server
  BY <1>2, <1>6, Zenon DEF OpenSink, initialize_raft_server
<1>7. CASE GraceElapses \/ Probe \/ RaftCommit \/ UNCHANGED vars
  BY <1>7, <1>a, Zenon DEF GraceElapses, Probe, RaftCommit, vars
<1>8. ASSUME NEW kind \in Kinds, NEW token \in 0..1, OtherAppend(kind, token)
      PROVE  /\ last_commit_index' = 0 /\ kv_applied' = 0 /\ live' = 0
             /\ \A i \in 1..Len(raft_log') : raft_log'[i].kind = "conf"
             /\ \A c \in Clients : client'[c].pc = "idle"
  <2> DEFINE e == [kind |-> kind, self |-> FALSE, token |-> token]
  <2>1. /\ kind = "conf" /\ raft_log' = Append(raft_log, e) /\ e.kind = kind
        /\ UNCHANGED <<last_commit_index, kv_applied, live, client>>
    BY <1>8, Zenon DEF OtherAppend
  <2>2. e \in [kind : AllKinds, self : BOOLEAN, token : Nat]
    BY PipelineAssumption
  <2> HIDE DEF e
  <2>3. /\ Len(raft_log') = Len(raft_log) + 1
        /\ \A i \in 1..Len(raft_log) : raft_log'[i] = raft_log[i]
        /\ raft_log'[Len(raft_log) + 1] = e
    <3>1. PICK E : E = [kind : AllKinds, self : BOOLEAN, token : Nat]
      BY Zenon
    <3>2. raft_log \in Seq(E) /\ e \in E
      BY <1>0, <2>2, <3>1, Zenon DEF TypeOK
    <3>3. \A q \in Seq(E) : /\ Len(Append(q, e)) = Len(q) + 1
                            /\ \A i \in 1..Len(q) : Append(q, e)[i] = q[i]
                            /\ Append(q, e)[Len(q) + 1] = e
      BY <3>2
    <3> QED BY <2>1, <3>2, <3>3, Zenon
  <2>4. \A i \in 1..Len(raft_log') : i \in 1..Len(raft_log) \/ i = Len(raft_log) + 1
    BY <1>0, <2>3
  <2> QED
    BY <1>2, <2>1, <2>3, <2>4, Zenon
<1>9. CASE CommitSkip \/ CommitToSink
  <2>1. sm_commit + 1 \in 1..Len(raft_log)
    BY <1>0, <1>9 DEF CommitSkip, CommitToSink, CommitReady
  <2>2. CommitSkip /\ raft_log[sm_commit + 1].kind = "conf"
    BY <1>2, <1>9, <2>1, Zenon DEF CommitToSink, Mirrored
  <2> QED
    BY <1>a, <2>2, Zenon DEF CommitSkip
<1>10. ~(\E c \in Clients : Writing(c))
  BY <1>1, <1>2, Zenon DEF Writing, allocate_response_token, AppendNotLeader, Submit, AppendFails,
                    AppendAccepted, wait_for_mirrored_result, ResultTimeout
<1>11. ASSUME NEW r \in Readers, Reading(r)
       PROVE  UNCHANGED <<last_commit_index, kv_applied, live, raft_log, client>>
  BY <1>11, Zenon DEF Reading, ReadBegins, wait_for_live_product_state, ReadTimeout
<1>12. ~CommitIndex /\ ~enqueue_mirrored_request /\ ~Working /\ ~Align
  BY <1>4, <1>5, Zenon DEF CommitIndex, enqueue_mirrored_request, Working, WorkerPop,
       apply_mirrored_request, advance_live_product_state_applied_index, store_mirrored_result,
       Align
<1> QED
  BY <1>a, <1>6, <1>7, <1>8, <1>9, <1>10, <1>11, <1>12, Zenon DEF Next, Startup, Committing
-----------------------------------------------------------------------------
(* The invariant of a process that has not stopped.                        *)

FullInv == IInv /\ LostBelowLive /\ TargetsCommitted /\ FirstRunInv

LEMMA InitFull == Init => FullInv
<1> SUFFICES ASSUME Init PROVE FullInv
  BY Zenon
<1>1. IInv
  BY InitTypeOK, InitSInv, Zenon DEF IInv
<1>2. Len(store_applied) = 0 /\ Len(raft_log) = 0 /\ Len(mirror_worker_queue) = 0
  BY Zenon DEF Init
<1>3. LostBelowLive /\ TargetsCommitted
  BY DEF Init, LostBelowLive, TargetsCommitted, NoRead
<1>4. Strict
  BY <1>2 DEF Init, Strict
<1>5. Tokens /\ Results
  BY <1>2 DEF Init, Tokens, Results, NoRequest, NoResults, Active, Sent
<1>6. AllChunked
  <2>1. \A c \in Clients : Chunks[c] \in Nat \ {0} /\ client[c] = NoRequest
    BY PipelineAssumption, Zenon DEF Init
  <2>2. NoRequest.pc = "idle" /\ Len(NoRequest.own) = 0 /\ Len(NoRequest.got) = 0
    BY Zenon DEF NoRequest
  <2> QED
    BY <1>2, <2>1, <2>2 DEF AllChunked, Chunked
<1>7. AloneAtStart
  BY <1>2 DEF Init, AloneAtStart, NoRequest
<1>8. LiveIndexHonest /\ StrongReadSees
  BY DEF Init, LiveIndexHonest, StrongReadSees, NoRead
<1> QED
  BY <1>1, <1>3, <1>4, <1>5, <1>6, <1>7, <1>8, Zenon DEF FullInv, FirstRunInv

LEMMA NextFull == FullInv /\ [Next]_vars => FullInv'
<1> SUFFICES ASSUME FullInv, [Next]_vars PROVE FullInv'
  BY Zenon
<1>0. IInv /\ TypeOK /\ SInv /\ LostBelowLive /\ TargetsCommitted /\ FirstRunInv
  BY Zenon DEF FullInv, IInv
<1>1. WorkerInLog
  BY <1>0, CoreTypes DEF IInv, TypeOK, InLog, SInv, Ordered, WorkerInLog
<1>2. IInv' /\ TypeOK'
  BY <1>0, <1>1, NextTypeOK, NextIInv, Zenon DEF IInv
<1>3. LostBelowLive' /\ TargetsCommitted'
  BY <1>0, LostBelowLiveStep, TargetsStep, Zenon
<1>4. ASSUME crashes' = 0
      PROVE  crashes = 0 /\ ~Crash
  <2>1. ~Crash
    BY <1>0, <1>4 DEF Crash, TypeOK
  <2>2. UNCHANGED crashes
    BY <2>1, Zenon DEF Next, vars, Startup, OpenSink, initialize_raft_server, Align, GraceElapses, Probe,
           OtherAppend, RaftCommit, Committing, CommitSkip, CommitToSink, CommitIndex,
           enqueue_mirrored_request, Working, WorkerPop, apply_mirrored_request,
           advance_live_product_state_applied_index, store_mirrored_result,
           Writing, allocate_response_token, AppendNotLeader, Submit, AppendFails,
           AppendAccepted, wait_for_mirrored_result, ResultTimeout, Unmoved,
           Reading, ReadBegins, wait_for_live_product_state, ReadTimeout, historyVars
  <2> QED
    BY <1>4, <2>1, <2>2, Zenon
<1>5. ASSUME crashes' = 0
      PROVE  /\ Strict' /\ Tokens' /\ Results' /\ AllChunked' /\ AloneAtStart'
             /\ ~Peers => LiveIndexHonest' /\ StrongReadSees'
  <2>1. /\ Strict /\ Tokens /\ Results /\ AllChunked /\ AloneAtStart /\ ~Crash
        /\ ~Peers => LiveIndexHonest /\ StrongReadSees
    BY <1>0, <1>4, <1>5, Zenon DEF FirstRunInv
  <2>2. Strict' /\ AloneAtStart'
    BY <1>0, <2>1, StrictStep, AloneStep, Zenon
  <2>3. Tokens' /\ Results' /\ AllChunked'
    BY <1>0, <1>1, <1>2, <2>1, RequestInvStep, Zenon DEF RequestInv
  <2>4. ASSUME ~Peers PROVE LiveIndexHonest' /\ StrongReadSees'
    <3>1. CASE OpenSink
      <4>1. kv_applied = 0
        BY <2>1, <3>1, Zenon DEF OpenSink, Strict, Running
      <4> QED
        BY <1>0, <2>1, <2>4, <3>1, <4>1, StrongReadKept DEF OpenSink, LiveIndexHonest
    <3>2. CASE Align
      <4>1. live = 0 /\ last_commit_index = 0
        BY <2>1, <2>4, <3>2, Zenon DEF Align, AloneAtStart
      <4>2. live' = 0
        BY <3>2, <4>1, Zenon DEF Align, Greater
      <4> QED
        BY <1>0, <2>1, <2>4, <4>2, StrongReadKept DEF LiveIndexHonest
    <3> QED
      BY <1>0, <2>1, <2>4, <3>1, <3>2, HonestKept, StrongReadKept, Zenon
  <2> QED
    BY <2>2, <2>3, <2>4, Zenon
<1> QED
  BY <1>2, <1>3, <1>5, Zenon DEF FullInv, FirstRunInv

(* FullInv holds of every reachable state.                                 *)
LEMMA FullInductive == Spec => []FullInv
BY InitFull, NextFull, PTL DEF Spec
-----------------------------------------------------------------------------
(* On every node and over all restarts: once the live index covers only    *)
(* entries whose handler has run, it goes on to until the process starts   *)
(* again.  Neither the commit thread nor the worker moves it too far; what *)
(* can are the two places that set it from the KV sink's index and the     *)
(* commit index, OpenSink and Align.                                       *)
THEOREM PipelineHonestUntilStart ==
    Spec => [][LiveIndexHonest => LiveIndexHonest' \/ OpenSink \/ Align]_vars
<1>1. FullInv /\ [Next]_vars => [LiveIndexHonest => LiveIndexHonest' \/ OpenSink \/ Align]_vars
  BY HonestKept, Zenon DEF FullInv
<1> QED
  BY <1>1, FullInductive, PTL DEF Spec

(* On every node: while the live index is honest, no step makes a strong   *)
(* read that did not time out miss a write committed before it began.      *)
THEOREM PipelineStrongReadsKept ==
    Spec => [][LiveIndexHonest /\ StrongReadSees => StrongReadSees']_vars
<1>1. FullInv /\ [Next]_vars => [LiveIndexHonest /\ StrongReadSees => StrongReadSees']_vars
  BY StrongReadKept, Zenon DEF FullInv
<1> QED
  BY <1>1, FullInductive, PTL DEF Spec

(* On a node without peers, until it is stopped, the live index covers     *)
(* only entries whose handler has run.                                     *)
THEOREM PipelineLiveIndexHonest == Spec => [](~Peers /\ crashes = 0 => LiveIndexHonest)
<1>1. FullInv => (~Peers /\ crashes = 0 => LiveIndexHonest)
  BY Zenon DEF FullInv, FirstRunInv
<1> QED
  BY <1>1, FullInductive, PTL

(* There, a strong read that did not time out sees every write that was    *)
(* committed on the node when the read began.                              *)
THEOREM PipelineStrongReadSees == Spec => [](~Peers /\ crashes = 0 => StrongReadSees)
<1>1. FullInv => (~Peers /\ crashes = 0 => StrongReadSees)
  BY Zenon DEF FullInv, FirstRunInv
<1> QED
  BY <1>1, FullInductive, PTL

(* With and without peers, until the process stops, a write handler is     *)
(* given the answers to its own entries in the order of its chunks, and    *)
(* never that of another request: no token is in use twice.                *)
THEOREM PipelineOwnResponse == Spec => [](crashes = 0 => OwnResponse)
<1>1. ASSUME FullInv, crashes = 0, NEW c \in Clients
      PROVE  IsPrefix(client[c].got, client[c].own)
  <2>1. /\ Chunked(client[c], Chunks[c], Applied, Len(raft_log))
        /\ client[c] \in ClientState
    BY <1>1, Zenon DEF FullInv, FirstRunInv, AllChunked, IInv, TypeOK
  <2>2. Len(client[c].got) \in Nat /\ Len(client[c].own) \in Nat
    BY <2>1 DEF ClientState
  <2>3. Len(client[c].got) <= Len(client[c].own)
    <3>1. CASE Len(client[c].got) = 0
      BY <2>2, <3>1
    <3>2. CASE Len(client[c].got) # 0
      <4>1. Len(client[c].got) \in 1..Len(client[c].got)
        BY <2>2, <3>2
      <4> QED
        BY <2>1, <4>1, Zenon DEF Chunked
    <3> QED
      BY <3>1, <3>2, Zenon
  <2> QED
    BY <2>1, <2>3, Zenon DEF Chunked, IsPrefix
<1>2. FullInv => (crashes = 0 => OwnResponse)
  BY <1>1, Zenon DEF OwnResponse
<1> QED
  BY <1>2, FullInductive, PTL

(* With and without peers, until the process stops, a request that was     *)
(* answered has all its chunks in the product state, run in the order of   *)
(* the chunks.                                                             *)
THEOREM PipelineAckedMeansApplied == Spec => [](crashes = 0 => AckedMeansApplied)
<1>1. ASSUME FullInv, crashes = 0, NEW c \in Clients, client[c].pc = "done"
      PROVE  /\ Len(client[c].own) = Chunks[c]
             /\ \A k \in 1..Chunks[c] :
                    \E p \in DOMAIN store_applied :
                        /\ store_applied[p] = client[c].own[k]
                        /\ k > 1 => client[c].own[k - 1] \in {store_applied[q] : q \in 1..(p - 1)}
  <2> DEFINE own == client[c].own
  <2>0. /\ Chunked(client[c], Chunks[c], Applied, Len(raft_log)) /\ Strict /\ TypeOK
        /\ Chunks[c] \in Nat /\ Len(store_applied) \in Nat
        /\ DOMAIN store_applied = 1..Len(store_applied)
        /\ \A p \in 1..Len(store_applied) : store_applied[p] \in Nat
        /\ own \in Seq(Nat)
    <3>1. TypeOK /\ Strict /\ AllChunked
      BY <1>1, Zenon DEF FullInv, FirstRunInv, IInv
    <3>2. client[c] \in ClientState /\ Chunks[c] \in Nat
      BY <3>1, PipelineAssumption, Zenon DEF TypeOK
    <3>3. DOMAIN store_applied = 1..Len(store_applied)
      BY <3>1 DEF TypeOK
    <3> QED
      BY <3>1, <3>2, <3>3, CoreTypes, Zenon DEF AllChunked, ClientState
  <2>1. Len(own) = Chunks[c] /\ Len(client[c].got) = Chunks[c]
    BY <1>1, <2>0, Zenon DEF Chunked
  <2>2. \A k \in 1..Chunks[c] : own[k] \in Applied
    BY <2>0, <2>1, Zenon DEF Chunked
  <2>3. \A k \in 1..Chunks[c] : \E p \in 1..Len(store_applied) : store_applied[p] = own[k]
    BY <2>0, <2>2, Zenon DEF Applied
  <2>4. ASSUME NEW k \in 1..Chunks[c]
        PROVE  \E p \in DOMAIN store_applied :
                   /\ store_applied[p] = own[k]
                   /\ k > 1 => own[k - 1] \in {store_applied[q] : q \in 1..(p - 1)}
    <3>1. PICK p \in 1..Len(store_applied) : store_applied[p] = own[k]
      BY <2>3, Zenon
    <3>2. ASSUME k > 1 PROVE own[k - 1] \in {store_applied[q] : q \in 1..(p - 1)}
      <4>1. k - 1 \in 1..Chunks[c] /\ k - 1 < k
        BY <2>0, <3>2
      <4>2. PICK q \in 1..Len(store_applied) : store_applied[q] = own[k - 1]
        BY <2>3, <4>1, Zenon
      <4>3. own[k - 1] < own[k]
        BY <2>0, <2>1, <4>1, Zenon DEF Chunked
      <4>4. q < p
        <5>1. store_applied[q] < store_applied[p]
          BY <3>1, <4>2, <4>3, Zenon
        <5>2. store_applied[q] \in Nat /\ store_applied[p] \in Nat
          BY <2>0, Zenon
        <5>3. p < q => store_applied[p] < store_applied[q]
          BY <2>0, Zenon DEF Strict
        <5> QED
          BY <5>1, <5>2, <5>3
      <4>5. q \in 1..(p - 1)
        BY <4>4
      <4> QED
        BY <4>2, <4>5, Zenon
    <3> QED
      BY <2>0, <3>1, <3>2, Zenon
  <2> QED
    BY <2>1, <2>4, Zenon
<1>2. FullInv => (crashes = 0 => AckedMeansApplied)
  BY <1>1, Zenon DEF AckedMeansApplied
<1> QED
  BY <1>2, FullInductive, PTL
-----------------------------------------------------------------------------
(* The refinement of ProductLog.                                           *)

committedLog == [i \in 1..raft_commit |-> Mirrored(i)]

(* A commit of the cluster is a commit of the abstract log.                *)
LEMMA CommitImplements ==
    ASSUME TypeOK, RaftCommit
    PROVE  Product!Commit
<1> DEFINE n == raft_commit
           m == Mirrored(n + 1)
<1>1. /\ n \in Nat /\ raft_commit' = n + 1 /\ UNCHANGED <<raft_log, store_applied>>
  BY Zenon DEF TypeOK, RaftCommit, durableVars
<1>2. committedLog \in Seq(BOOLEAN) /\ Len(committedLog) = n
  <2>1. \A i \in 1..n : Mirrored(i) \in BOOLEAN
    BY DEF Mirrored
  <2> QED
    BY <1>1, <2>1 DEF committedLog
<1>3. m \in BOOLEAN
  BY DEF Mirrored
<1>4. committedLog' \in Seq(BOOLEAN) /\ Len(committedLog') = n + 1
  BY <1>1 DEF committedLog, Mirrored
<1>5. committedLog'[n + 1] = m /\ \A i \in 1..n : committedLog'[i] = committedLog[i]
  BY <1>1 DEF committedLog, Mirrored
<1> HIDE DEF n, m
<1>6. committedLog' = Append(committedLog, m)
  <2>1. /\ Append(committedLog, m) \in Seq(BOOLEAN)
        /\ Len(Append(committedLog, m)) = n + 1
        /\ \A i \in 1..n : Append(committedLog, m)[i] = committedLog[i]
        /\ Append(committedLog, m)[n + 1] = m
    BY <1>2, <1>3, AppendIs
  <2>2. \A i \in 1..(n + 1) : i \in 1..n \/ i = n + 1
    BY <1>1
  <2>3. \A i \in 1..(n + 1) : committedLog'[i] = Append(committedLog, m)[i]
    BY <1>5, <2>1, <2>2, Zenon
  <2> QED
    BY <1>4, <2>1, <2>3, SameSeq, Zenon
<1> QED
  BY <1>1, <1>3, <1>6, Zenon DEF Product!Commit, committedLog

(* The worker's handler call is a run of the abstract log: the entry is    *)
(* the first one that has not been run.                                    *)
LEMMA RunImplements ==
    ASSUME IInv, Strict, apply_mirrored_request
    PROVE  Product!Run
<1> DEFINE x == worker.idx
<1>0. /\ TypeOK /\ SInv /\ raft_commit \in Nat /\ worker.pc = "popped"
      /\ x \in MIdx /\ x \in Nat /\ x <= sm_commit /\ sm_commit \in Nat
      /\ sm_commit <= raft_commit
      /\ DOMAIN store_applied = 1..Len(store_applied)
      /\ \A p \in 1..Len(store_applied) : store_applied[p] \in Nat
      /\ \A p \in 1..Len(store_applied) : store_applied[p] < x
      /\ lost = {} /\ Running
  <2>1. TypeOK /\ SInv /\ worker.pc = "popped"
    BY Zenon DEF IInv, apply_mirrored_request
  <2>2. /\ x \in MIdx /\ x \in Nat /\ x <= sm_commit /\ sm_commit <= raft_commit /\ Running
        /\ sm_commit \in Nat /\ raft_commit \in Nat
    <3>1. Ordered
      BY <2>1, Zenon DEF SInv
    <3> QED BY <2>1, <3>1, CoreTypes, Zenon DEF Ordered
  <2>3. /\ \A p \in 1..Len(store_applied) : store_applied[p] \in Nat
        /\ DOMAIN store_applied = 1..Len(store_applied)
    <3>1. store_applied \in Seq(Nat)
      BY <2>1, Zenon DEF TypeOK
    <3> QED BY <3>1
  <2>4. lost = {} /\ \A p \in 1..Len(store_applied) : store_applied[p] < x
    BY <2>1, Zenon DEF Strict
  <2> QED BY <2>1, <2>2, <2>3, <2>4, Zenon
<1>1. UNCHANGED <<raft_log, raft_commit>> /\ store_applied' = Append(store_applied, x)
  BY Zenon DEF apply_mirrored_request, raftVars
<1>2. committedLog' = committedLog
  BY <1>1, Zenon DEF committedLog, Mirrored
<1>3. /\ DOMAIN committedLog = 1..raft_commit
      /\ \A i \in 1..raft_commit : committedLog[i] = Mirrored(i)
  BY Zenon DEF committedLog
<1>4. \A i : i \in Product!Pending <=>
          i \in MIdx /\ \A p \in 1..Len(store_applied) : ~(store_applied[p] >= i)
  BY <1>0, <1>3, Zenon DEF Product!Pending, Product!Ran, committedLog, MIdx
<1>5. x \in Product!Pending
  BY <1>0, <1>4
<1>6. ASSUME NEW j \in Product!Pending PROVE x <= j
  <2> SUFFICES ASSUME ~(x <= j) PROVE FALSE
    BY Zenon
  <2>1. /\ j \in MIdx /\ j \in Nat /\ j < x /\ j <= sm_commit
        /\ \A p \in 1..Len(store_applied) : ~(store_applied[p] >= j)
    BY <1>0, <1>4, CoreTypes
  <2>2. j \in Applied \cup InFlight
    BY <1>0, <2>1, Zenon DEF SInv, Accounted
  <2>3. j \notin Applied
    <3>1. ASSUME NEW p \in 1..Len(store_applied), j = store_applied[p] PROVE FALSE
      BY <2>1, <3>1
    <3>2. Applied = {store_applied[p] : p \in 1..Len(store_applied)}
      BY <1>0, Zenon DEF Applied
    <3> QED BY <3>1, <3>2, Zenon
  <2>4. j \notin Queued
    <3> SUFFICES ASSUME NEW p \in 1..Len(mirror_worker_queue), j = mirror_worker_queue[p]
                 PROVE  FALSE
      BY <1>0 DEF Queued, TypeOK
    <3>1. x < mirror_worker_queue[p]
      BY <1>0, Zenon DEF SInv, Ordered
    <3> QED
      BY <1>0, <2>1, <3>1
  <2>5. j # x /\ j # sm_commit + 1
    BY <1>0, <2>1
  <2> QED
    BY <2>2, <2>3, <2>4, <2>5, Zenon DEF InFlight
<1> QED
  BY <1>1, <1>2, <1>5, <1>6, Zenon DEF Product!Run, committedLog

(* Every other step stutters.                                              *)
LEMMA StepImplements ==
    ASSUME IInv, Strict, [Next]_vars, ~Crash
    PROVE  [Product!Commit \/ Product!Run]_<<committedLog, store_applied>>
<1>0. TypeOK /\ InLog /\ raft_commit \in Nat /\ Len(raft_log) \in Nat
  BY DEF IInv, TypeOK
<1>1. CASE RaftCommit
  BY <1>0, <1>1, CommitImplements, Zenon
<1>2. CASE apply_mirrored_request
  BY <1>2, RunImplements, Zenon
<1>3. ASSUME UNCHANGED <<raft_commit, store_applied>>
      PROVE  UNCHANGED <<committedLog, store_applied>>
  <2>1. \A i \in 1..raft_commit : raft_log'[i] = raft_log[i]
    BY <1>0, LogGrows DEF InLog
  <2>2. committedLog' = committedLog
    BY <1>3, <2>1, Zenon DEF committedLog, Mirrored
  <2> QED
    BY <1>3, <2>2, Zenon
<1>4. RaftCommit \/ apply_mirrored_request \/ UNCHANGED <<raft_commit, store_applied>>
  BY Zenon DEF Next, vars, Startup, OpenSink, initialize_raft_server, Align, GraceElapses, Probe,
         OtherAppend, Committing, CommitSkip, CommitToSink, CommitIndex,
         enqueue_mirrored_request, Working, WorkerPop,
         advance_live_product_state_applied_index, store_mirrored_result,
         Writing, allocate_response_token, AppendNotLeader, Submit, AppendFails,
         AppendAccepted, wait_for_mirrored_result, ResultTimeout, Unmoved,
         Reading, ReadBegins, wait_for_live_product_state, ReadTimeout, raftVars, durableVars
<1> QED
  BY <1>1, <1>2, <1>3, <1>4, Zenon

(* The write path of a node that is never stopped implements ProductLog:   *)
(* the product handlers run the committed log in log order, every entry    *)
(* once and none left out, whatever the threads and the other nodes do.    *)
THEOREM PipelineImplementsProductLog ==
    ASSUME MaxCrashes = 0
    PROVE  Spec => ImplementsProductLog
<1>1. Init => Product!Init
  BY DEF Init, Product!Init
<1>2. FullInv /\ [Next]_vars => [Product!Commit \/ Product!Run]_<<committedLog, store_applied>>
  <2> SUFFICES ASSUME FullInv, [Next]_vars
               PROVE  [Product!Commit \/ Product!Run]_<<committedLog, store_applied>>
    BY Zenon
  <2>1. crashes = 0 /\ IInv
    BY DEF FullInv, IInv, TypeOK
  <2>2. ~Crash /\ Strict
    BY <2>1 DEF Crash, FullInv, FirstRunInv
  <2> QED
    BY <2>1, <2>2, StepImplements, Zenon
<1> QED
  BY <1>1, <1>2, FullInductive, PTL DEF Spec, ImplementsProductLog, Product!Spec, committedLog
=============================================================================
