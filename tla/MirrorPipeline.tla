--------------------------- MODULE MirrorPipeline ---------------------------
(***************************************************************************)
(* One node's write path, from an HTTP write to the product state.         *)
(*                                                                         *)
(* A write takes a response token and is appended to the Raft log.  The    *)
(* NuRaft commit thread hands every committed entry to                     *)
(* TypesenseStateMachine::commit, which writes it to the KV sink (durable),*)
(* moves last_commit_index_ and calls back into the runtime, which pushes  *)
(* the entry on an in-memory queue.  The mirror worker pops the queue,     *)
(* runs the product handler (durable: the main store has its WAL on),      *)
(* advances live_product_state_applied_index_ and leaves the handler's     *)
(* answer under the token, where the write handler is waiting for it.      *)
(* Strong reads wait for the live index to reach the commit index.         *)
(*                                                                         *)
(* The process can stop at any point.  Nothing drains the queue on the way *)
(* out (shutdown() has no caller), so every stop is a Crash; a restart     *)
(* runs initialize again over the two durable stores.                      *)
(*                                                                         *)
(* External, modelled from its use: the Raft library with the other nodes  *)
(* (raft_log, raft_commit, sm_commit) and the clients.                     *)
(***************************************************************************)
EXTENDS Integers, Sequences, FiniteSets, Materialization

CONSTANTS
    Clients,        \* write requests; each is one HTTP request
    Readers,        \* strong readers
    Chunks,         \* Clients -> the number of log entries the request makes:
                    \* 1, or more for a document import cut in chunks
    Peers,          \* BOOLEAN: the bootstrap configuration names other nodes
    Kinds,          \* the kinds of entries that occur, a subset of AllKinds
    kMaxRetries,    \* of append_via_raft
    MaxLog,         \* bound: the length of the Raft log
    MaxCrashes      \* bound: how often the process stops

(* ok: everything accepts it; refused: the product handler answers an      *)
(* error; kvfail: the KV sink cannot apply it; bad: the envelope or the    *)
(* request does not decode; conf: a cluster configuration of the library.  *)
AllKinds == {"ok", "refused", "kvfail", "bad", "conf"}

ASSUME PipelineAssumption ==
    /\ Peers \in BOOLEAN
    /\ Kinds \subseteq AllKinds
    /\ Chunks \in [Clients -> Nat \ {0}]
    /\ kMaxRetries \in Nat
    /\ MaxLog \in Nat
    /\ MaxCrashes \in Nat

VARIABLES
    raft_log,            \* external: the entries of the Raft log of this node
    raft_commit,         \* external: the index the cluster has committed
    kv_applied,          \* durable: the last applied index of the KV sink
    store_applied,       \* durable: the entries whose handler ran, in order
    boot,                \* "down", "sink", "raft", "up": how far initialize is
    sm_commit,           \* external: NuRaft's sm_commit_index_
    commit_pc,           \* where the commit thread is in commit()
    last_commit_index,   \* last_commit_index_ of the state machine
    mirror_worker_queue, \* mirror_worker_queue_
    worker,              \* the mirror worker: [pc, idx]
    live,                \* live_product_state_applied_index_
    mirrored_results,    \* mirrored_results_: token -> entry that answered
    next_response_token, \* next_response_token_
    startup,             \* startup_materialization_*_: [tracking, pending, base, grace]
    client,              \* the write handlers, see NoRequest
    reader,              \* the strong reads: [pc, target]
    crashes,             \* history: how often the process stopped
    lost                 \* history: what a stop took from the queue for good

raftVars == <<raft_log, raft_commit>>
durableVars == <<kv_applied, store_applied>>
commitVars == <<sm_commit, commit_pc, last_commit_index>>
workerVars == <<mirror_worker_queue, worker, live, mirrored_results>>
historyVars == <<crashes, lost>>
vars == <<raftVars, durableVars, boot, commitVars, workerVars,
          next_response_token, startup, client, reader, historyVars>>

Mirrored(i) == raft_log[i].kind \in {"ok", "refused", "kvfail"}

Applied == {store_applied[p] : p \in DOMAIN store_applied}

IsPrefix(s, t) == Len(s) <= Len(t) /\ \A k \in 1..Len(s) : s[k] = t[k]

(* A write handler that has not started.  own are the log indices of the   *)
(* chunks it appended, got the entries whose answers it was given.         *)
NoRequest == [pc |-> "idle", attempt |-> 0, token |-> 0, own |-> <<>>, got |-> <<>>]

NoRead == [pc |-> "idle", target |-> 0]

NoResults == [t \in {} |-> 0]
-----------------------------------------------------------------------------
(* Startup tracking.  No snapshot is applied here (see SnapshotInstall),   *)
(* so no reload is ever pending.                                           *)

(* What is_catching_up() or is_receiving_snapshot() may answer.            *)
Recovering == IF Peers /\ boot \in {"raft", "up"} THEN BOOLEAN ELSE {FALSE}

(* is_materialization_ready, after its refresh.                            *)
is_materialization_ready(s, rec) ==
    /\ boot = "up"
    /\ ~rec
    /\ s.pending => kv_applied <= live

(* kStartupMaterializationGraceMs pass after the start of the tracking.    *)
GraceElapses ==
    /\ boot # "down"
    /\ startup.grace = "running"
    /\ startup' = [startup EXCEPT !.grace = "over"]
    /\ UNCHANGED <<raftVars, durableVars, boot, commitVars, workerVars,
                   next_response_token, client, reader, historyVars>>

(* /health, /status and the read admission ask is_materialization_ready.   *)
Probe ==
    /\ boot = "up"
    /\ \E rec \in Recovering :
           startup' = Refresh(startup, rec, kv_applied, live, sm_commit)
    /\ UNCHANGED <<raftVars, durableVars, boot, commitVars, workerVars,
                   next_response_token, client, reader, historyVars>>
-----------------------------------------------------------------------------
(* initialize, in the three parts between which the other threads run.     *)

(* The KV sink is opened, the live index set to what it has applied, the   *)
(* startup tracking armed for a node that starts empty among peers, and    *)
(* the mirror worker started.                                              *)
OpenSink ==
    /\ boot = "down"
    /\ boot' = "sink"
    /\ live' = kv_applied
    /\ LET empty == Peers /\ kv_applied = 0
       IN  startup' = [tracking |-> empty, pending |-> empty, base |-> kv_applied,
                       grace |-> IF empty THEN "running" ELSE "unset"]
    /\ UNCHANGED <<raftVars, durableVars, commitVars, mirror_worker_queue, worker,
                   mirrored_results, next_response_token, client, reader, historyVars>>

(* Mutant: the commit index is not recovered from the KV sink.             *)
ReplayFromScratch ==
    /\ boot = "sink"
    /\ boot' = "raft"
    /\ last_commit_index' = 0
    /\ sm_commit' = 0
    /\ UNCHANGED <<raftVars, durableVars, commit_pc, workerVars,
                   next_response_token, startup, client, reader, historyVars>>

(* initialize_raft_server: the state machine recovers its commit index     *)
(* from the KV sink, and from there the library resumes committing.        *)
initialize_raft_server ==
    /\ boot = "sink"
    /\ boot' = "raft"
    /\ last_commit_index' = kv_applied
    /\ sm_commit' = kv_applied
    /\ UNCHANGED <<raftVars, durableVars, commit_pc, workerVars,
                   next_response_token, startup, client, reader, historyVars>>

(* The rest of initialize: a node that is not tracking its startup aligns  *)
(* the live index to the state machine's.  From here requests are served.  *)
Align ==
    /\ boot = "raft"
    /\ boot' = "up"
    /\ \E rec, again \in Recovering :
         LET aligned == Greater(live, last_commit_index)
             moved   == IF aligned > live
                        THEN Refresh(startup, rec, kv_applied, aligned, sm_commit)
                        ELSE startup
         IN  IF startup.tracking
             THEN /\ startup' = Refresh(startup, again, kv_applied, live, sm_commit)
                  /\ UNCHANGED live
             ELSE /\ startup' = Refresh([moved EXCEPT !.base = aligned],
                                        again, kv_applied, aligned, sm_commit)
                  /\ live' = aligned
    /\ UNCHANGED <<raftVars, durableVars, commitVars, mirror_worker_queue, worker,
                   mirrored_results, next_response_token, client, reader, historyVars>>

(* The process stops.  What is in memory is gone, requests in flight are   *)
(* cut off; what the KV sink has applied and no handler has run is lost.   *)
Crash ==
    /\ boot # "down"
    /\ crashes < MaxCrashes
    /\ crashes' = crashes + 1
    /\ lost' = lost \cup {i \in 1..kv_applied : Mirrored(i) /\ i \notin Applied}
    /\ boot' = "down"
    /\ sm_commit' = 0
    /\ commit_pc' = "idle"
    /\ last_commit_index' = 0
    /\ mirror_worker_queue' = <<>>
    /\ worker' = [pc |-> "idle", idx |-> 0]
    /\ live' = 0
    /\ mirrored_results' = NoResults
    /\ next_response_token' = 1
    /\ client' = [c \in Clients |->
                     IF client[c] = NoRequest \/ client[c].pc \in {"done", "failed"}
                     THEN client[c] ELSE [client[c] EXCEPT !.pc = "failed"]]
    /\ reader' = [r \in Readers |-> NoRead]
    /\ UNCHANGED <<raftVars, durableVars, startup>>
-----------------------------------------------------------------------------
(* The Raft library: other nodes' writes and configurations enter the log, *)
(* and the commit index moves.                                             *)

OtherAppend(kind, token) ==
    /\ Peers \/ (kind = "conf" /\ boot \in {"raft", "up"})
    /\ Len(raft_log) < MaxLog
    /\ raft_log' = Append(raft_log, [kind |-> kind, self |-> FALSE, token |-> token])
    /\ UNCHANGED <<raft_commit, durableVars, boot, commitVars, workerVars,
                   next_response_token, startup, client, reader, historyVars>>

RaftCommit ==
    /\ raft_commit < Len(raft_log)
    /\ Peers \/ boot \in {"raft", "up"}
    /\ raft_commit' = raft_commit + 1
    /\ UNCHANGED <<raft_log, durableVars, boot, commitVars, workerVars,
                   next_response_token, startup, client, reader, historyVars>>
-----------------------------------------------------------------------------
(* The commit thread, over the entry after sm_commit.                      *)

CommitReady ==
    /\ boot \in {"raft", "up"}
    /\ commit_pc = "idle"
    /\ sm_commit < raft_commit

(* An entry that commit() never sees, or gives up on while decoding: then  *)
(* only last_commit_index_ moves and nothing is mirrored.                  *)
CommitSkip ==
    /\ CommitReady
    /\ ~Mirrored(sm_commit + 1)
    /\ sm_commit' = sm_commit + 1
    /\ last_commit_index' = IF raft_log[sm_commit + 1].kind = "bad"
                            THEN sm_commit + 1 ELSE last_commit_index
    /\ UNCHANGED <<raftVars, durableVars, boot, commit_pc, workerVars,
                   next_response_token, startup, client, reader, historyVars>>

(* kv_sink_->apply_all: one write batch with the applied key; a failure is *)
(* logged and otherwise ignored.                                           *)
CommitToSink ==
    /\ CommitReady
    /\ Mirrored(sm_commit + 1)
    /\ kv_applied' = IF raft_log[sm_commit + 1].kind = "kvfail"
                     THEN kv_applied ELSE sm_commit + 1
    /\ commit_pc' = "applied"
    /\ UNCHANGED <<raftVars, store_applied, boot, sm_commit, last_commit_index,
                   workerVars, next_response_token, startup, client, reader, historyVars>>

CommitIndex ==
    /\ commit_pc = "applied"
    /\ commit_pc' = "indexed"
    /\ last_commit_index' = sm_commit + 1
    /\ UNCHANGED <<raftVars, durableVars, boot, sm_commit, workerVars,
                   next_response_token, startup, client, reader, historyVars>>

(* commit_callback_: refresh, then enqueue_mirrored_request.               *)
enqueue_mirrored_request ==
    /\ commit_pc = "indexed"
    /\ commit_pc' = "idle"
    /\ \E rec \in Recovering :
           startup' = Refresh(startup, rec, kv_applied, live, sm_commit)
    /\ mirror_worker_queue' = Append(mirror_worker_queue, sm_commit + 1)
    /\ sm_commit' = sm_commit + 1
    /\ UNCHANGED <<raftVars, durableVars, boot, last_commit_index, worker, live,
                   mirrored_results, next_response_token, client, reader, historyVars>>
-----------------------------------------------------------------------------
(* mirror_worker_loop.                                                     *)

(* Mutants: the queue is emptied with the pop; it is popped at the back;   *)
(* the live index moves before the handler has run.                        *)
WorkerPopClears ==
    /\ worker.pc = "idle"
    /\ mirror_worker_queue # <<>>
    /\ worker' = [pc |-> "popped", idx |-> Head(mirror_worker_queue)]
    /\ mirror_worker_queue' = <<>>
    /\ UNCHANGED <<raftVars, durableVars, boot, commitVars, live, mirrored_results,
                   next_response_token, startup, client, reader, historyVars>>

WorkerPopBack ==
    /\ worker.pc = "idle"
    /\ mirror_worker_queue # <<>>
    /\ LET n == Len(mirror_worker_queue)
       IN  /\ worker' = [pc |-> "popped", idx |-> mirror_worker_queue[n]]
           /\ mirror_worker_queue' = SubSeq(mirror_worker_queue, 1, n - 1)
    /\ UNCHANGED <<raftVars, durableVars, boot, commitVars, live, mirrored_results,
                   next_response_token, startup, client, reader, historyVars>>

WorkerPopAdvances ==
    /\ worker.pc = "idle"
    /\ mirror_worker_queue # <<>>
    /\ worker' = [pc |-> "popped", idx |-> Head(mirror_worker_queue)]
    /\ mirror_worker_queue' = Tail(mirror_worker_queue)
    /\ live' = Greater(live, Head(mirror_worker_queue))
    /\ UNCHANGED <<raftVars, durableVars, boot, commitVars, mirrored_results,
                   next_response_token, startup, client, reader, historyVars>>

WorkerPop ==
    /\ worker.pc = "idle"
    /\ mirror_worker_queue # <<>>
    /\ worker' = [pc |-> "popped", idx |-> Head(mirror_worker_queue)]
    /\ mirror_worker_queue' = Tail(mirror_worker_queue)
    /\ UNCHANGED <<raftVars, durableVars, boot, commitVars, live, mirrored_results,
                   next_response_token, startup, client, reader, historyVars>>

(* Every replicated route is a registered mirror-worker route, so the      *)
(* handler always runs; whether it accepts the request is the entry's kind.*)
apply_mirrored_request ==
    /\ worker.pc = "popped"
    /\ worker' = [worker EXCEPT !.pc = "applied"]
    /\ store_applied' = Append(store_applied, worker.idx)
    /\ UNCHANGED <<raftVars, kv_applied, boot, commitVars, mirror_worker_queue, live,
                   mirrored_results, next_response_token, startup, client, reader,
                   historyVars>>

advance_live_product_state_applied_index ==
    /\ worker.pc = "applied"
    /\ worker' = [worker EXCEPT !.pc = "advanced"]
    /\ live' = Greater(live, worker.idx)
    /\ \E rec \in Recovering :
           startup' = IF live < worker.idx
                      THEN Refresh(startup, rec, kv_applied, worker.idx, sm_commit)
                      ELSE startup
    /\ UNCHANGED <<raftVars, durableVars, boot, commitVars, mirror_worker_queue,
                   mirrored_results, next_response_token, client, reader, historyVars>>

(* Only the node a request came in on keeps its answer.                    *)
store_mirrored_result ==
    LET e == raft_log[worker.idx]
    IN  /\ worker.pc = "advanced"
        /\ worker' = [pc |-> "idle", idx |-> 0]
        /\ mirrored_results' =
               IF e.token # 0 /\ e.self
               THEN [t \in DOMAIN mirrored_results \cup {e.token} |->
                         IF t = e.token THEN worker.idx ELSE mirrored_results[t]]
               ELSE mirrored_results
        /\ UNCHANGED <<raftVars, durableVars, boot, commitVars, mirror_worker_queue, live,
                       next_response_token, startup, client, reader, historyVars>>
-----------------------------------------------------------------------------
(* write and process_document_import_write.                                *)

Unmoved == <<kv_applied, store_applied, raft_commit, boot, commitVars, mirror_worker_queue,
             worker, live, startup, reader, historyVars>>

(* Mutant: the token is read and not taken.                                *)
TokenNotTaken(c) ==
    /\ boot = "up"
    /\ client[c].pc = "idle"
    /\ client' = [client EXCEPT ![c] = [@ EXCEPT !.pc = "append", !.attempt = 0,
                                                !.token = next_response_token]]
    /\ UNCHANGED <<Unmoved, raft_log, mirrored_results, next_response_token>>

(* The request (or its next chunk) takes a token and is built.             *)
allocate_response_token(c) ==
    /\ boot = "up"
    /\ client[c].pc = "idle"
    /\ client' = [client EXCEPT ![c] = [@ EXCEPT !.pc = "append", !.attempt = 0,
                                                !.token = next_response_token]]
    /\ next_response_token' = next_response_token + 1
    /\ UNCHANGED <<Unmoved, raft_log, mirrored_results>>

(* append_entries answers NOT_LEADER: nothing was appended, try again or   *)
(* give up.                                                                *)
AppendNotLeader(c) ==
    /\ Peers
    /\ client[c].pc = "append"
    /\ client' = [client EXCEPT ![c] =
                     IF @.attempt = kMaxRetries
                     THEN [@ EXCEPT !.pc = "failed"]
                     ELSE [@ EXCEPT !.attempt = client[c].attempt + 1]]
    /\ UNCHANGED <<Unmoved, raft_log, mirrored_results, next_response_token>>

(* The entry reaches the log of the leader.                                *)
Submit(c, kind) ==
    /\ client[c].pc = "append"
    /\ Len(raft_log) < MaxLog
    /\ raft_log' = Append(raft_log, [kind |-> kind, self |-> TRUE, token |-> client[c].token])
    /\ client' = [client EXCEPT ![c] = [@ EXCEPT !.pc = "submitted",
                                                !.own = Append(client[c].own, Len(raft_log) + 1)]]
    /\ UNCHANGED <<Unmoved, mirrored_results, next_response_token>>

(* append_entries fails with another code (a timeout, a lost leadership):  *)
(* the write is answered with an error although its entry may be or become *)
(* committed.                                                              *)
AppendFails(c) ==
    /\ client[c].pc \in {"append", "submitted"}
    /\ client' = [client EXCEPT ![c].pc = "failed"]
    /\ UNCHANGED <<Unmoved, raft_log, mirrored_results, next_response_token>>

(* Mutant: the write is answered when Raft accepts it.                     *)
AnswerOnCommit(c) ==
    LET idx == client[c].own[Len(client[c].own)]
    IN  /\ client[c].pc = "submitted"
        /\ IF Peers THEN idx <= raft_commit ELSE idx <= sm_commit
        /\ client' = [client EXCEPT ![c].pc = "done"]
        /\ UNCHANGED <<Unmoved, raft_log, mirrored_results, next_response_token>>

(* append_entries accepts: the leader has run commit() on the entry, this  *)
(* node, when it forwarded the request, not yet.  The wait for the         *)
(* predecessors that follows goes on after 5 s whatever the live index is, *)
(* so it only lets time pass.                                              *)
AppendAccepted(c) ==
    LET idx == client[c].own[Len(client[c].own)]
    IN  /\ client[c].pc = "submitted"
        /\ IF Peers THEN idx <= raft_commit ELSE idx <= sm_commit
        /\ client' = [client EXCEPT ![c].pc = "result"]
        /\ UNCHANGED <<Unmoved, raft_log, mirrored_results, next_response_token>>

(* wait_for_mirrored_result finds an answer under the token, and takes it. *)
(* A refused import chunk ends the request; else the next chunk follows.   *)
wait_for_mirrored_result(c) ==
    LET token == client[c].token
        idx   == mirrored_results[token]
        more  == Len(client[c].own) < Chunks[c]
    IN  /\ client[c].pc = "result"
        /\ token \in DOMAIN mirrored_results
        /\ mirrored_results' = [t \in DOMAIN mirrored_results \ {token} |-> mirrored_results[t]]
        /\ client' = [client EXCEPT ![c] =
                         [@ EXCEPT !.pc = IF raft_log[idx].kind = "refused" /\ Chunks[c] > 1
                                          THEN "failed" ELSE IF more THEN "idle" ELSE "done",
                                   !.got = Append(client[c].got, idx)]]
        /\ UNCHANGED <<Unmoved, raft_log, next_response_token>>

(* request_timeout_ms pass without an answer.                              *)
ResultTimeout(c) ==
    /\ client[c].pc = "result"
    /\ client[c].token \notin DOMAIN mirrored_results
    /\ client' = [client EXCEPT ![c].pc = "failed"]
    /\ UNCHANGED <<Unmoved, raft_log, mirrored_results, next_response_token>>
-----------------------------------------------------------------------------
(* Strong reads: maybe_wait_before_read and wait_for_live_product_state.   *)

ReadBegins(r) ==
    /\ boot = "up"
    /\ reader[r].pc = "idle"
    /\ reader' = [reader EXCEPT ![r] = [pc |-> "waiting", target |-> last_commit_index]]
    /\ UNCHANGED <<raftVars, durableVars, boot, commitVars, workerVars,
                   next_response_token, startup, client, historyVars>>

(* Mutants: the read waits for one entry less; it waits without deadline.  *)
WaitForOneLess(r) ==
    /\ reader[r].pc = "waiting"
    /\ live + 1 >= reader[r].target
    /\ reader' = [reader EXCEPT ![r].pc = "fresh"]
    /\ UNCHANGED <<raftVars, durableVars, boot, commitVars, workerVars,
                   next_response_token, startup, client, historyVars>>

NoReadTimeout(r) == reader[r].pc = "timeout" /\ UNCHANGED vars

wait_for_live_product_state(r) ==
    /\ reader[r].pc = "waiting"
    /\ live >= reader[r].target
    /\ reader' = [reader EXCEPT ![r].pc = "fresh"]
    /\ UNCHANGED <<raftVars, durableVars, boot, commitVars, workerVars,
                   next_response_token, startup, client, historyVars>>

(* After 5 s the handler runs as well: the result of the wait is ignored.  *)
ReadTimeout(r) ==
    /\ reader[r].pc = "waiting"
    /\ live < reader[r].target
    /\ reader' = [reader EXCEPT ![r].pc = "stale"]
    /\ UNCHANGED <<raftVars, durableVars, boot, commitVars, workerVars,
                   next_response_token, startup, client, historyVars>>
-----------------------------------------------------------------------------
Init ==
    /\ raft_log = <<>>
    /\ raft_commit = 0
    /\ kv_applied = 0
    /\ store_applied = <<>>
    /\ boot = "down"
    /\ sm_commit = 0
    /\ commit_pc = "idle"
    /\ last_commit_index = 0
    /\ mirror_worker_queue = <<>>
    /\ worker = [pc |-> "idle", idx |-> 0]
    /\ live = 0
    /\ mirrored_results = NoResults
    /\ next_response_token = 1
    /\ startup = [tracking |-> FALSE, pending |-> FALSE, base |-> 0, grace |-> "unset"]
    /\ client = [c \in Clients |-> NoRequest]
    /\ reader = [r \in Readers |-> NoRead]
    /\ crashes = 0
    /\ lost = {}

Startup == OpenSink \/ initialize_raft_server \/ Align

Committing == CommitSkip \/ CommitToSink \/ CommitIndex \/ enqueue_mirrored_request

Working ==
    \/ WorkerPop
    \/ apply_mirrored_request
    \/ advance_live_product_state_applied_index
    \/ store_mirrored_result

Writing(c) ==
    \/ allocate_response_token(c)
    \/ AppendNotLeader(c)
    \/ \E kind \in Kinds \ {"bad", "conf"} : Submit(c, kind)
    \/ AppendFails(c)
    \/ AppendAccepted(c)
    \/ wait_for_mirrored_result(c)
    \/ ResultTimeout(c)

Reading(r) == ReadBegins(r) \/ wait_for_live_product_state(r) \/ ReadTimeout(r)

Next ==
    \/ Startup
    \/ GraceElapses
    \/ Probe
    \/ Crash
    \/ \E kind \in Kinds, token \in 0..1 : OtherAppend(kind, token)
    \/ RaftCommit
    \/ Committing
    \/ Working
    \/ \E c \in Clients : Writing(c)
    \/ \E r \in Readers : Reading(r)

Spec == Init /\ [][Next]_vars

(* The threads of the process run: the startup, the commit thread and the  *)
(* worker take their next step, and every wait has a deadline.             *)
FairSpec ==
    /\ Spec
    /\ WF_vars(Startup)
    /\ WF_vars(Committing)
    /\ WF_vars(Working)
    /\ \A c \in Clients : WF_vars(client[c] # NoRequest /\ Writing(c))
    /\ \A r \in Readers : WF_vars(reader[r].pc = "waiting" /\ Reading(r))
-----------------------------------------------------------------------------
ClientState ==
    [pc : {"idle", "append", "submitted", "result", "done", "failed"},
     attempt : 0..kMaxRetries, token : Nat, own : Seq(Nat), got : Seq(Nat)]

ReaderState == [pc : {"idle", "waiting", "fresh", "stale"}, target : Nat]

TypeOK ==
    /\ raft_log \in Seq([kind : AllKinds, self : BOOLEAN, token : Nat])
    /\ raft_commit \in Nat
    /\ kv_applied \in Nat
    /\ store_applied \in Seq(Nat)
    /\ boot \in {"down", "sink", "raft", "up"}
    /\ sm_commit \in Nat
    /\ commit_pc \in {"idle", "applied", "indexed"}
    /\ last_commit_index \in Nat
    /\ mirror_worker_queue \in Seq(Nat)
    /\ worker \in [pc : {"idle", "popped", "applied", "advanced"}, idx : Nat]
    /\ live \in Nat
    /\ DOMAIN mirrored_results \subseteq Nat
    /\ \A t \in DOMAIN mirrored_results : mirrored_results[t] \in Nat
    /\ next_response_token \in Nat
    /\ startup \in StartupState
    /\ client \in [Clients -> ClientState]
    /\ reader \in [Readers -> ReaderState]
    /\ crashes \in 0..MaxCrashes
    /\ lost \in SUBSET Nat

Queued == {mirror_worker_queue[p] : p \in DOMAIN mirror_worker_queue}

(* The entries that are somewhere between the KV sink and the handler.     *)
InFlight ==
    Queued \cup (IF worker.pc = "popped" THEN {worker.idx} ELSE {})
           \cup (IF commit_pc # "idle" THEN {sm_commit + 1} ELSE {})

(* Nothing runs ahead of the cluster: the KV sink, the commit index, the   *)
(* live index and every entry on its way to a handler or already run are   *)
(* at or below the index the cluster has committed.                        *)
OnlyCommitted ==
    /\ raft_commit <= Len(raft_log)
    /\ kv_applied <= raft_commit
    /\ sm_commit <= raft_commit
    /\ last_commit_index <= raft_commit
    /\ live <= raft_commit
    /\ Applied \cup InFlight \cup lost \subseteq 1..raft_commit

(* Once the node has started, an entry the Raft library will not offer     *)
(* again has reached the product state or is on its way: none is dropped   *)
(* between the KV sink and the product handler.  This is what the comment  *)
(* in initialize claims of starting the worker at the KV sink's index.     *)
NoEntryLost ==
    boot \in {"raft", "up"} =>
        \A i \in 1..sm_commit : Mirrored(i) => i \in Applied \cup InFlight

(* live_product_state_applied_index_ covers only entries whose handler has *)
(* run: the strong reads, the predecessor waits and the readiness of the   *)
(* node all rest on it.                                                    *)
LiveIndexHonest ==
    \A i \in 1..live : Mirrored(i) => i \in Applied

(* An entry is lost only by a stop of the process, and then it was in the  *)
(* KV sink already: no interleaving of the commit thread, the worker, the  *)
(* startup and the waiters drops an entry in any other way.                *)
LossOnlyAtCrash ==
    boot \in {"raft", "up"} =>
        \A i \in 1..sm_commit : Mirrored(i) => i \in Applied \cup InFlight \cup lost

(* Handlers run in log order, each entry once, over all restarts; the only *)
(* entries that run again, and then in log order again, are entries the KV *)
(* sink had refused, because commit() ignores the failure.                 *)
ReappliedOnlyRefused ==
    \A p, q \in DOMAIN store_applied :
        p < q /\ store_applied[p] >= store_applied[q] =>
            /\ raft_log[store_applied[p]].kind = "kvfail"
            /\ raft_log[store_applied[q]].kind = "kvfail"

(* A write handler is given the answers to its own entries, chunk by chunk,*)
(* and never that of another request that used the same response token.    *)
OwnResponse ==
    \A c \in Clients : IsPrefix(client[c].got, client[c].own)

(* A request that was answered from the product handler is in the product  *)
(* state with all its chunks, and they were applied in the order of the    *)
(* chunks.                                                                 *)
AckedMeansApplied ==
    \A c \in Clients : client[c].pc = "done" =>
        /\ Len(client[c].own) = Chunks[c]
        /\ \A k \in 1..Chunks[c] :
               \E p \in DOMAIN store_applied :
                   /\ store_applied[p] = client[c].own[k]
                   /\ k > 1 => client[c].own[k - 1] \in {store_applied[q] : q \in 1..(p - 1)}

(* A strong read that did not time out sees every write that was committed *)
(* on this node when the read began.                                       *)
StrongReadSees ==
    \A r \in Readers : reader[r].pc = "fresh" =>
        \A i \in 1..reader[r].target : Mirrored(i) => i \in Applied

(* A wiped follower of a cluster that holds data is not ready before it    *)
(* has materialized any of it, within the grace period.  It does not hold  *)
(* (README, section 3).                                                    *)
WipedFollowerNotReady ==
    /\ Peers
    /\ \E i \in 1..raft_commit : Mirrored(i)
    /\ store_applied = <<>>
    /\ startup.grace = "running"
    => ~is_materialization_ready(Refresh(startup, FALSE, kv_applied, live, sm_commit), FALSE)

(* The write path implements ProductLog: the handlers run the committed    *)
(* log in order and once.                                                  *)
Product == INSTANCE ProductLog
               WITH log <- [i \in 1..raft_commit |-> Mirrored(i)], applied <- store_applied

ImplementsProductLog == Product!Spec

(* Every committed entry that is to be mirrored reaches the product state. *)
EveryCommittedApplied ==
    \A i \in 1..MaxLog :
        (i <= raft_commit /\ Mirrored(i)) ~> (i \in Applied)

(* Every write that was begun is answered, and every strong read served.   *)
EveryRequestAnswered ==
    /\ \A c \in Clients :
           (client[c] # NoRequest) ~> (client[c].pc \in {"done", "failed"})
    /\ \A r \in Readers :
           (reader[r].pc = "waiting") ~> (reader[r].pc \in {"fresh", "stale"})
=============================================================================
