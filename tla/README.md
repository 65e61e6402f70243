# A TLA+ model of the replication core and the write path

This fork of Typesense replaces its former consensus layer by NuRaft. The code
under `src/nuraft` sits between three parties that do not wait for each other:
the Raft library, which commits log entries on a thread of its own; a key-value
sink, which records each committed request durably; and the product (the
collection manager over the main RocksDB store), which a background worker
brings up to date. Most of what can go wrong lies in how far each of the three
has come when the process stops, when a snapshot arrives, or when a request
waits. Around it lie the parts that meet the same threads: the HTTP server that
hands requests to a pool and streams their answers back, the collections whose
documents the worker writes, and the posting lists those writes end up in. These
modules model these parts, TLC checks them on small instances, and TLAPS proves
the central invariants for all instances.

## 1. Inventory

### The replication core (`src/src/nuraft`)

| Part | State | Operations | Who interacts with it |
|---|---|---|---|
| Log store (`typesense_log_store.cpp`) | entries and start index in RocksDB; `start_index_`, `next_index_` in memory | append, write_at, pack, apply_pack, compact, the readers | NuRaft; compact follows every snapshot |
| State machine (`typesense_state_machine.cpp`) | `last_commit_index_`, the incoming snapshot context, the last snapshot | commit, create/apply_snapshot, read/save_logical_snp_obj | NuRaft's commit thread; the sink; the runtime by callbacks |
| KV sink (`nuraft_state_machine_sink.cpp`) | applied requests and materialized documents in RocksDB | apply_all, read_last_applied_index, create_checkpoint | the state machine; startup; lag and readiness |
| Runtime service (`nuraft_http_runtime.cpp`) | mirror queue, `mirrored_results_`, live index, response tokens, startup tracking | initialize, write, import, append_via_raft, mirror_worker_loop, strong reads, readiness, snapshot reload, snapshot scheduler | everything |
| Snapshot coordinator (`nuraft_snapshot_coordinator.cpp`) | descriptor and payloads on disk | create_snapshot, install_snapshot | the state machine, the snapshot endpoint |
| State manager (`typesense_state_manager.cpp`) | term, vote, cluster configuration in files | save_state, save_config, load_config, read_state | NuRaft; install_snapshot removes its files |
| Metadata, identity, bootstrap, initializer, file store | small files replaced atomically | read/write per file, first-start initialization | startup, install_snapshot |
| Envelope, routes, resolver, options | none | encode, decode, classify, resolve, parse | the runtime |

### The product (`src/src`)

| Part | State | Operations | Who interacts with it |
|---|---|---|---|
| HTTP server (`http_server.cpp`, `http_client.cpp`, `http_data.h`, `threadpool.h`) | h2o's connections, the pool's queue, `http_res`, one `res_state` buffer per request, the defer timer | accept, dispatch, stream_response, response_proceed, abort, dispose; libcurl's callbacks | the event loop, pool threads, libcurl |
| Collections (`collection.cpp`) | id keys and documents in the store, the memory index, `num_documents`, striped locks | add_many, remove, removal by filter in batches | the mirror worker, deferred pool calls |
| Posting lists (`posting.cpp`, `posting_list.cpp`) | a compact array, or blocks with `id_block_map` | upsert, erase, conversions; iterators, skips, intersection | index and search |

The rest (search and filters, other index structures, rate limiting, analytics,
conversations and models, text handling, configuration) is not modelled.
`PROJECT.json` lists every part with its files and, where it is not modelled,
the reason. In `MirrorPipeline` a product handler is one opaque step that may
accept or refuse an entry; `CollectionWrites` opens that step for documents.

### What makes it hard

* The KV sink's index is durable when `commit()` returns, the entry is then only
  in an in-memory queue, and the product state follows later. `shutdown()` has
  no caller, so every stop of the process is a crash for that queue.
* Startup, Raft's commit thread and the worker run at the same time and share
  the live index and the startup tracking flags.
* A write waits for its answer under a token while other entries, retries and
  timeouts go on.
* `install_snapshot` replaces four directories one after the other, two of them
  under open RocksDB handles, with the worker still running.
* `save_logical_snp_obj` cannot report an error to the Raft library.
* `compact` deletes entries and moves the start index in two writes.
* A snapshot's descriptor is replaced before its payload exists, and an export
  writes it without the state machine's mutex.
* Installing a snapshot replaces `meta/` with the sender's and then puts the
  node's own files back; the vote is removed and saved again later.
* A pool thread fills the buffer of a response and the event loop reads it
  without a lock; a flag and the order of callbacks keep them apart, while the
  client may go away.
* A delete by filter runs its first batch under the worker's mutex and the others
  outside it; removals do not take the stripes that additions take.
* A posting list updates its chain and its map of last ids in separate steps, and
  changes its form at a threshold.

`PROJECT.json` lists the hazards that matter most at their lines.

## 2. Modules

| Module | Models | Kind |
|---|---|---|
| `LogStore` | the log store, with crashes | component |
| `LogStoreProofs` | theorems on it | proofs |
| `ProductLog` | what the write path promises | abstract specification |
| `Materialization` | `refresh_startup_materialization_state`, shared | operators |
| `MirrorPipeline` | state machine commit, queue, worker, write handlers, strong reads, startup | composition of a node's threads |
| `MirrorPipelineProofs` | theorems on it | proofs |
| `SnapshotInstall` | receiving, installing and reloading a snapshot | composition with commit thread and worker |
| `SnapshotSource` | creating, scheduling, exporting and sending snapshots | composition of scheduler, endpoint, Raft and a transfer |
| `StateFiles` | identity, bootstrap, configuration and vote files | component, with crashes and power loss |
| `StateFilesProofs` | theorems on it | proofs |
| `HttpStream` | requests between event loop, pool and libcurl | composition of threads |
| `HttpStreamProofs` | theorems on it | proofs |
| `CollectionWrites` | writes to one collection | composition of callers |
| `PostingList` | the two forms of a posting list and their readers | data structure against sets |
| `MC...` | instances for TLC | |

### LogStore

`entries` and `meta_start` are the durable keys, `start_index` and `next_index`
the members. Each public method is one action, because it holds the store's
lock; `compact` is two, `compact` and `persist_start_index`, because a crash can
fall between `DeleteRange` and the `Put`. `load_meta` is the constructor. The
readers are operators. An entry is a model value. The caller is the library: it
overwrites only at or above the start index, and packs start at a stored index
or at the next slot.

### MirrorPipeline

| Variable | Code |
|---|---|
| `raft_log`, `raft_commit`, `sm_commit` | the Raft library's log and commit indices (external) |
| `kv_applied` | `read_last_applied_index()` of the KV sink (durable) |
| `store_applied` | the entries whose handler ran against the main store (durable) |
| `boot` | how far `initialize` is: other threads run between its parts |
| `commit_pc`, `last_commit_index` | where `commit()` is, `last_commit_index_` |
| `mirror_worker_queue`, `worker`, `live` | the queue, the worker thread, `live_product_state_applied_index_` |
| `mirrored_results`, `next_response_token` | the answers left for waiting writes |
| `startup` | the `startup_materialization_*_` members |
| `client`, `reader` | one HTTP write (with its import chunks), one strong read |

`commit()` is four steps (`CommitToSink`, `CommitIndex`,
`enqueue_mirrored_request`, and `CommitSkip` for entries that are not mirrored),
the worker is `WorkerPop`, `apply_mirrored_request`,
`advance_live_product_state_applied_index` and `store_mirrored_result`, because
another thread can observe the state between any two of them. Bodies, routes and
answers are abstracted to the kind of an entry: accepted, refused by the
handler, refused by the KV sink, undecodable, or a cluster configuration.

`ProductLog` is the promise: the product state is the committed log, run in
order and once. `ImplementsProductLog` is its specification under the mapping
`log <- ` the committed prefix, `applied <- store_applied`.

### SnapshotInstall

A snapshot is a record of its last log index, the applied index of its
descriptor and the entries its copy of the main store contains; a file is a
sequence of bytes, each the snapshot it came from, so that a hole or a mix is
visible. `save_manifest`, `save_chunk` and `skip_chunk` are the cases of
`save_logical_snp_obj`; `InstallMeta`, `InstallArchive`, `InstallKv` and
`InstallDb` are the directories `install_snapshot` replaces; `apply_snapshot`,
`ReloadDelete`, `ReloadCopy`, `ReloadFails` and `ReloadEnds` are the callback.
`kv_detached` and `db_detached` record that a directory was replaced under an
open handle, whose later writes are then not in the directory. The commit thread
and the worker are in it in a shortened form (`MirrorPipeline` has their steps).

What the Raft library does is an assumption: it sends an object again until it
is answered, may begin again at the manifest or give the transfer up, begins again
after the receiver restarted, commits no entry past a snapshot while it is sent,
pauses commits while it applies a snapshot, calls `apply_snapshot`
after the last object whatever became of it, and ends the process when that
returns false. What a handler does on a store that a failed reload left closed
is not modelled.

### SnapshotSource

The other end. `create_snapshot` has two callers, the state machine (under
`snapshot_mutex_`) and the export of `do_snapshot` (not under it); `job` has both,
and the parts of a creation (descriptor, main store, KV checkpoint) are steps of
either. A part of a payload records which creation wrote it and the last entry
that can be in it: that is enough to see a mixed, a missing and a stale payload.
The scheduler's poll and its creation are two steps, because its check can be
stale. `do_snapshot` waits, compacts and answers as the code does, and a transfer
reads the latest descriptor object by object.

### StateFiles

`files` is what a reader of `meta/` sees and `may` what each file can hold after
a power loss: `write_file_atomically` syncs, the state manager's writes do not.
Start-up is the steps of the state initializer, installing is the steps of
`install_snapshot` on this directory, and `NewTerm` and `GrantVote` are what
NuRaft does through `save_state`. An address stands for host, ports and the server id made from them.

### HttpStream

One record per request: h2o's side (`conn`), where its handler is (`pc`), its
`http_res` and `res_state`, the messages on their way to the loop, the timer.
A message carries pointers only, so what is written is read when it is written.
Handlers are of three kinds: `plain`, answered by `process_request`; `stream`, an
export that is called again per chunk; `sse`, a stream proxied through libcurl,
whose callbacks run on the pool thread that started it. A chunk is its number.

### CollectionWrites

A document is in three places: the id key, the sequence key and the index.
`add_many` is lock, prepare (per batch: lines up to the first repeated id), index,
store; a removal is fetch, unindex, id key, document key, as the calls come in the
code. A batch can fail in two places: its indexing throws (`IndexThrows`: new
documents counted, some fields of some documents in the index, every record
failed, so that nothing is stored), or the store refuses the write (`StoreFails`:
the index is put back). A removal's batch ends early when a document cannot be
read (`ReadFails`), which abandons the ids that are left. `Crash` is a stop with
the load of the collection that follows it (`load_collection`): index and count
are those of the store. `serial` chooses the callers: the mirror worker under `live_apply_mutex_`,
or threads of their own, as the tests call it. A batch ends here only at a
repeated id, not at the batch size, which no call of the instance reaches. Every
document has an id (without one the server takes the sequence id, which nobody
else has: no stripe, no lookup), and none refers to another. The histories
`raced`, `spoiled`, `torn` and `late` say which documents a removal overlapped, an
exception left half indexed, a crash split, and whether an entry came before a removal was through.

### PostingList

The data structure itself, operation by operation; arrays are uncompressed, and
what the code owes the integer coding (the bounds that size a buffer) is kept.
Blocks have addresses and a `next`, so that a wrong link shows. Readers are
recursive operators compared with sets in the invariants.
`posting_list_t::merge` of several lists is left out: it drains its iterators one
after the other, and only tests call it with more than one list.

## 3. Runs

| Run | Result | What it shows |
|---|---|---|
| `log_store` | pass | no gap, stable over reopening, made-up entries only where a compaction was deleting |
| `pipeline_steady` | pass | without a stop the live index covers only what ran, answers reach their own requests, acknowledged means applied, strong reads see what was committed, `ProductLog` is implemented |
| `pipeline_restart` | pass | with a crash anywhere: entries lost only by the crash, only refused entries run twice |
| `pipeline_live` | pass | every committed entry is applied, every request answered |
| `snapshot_clean` | pass | repeated objects and restarted transfers: what is installed is what was sent, the live index covers only what is in the store, no entry whose handler has run is undone by the reload, the node gets ready |
| `snapshot_faults` | pass | one failed write, one failed install or reload, one crash: no incomplete payload is installed, and until one is installed the product state is kept |
| `snapshot_source` | pass | scheduler, admin request, export and transfer overlap, with a failed copy or a restart: what is offered is whole unless an export or a fault disturbed it, what is delivered covers the log's beginning, an answered request has its index in a snapshot, and the recovery point keeps moving |
| `state_files` | pass | restarts with other options, votes, installs, crashes, power loss: one vote per term unless it was lost, a node starts again unless an install was cut short, it is a member of what it runs with unless it moved, an install keeps the identity, also when the removal of the sender's files fails unnoticed |
| `http_stream` | pass | one chunk in flight, chunks arrive as made, ended responses are whole, every request ends |
| `collection_writes` | pass | no update is lost, ids resolve, index, count and store agree, the result is that of the log unless a removal was still running, every call returns; with a failed store write, a failed read or an exception in the indexing |
| `posting_list` | pass | a scan gives what was added, the map follows the chain, buffers fit, skips and searches agree with sets |
| `pipeline_lost_on_restart` | violation | queued entries are lost by a stop |

The violation run checks a statement of a comment of the code; `PROJECT.json`
quotes it under `findings`. `LossOnlyAtCrash`, checked in `pipeline_restart` and
proved, says that a stop is the only circumstance that breaks it.

The modules define further invariants that hold on the instances of the same
configurations: each module's `TypeOK`; `NextNotBehindStart` and `ReadersAgree`
of the log store; `OnlyCommitted`, and without a stop `NoEntryLost`, of the write
path; `LogFollowsSnapshot`
and `ExportWholeUnlessOverlapped`; `MovesOnlyAlone`; `OneHandler` and
`BufferStable`. They support the others or are proved (section 4), and are left
out of the runs to keep each run to its question.

Several properties carry an exception. Each names the circumstance in which the
code does not give the property; the history variable records that circumstance
and nothing else. A property says nothing about the hazard its exception names:
`PROJECT.json` lists these hazards as not covered. None is there for
convenience: with the exception taken out, and nothing else changed, TLC refutes
each of these on the instance of its run.

| Property without | Steps | What happens |
|---|---|---|
| `OneVoteUnlessForgotten` without `forgot` | 9 | an install has removed the server state (`nuraft_snapshot_coordinator.cpp:369`), or a power loss an unsynced one (`typesense_state_manager.cpp:59`): after a restart the node votes again in the term |
| `OfferedIsWhole` without `raced` | 20 | an export rewrites the directory that the state machine is creating (`nuraft_http_runtime.cpp:2011`) |
| `EndedIsWhole` without `sockets[r] <= 1` | 9 | curl opens a second socket, and the close of the first ends the response (`http_client.cpp:498`) |
| `EveryRequestEnds` without `NeverConnected` | 15 | no socket is opened, so nothing answers the client until it goes away (`http_proxy.cpp:123`) |
| `UpdatesKept` without `raced` | 15 | a removal, which takes no stripe, unindexes and deletes between the read and the write of an update (`collection.cpp:8196`) |
| `IdsResolve` without `raced` | 14 | the same: a document stays that no id leads to |
| `IdsResolve` without `torn` | 10 | a stop between the deletes of the id key and of the document (`collection.cpp:8230`) |
| `IndexMatchesStore` without `raced` | 14 | a removal and an update overlap |
| `IndexMatchesStore` without `spoiled` | 6 | the indexing of a batch throws: its documents are counted and partly indexed, nothing is stored and nothing taken back until the collection is loaded again (`index.cpp:735`) |

`late` is shown by `QuietIsReplay` below, `moved` by `RunsAsMember`. Two of the
exceptions (`damaged`, `archived`) came out of proof attempts, on histories longer than the
runs have:

* `MemberUnlessMoved` excludes a node on which an install failed while it was
  wiping the state directory (`"torn"` in `damaged`). Four installs show it: the
  first fails after the identity file is gone and before the bootstrap file is;
  the second puts the own bootstrap back beside the sender's identity; the third
  then keeps the sender as the own member of the configuration; after the fourth,
  stopped with the identity gone, the node starts with a configuration it is no
  member of.
* `RejectedKeepsState` ends with the first main store in the archive (`archived`),
  not with the first descriptor: when the same snapshot is sent again and its copy
  into the archive is interrupted, `db/` is missing from a payload the node has
  already loaded once.

### Statements that do not hold

TLC refutes each of these within seconds. The module defines the property; a
configuration with the constants given and that property alone shows the trace.
All use `Spec`, and `Chunks <- OneChunk`, `Files <- MCFiles`, `ChunkBytes = 2` as
in the other configurations of their module.

| Property | Instance | What happens | What is said |
|---|---|---|---|
| `LiveIndexHonest` (`MCMirrorPipeline`) | no clients or readers, `Peers = TRUE`, `Kinds = {"ok"}`, `kMaxRetries = 0`, `MaxLog = 3`, `MaxCrashes = 0` | a refresh ends the startup tracking before the alignment, which then copies the commit index into the live index of a follower that started empty (`nuraft_http_runtime.cpp:1201`) | `nuraft_http_runtime.cpp:1197`: "Empty follower recovery must not do that" |
| `OwnResponse` (`MCMirrorPipeline`) | `Clients = {w1, w2}`, no readers, `Peers = FALSE`, `Kinds = {"ok"}`, `kMaxRetries = 0`, `MaxLog = 3`, `MaxCrashes = 1` | response tokens begin at 1 again after a restart, and a write gets the answer of an entry from before it (`:940`) | `nuraft_http_runtime.cpp:2487`: "per-entry mirrored results for their own response" |
| `WipedFollowerNotReady` (`MCMirrorPipeline`) | as the first, `MaxLog = 2` | the lag is computed from the node's own empty sink, so a wiped follower is ready (`:1268`) | `TESTING_RUNBOOK.md:596`: "a wiped follower must stay out of service until materialized search state catches up" |
| `LiveIndexHonest` (`MCSnapshotInstall`) | `Snapshots <- MCLagging`, `OwnLog = 1`, `OwnSnapshot = FALSE`, `MaxIndex = 4`, other bounds 0 | the copied store lags behind the descriptor's index, which the receiver takes as live (`nuraft_snapshot_coordinator.cpp:249`) | `MODERNIZATION_PLAN.md:1952`: snapshots "must preserve the live Typesense store" |
| `AppliedIsInstalled` (`MCSnapshotInstall`) | `Snapshots <- MCOne`, `OwnLog = 1`, `OwnSnapshot = TRUE`, `MaxIndex = 4`, `MaxFailures = 1`, other bounds 0 | a rejected transfer is applied with the descriptor of the node's own older snapshot (`typesense_state_machine.cpp:571`) | `TESTING_RUNBOOK.md:599`: "must fail install loudly" |
| `ReadyMeansLoaded` (`MCSnapshotInstall`) | as `SnapshotClean.cfg` | between the install and the end of the reload the lag is that of the KV handle opened before the install, and Raft need not say that it is catching up or receiving: the node is ready over the old store (`nuraft_http_runtime.cpp:1268`); after a reload that failed (`MaxLocalFailures = 1`) it stays so | `TESTING_RUNBOOK.md:596`, as above |
| `LatestSnapshotUsable` (`MCSnapshotSource`) | `Reserved = 0`, `Distance = 2`, both requests, `MaxIndex = 2`, `MaxRequests = 1`, other bounds 0 | an export replaces the latest descriptor with an older index, or leaves a payload of two creations (`nuraft_http_runtime.cpp:2011`) | `TESTING_RUNBOOK.md:597`: "a recovering follower must be able to use the latest snapshot" |
| `RunsAsMember` (`MCStateFiles`) | as `StateFiles.cfg`, `MaxStarts = 2`, `MaxInstalls = 0`, `MaxFaults = 0` | a moved single node rewrites its identity but loads the saved cluster configuration, of which its new address is no member | `MODERNIZATION_PLAN.md:286`: "single-node recovery after peer/IP drift" |
| `QuietIsReplay` (`MCCollectionWrites`) | as `CollectionWrites.cfg`, `Adders = {t1}`, `Removers = {d1}`, `Serial = {TRUE}`, `MaxFaults = 0`, `MaxCrashes = 0` | a delete by filter removes its later batches outside `live_apply_mutex_`, so they can undo a later entry of the log (`core_api.cpp:3329`) | `MODERNIZATION_PLAN.md:286`: "deterministic request-level replication" |

`LiveIndexHonest` of `snapshot_clean` also fails on an empty follower
(`OwnLog = 0`) once `MaxCrashes = 1`: a stop between `materialized_state`
and `db`, or inside the reload, leaves the snapshot's index beside an empty
store, and startup trusts it. An install removes the sender's cluster
configuration and server state without looking at the result
(`nuraft_snapshot_coordinator.cpp:368`): `InstallKeepsIdentity` holds all the
same for the former, which is rewritten, while the sender's term and vote stay
when their removal failed (`"foreign_state"` in `damaged`). `ScanGivesAdded` and `MapFollowsChain` need blocks of
at least four ids (`BlockAssumption`): with two, which the constructor accepts, a
block in the middle can become empty and `erase` cuts the chain there. The
server uses 256.

### Bounds

* `LogStore`: four indices and two entries, enough for an overlap of a pack with
  a tail, an overwrite in the middle and a compaction inside, at and past it.
* `MirrorPipeline`: up to three log entries, two requests (one an import of two
  chunks), one strong read, one crash. Two entries can be apart in the queue and
  a third in the worker; a second crash meets a state of the same shape as the
  first. `PipelineRestart` allows one retry of an append.
* `SnapshotInstall`: four entries, two snapshots, files of two, one and one
  chunk, one failed object, one failed install or reload, one restarted
  transfer, one crash. A file of two chunks is the smallest with a hole.
* `SnapshotSource`: two entries, one request (plain or export), one transfer,
  one failed copy or restart. Two entries give two snapshot ids, so that a
  payload, a descriptor and a transfer can each be of another one; one log item
  is reserved and the distance is two, so compaction and both triggers happen.
* `StateFiles`: the node under two addresses with or without a peer, three
  starts, two installs, one term, one power loss or failed write. A second vote
  in a term needs a restart, and a restart in an install needs two.
* `HttpStream`: an export of two chunks, a proxied stream with a body in pieces
  and up to two sockets, a plain read; one pool thread, so that a thread that is
  not given back stops the others.
* `CollectionWrites`: two documents on two stripes, three calls among two adders
  and two removers, batches of one in removals, one fault (a failed write, a failed
  read or an exception in the indexing), one crash. Two
  calls that lock two stripes in either order are the smallest circle.
* `PostingList`: seven ids, blocks of four, a compact form of eight words (two
  documents), two sets of positions that differ in number and in both bounds;
  up to three blocks, so that a block in the middle is refilled and merged.

Deadlock is checked in every run but four. In `snapshot_source`, `state_files`,
`http_stream` and `collection_writes` a behaviour ends when the bounded calls are
made and nothing is left to do; what must still happen is a liveness property
there, except in `state_files`, which has no waiting.

### Fairness

`MirrorPipeline!FairSpec` assumes weak fairness of the startup, of NuRaft's
commit thread, of the worker and of each waiting request. These are threads that
run until they block, and every wait in the code has a deadline
(`ReadTimeout`, `ResultTimeout`). Clients need not send anything and the cluster
need not commit anything. `SnapshotInstall!FairSpec` assumes that the leader
goes on sending a transfer it has begun, and that install, reload and worker
proceed. No fairness is assumed of crashes, failures or retransmissions.

`SnapshotSource!FairSpec`: the commit thread, both creations, the release of the
mutex and the scheduler thread run, and its interval passes again and again.
Nothing is assumed of requests and transfers. `HttpStream!FairSpec`: the pool
takes tasks, handlers and the loop run, libcurl ends every transfer (it has a
time limit), and h2o gets rid of a buffer because the client takes it or is
given up. A client need not send or finish a body. `CollectionWrites!FairSpec`:
threads, the loop and the pool run; nobody has to call, and nothing has to fail.
`SnapshotSource!FairSpec` is about a leader whose snapshot interval is set: on
other nodes the scheduler only sleeps.

## 4. Proofs

Each theorem holds for every value of the constants of its module; what else it
asks for is in the last column.

| Module | Theorems | Condition |
|---|---|---|
| `LogStoreProofs` | `LogTypeOK`, `LogContiguous`, `LogRestartStable`, `LogNextNotBehindStart`, `LogHolesOnlyWhereCompacted`, `LogReadersAgree` | none |
| `MirrorPipelineProofs` | `PipelineTypeOK`, `PipelineOnlyCommitted`, `PipelineReappliedOnlyRefused`, `PipelineLossOnlyAtCrash` | none: any number of crashes, with and without peers |
| | `PipelineOwnResponse`, `PipelineAckedMeansApplied` | until the process stops (`crashes = 0`) |
| | `PipelineLiveIndexHonest`, `PipelineStrongReadSees` | a node without peers, until the process stops |
| | `PipelineHonestUntilStart`, `PipelineStrongReadsKept` | none: action properties of every node over all restarts |
| | `PipelineImplementsProductLog` | `MaxCrashes = 0` |
| `SnapshotSourceProofs` | `SourceOfferedIsWhole`, `SourceDeliveredCovers`, `SourceAckedSnapshotCovers`, `SourceLogFollowsSnapshot`, `SourceExportWhole` | none |
| `SnapshotInstallProofs` | `InstalledPayloadComplete`, `RejectedPayloadKeepsState` | none: any number of failures and crashes |
| | `InstalledPayloadWhole` | until the first failure or crash (`Clean`) |
| | `InstallLiveIndexHonest`, `InstallNothingUndone` | `Clean`, and no snapshot's store is behind its index (`NoLag`) |
| `StateFilesProofs` | `OneVote`, `StartsAgain`, `Moves`, `Member`, `InstallKeeps` | none |
| `HttpStreamProofs` | `OneChunk`, `OneHandlerCall`, `HeldBufferStable`, `StreamSentAsMade`, `StreamEndedIsWhole` | none |
| `CollectionWritesProofs` | `UpdatesAreKept`, `IdsAreResolved` | none: any number of imports, removals, failed writes and reads, exceptions and crashes |
| `CollectionIndexProofs` | `IndexFollowsStore`, `TypeCorrect` | none, as above |

The conditions are not conveniences: section 3 has the counterexample for each
of them (a crash, a follower that started empty, a lagging copy). The assumptions
on the constants are `LogStoreAssumption`, `PipelineAssumption`,
`FilesAssumption`, `StreamAssumption`, `SourceAssumption`, `WritesAssumption`
and `SnapshotAssumption`; the last says of a manifest that its names are distinct and
that it lists `db` and a descriptor that is not empty, as every exported payload
with a main store does.

**Log store.** `Contiguous` alone is not inductive: an append extends the log
without a gap only if `next_index` follows the last entry, and a compaction only
removes a prefix if nothing is stored below the start index. `IInv` adds
`Window` (the entries of a running store lie in `start_index .. next_index - 1`
and the last slot is filled), that no entry is below the durable start index,
which an open store agrees with, and `HasTop`, so that the `CHOOSE` in
`LoadedNext` is determined. `HolesOnlyWhereCompacted` needs that a stored index
below the start index is one a compaction had begun to delete.

**Write path.** `LossOnlyAtCrash` says where each entry is. To be kept by the
steps it needs the order in which entries pass through the stages. `IInv`
collects, over the committed indices that are mirrored (`MIdx`) and those the KV
sink refuses (`KIdx`): `Ordered` (sink, commit index, queue and worker are at or
below one another as the pipeline is laid out, the queue increases),
`SinkCovers` (what the library will not offer again is in the sink, but for
refused entries), `FlightBehind` (what is in flight is ahead of what ran),
`AppliedInOrder` and `Accounted` (each index is applied, in flight or lost).
`TypeOK` is not inductive alone either: storing an answer reads the log at the
worker's index, so that index must be in the log. Each action has a lemma.

**Write path without a stop.** The second part of `MirrorPipelineProofs` is
about what holds until the process stops. The order in which entries run, and that none is skipped, gives the
step of `ProductLog` that each `WorkerApply` is; all other steps leave it as it
is, or extend its log. For the answers: every token in use belongs to one entry,
the answers stored under a token are those of its entry, and a client has been
given answers up to the chunk it waits for. For the live index: on a node without
peers neither the sink's index nor the commit index is ahead of what ran when a
start copies them. `PipelineHonestUntilStart` says, for every node, that the copies
at a start are the only places where the index can get ahead.

**State files.** Two invariants, one per concern. `VoteInv`: as long as the vote
was not lost, the votes granted are at most of the current term and in that term
for the current candidate, what a restart would read is the state in memory
unless `volatile` says why not, and nothing is volatile only if the file can hold
nothing else after a power loss. `IdInv`: as long as no install was cut short,
the identity and bootstrap files are the ones of the last accepted start, or of
the one under way where the code is between the two writes. `MemInv`, for
`Member`, follows the own address through the cluster configuration, the sender's
configuration an install brings, and the backups the install puts back.

**Snapshots, sending.** `SourceInv` orders what several creations do to one
directory: while one holds the mutex no other writes its payload (`Order`), a part
in a directory was copied from a state at or after the descriptor's index
(`Files`), a payload is complete when its writer is through (`Complete`), what a
transfer has sent was in the directory when it was read (`Sending`), and the log
begins at or before the last snapshot's end (`Forward`).

**Snapshots, receiving.** Three layers. `KeepInv` holds whatever fails: an install
runs only while the check of the sizes still holds of its directory, and a main
store is given up only when one has been in the archive. `SentInv`, while nothing
fails: after `n` objects the staging directory holds exactly the first `n` chunks
(`Held`), so that the size check succeeds and the archive gets the payload byte
for byte. It rests on what `build_snapshot_chunks` computes for every manifest:
chunks of a file follow each other without a gap and the last one ends with the
file (`TilesAll`). `LoadInv`, for snapshots that do not lag: every committed entry
is in the open store or still to run, entries are run in order, and the live index
and what has run are at or below what a reload brings.

That the recursive definition of the chunk list has a solution, and what it
computes, are shown by induction in the form the provers can use: a least
counterexample exists (`LeastNat`, from the well-foundedness of `<`), and it is
none.

**HTTP.** `OneChunkInFlight` is about the flag of `http_res::wait`; to be kept it
needs whose turn it is at every place of the handler. `CtlInv` says so per
request (`Turn`: a thread that is about to post has nothing in flight, a
set flag means that h2o is through; `Plain`, `Unhandled`, `Held` for the other
places) and that the pool's queue holds exactly the queued requests, each once
(`Pooled`). For `StreamSentAsMade` the buffer that is on its way is the last
chunk made and not yet on the wire.

**Collections.** Neither `UpdatesKept` nor `IdsResolve` is inductive: what a call
writes depends on what it read two steps before. `Kept` says what a call in flight
may still rely on. `ReadsHold`: as long as no removal has had the id in hand, the
id key and the document that a prepared record has read are still in the store, and
a new document's sequence id is free. It holds because the batch of a call has
distinct ids whose stripes the call owns (`CallShape`), so no other import is
between reading and writing them. `Overlaps`: the ids that an import and a removal,
or two removals, have in hand together are in `raced`. `OneId`: a sequence id
stands for one id only, in the id keys, the store, and what any call has in hand,
and it is below `next_seq_id`. `RemovalsHold` follows a removal between its two
deletes. Each action has a lemma; failed writes and stops are among them.

**Collections, the index and the count.** `IndexMatchesStore` is about moments
without calls; in between, the index is ahead of the store for what a call is about
to write and behind it for what a removal is about to delete. `Tracked` says by how
much, for ids that were never in two hands at once and whose indexing has not
thrown since the last load (`Unsure` has the others). `AddedIndexed`: a call finds the
old version of its documents indexed and leaves the new one. `RemovedIndexed`: a
removal finds what it has read indexed and leaves nothing. `StoredIndexed`: every
other stored document is indexed as it is stored. `UnusedBlank`: sequence ids that
are still to be given out are not in the index, which is why a new document may be
added to it without looking. `Counts`: `num_documents` is the number of documents
that are stored or about to be, less those taken out of the index. The proof that
one call's step leaves the others' alone goes back to `OneId` and the stripes. The
count's bounds need less: with overlapping calls it may be wrong, but it is at most
the number of sequence ids given out and not waiting to be counted (`Bounded`), and
the guarded decrement keeps it from wrapping; this is the part of `TypeOK` that is
not about types.

**Model-checked only.** The liveness properties, which need fairness.
`ReplayUnlessLate` of `CollectionWrites`, which is an induction over the log of the
calls. All of `PostingList`: its readers are recursive operators, about which the
prover cannot reason, nor about a module that declares one, so that the properties
of the chain itself (`MapFollowsChain`, `BuffersFit`) stay with TLC too.

## 5. Not modelled

Consensus itself, which is the library's; what the KV sink does with documents;
request routing and encoding; the import chunker. RocksDB is taken to keep every
write it acknowledged in their order, and a replaced database directory to be as
a whole the old or the new one, or gone.

Of the modelled parts: uploads that an async handler takes in pieces, routes
answered on the loop, and the shutdown of the HTTP server; documents without an
id, field-level indexing, references (with the updates of referring documents,
whose failure unindexes a stored document: `collection.cpp:2560`, `:2609`),
embeddings and schema changes of collections; the integer coding,
merging of several lists and phrase matching of posting lists; the replay
progress file, which only tests use.

Known weak spots that no property covers, besides those `PROJECT.json` notes: the
answer of a write whose waiter timed out stays in `mirrored_results_`
(`nuraft_http_runtime.cpp:953`); the KV sink keeps a write the product handler
rejects (`nuraft_state_machine_sink.cpp:624`), and is here only its applied
index; `db/` is copied file by file from an open RocksDB, and the directories of
earlier snapshots stay (`nuraft_snapshot_coordinator.cpp:249`, `:238`);
`get_fetch_document` answers once itself and once through the dispatcher
(`core_api.cpp:3078`); a delete by filter keeps a raw pointer to a collection that
may be dropped between its batches (`core_api.cpp:3292`).

Most of the repository's lines are in none of the modules, and most of those are
not the kind these tools check. The bulk is search: filtering, ranking, faceting,
grouping, joins, vector and geo search, highlighting, tokenizing, with schema and
parameter validation around it. It is sequential computation over documents and
strings, whose size is in its cases and not in its interleavings; modelling it
would be rewriting it. Generated tables, embedded libraries, model runtimes and
remote calls follow. What shares state between threads, survives a crash or talks
to another process is what was taken first.

## 6. What could follow

1. The KV sink's documents against the product's, import sessions and the
   chunker against a reference splitting.
2. `SnapshotSource` composed with `SnapshotInstall`: now the one's results are
   the other's inputs (`MCSnapshots`, `MCLagging`).
3. `id_list`, the numeric tree and the arrays against references, in the manner
   of `PostingList`; rate limiting; analytics buffers; the collection manager's
   locks.
4. A proof of `ReplayUnlessLate`, by an invariant that relates the calls in
   flight to the part of the log they stand for.
