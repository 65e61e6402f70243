--------------------------- MODULE SnapshotInstall ---------------------------
(***************************************************************************)
(* A follower receives a snapshot, installs it and reloads its product     *)
(* state from it, while its commit thread and mirror worker go on with     *)
(* what they have.                                                         *)
(*                                                                         *)
(* The leader sends the snapshot as objects: object 0 is the manifest,     *)
(* objects 1..N are the chunks of its files.  The receiver writes the      *)
(* chunks to a staging directory; after the last one it checks the sizes   *)
(* and install_snapshot replaces, one directory after the other, the       *)
(* metadata, the snapshot archive, the KV sink's directory and the main    *)
(* store's directory.  Both databases stay open: their handles go on       *)
(* working on the files that were replaced.  Then NuRaft calls             *)
(* apply_snapshot, and the runtime reopens the main store from the archive.*)
(*                                                                         *)
(* A snapshot is a record [log, applied, db]: its last log index, the KV   *)
(* sink's applied index, and the entries 1..db its copy of the main store  *)
(* contains.  A byte of one of its files is the snapshot itself, so a file *)
(* is whole when all its bytes are that snapshot.                          *)
(*                                                                         *)
(* External, modelled from its use: the Raft library, which sends each     *)
(* object again until it is answered, may begin again at the manifest,     *)
(* stops committing while it applies a snapshot, takes no snapshot at or   *)
(* below its commit index, and ends the process when apply_snapshot        *)
(* returns false.                                                          *)
(***************************************************************************)
EXTENDS Integers, Sequences, FiniteSets, Materialization

CONSTANTS
    Snapshots,     \* the snapshots a leader may send, records [log, applied, db]
    Files,         \* the manifest: a sequence of [name, size], sorted by name
    ChunkBytes,    \* kLogicalSnapshotChunkBytes
    OwnLog,        \* the entries this node's log had before the first snapshot
    OwnSnapshot,   \* BOOLEAN: the node holds the descriptor of an older snapshot
    MaxIndex,      \* bound: the last entry of the log
    MaxFailures,   \* bound: how many objects cannot be written to the staging
    MaxLocalFailures, \* bound: how often install_snapshot or a reload fails
    MaxRestarts,   \* bound: how often the leader begins a transfer again or gives it up
    MaxCrashes     \* bound: how often the process stops

ASSUME SnapshotAssumption ==
    /\ Snapshots \subseteq [log : 1..MaxIndex, applied : 1..MaxIndex, db : 0..MaxIndex]
    /\ ChunkBytes \in Nat \ {0}
    /\ OwnLog \in 0..MaxIndex
    /\ OwnSnapshot \in BOOLEAN
    /\ Files \in Seq([name : STRING, size : Nat])
    /\ \A f, g \in DOMAIN Files : Files[f].name = Files[g].name => f = g
    /\ \E f \in DOMAIN Files : Files[f].name = "meta" /\ Files[f].size > 0
    /\ \E f \in DOMAIN Files : Files[f].name = "db"
    /\ {MaxIndex, MaxFailures, MaxLocalFailures, MaxRestarts, MaxCrashes} \subseteq Nat

(* No snapshot; a record, so that it can be compared with one.             *)
None == [log |-> -1, applied |-> 0, db |-> 0]

(* The descriptor of a snapshot this node took itself, before any entry.   *)
Older == [log |-> 0, applied |-> 0, db |-> 0]

(* A byte no write reached: what a seek past the end of a file leaves.     *)
Hole == None

VARIABLES
    offer,           \* external: the snapshot being sent, or None
    next_obj,        \* external: the object the leader sends next
    phase,           \* external: "idle", "transfer" or "apply"
    sm_commit,       \* external: NuRaft's sm_commit_index_
    log_end,         \* external: the entries this node can commit so far
    incoming,        \* incoming_snapshot_ctx_: the snapshot, or None
    staging,         \* durable: incoming-<log> directories, snapshot -> name -> bytes
    descriptor,      \* durable: last_snapshot.bin: a snapshot, Older or None
    archive,         \* durable: the payloads under snapshot_dir
    kv_disk,         \* durable: the applied index in materialized_state_dir
    kv_open,         \* the applied index the open KV sink handle reads
    kv_detached,     \* the KV directory was replaced under the open handle
    db_disk,         \* durable: the entries in the main store's directory
    db_open,         \* the entries in the open main store
    db_detached,     \* the main store's directory was replaced under it
    db_closed,       \* Store::db is null: a reload closed it and did not open it
    installing,      \* where install_snapshot is
    queue,           \* mirror_worker_queue_
    worker,          \* the entry the mirror worker has popped, or 0
    live,            \* live_product_state_applied_index_
    target,          \* last_snapshot_reload_target_index_
    reload,          \* where handle_applied_snapshot is
    startup,         \* startup_materialization_*_
    failures, local_failures, restarts, crashes,
    ran,             \* history: the entries whose handler has run on this node
    archived         \* history: a main store's db/ has been in the archive

transferVars == <<offer, next_obj, phase, incoming, staging, restarts>>
raftVars == <<sm_commit, log_end>>
diskVars == <<descriptor, archive, kv_disk, db_disk>>
kvVars == <<kv_open, kv_detached>>
dbVars == <<db_open, db_detached, db_closed>>
workerVars == <<queue, worker, live, ran>>
reloadVars == <<target, reload, startup>>
faultVars == <<failures, local_failures, crashes, archived>>
vars == <<transferVars, raftVars, diskVars, kvVars, dbVars, installing, workerVars,
          reloadVars, faultVars>>
-----------------------------------------------------------------------------
(* The chunks of a transfer.                                               *)

(* build_snapshot_chunks: every file is cut at multiples of ChunkBytes; an *)
(* empty file still has one, empty, chunk.                                 *)
ChunksOf(f) ==
    LET size  == Files[f].size
        count == IF size = 0 THEN 1 ELSE (size + ChunkBytes - 1) \div ChunkBytes
    IN  [k \in 1..count |->
            [name |-> Files[f].name, offset |-> (k - 1) * ChunkBytes,
             size |-> IF size < k * ChunkBytes THEN size - (k - 1) * ChunkBytes
                                               ELSE ChunkBytes]]

ChunksUpTo[f \in 0..Len(Files)] ==
    IF f = 0 THEN <<>> ELSE ChunksUpTo[f - 1] \o ChunksOf(f)

build_snapshot_chunks == ChunksUpTo[Len(Files)]

Names == {Files[f].name : f \in DOMAIN Files}

SizeOf(name) == Files[CHOOSE f \in DOMAIN Files : Files[f].name = name].size

EmptyDir == [name \in {} |-> <<>>]

(* A file after size bytes of snapshot s were written at offset.           *)
Written(bytes, offset, size, s) ==
    [i \in 1..Greater(Len(bytes), IF size = 0 THEN 0 ELSE offset + size) |->
        IF i \in (offset + 1)..(offset + size) THEN s
        ELSE IF i <= Len(bytes) THEN bytes[i] ELSE Hole]

(* Mutant of SizesMatch: a file that is missing is passed over.            *)
SizesMatchIfThere(dir) ==
    \A name \in Names : name \in DOMAIN dir => Len(dir[name]) = SizeOf(name)

(* The check after the last object: every file of the manifest is there    *)
(* with its size.                                                          *)
SizesMatch(dir) ==
    \A name \in Names : name \in DOMAIN dir /\ Len(dir[name]) = SizeOf(name)

Whole(dir, s) ==
    /\ DOMAIN dir = Names
    /\ \A name \in Names : dir[name] = [i \in 1..SizeOf(name) |-> s]
-----------------------------------------------------------------------------
(* The leader (external) begins to send a snapshot this node lacks, for    *)
(* the first time or again from the manifest.                              *)
Offer(s) ==
    /\ \/ phase = "idle" /\ UNCHANGED restarts
       \/ phase = "transfer" /\ restarts < MaxRestarts /\ restarts' = restarts + 1
    /\ installing = "idle"
    /\ s.log > sm_commit
    /\ offer' = s
    /\ next_obj' = 0
    /\ phase' = "transfer"
    /\ UNCHANGED <<incoming, staging, raftVars, diskVars, kvVars, dbVars, installing,
                   workerVars, reloadVars, faultVars>>

(* The leader (external), a new one it may be, has the entries this node   *)
(* lacks and sends those: a transfer under way is given up.                *)
Abandon ==
    /\ phase = "transfer" /\ installing = "idle"
    /\ restarts < MaxRestarts
    /\ restarts' = restarts + 1
    /\ phase' = "idle"
    /\ UNCHANGED <<offer, next_obj, incoming, staging, raftVars, diskVars, kvVars, dbVars,
                   installing, workerVars, reloadVars, faultVars>>

Receiving == phase = "transfer" /\ installing = "idle"

(* save_logical_snp_obj, object 0: an empty staging directory and a new    *)
(* context.  An object of another format version is skipped, and so is one *)
(* whose directory cannot be made, once what was there has been removed.   *)
save_manifest ==
    /\ Receiving
    /\ next_obj = 0
    /\ next_obj' = 1
    /\ \/ /\ staging' = [staging EXCEPT ![offer] = EmptyDir]
          /\ incoming' = offer
          /\ UNCHANGED failures
       \/ /\ failures < MaxFailures
          /\ failures' = failures + 1
          /\ staging' \in {staging, [staging EXCEPT ![offer] = EmptyDir]}
          /\ UNCHANGED incoming
    /\ UNCHANGED <<offer, phase, restarts, raftVars, diskVars, kvVars, dbVars, installing,
                   workerVars, reloadVars, local_failures, crashes, archived>>

(* A chunk at offset 0 creates or truncates its file; a later one needs    *)
(* the file to exist, and leaves a hole when it lies past its end.         *)
Opens(chunk, dir) == chunk.offset = 0 \/ chunk.name \in DOMAIN dir

StoreChunk(chunk, s, dir) ==
    LET old == IF chunk.offset = 0 THEN <<>> ELSE dir[chunk.name]
    IN  [name \in DOMAIN dir \cup {chunk.name} |->
            IF name = chunk.name THEN Written(old, chunk.offset, chunk.size, s)
                                 ELSE dir[name]]

(* Object obj is written: there is a context, and its file opens.          *)
Writes(obj) ==
    incoming # None /\ Opens(build_snapshot_chunks[obj], staging[incoming])

Staged(obj) ==
    [staging EXCEPT ![incoming] = StoreChunk(build_snapshot_chunks[obj], offer, @)]

(* save_logical_snp_obj, a chunk that is written.  All snapshots have the  *)
(* manifest Files, so no chunk differs from it.  After the last one the    *)
(* sizes are checked; a mismatch drops the context, and as nothing is      *)
(* returned NuRaft goes on to apply_snapshot.                              *)
save_chunk ==
    LET last == next_obj = Len(build_snapshot_chunks)
        good == SizesMatch(Staged(next_obj)[incoming])
    IN  /\ Receiving
        /\ next_obj \in 1..Len(build_snapshot_chunks)
        /\ Writes(next_obj)
        /\ staging' = Staged(next_obj)
        /\ next_obj' = next_obj + 1
        /\ incoming' = IF last /\ ~good THEN None ELSE incoming
        /\ installing' = IF last /\ good THEN "meta" ELSE installing
        /\ phase' = IF last /\ ~good THEN "apply" ELSE phase
        /\ UNCHANGED <<offer, restarts, raftVars, diskVars, kvVars, dbVars, workerVars,
                       reloadVars, faultVars>>

(* The file of object obj was opened, for a first chunk truncated, and the *)
(* write failed.                                                           *)
Truncated(obj) ==
    LET chunk == build_snapshot_chunks[obj]
    IN  [staging EXCEPT ![incoming] = StoreChunk([chunk EXCEPT !.size = 0], offer, @)]

(* A chunk without a context, or whose file cannot be opened or written,   *)
(* is logged and counts as received.                                       *)
skip_chunk ==
    /\ Receiving
    /\ next_obj \in 1..Len(build_snapshot_chunks)
    /\ IF Writes(next_obj)
       THEN /\ failures < MaxFailures
            /\ failures' = failures + 1
            /\ staging' \in {staging, Truncated(next_obj)}
       ELSE UNCHANGED <<failures, staging>>
    /\ next_obj' = next_obj + 1
    /\ phase' = IF next_obj = Len(build_snapshot_chunks) THEN "apply" ELSE phase
    /\ UNCHANGED <<offer, restarts, incoming, raftVars, diskVars, kvVars, dbVars,
                   installing, workerVars, reloadVars, local_failures, crashes, archived>>

(* The object sent last comes a second time (the leader did not get the    *)
(* answer); the last object of all ends the transfer, so it is not sent    *)
(* again.                                                                  *)
save_again ==
    /\ Receiving
    /\ next_obj - 1 \in 1..(Len(build_snapshot_chunks) - 1)
    /\ Writes(next_obj - 1)
    /\ staging' = Staged(next_obj - 1)
    /\ UNCHANGED <<offer, next_obj, phase, incoming, restarts, raftVars, diskVars, kvVars,
                   dbVars, installing, workerVars, reloadVars, faultVars>>
-----------------------------------------------------------------------------
(* install_snapshot, one directory after the other.  What is installed is  *)
(* the snapshot whose descriptor lies in the staged meta/.                 *)

Staging == staging[incoming]

Source == Staging["meta"][1]

HasStore(dirs) == \E s \in DOMAIN dirs : "db" \in DOMAIN dirs[s]

(* meta/ (with the descriptor) and log/; the identity and the cluster      *)
(* configuration are this node's own, the server state is removed.         *)
InstallMeta ==
    /\ installing = "meta"
    /\ installing' = "archive"
    /\ descriptor' = Source
    /\ UNCHANGED <<transferVars, raftVars, archive, kv_disk, db_disk, kvVars, dbVars,
                   workerVars, reloadVars, faultVars>>

(* Mutant of InstallArchive: the archive keeps what it had of the snapshot.*)
InstallArchiveKeeps ==
    /\ installing = "archive"
    /\ installing' = "kv"
    /\ archive' = [s \in DOMAIN archive \cup {Source} |->
                      IF s \in DOMAIN archive THEN archive[s] ELSE EmptyDir]
    /\ archived' = (archived \/ HasStore(archive'))
    /\ UNCHANGED <<transferVars, raftVars, descriptor, kv_disk, db_disk, kvVars, dbVars,
                   workerVars, reloadVars, failures, local_failures, crashes>>

InstallArchive ==
    /\ installing = "archive"
    /\ installing' = "kv"
    /\ archive' = [s \in DOMAIN archive \cup {Source} |->
                      IF s = Source THEN Staging ELSE archive[s]]
    /\ archived' = (archived \/ HasStore(archive'))
    /\ UNCHANGED <<transferVars, raftVars, descriptor, kv_disk, db_disk, kvVars, dbVars,
                   workerVars, reloadVars, failures, local_failures, crashes>>

InstallKv ==
    /\ installing = "kv"
    /\ installing' = "db"
    /\ kv_disk' = Source.applied
    /\ kv_detached' = TRUE
    /\ UNCHANGED <<transferVars, raftVars, descriptor, archive, db_disk, kv_open, dbVars,
                   workerVars, reloadVars, faultVars>>

(* The main store's directory, then the context is dropped: the transfer   *)
(* is complete and NuRaft calls apply_snapshot.                            *)
InstallDb ==
    /\ installing = "db"
    /\ installing' = "idle"
    /\ db_disk' = 1..Source.db
    /\ db_detached' = TRUE
    /\ incoming' = None
    /\ phase' = "apply"
    /\ UNCHANGED <<offer, next_obj, staging, restarts, raftVars, descriptor, archive,
                   kv_disk, kvVars, db_open, db_closed, workerVars, reloadVars, faultVars>>

(* replace_tree removes the directory and copies the new one: an           *)
(* interruption leaves it as it was, gone or, the archive's, with some of  *)
(* its files.  A database directory with some of its files is as good as   *)
(* gone.  The descriptor may also be the new one: meta/ is followed by     *)
(* other files.                                                            *)
Interrupted ==
    /\ descriptor' \in IF installing = "meta" THEN {descriptor, None, Source} ELSE {descriptor}
    /\ archive' \in IF installing = "archive"
                    THEN {archive} \cup
                         {[s \in DOMAIN archive \cup {Source} |->
                              IF s = Source THEN [name \in kept |-> Staging[name]]
                                            ELSE archive[s]] : kept \in SUBSET Names}
                    ELSE {archive}
    /\ archived' = (archived \/ HasStore(archive'))
    /\ kv_disk' \in IF installing = "kv" THEN {kv_disk, 0} ELSE {kv_disk}
    /\ db_disk' \in IF installing = "db" THEN {db_disk, {}} ELSE {db_disk}

(* install_snapshot returns false: as after a size mismatch, the context   *)
(* is dropped and NuRaft goes on to apply_snapshot.                        *)
InstallFails ==
    /\ installing # "idle"
    /\ local_failures < MaxLocalFailures
    /\ local_failures' = local_failures + 1
    /\ Interrupted
    /\ kv_detached' = (kv_detached \/ kv_disk' # kv_disk)
    /\ db_detached' = (db_detached \/ db_disk' # db_disk)
    /\ installing' = "idle"
    /\ incoming' = None
    /\ phase' = "apply"
    /\ UNCHANGED <<offer, next_obj, staging, restarts, raftVars, kv_open, db_open, db_closed,
                   workerVars, reloadVars, failures, crashes>>
-----------------------------------------------------------------------------
(* What a refresh sees: the Raft server may say that it is recovering (rec)*)
(* and a reload may be running or have missed its target.                  *)
Refreshed(s, rec, l) ==
    Refresh(s, rec \/ reload # "idle" \/ target > l, kv_open, l, sm_commit)

(* is_materialization_ready, after its refresh: rec is what is_catching_up *)
(* or is_receiving_snapshot answers.  The lag is that of the open handle   *)
(* of the KV sink; a reload does not enter into it.                        *)
is_materialization_ready(rec) ==
    ~rec /\ (Refreshed(startup, rec, live).pending => kv_open <= live)

Probe ==
    /\ \E rec \in BOOLEAN : startup' = Refreshed(startup, rec, live)
    /\ UNCHANGED <<transferVars, raftVars, diskVars, kvVars, dbVars, installing, workerVars,
                   target, reload, faultVars>>
-----------------------------------------------------------------------------
(* apply_snapshot and handle_applied_snapshot.  The descriptor on disk is  *)
(* taken for the one that was received.                                    *)

(* apply_snapshot has returned true (external): the snapshot's index       *)
(* becomes NuRaft's commit index, and commits go on after it.              *)
Resume ==
    /\ phase' = "idle"
    /\ sm_commit' = offer.log
    /\ log_end' = MaxIndex

(* The callback starts the reload unless the descriptor's index was a      *)
(* reload target before.                                                   *)
apply_snapshot ==
    /\ phase = "apply"
    /\ reload = "idle"
    /\ descriptor # None
    /\ IF descriptor.applied <= target
       THEN /\ Resume
            /\ UNCHANGED <<reloadVars>>
       ELSE /\ target' = descriptor.applied
            /\ startup' = [tracking |-> TRUE, pending |-> TRUE, base |-> live,
                           grace |-> "running"]
            /\ reload' = "open"
            /\ UNCHANGED <<phase, raftVars>>
    /\ UNCHANGED <<offer, next_obj, incoming, staging, restarts, diskVars, kvVars, dbVars,
                   installing, workerVars, faultVars>>

(* The archive has a db/ for the descriptor.  DbIntact: RocksDB (external) *)
(* can open it, which it cannot with a hole or another snapshot's bytes.   *)
HasDb == descriptor \in DOMAIN archive /\ "db" \in DOMAIN archive[descriptor]

DbIntact == archive[descriptor]["db"] = [i \in 1..SizeOf("db") |-> descriptor]

(* Mutant of ReloadDelete: the store is given up before looking for db/.   *)
ReloadDeleteUnchecked ==
    /\ reload = "open"
    /\ reload' = "deleted"
    /\ db_open' = {}
    /\ db_disk' = {}
    /\ db_detached' = FALSE
    /\ db_closed' = TRUE
    /\ UNCHANGED <<transferVars, raftVars, descriptor, archive, kv_disk, kvVars, installing,
                   workerVars, target, startup, faultVars>>

(* reload_live_product_state_from_snapshot, first half: under              *)
(* live_apply_mutex_, the store is closed and its directory deleted.       *)
ReloadDelete ==
    /\ reload = "open"
    /\ HasDb
    /\ reload' = "deleted"
    /\ db_open' = {}
    /\ db_disk' = {}
    /\ db_detached' = FALSE
    /\ db_closed' = TRUE
    /\ UNCHANGED <<transferVars, raftVars, descriptor, archive, kv_disk, kvVars, installing,
                   workerVars, target, startup, faultVars>>

(* Mutants of ReloadCopy: the live index moves past the snapshot; the      *)
(* store is opened over an empty directory; the live index stays.          *)
ReloadCopyAdvancesPast ==
    /\ reload = "deleted"
    /\ HasDb /\ DbIntact
    /\ db_open' = 1..descriptor.db
    /\ db_disk' = 1..descriptor.db
    /\ db_closed' = FALSE
    /\ live' = MaxIndex
    /\ reload' = "done"
    /\ UNCHANGED <<transferVars, raftVars, descriptor, archive, kv_disk, kvVars, db_detached,
                   installing, queue, worker, ran, target, startup, faultVars>>

ReloadCopySkipsCopy ==
    /\ reload = "deleted"
    /\ HasDb /\ DbIntact
    /\ db_closed' = FALSE
    /\ live' = Greater(live, descriptor.applied)
    /\ reload' = "done"
    /\ UNCHANGED <<transferVars, raftVars, diskVars, kvVars, db_open, db_detached, installing,
                   queue, worker, ran, target, startup, faultVars>>

ReloadCopyKeepsLive ==
    /\ reload = "deleted"
    /\ HasDb /\ DbIntact
    /\ db_open' = 1..descriptor.db
    /\ db_disk' = 1..descriptor.db
    /\ db_closed' = FALSE
    /\ reload' = "done"
    /\ UNCHANGED <<transferVars, raftVars, descriptor, archive, kv_disk, kvVars, db_detached,
                   installing, workerVars, target, startup, faultVars>>

(* Second half: the archive's db/ is copied there, opened and loaded, and  *)
(* the live index advanced to the descriptor's.                            *)
ReloadCopy ==
    /\ reload = "deleted"
    /\ HasDb /\ DbIntact
    /\ db_open' = 1..descriptor.db
    /\ db_disk' = 1..descriptor.db
    /\ db_closed' = FALSE
    /\ live' = Greater(live, descriptor.applied)
    /\ startup' = IF live < descriptor.applied
                  THEN Refreshed(startup, TRUE, descriptor.applied) ELSE startup
    /\ reload' = "done"
    /\ UNCHANGED <<transferVars, raftVars, descriptor, archive, kv_disk, kvVars, db_detached,
                   installing, queue, worker, ran, target, faultVars>>

(* The reload fails, and an error is logged: there is no db/ in the        *)
(* archive; it cannot be copied or opened, and the store stays closed; or  *)
(* it is open again, and the load of a manager fails.                      *)
ReloadFails ==
    /\ reload' = "done"
    /\ \/ /\ reload = "open"
          /\ ~HasDb
          /\ UNCHANGED <<db_open, db_disk, db_closed, local_failures>>
       \/ /\ reload = "deleted"
          /\ IF HasDb /\ DbIntact
             THEN local_failures < MaxLocalFailures /\ local_failures' = local_failures + 1
             ELSE UNCHANGED local_failures
          /\ UNCHANGED <<db_open, db_disk, db_closed>>
       \/ /\ reload = "deleted"
          /\ HasDb /\ DbIntact
          /\ local_failures < MaxLocalFailures
          /\ local_failures' = local_failures + 1
          /\ db_open' = 1..descriptor.db
          /\ db_disk' = 1..descriptor.db
          /\ db_closed' = FALSE
    /\ UNCHANGED <<transferVars, raftVars, descriptor, archive, kv_disk, kvVars, db_detached,
                   installing, workerVars, target, startup, failures, crashes, archived>>

(* handle_applied_snapshot ends, with a refresh, whatever the reload gave; *)
(* NuRaft resumes.                                                         *)
ReloadEnds ==
    /\ reload = "done"
    /\ reload' = "idle"
    /\ Resume
    /\ \E rec \in BOOLEAN :
           startup' = Refresh(startup, rec \/ target > live, kv_open, live, sm_commit)
    /\ UNCHANGED <<offer, next_obj, incoming, staging, restarts, diskVars, kvVars,
                   dbVars, installing, workerVars, target, faultVars>>

GraceElapses ==
    /\ startup.grace = "running"
    /\ startup' = [startup EXCEPT !.grace = "over"]
    /\ UNCHANGED <<transferVars, raftVars, diskVars, kvVars, dbVars, installing, workerVars,
                   target, reload, faultVars>>
-----------------------------------------------------------------------------
(* The commit thread: the next entry goes to the KV sink and the queue     *)
(* (MirrorPipeline has its steps).  It is paused while a snapshot is       *)
(* applied.  Entries after a snapshot follow from the leader's log; while  *)
(* one is sent, this node has only entries before it.                      *)
Commit ==
    /\ phase \in {"idle", "transfer"}
    /\ sm_commit < log_end
    /\ phase = "transfer" => sm_commit < offer.log
    /\ sm_commit' = sm_commit + 1
    /\ kv_open' = Greater(kv_open, sm_commit + 1)
    /\ kv_disk' = IF kv_detached THEN kv_disk ELSE Greater(kv_disk, sm_commit + 1)
    /\ queue' = Append(queue, sm_commit + 1)
    /\ \E rec \in BOOLEAN :
           startup' = Refresh(startup, rec \/ target > live,
                              Greater(kv_open, sm_commit + 1), live, sm_commit)
    /\ UNCHANGED <<transferVars, log_end, descriptor, archive, db_disk, kv_detached, dbVars, installing,
                   worker, live, ran, target, reload, faultVars>>

WorkerPop ==
    /\ worker = 0
    /\ queue # <<>>
    /\ worker' = Head(queue)
    /\ queue' = Tail(queue)
    /\ UNCHANGED <<transferVars, raftVars, diskVars, kvVars, dbVars, installing, live, ran,
                   reloadVars, faultVars>>

(* apply_mirrored_request under live_apply_mutex_, which a reload holds    *)
(* too, and the advance of the live index.  A handler that meets a closed  *)
(* store is not modelled.                                                  *)
WorkerApply ==
    /\ worker # 0
    /\ ~db_closed
    /\ worker' = 0
    /\ db_open' = db_open \cup {worker}
    /\ db_disk' = IF db_detached THEN db_disk ELSE db_disk \cup {worker}
    /\ ran' = ran \cup {worker}
    /\ live' = Greater(live, worker)
    /\ \E rec \in BOOLEAN :
           startup' = IF live < worker THEN Refreshed(startup, rec, worker) ELSE startup
    /\ UNCHANGED <<transferVars, raftVars, descriptor, archive, kv_disk, kvVars, db_detached,
                   db_closed, installing, queue, target, reload, faultVars>>

(* The process starts again: both databases are opened from their          *)
(* directories, the indices are taken from the KV sink, and the leader     *)
(* begins a transfer it had under way again.                               *)
Restart ==
    /\ Interrupted
    /\ incoming' = None
    /\ phase' = "idle"
    /\ installing' = "idle"
    /\ kv_open' = kv_disk'
    /\ kv_detached' = FALSE
    /\ db_open' = db_disk'
    /\ db_detached' = FALSE
    /\ db_closed' = FALSE
    /\ sm_commit' = kv_disk'
    /\ live' = kv_disk'
    /\ queue' = <<>>
    /\ worker' = 0
    /\ target' = 0
    /\ reload' = "idle"
    /\ startup' = [tracking |-> kv_disk' = 0, pending |-> kv_disk' = 0, base |-> kv_disk',
                   grace |-> IF kv_disk' = 0 THEN "running" ELSE "unset"]
    /\ UNCHANGED <<offer, next_obj, staging, restarts, log_end, failures, local_failures, ran>>

Crash ==
    /\ crashes < MaxCrashes
    /\ crashes' = crashes + 1
    /\ Restart

(* Without a descriptor apply_snapshot returns false, and NuRaft ends the  *)
(* process.                                                                *)
ApplyFails ==
    /\ phase = "apply"
    /\ descriptor = None
    /\ Restart
    /\ UNCHANGED crashes
-----------------------------------------------------------------------------
Init ==
    /\ offer = None
    /\ next_obj = 0
    /\ phase = "idle"
    /\ sm_commit = 0
    /\ log_end = OwnLog
    /\ incoming = None
    /\ staging = [s \in Snapshots |-> EmptyDir]
    /\ descriptor = IF OwnSnapshot THEN Older ELSE None
    /\ archive = [s \in {} |-> EmptyDir]
    /\ kv_disk = 0 /\ kv_open = 0 /\ kv_detached = FALSE
    /\ db_disk = {} /\ db_open = {} /\ db_detached = FALSE /\ db_closed = FALSE
    /\ installing = "idle"
    /\ queue = <<>>
    /\ worker = 0
    /\ live = 0
    /\ target = 0
    /\ reload = "idle"
    /\ startup = [tracking |-> TRUE, pending |-> TRUE, base |-> 0, grace |-> "running"]
    /\ failures = 0 /\ local_failures = 0 /\ restarts = 0 /\ crashes = 0
    /\ ran = {} /\ archived = FALSE

Sending == save_manifest \/ save_chunk \/ skip_chunk

Installing == InstallMeta \/ InstallArchive \/ InstallKv \/ InstallDb \/ InstallFails

Applying ==
    \/ apply_snapshot
    \/ ReloadDelete
    \/ ReloadCopy
    \/ ReloadFails
    \/ ReloadEnds
    \/ ApplyFails

Next ==
    \/ \E s \in Snapshots : Offer(s)
    \/ Abandon
    \/ Sending
    \/ save_again
    \/ Installing
    \/ Applying
    \/ Commit
    \/ WorkerPop
    \/ WorkerApply
    \/ Probe
    \/ GraceElapses
    \/ Crash

Spec == Init /\ [][Next]_vars

(* The leader goes on sending what it has begun, and the threads of the    *)
(* node run.                                                               *)
FairSpec ==
    /\ Spec
    /\ WF_vars(Sending)
    /\ WF_vars(Installing)
    /\ WF_vars(Applying)
    /\ WF_vars(WorkerPop \/ WorkerApply)
-----------------------------------------------------------------------------
TypeOK ==
    /\ offer \in Snapshots \cup {None}
    /\ next_obj \in 0..(Len(build_snapshot_chunks) + 1)
    /\ phase \in {"idle", "transfer", "apply"}
    /\ sm_commit \in 0..MaxIndex
    /\ log_end \in {OwnLog, MaxIndex}
    /\ incoming \in Snapshots \cup {None}
    /\ \A s \in Snapshots : DOMAIN staging[s] \subseteq Names
    /\ descriptor \in Snapshots \cup {None, Older}
    /\ DOMAIN archive \subseteq Snapshots
    /\ {kv_disk, kv_open, live, target, worker} \subseteq 0..MaxIndex
    /\ db_disk \subseteq 1..MaxIndex /\ db_open \subseteq 1..MaxIndex
    /\ {kv_detached, db_detached, db_closed} \subseteq BOOLEAN
    /\ installing \in {"idle", "meta", "archive", "kv", "db"}
    /\ installing # "idle" => incoming # None
    /\ queue \in Seq(1..MaxIndex)
    /\ reload \in {"idle", "open", "deleted", "done"}
    /\ startup \in StartupState
    /\ ran \subseteq 1..MaxIndex /\ archived \in BOOLEAN

(* What is installed is what the leader sent, byte for byte, however often *)
(* an object came twice or the transfer began again.                       *)
InstalledWhole ==
    \A s \in DOMAIN archive : Whole(archive[s], s)

(* When objects could not be written, or came twice, a payload that lacks  *)
(* a file of the manifest, or part of one at its end, is never installed.  *)
(* (A copy into the archive that is itself interrupted can be partial.)    *)
InstalledComplete ==
    local_failures = 0 /\ crashes = 0 =>
    \A s \in DOMAIN archive : \A name \in Names :
        name \in DOMAIN archive[s] /\ Len(archive[s][name]) = SizeOf(name)

(* Until a payload is installed, no failed or interrupted transfer, reload *)
(* or start of the process takes away an entry the node's product state    *)
(* had, on disk or in memory.                                              *)
RejectedKeepsState ==
    ~archived => ran \subseteq db_open \cap db_disk

(* Whenever the product state can be read, the live index covers only      *)
(* entries that are in it, those before, during and after a reload.        *)
LiveIndexHonest ==
    ~db_closed => 1..live \subseteq db_open

(* Whenever the product state can be read, no entry whose handler has run  *)
(* on this node is missing from it, whatever the worker wrote to the store *)
(* while its directory was replaced and the reload was on its way.         *)
NothingUndone ==
    ~db_closed => ran \subseteq db_open

(* When NuRaft has a snapshot applied, that snapshot has been installed.   *)
(* It does not hold (README, section 3).                                   *)
AppliedIsInstalled ==
    [][apply_snapshot => offer \in DOMAIN archive /\ descriptor = offer]_vars

(* A node that was given a snapshot is not ready before its product state  *)
(* has been loaded from it.  It does not hold while the reload is on its   *)
(* way (README, section 3).                                                *)
ReadyMeansLoaded ==
    is_materialization_ready(FALSE) => 1..target \subseteq db_open

(* A snapshot that was received is loaded, and the node is ready.          *)
SnapshotMakesReady ==
    (phase = "apply") ~>
        (phase = "idle" /\ live >= offer.applied /\ is_materialization_ready(FALSE))
=============================================================================
