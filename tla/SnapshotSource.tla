--------------------------- MODULE SnapshotSource ---------------------------
(***************************************************************************)
(* The creating and sending side of snapshots on a leader:                 *)
(* NuRaftSnapshotCoordinator::create_snapshot called by the state machine  *)
(* (under snapshot_mutex_) and by the snapshot endpoint (not under it),    *)
(* the scheduler thread, do_snapshot with its own log compaction and its   *)
(* export, and read_logical_snp_obj, which sends the files of the latest   *)
(* descriptor one object at a time.  The commit thread goes on meanwhile.  *)
(*                                                                         *)
(* A payload is the directory of one snapshot id, abstracted to its parts: *)
(* the copy of the main store and the checkpoint of the KV sink (the       *)
(* copies of meta/ and log/ come before them and are left out).  A part    *)
(* remembers which creation wrote it and the last entry that can be in it: *)
(* the mirror worker only runs entries the KV sink already has.            *)
(***************************************************************************)
EXTENDS Integers, FiniteSets

CONSTANTS
    Reserved,       \* raft_params.reserved_log_items
    Distance,       \* raft_params.snapshot_distance
    Requests,       \* what POST /operations/snapshot asks for: "internal", "export"
    MaxIndex,       \* bound: committed entries
    MaxRequests,    \* bound: snapshot requests
    MaxTransfers,   \* bound: transfers begun
    MaxFaults       \* bound: failing copies and restarts

ASSUME SourceAssumption ==
    /\ Reserved \in Nat /\ Distance \in Nat \ {0} /\ MaxIndex \in Nat \ {0}
    /\ Requests \subseteq {"internal", "export"}
    /\ {MaxRequests, MaxTransfers, MaxFaults} \subseteq Nat

VARIABLES
    committed,      \* Raft's commit index
    smCommit,       \* the state machine's last_commit_index_, also the KV sink's
    startIndex,     \* the log store's start_index
    descriptor,     \* last_snapshot.bin
    payload,        \* the directories under snapshot/, by snapshot id
    mutex,          \* who holds snapshot_mutex_
    lastSnapshot,   \* last_snapshot_ptr_ of the state machine
    raftSnapshot,   \* get_last_snapshot_idx() of the Raft server
    job,            \* the two possible callers of create_snapshot
    sched,          \* the scheduler thread
    manual,         \* do_snapshot's detached thread has yet to call Raft
    request,        \* do_snapshot
    export,         \* the exported tree
    transfer,       \* the context of a running transfer
    left,           \* what remains of the bounds
    raced           \* history: the payloads two creations wrote to at the same time

entries   == <<committed, smCommit>>
snapshots == <<descriptor, payload, mutex, lastSnapshot>>
raft      == <<raftSnapshot, startIndex>>
asking    == <<sched, manual>>
endpoint  == <<request, export>>

vars == <<entries, snapshots, raft, job, asking, endpoint, transfer, left, raced>>

-----------------------------------------------------------------------------
Index == 0..MaxIndex
Parts == {"db", "kv"}

(* A part of a payload: the caller of create_snapshot that wrote it (a     *)
(* creation clears the directory first), and the last entry that can be    *)
(* in it.                                                                  *)
Callers == {"sm", "export"}
Part == [by : Callers \cup {"none"}, at : Index]
NoPart == [by |-> "none", at |-> 0]
NoPayload == [p \in Parts |-> NoPart]
Present(dir) == {p \in Parts : dir[p].by # "none"}
Whole(dir) == Present(dir) = Parts /\ Cardinality({dir[p].by : p \in Parts}) = 1

(* build_descriptor: the id is made of the two indices.                    *)
Descriptor == [last_log : Index, applied : Index]
NoDescriptor == [last_log |-> 0, applied |-> 0]
HaveDescriptor == descriptor # NoDescriptor

(* The directory of a snapshot id.                                         *)
Dir(id) == IF id \in DOMAIN payload THEN payload[id] ELSE NoPayload

(* A function with one more point, or another value there.                 *)
Put(f, x, v) == [y \in {x} \cup DOMAIN f |-> IF y = x THEN v ELSE f[y]]

NoJob == [pc |-> "idle", index |-> 0, id |-> NoDescriptor, serial |-> FALSE, ok |-> TRUE]
NoRequest == [pc |-> "idle", index |-> 0, kind |-> "internal", id |-> NoDescriptor]
NothingSent == [p \in {} |-> 0]
NoTransfer == [on |-> FALSE, s |-> 0, id |-> NoDescriptor, files |-> {}, sent |-> NothingSent]
NoExport == [id |-> NoDescriptor, tree |-> NoPayload]

Init ==
    /\ committed = 0 /\ smCommit = 0
    /\ startIndex = 1
    /\ descriptor = NoDescriptor
    /\ payload = [id \in {} |-> NoPayload]
    /\ mutex = "free"
    /\ lastSnapshot = 0 /\ raftSnapshot = 0
    /\ job = [c \in Callers |-> NoJob]
    /\ sched = "idle" /\ manual = FALSE
    /\ request = NoRequest
    /\ export = NoExport
    /\ transfer = NoTransfer
    /\ left = [requests |-> MaxRequests, transfers |-> MaxTransfers, faults |-> MaxFaults]
    /\ raced = {}

Spend(what) == left[what] > 0 /\ left' = [left EXCEPT ![what] = @ - 1]

-----------------------------------------------------------------------------
(* Entries: Raft commits one, and the commit thread applies it to the KV   *)
(* sink, but not during a creation that serializes commits.                *)
Commit ==
    /\ committed < MaxIndex
    /\ committed' = committed + 1
    /\ UNCHANGED <<smCommit, snapshots, raft, job, asking, endpoint, transfer, left,
                   raced>>

Serialized == job["sm"].pc # "idle" /\ job["sm"].serial

Apply ==
    /\ smCommit < committed
    /\ ~Serialized
    /\ smCommit' = smCommit + 1
    /\ UNCHANGED <<committed, snapshots, raft, job, asking, endpoint, transfer, left,
                   raced>>

-----------------------------------------------------------------------------
(* A call of create_snapshot at an index, by the state machine or by the   *)
(* endpoint.                                                               *)
Begin(caller, index, serial) ==
    job' = [job EXCEPT ![caller] = [pc |-> "describe", index |-> index, id |-> NoDescriptor,
                                    serial |-> serial, ok |-> TRUE]]

(* Raft makes one snapshot at a time, at the index its state machine has   *)
(* reached, and calls the state machine's create_snapshot on the thread    *)
(* that asked.                                                             *)
RaftCreates(serial) ==
    IF job["sm"].pc = "idle" /\ smCommit > 0
    THEN Begin("sm", smCommit, serial)
    ELSE UNCHANGED job

(* Raft's own snapshot every snapshot_distance entries, on the commit      *)
(* thread.                                                                 *)
DistanceSnapshot ==
    /\ smCommit >= raftSnapshot + Distance
    /\ job["sm"].pc = "idle"
    /\ RaftCreates(TRUE)
    /\ UNCHANGED <<entries, snapshots, raft, asking, endpoint, transfer, left, raced>>

(* snapshot_in_progress_ is cleared before Raft is told.                   *)
InProgress == job["sm"].pc \notin {"idle", "done"}

(* snapshot_scheduler_loop up to its decision.  due: the interval has      *)
(* passed.  behind: some peer lacks more than the retained entries.  The   *)
(* node leads and an interval is set: elsewhere the loop does nothing.     *)
SchedulerPoll(due, behind) ==
    /\ sched = "idle"
    /\ ~InProgress
    /\ smCommit > raftSnapshot
    /\ due \/ (behind /\ smCommit - raftSnapshot > Reserved)
    /\ sched' = "create"
    /\ UNCHANGED <<entries, snapshots, raft, job, manual, endpoint, transfer, left, raced>>

(* Its call of raft_server::create_snapshot: nothing comes of it when      *)
(* another creation has begun since the poll.                              *)
SchedulerCreate ==
    /\ sched = "create"
    /\ sched' = "idle"
    /\ RaftCreates(FALSE)
    /\ UNCHANGED <<entries, snapshots, raft, manual, endpoint, transfer, left, raced>>

(* The detached thread of do_snapshot, with serialize_commit_.             *)
ManualCreate ==
    /\ manual
    /\ manual' = FALSE
    /\ RaftCreates(TRUE)
    /\ UNCHANGED <<entries, snapshots, raft, sched, endpoint, transfer, left, raced>>

-----------------------------------------------------------------------------
(* NuRaftSnapshotCoordinator::create_snapshot, one step per thing it does  *)
(* to the disk.  The state machine holds snapshot_mutex_ throughout; the   *)
(* endpoint's own coordinator does not take it.                            *)
Other(c) == IF c = "sm" THEN "export" ELSE "sm"
Writing(c, id) == job[c].pc \notin {"idle", "describe", "end", "done"} /\ job[c].id = id

(* The snapshot ids that something still refers to.                        *)
UsedIds == {descriptor, transfer.id, export.id, request.id} \cup {job[c].id : c \in Callers}

(* Mutant: the state machine does not take the mutex.                      *)
DescribeUnlocked(c) ==
    LET id   == [last_log |-> job[c].index, applied |-> smCommit]
        kept == (UsedIds \ {id}) \cap DOMAIN payload
    IN  /\ job[c].pc = "describe"
        /\ descriptor' = id
        /\ payload' = [i \in kept |-> payload[i]]
        /\ job' = [job EXCEPT ![c].pc = "db", ![c].id = id]
        /\ raced' = (raced \cap UsedIds) \cup (IF Writing(Other(c), id) THEN {id} ELSE {})
        /\ UNCHANGED <<entries, mutex, lastSnapshot, raft, asking, endpoint, transfer, left>>

(* build_descriptor, the descriptor's file, and remove_tree(local_root).   *)
(* Directories that nothing refers to are forgotten here.                  *)
Describe(c) ==
    LET id   == [last_log |-> job[c].index, applied |-> smCommit]
        kept == (UsedIds \ {id}) \cap DOMAIN payload
    IN  /\ job[c].pc = "describe"
        /\ c = "sm" => mutex = "free"
        /\ mutex' = IF c = "sm" THEN "sm" ELSE mutex
        /\ descriptor' = id
        /\ payload' = [i \in kept |-> payload[i]]
        /\ job' = [job EXCEPT ![c].pc = "db", ![c].id = id]
        /\ raced' = (raced \cap UsedIds) \cup (IF Writing(Other(c), id) THEN {id} ELSE {})
        /\ UNCHANGED <<entries, lastSnapshot, raft, asking, endpoint, transfer, left>>

(* The order of the copies.  db/ is copied from the open store; the KV     *)
(* sink makes a checkpoint.                                                *)
After == [db |-> "kv", kv |-> "end"]

(* Mutant: the checkpoint comes before the copy of the store.              *)
CopyStoreLast(c) ==
    LET part == IF job[c].pc = "db" THEN "kv" ELSE "db"
    IN  /\ job[c].pc \in Parts
        /\ payload' = Put(payload, job[c].id,
                          [Dir(job[c].id) EXCEPT ![part] = [by |-> c, at |-> smCommit]])
        /\ job' = [job EXCEPT ![c].pc = After[job[c].pc]]
        /\ UNCHANGED <<entries, descriptor, mutex, lastSnapshot, raft, asking, endpoint, transfer,
                       left, raced>>

Copy(c) ==
    LET part == job[c].pc
    IN  /\ part \in Parts
        /\ payload' = Put(payload, job[c].id,
                          [Dir(job[c].id) EXCEPT ![part] = [by |-> c, at |-> smCommit]])
        /\ job' = [job EXCEPT ![c].pc = After[part]]
        /\ UNCHANGED <<entries, descriptor, mutex, lastSnapshot, raft, asking, endpoint, transfer,
                       left, raced>>

CopyFails(c) ==
    /\ job[c].pc \in Parts
    /\ Spend("faults")
    /\ job' = [job EXCEPT ![c].pc = "end", ![c].ok = FALSE]
    /\ UNCHANGED <<entries, snapshots, raft, asking, endpoint, transfer, raced>>

(* Mutant: the mutex is still held when Raft is told.                      *)
ReleaseLate ==
    /\ job["sm"].pc = "end"
    /\ lastSnapshot' = IF job["sm"].ok THEN job["sm"].index ELSE lastSnapshot
    /\ job' = [job EXCEPT !["sm"].pc = "done"]
    /\ UNCHANGED <<entries, descriptor, payload, mutex, raft, asking, endpoint, transfer, left,
                   raced>>

(* The end of the state machine's create_snapshot: last_snapshot_ptr_ is   *)
(* set and the mutex released, and only then is Raft told.                 *)
Release ==
    /\ job["sm"].pc = "end"
    /\ mutex' = "free"
    /\ lastSnapshot' = IF job["sm"].ok THEN job["sm"].index ELSE lastSnapshot
    /\ job' = [job EXCEPT !["sm"].pc = "done"]
    /\ UNCHANGED <<entries, descriptor, payload, raft, asking, endpoint, transfer, left, raced>>

(* LogStore::compact as Raft and do_snapshot use it.                       *)
Larger(a, b) == IF a < b THEN b ELSE a

ExpectedStart(index) == IF index > Reserved THEN index - Reserved + 1 ELSE 1

(* when_done: Raft asks last_snapshot(), which takes the mutex, makes it   *)
(* its own and compacts the log up to the retained entries.                *)
WhenDone ==
    /\ job["sm"].pc = "done"
    /\ mutex = "free"
    /\ job' = [job EXCEPT !["sm"] = NoJob]
    /\ IF job["sm"].ok
       THEN /\ raftSnapshot' = lastSnapshot
            /\ startIndex' = Larger(startIndex, ExpectedStart(lastSnapshot))
       ELSE UNCHANGED raft
    /\ UNCHANGED <<entries, snapshots, asking, endpoint, transfer, left, raced>>

-----------------------------------------------------------------------------
(* do_snapshot.  It reads the index, starts the detached thread, waits for *)
(* a snapshot of at least that index, sees to the compaction, and for an   *)
(* export creates the snapshot once more and copies it out.                *)
Idle == request.pc = "idle"

DoSnapshot(kind) ==
    /\ Idle
    /\ committed > 0
    /\ Spend("requests")
    /\ request' = [pc |-> "wait", index |-> committed, kind |-> kind, id |-> NoDescriptor]
    /\ manual' = TRUE
    /\ UNCHANGED <<entries, snapshots, raft, job, sched, export, transfer, raced>>

(* The snapshot is there; its compaction is too, or is made here after the *)
(* first wait.                                                             *)
SnapshotSeen ==
    /\ request.pc = "wait"
    /\ raftSnapshot >= request.index
    /\ startIndex' = Larger(startIndex, ExpectedStart(request.index))
    /\ request' = [request EXCEPT !.pc = "create"]
    /\ UNCHANGED <<entries, snapshots, raftSnapshot, job, asking, export, transfer, left, raced>>

(* Mutant: the request goes on after the deadline.                         *)
TimeoutIgnored ==
    /\ request.pc = "wait"
    /\ raftSnapshot < request.index
    /\ request' = [request EXCEPT !.pc = "create"]
    /\ UNCHANGED <<entries, snapshots, raft, job, asking, export, transfer, left, raced>>

SnapshotTimeout ==
    /\ request.pc = "wait"
    /\ raftSnapshot < request.index
    /\ request' = NoRequest
    /\ UNCHANGED <<entries, snapshots, raft, job, asking, export, transfer, left, raced>>

(* An internal request answers with the latest descriptor.                 *)
AnswerInternal ==
    /\ request.pc = "create" /\ request.kind = "internal"
    /\ request' = [request EXCEPT !.pc = "acked", !.id = descriptor]
    /\ UNCHANGED <<entries, snapshots, raft, job, asking, export, transfer, left, raced>>

ExportCreate ==
    /\ request.pc = "create" /\ request.kind = "export"
    /\ Begin("export", request.index, FALSE)
    /\ request' = [request EXCEPT !.pc = "export"]
    /\ UNCHANGED <<entries, snapshots, raft, asking, export, transfer, left, raced>>

(* The rest of an export: meta/ (with the descriptor of the moment), then  *)
(* snapshot/ with the payload the copied descriptor names.                 *)
ExportMeta ==
    /\ request.pc = "export" /\ job["export"].pc = "end" /\ job["export"].ok
    /\ export' = [id |-> descriptor, tree |-> NoPayload]
    /\ request' = [request EXCEPT !.pc = "tree"]
    /\ UNCHANGED <<entries, snapshots, raft, job, asking, transfer, left, raced>>

ExportTree ==
    /\ request.pc = "tree"
    /\ export' = [export EXCEPT !.tree = Dir(export.id)]
    /\ request' = [request EXCEPT !.pc = "acked", !.id = job["export"].id]
    /\ job' = [job EXCEPT !["export"] = NoJob]
    /\ UNCHANGED <<entries, snapshots, raft, asking, transfer, left, raced>>

Answered ==
    /\ request.pc = "acked"
    /\ request' = NoRequest /\ export' = NoExport
    /\ UNCHANGED <<entries, snapshots, raft, job, asking, transfer, left, raced>>

ExportFailed ==
    /\ request.pc = "export" /\ job["export"].pc = "end" /\ ~job["export"].ok
    /\ request' = NoRequest
    /\ job' = [job EXCEPT !["export"] = NoJob]
    /\ UNCHANGED <<entries, snapshots, raft, asking, export, transfer, left, raced>>

-----------------------------------------------------------------------------
(* read_logical_snp_obj: the first call takes the manifest from the latest *)
(* descriptor, whatever snapshot Raft is sending; every later call reads   *)
(* one object.  The mutex is held for one call only.                       *)
TransferOrder == [db |-> 1, kv |-> 2]

(* Listing a directory that does not exist throws: nothing is sent.        *)
Manifest ==
    /\ ~transfer.on
    /\ raftSnapshot # 0 /\ mutex = "free"
    /\ Spend("transfers")
    /\ transfer' = LET files == Present(Dir(descriptor))
                   IN  IF files = {} THEN NoTransfer
                       ELSE [on |-> TRUE, s |-> raftSnapshot, id |-> descriptor, files |-> files,
                             sent |-> NothingSent]
    /\ UNCHANGED <<entries, snapshots, raft, job, asking, endpoint, raced>>

Pending == transfer.files \ DOMAIN transfer.sent
FirstOf(parts) == CHOOSE p \in parts : \A q \in parts : TransferOrder[p] <= TransferOrder[q]

(* An object whose file is gone is answered -1 and Raft gives the transfer *)
(* up.                                                                     *)
ReadObject ==
    /\ transfer.on /\ Pending # {} /\ mutex = "free"
    /\ LET part == FirstOf(Pending)
           file == Dir(transfer.id)[part]
       IN  transfer' = IF file.by = "none" THEN NoTransfer
                       ELSE [transfer EXCEPT !.sent = Put(@, part, file.at)]
    /\ UNCHANGED <<entries, snapshots, raft, job, asking, endpoint, left, raced>>

Sent == transfer.on /\ Pending = {}

(* free_user_snp_ctx                                                       *)
TransferDone ==
    /\ Sent
    /\ transfer' = NoTransfer
    /\ UNCHANGED <<entries, snapshots, raft, job, asking, endpoint, left, raced>>

-----------------------------------------------------------------------------
(* The process stops at any point and starts again: the constructor of the *)
(* state machine takes its last snapshot from the descriptor's file.       *)
Restart ==
    /\ Spend("faults")
    /\ mutex' = "free"
    /\ job' = [c \in Callers |-> NoJob]
    /\ sched' = "idle" /\ manual' = FALSE
    /\ request' = NoRequest /\ transfer' = NoTransfer
    /\ lastSnapshot' = descriptor.last_log
    /\ raftSnapshot' = descriptor.last_log
    /\ UNCHANGED <<committed, smCommit, startIndex, descriptor, payload, export, raced>>

Creation == \E c \in Callers : Describe(c) \/ Copy(c)

Next ==
    \/ Commit \/ Apply
    \/ DistanceSnapshot
    \/ \E due, behind \in BOOLEAN : SchedulerPoll(due, behind)
    \/ SchedulerCreate \/ ManualCreate
    \/ Creation \/ (\E c \in Callers : CopyFails(c))
    \/ Release \/ WhenDone
    \/ \E kind \in Requests : DoSnapshot(kind)
    \/ SnapshotSeen \/ SnapshotTimeout \/ AnswerInternal
    \/ ExportCreate \/ ExportMeta \/ ExportTree \/ ExportFailed \/ Answered
    \/ Manifest \/ ReadObject \/ TransferDone
    \/ Restart

Spec == Init /\ [][Next]_vars

(* The threads of the node run, and the interval passes again and again.   *)
(* Nothing is assumed of requests, transfers, failures and stops.          *)
Fairness ==
    /\ WF_vars(Apply)
    /\ WF_vars(\E behind \in BOOLEAN : SchedulerPoll(TRUE, behind))
    /\ WF_vars(SchedulerCreate)
    /\ WF_vars(Creation)
    /\ WF_vars(Release) /\ WF_vars(WhenDone)

FairSpec == Spec /\ Fairness

-----------------------------------------------------------------------------
(* Types; the state machine is never ahead of Raft, and the log never      *)
(* starts more than one past the last entry, however it was compacted.     *)
TypeOK ==
    /\ committed \in Index /\ smCommit \in 0..committed
    /\ startIndex \in 1..(MaxIndex + 1)
    /\ descriptor \in Descriptor
    /\ DOMAIN payload \subseteq Descriptor
    /\ \A id \in DOMAIN payload : \A p \in Parts : payload[id][p] \in Part
    /\ mutex \in {"free", "sm"}
    /\ lastSnapshot \in Index /\ raftSnapshot \in Index
    /\ sched \in {"idle", "create"} /\ manual \in BOOLEAN
    /\ transfer.on => transfer.files # {}
    /\ raced \subseteq Descriptor

(* No creation failed and the process was not stopped.                     *)
Undisturbed == left.faults = MaxFaults

(* Whoever takes snapshot_mutex_ finds, under the latest descriptor, the   *)
(* whole payload of one creation, although the descriptor is written       *)
(* first: provided no copy failed, no stop came in between and no export   *)
(* was writing at the same time.                                           *)
OfferedIsWhole ==
    /\ Undisturbed /\ mutex = "free" /\ HaveDescriptor
    /\ job["export"].pc \in {"idle", "describe", "end"}
    /\ descriptor \notin raced
    => Whole(Dir(descriptor))

(* What reached a peer covers the snapshot Raft said it was sending: the   *)
(* KV checkpoint contains every entry up to it (the log goes on after it), *)
(* and the copied store has no entry that the checkpoint lacks.            *)
DeliveredCovers ==
    Sent /\ transfer.files = Parts /\ transfer.id \notin raced =>
        /\ transfer.sent["kv"] >= transfer.s
        /\ transfer.sent["db"] <= transfer.sent["kv"]

(* The log still has every entry after the last snapshot, also when        *)
(* do_snapshot compacts it on its own.                                     *)
LogFollowsSnapshot ==
    Undisturbed => startIndex <= raftSnapshot + 1

(* A snapshot request that was answered with success names a snapshot that *)
(* covers every entry committed when the request came in.                  *)
AckedSnapshotCovers ==
    request.pc = "acked" =>
        /\ request.id.applied >= request.index
        /\ Undisturbed /\ mutex = "free" /\ request.id \notin raced => Whole(Dir(request.id))

(* "periodic snapshots must keep the recovery point moving": every applied *)
(* entry is covered by a snapshot of Raft in the end.                      *)
RecoveryPointMoves == \A i \in 1..MaxIndex : smCommit >= i ~> raftSnapshot >= i

(* Once log entries were compacted away, the latest snapshot can be used   *)
(* by a follower: its payload is whole and the log goes on after it.  An   *)
(* export breaks it (README, section 3).                                   *)
LatestSnapshotUsable ==
    startIndex > 1 /\ mutex = "free" /\ Idle =>
        /\ Whole(Dir(descriptor))
        /\ startIndex <= raftSnapshot + 1

(* What is copied to the export path is the whole payload of the snapshot  *)
(* the exported descriptor names, unless the state machine is creating     *)
(* that very snapshot at the time.                                         *)
ExportWholeUnlessOverlapped ==
    [][ request.pc = "tree" /\ request'.pc = "acked"
        /\ Undisturbed /\ ~Writing("sm", export.id) /\ export.id \notin raced
        => Whole(export'.tree) ]_vars
=============================================================================
