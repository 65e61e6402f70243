------------------------ MODULE SnapshotSourceProofs ------------------------
(***************************************************************************)
(* Proofs about SnapshotSource: whatever the scheduler, the Raft library,  *)
(* the snapshot endpoint and the transfers do beside each other, for any   *)
(* number of entries, requests, transfers and faults.                      *)
(***************************************************************************)
EXTENDS SnapshotSource, FiniteSetTheorems, TLAPS

(* The two creations of a snapshot, and the steps of a request.            *)
JobStep == {"idle", "describe", "end", "done"} \cup Parts
Job == [pc : JobStep, index : Index, id : Descriptor, serial : BOOLEAN, ok : BOOLEAN]
RequestStep == {"idle", "wait", "create", "export", "tree", "acked"}
Request == [pc : RequestStep, index : Index, kind : {"internal", "export"}, id : Descriptor]
Transfer == [on : BOOLEAN, s : Index, id : Descriptor, files : SUBSET Parts,
             sent : UNION {[S -> Index] : S \in SUBSET Parts}]

SourceTypes ==
    /\ committed \in Index /\ smCommit \in Index /\ smCommit <= committed
    /\ startIndex \in 1..(MaxIndex + 1)
    /\ descriptor \in Descriptor
    /\ \A id \in DOMAIN payload : payload[id] \in [Parts -> Part]
    /\ mutex \in {"free", "sm"}
    /\ lastSnapshot \in Index /\ raftSnapshot \in Index
    /\ job \in [Callers -> Job]
    /\ sched \in {"idle", "create"} /\ manual \in BOOLEAN
    /\ request \in Request
    /\ export \in [id : Descriptor, tree : [Parts -> Part]]
    /\ transfer \in Transfer
    /\ left \in [requests : Nat, transfers : Nat, faults : 0..MaxFaults]
    /\ raced \subseteq Descriptor

(* Who has got how far.  The descriptor holds the largest applied index    *)
(* so far, and a creation's index is never past what it applied.           *)
Order ==
    /\ descriptor.last_log <= descriptor.applied /\ descriptor.applied <= smCommit
    /\ lastSnapshot <= descriptor.applied /\ raftSnapshot <= descriptor.applied
    /\ mutex = "sm" <=> job["sm"].pc \in {"db", "kv", "end"}
    /\ \A c \in Callers :
         /\ job[c].pc # "idle" => job[c].index \in 1..smCommit
         /\ job[c].pc \notin {"idle", "describe"} =>
              /\ job[c].id.last_log = job[c].index
              /\ job[c].index <= job[c].id.applied
              /\ job[c].id.applied <= descriptor.applied
    /\ request.pc # "idle" => request.index \in 1..committed
    /\ request.pc \in {"create", "export", "tree", "acked"} => request.index <= descriptor.applied
    /\ request.pc = "acked" => request.index <= request.id.applied
    /\ request.pc = "export" => /\ job["export"].pc \in {"describe", "db", "kv", "end"}
                                /\ job["export"].index = request.index
    /\ request.pc = "tree" => /\ job["export"].pc = "end"
                              /\ job["export"].index = request.index
                              /\ export.id.applied >= request.index
    /\ request.pc \notin {"export", "tree"} => job["export"].pc = "idle"

(* Unless two creations wrote to it at once, a directory is filled in      *)
(* order by one creation, and its checkpoint covers its id.                *)
Filled(id) ==
    /\ ~Writing("sm", id) \/ ~Writing("export", id)
    /\ Dir(id)["kv"].by # "none" => /\ Dir(id)["db"].by = Dir(id)["kv"].by
                                    /\ Dir(id)["db"].at <= Dir(id)["kv"].at
                                    /\ id.applied <= Dir(id)["kv"].at
    /\ \A c \in Callers : Writing(c, id) => /\ Dir(id)["kv"].by = "none"
                                            /\ job[c].pc = "kv" => Dir(id)["db"].by = c

Files ==
    /\ \A id \in Descriptor, p \in Parts : Dir(id)[p].at <= smCommit
    /\ \A id \in Descriptor \ raced : Filled(id)

(* What something refers to and nobody is writing has its last part.       *)
Complete ==
    Undisturbed => \A id \in UsedIds \ ({NoDescriptor} \cup raced) :
        (\A c \in Callers : ~Writing(c, id)) => Dir(id)["kv"].by # "none"

(* What a transfer has sent of the store is covered by the checkpoint it   *)
(* will read, or by any checkpoint still to be made.                       *)
Sending ==
    transfer.on =>
        /\ transfer.s <= transfer.id.applied
        /\ transfer.files = Parts /\ transfer.id \notin raced =>
             /\ "db" \in DOMAIN transfer.sent =>
                  /\ transfer.sent["db"] <= smCommit
                  /\ Dir(transfer.id)["kv"].by # "none" =>
                       transfer.sent["db"] <= Dir(transfer.id)["kv"].at
             /\ "kv" \in DOMAIN transfer.sent =>
                  /\ "db" \in DOMAIN transfer.sent
                  /\ transfer.sent["db"] <= transfer.sent["kv"]
                  /\ transfer.s <= transfer.sent["kv"]

(* Without a stop, the snapshots Raft knows of only move forward.          *)
Forward ==
    Undisturbed =>
        /\ startIndex <= raftSnapshot + 1
        /\ raftSnapshot <= lastSnapshot
        /\ job["sm"].pc # "idle" => lastSnapshot <= job["sm"].index

SourceInv == SourceTypes /\ Order /\ Files /\ Complete /\ Sending /\ Forward

-----------------------------------------------------------------------------
LEMMA Bounds ==
    /\ Reserved \in Nat /\ MaxIndex \in Nat \ {0} /\ MaxFaults \in Nat
    /\ MaxRequests \in Nat /\ MaxTransfers \in Nat
    /\ 0 \in Index /\ \A i \in Index : i \in Nat /\ i <= MaxIndex
BY SourceAssumption DEF Index

LEMMA Empties ==
    /\ NoDescriptor \in Descriptor /\ NoPayload \in [Parts -> Part] /\ NoJob \in Job
    /\ NoRequest \in Request /\ NoTransfer \in Transfer
    /\ NoExport \in [id : Descriptor, tree : [Parts -> Part]]
<1>1. NoDescriptor \in Descriptor /\ NoPart \in Part
  BY Bounds, Zenon DEF NoDescriptor, Descriptor, NoPart, Part
<1>2. NoPayload \in [Parts -> Part]
  BY <1>1, Zenon DEF NoPayload
<1>3. NoJob \in Job
  BY <1>1, Bounds, Zenon DEF NoJob, Job, JobStep
<1>4. NoRequest \in Request
  BY <1>1, Bounds, Zenon DEF NoRequest, Request, RequestStep
<1>5. NothingSent \in [{} -> Index]
  BY Zenon DEF NothingSent
<1>6. NothingSent \in UNION {[S -> Index] : S \in SUBSET Parts}
  BY <1>5, Zenon
<1>7. NoTransfer \in Transfer
  BY <1>1, <1>6, Bounds, Zenon DEF NoTransfer, Transfer
<1>8. NoExport \in [id : Descriptor, tree : [Parts -> Part]]
  BY <1>1, <1>2, Zenon DEF NoExport
<1> QED BY <1>1, <1>2, <1>3, <1>4, <1>7, <1>8, Zenon

(* A directory that nothing was copied to is empty.                        *)
LEMMA DirType == ASSUME SourceTypes PROVE \A id : Dir(id) \in [Parts -> Part]
BY Empties, Zenon DEF SourceTypes, Dir

LEMMA NothingThere == \A p \in Parts : NoPayload[p].by = "none" /\ NoPayload[p].at = 0
BY Zenon DEF NoPayload, NoPart

(* A creation writes while it copies its parts.                            *)
LEMMA WritingIs ==
    ASSUME SourceTypes
    PROVE  \A c \in Callers : \A id : Writing(c, id) <=> job[c].pc \in Parts /\ job[c].id = id
<1> SUFFICES ASSUME NEW c \in Callers, NEW id
             PROVE  Writing(c, id) <=> job[c].pc \in Parts /\ job[c].id = id
  BY Zenon
<1>1. job[c].pc \in JobStep
  BY Zenon DEF SourceTypes, Job
<1> QED BY <1>1, Zenon DEF Writing, JobStep, Parts

LEMMA WritingNext ==
    ASSUME SourceTypes'
    PROVE  \A c \in Callers : \A id : Writing(c, id)' <=> job'[c].pc \in Parts /\ job'[c].id = id
<1> SUFFICES ASSUME NEW c \in Callers, NEW id
             PROVE  Writing(c, id)' <=> job'[c].pc \in Parts /\ job'[c].id = id
  BY Zenon
<1>1. job'[c].pc \in JobStep
  BY Zenon DEF SourceTypes, Job
<1> QED BY <1>1, Zenon DEF Writing, JobStep, Parts

LEMMA SourceInit == Init => SourceInv
<1> SUFFICES ASSUME Init PROVE SourceInv
  BY Zenon
<1>1. SourceTypes
  <2>1. startIndex \in 1..(MaxIndex + 1) /\ committed \in Index /\ smCommit <= committed
    BY Bounds DEF Init
  <2>2. left \in [requests : Nat, transfers : Nat, faults : 0..MaxFaults]
    BY Bounds DEF Init
  <2>3. DOMAIN payload = {}
    BY Zenon DEF Init
  <2> QED BY <2>1, <2>2, <2>3, Bounds, Empties, Zenon DEF Init, SourceTypes
<1>2. \A id : Dir(id) = NoPayload
  BY Zenon DEF Init, Dir
<1>3. Order
  <2>1. \A c \in Callers : job[c] = NoJob
    BY Zenon DEF Init
  <2>2. job["sm"].pc = "idle" /\ job["export"].pc = "idle"
    BY <2>1 DEF Callers, NoJob
  <2> QED BY <2>1, <2>2, Bounds DEF Init, Order, NoDescriptor, NoJob, NoRequest
<1>4. \A c \in Callers : \A id : ~Writing(c, id)
  BY Zenon DEF Init, Writing, NoJob
<1>5. Files
  BY <1>2, <1>4, NothingThere DEF Init, Files, Filled, Callers, Parts
<1>6. UsedIds = {NoDescriptor}
  BY Zenon DEF Init, UsedIds, NoTransfer, NoExport, NoRequest, NoJob, Callers
<1>7. Complete
  BY <1>6, Zenon DEF Complete
<1>8. Sending
  BY Zenon DEF Init, Sending, NoTransfer
<1>9. Forward
  BY DEF Init, Forward, NoJob, Callers
<1> QED BY <1>1, <1>3, <1>5, <1>7, <1>8, <1>9, Zenon DEF SourceInv

-----------------------------------------------------------------------------
(* Most steps leave the directories alone and begin no copy.               *)
Calm ==
    /\ UNCHANGED <<payload, raced>>
    /\ smCommit <= smCommit'
    /\ \A c \in Callers : job'[c].pc \in Parts => job'[c] = job[c]

LEMMA CalmFiles ==
    ASSUME SourceTypes, SourceTypes', Files, Calm
    PROVE  Files'
<1>1. \A id : Dir(id)' = Dir(id)
  BY Zenon DEF Calm, Dir
<1>2. \A c \in Callers : \A id : Writing(c, id)' => Writing(c, id) /\ job'[c] = job[c]
  BY WritingIs, WritingNext, Zenon DEF Calm
<1>3. \A id \in Descriptor, p \in Parts : Dir(id)[p].at \in Nat /\ Dir(id)[p].at <= smCommit
  BY DirType, Bounds, Zenon DEF Files, Part
<1>4. \A id \in Descriptor, p \in Parts : Dir(id)'[p].at <= smCommit'
  BY <1>1, <1>3, Bounds DEF Calm, SourceTypes
<1>5. ASSUME NEW id \in Descriptor \ raced' PROVE Filled(id)'
  <2>1. Filled(id)
    BY <1>5, Zenon DEF Files, Calm
  <2> QED BY <1>1, <1>2, <2>1, Zenon DEF Filled, Callers
<1> QED BY <1>4, <1>5, Zenon DEF Files

LEMMA CalmComplete ==
    ASSUME SourceTypes, SourceTypes', Complete, Calm,
           UsedIds' \subseteq UsedIds \cup {NoDescriptor}, left'.faults <= left.faults,
           Undisturbed' => \A c \in Callers : job[c].pc \in Parts => job'[c] = job[c]
    PROVE  Complete'
<1> SUFFICES ASSUME Undisturbed', NEW id \in UsedIds' \ ({NoDescriptor} \cup raced'),
                    \A c \in Callers : ~Writing(c, id)'
             PROVE  Dir(id)'["kv"].by # "none"
  BY Zenon DEF Complete
<1>1. Undisturbed
  BY Bounds DEF Undisturbed, SourceTypes
<1>2. \A c \in Callers : ~Writing(c, id)
  BY WritingIs, WritingNext, Zenon
<1>3. Dir(id)' = Dir(id) /\ id \in UsedIds \ ({NoDescriptor} \cup raced)
  BY Zenon DEF Calm, Dir
<1> QED BY <1>1, <1>2, <1>3, Zenon DEF Complete

LEMMA CalmSending ==
    ASSUME SourceTypes, SourceTypes', Sending, Calm, transfer' = transfer
    PROVE  Sending'
<1>1. \A id : Dir(id)' = Dir(id)
  BY Zenon DEF Calm, Dir
<1>2. "db" \in DOMAIN transfer.sent => transfer.sent["db"] \in Nat
  BY Bounds DEF SourceTypes, Transfer
<1>3. smCommit \in Nat /\ smCommit' \in Nat /\ smCommit <= smCommit'
  BY Bounds, Zenon DEF SourceTypes, Calm
<1> QED BY <1>1, <1>2, <1>3 DEF Sending, Calm

-----------------------------------------------------------------------------
(* Types, action by action.                                                *)
LEMMA SpendTypes ==
    ASSUME left \in [requests : Nat, transfers : Nat, faults : 0..MaxFaults],
           NEW what \in {"requests", "transfers", "faults"}, Spend(what)
    PROVE  /\ left' \in [requests : Nat, transfers : Nat, faults : 0..MaxFaults]
           /\ left'.faults <= left.faults
           /\ what = "faults" => left'.faults < MaxFaults
BY Bounds DEF Spend

LEMMA BeginTypes ==
    ASSUME SourceTypes, NEW c \in Callers, NEW i \in Index, NEW serial \in BOOLEAN,
           Begin(c, i, serial)
    PROVE  job' \in [Callers -> Job]
<1>1. [pc |-> "describe", index |-> i, id |-> NoDescriptor, serial |-> serial, ok |-> TRUE] \in Job
  BY Empties, Zenon DEF Job, JobStep
<1> QED BY <1>1, Zenon DEF SourceTypes, Begin

LEMMA RaftCreatesTypes ==
    ASSUME SourceTypes, NEW serial \in BOOLEAN, RaftCreates(serial)
    PROVE  job' \in [Callers -> Job]
<1>1. CASE job' = job
  BY <1>1, Zenon DEF SourceTypes
<1>2. CASE Begin("sm", smCommit, serial)
  BY <1>2, BeginTypes DEF SourceTypes, Callers
<1> QED BY <1>1, <1>2, Zenon DEF RaftCreates

LEMMA StartTypes ==
    ASSUME SourceTypes, NEW i \in Index
    PROVE  /\ Larger(startIndex, ExpectedStart(i)) \in 1..(MaxIndex + 1)
           /\ startIndex <= Larger(startIndex, ExpectedStart(i))
           /\ \A r \in Nat : i <= r /\ startIndex <= r + 1 => Larger(startIndex, ExpectedStart(i)) <= r + 1
BY Bounds DEF SourceTypes, Larger, ExpectedStart

LEMMA DescribeTypes ==
    ASSUME SourceTypes, NEW c \in Callers, Describe(c)
    PROVE  SourceTypes'
<1> DEFINE id == [last_log |-> job[c].index, applied |-> smCommit]
<1>1. job[c] \in Job /\ id \in Descriptor
  BY Zenon DEF SourceTypes, Job, Descriptor
<1>2. [job[c] EXCEPT !.pc = "db", !.id = id] \in Job
  BY <1>1, Zenon DEF Job, JobStep, Parts
<1>3. job' = [job EXCEPT ![c] = [job[c] EXCEPT !.pc = "db", !.id = id]]
  BY Zenon DEF Describe, SourceTypes
<1>4. job' \in [Callers -> Job]
  BY <1>2, <1>3, Zenon DEF SourceTypes
<1>5. \A i \in DOMAIN payload' : payload'[i] \in [Parts -> Part]
  BY Zenon DEF Describe, SourceTypes
<1>6. raced' \subseteq Descriptor
  BY <1>1, Zenon DEF Describe, SourceTypes
<1>7. descriptor' \in Descriptor /\ mutex' \in {"free", "sm"}
  BY <1>1, Zenon DEF Describe, SourceTypes
<1> QED BY <1>4, <1>5, <1>6, <1>7, Zenon DEF Describe, SourceTypes, entries, raft, asking, endpoint

LEMMA CopyTypes ==
    ASSUME SourceTypes, NEW c \in Callers, Copy(c)
    PROVE  SourceTypes'
<1> DEFINE part == [by |-> c, at |-> smCommit]
<1>1. job[c] \in Job /\ part \in Part /\ job[c].pc \in Parts
  BY Zenon DEF SourceTypes, Part, Copy
<1>2. [job[c] EXCEPT !.pc = After[job[c].pc]] \in Job
  BY <1>1 DEF Job, JobStep, Parts, After
<1>3. job' = [job EXCEPT ![c] = [job[c] EXCEPT !.pc = After[job[c].pc]]]
  BY Zenon DEF Copy, SourceTypes
<1>4. job' \in [Callers -> Job]
  BY <1>2, <1>3, Zenon DEF SourceTypes
<1>5. [Dir(job[c].id) EXCEPT ![job[c].pc] = part] \in [Parts -> Part]
  BY <1>1, DirType, Zenon
<1>6. \A i \in DOMAIN payload' : payload'[i] \in [Parts -> Part]
  BY <1>5, Zenon DEF Copy, Put, SourceTypes
<1> QED BY <1>4, <1>6, Zenon DEF Copy, SourceTypes, entries, raft, asking, endpoint

-----------------------------------------------------------------------------
(* The indices are numbers.                                                *)
LEMMA Numbers ==
    ASSUME SourceTypes
    PROVE  /\ {committed, smCommit, startIndex, lastSnapshot, raftSnapshot} \subseteq Nat
           /\ {descriptor.last_log, descriptor.applied} \subseteq Nat
           /\ \A c \in Callers : {job[c].index, job[c].id.last_log, job[c].id.applied} \subseteq Nat
           /\ {request.index, request.id.applied} \subseteq Nat
<1>1. \A d \in Descriptor : {d.last_log, d.applied} \subseteq Nat
  BY Bounds, Zenon DEF Descriptor
<1>2. \A c \in Callers : job[c].id \in Descriptor /\ job[c].index \in Index
  BY Zenon DEF SourceTypes, Job
<1>3. request.id \in Descriptor /\ request.index \in Index /\ descriptor \in Descriptor
  BY Zenon DEF SourceTypes, Request
<1> QED BY <1>1, <1>2, <1>3, Bounds DEF SourceTypes

(* A step that only lets entries go on, asks for a snapshot or polls.      *)
LEMMA CommitStep == ASSUME SourceInv, Commit PROVE SourceInv'
<1>0. SourceTypes /\ Order /\ Files /\ Complete /\ Sending /\ Forward
  BY Zenon DEF SourceInv
<1>1. /\ committed < MaxIndex /\ committed' = committed + 1
      /\ UNCHANGED <<smCommit, startIndex, descriptor, payload, mutex, lastSnapshot, raftSnapshot,
                     job, sched, manual, request, export, transfer, left, raced>>
  BY Zenon DEF Commit, snapshots, raft, asking, endpoint
<1>2. committed' \in Index /\ smCommit <= committed' /\ committed <= committed'
  BY <1>0, <1>1, Bounds DEF SourceTypes, Index
<1>3. SourceTypes'
  BY <1>0, <1>1, <1>2, Zenon DEF SourceTypes
<1>4. Order'
  BY <1>0, <1>1, <1>2, Numbers DEF Order
<1>5. Calm
  BY <1>0, <1>1, Numbers DEF Calm
<1>6. UsedIds' = UsedIds
  BY <1>1, Zenon DEF UsedIds
<1>7. Forward'
  BY <1>0, <1>1, Zenon DEF Forward, Undisturbed
<1> QED BY <1>0, <1>1, <1>3, <1>4, <1>5, <1>6, <1>7, Bounds, CalmFiles, CalmComplete, CalmSending
        DEF SourceInv, SourceTypes

LEMMA ApplyStep == ASSUME SourceInv, Apply PROVE SourceInv'
<1>0. SourceTypes /\ Order /\ Files /\ Complete /\ Sending /\ Forward
  BY Zenon DEF SourceInv
<1>1. /\ smCommit < committed /\ smCommit' = smCommit + 1
      /\ UNCHANGED <<committed, startIndex, descriptor, payload, mutex, lastSnapshot, raftSnapshot,
                     job, sched, manual, request, export, transfer, left, raced>>
  BY Zenon DEF Apply, snapshots, raft, asking, endpoint
<1>2. smCommit' \in Index /\ smCommit' <= committed' /\ smCommit <= smCommit'
  BY <1>0, <1>1, Bounds DEF SourceTypes, Index
<1>3. SourceTypes'
  BY <1>0, <1>1, <1>2, Zenon DEF SourceTypes
<1>4. Order'
  <2>1. descriptor'.applied <= smCommit'
    BY <1>0, <1>1, Numbers DEF Order
  <2>2. \A c \in Callers : job'[c].pc # "idle" => job'[c].index \in 1..smCommit'
    BY <1>0, <1>1, Numbers DEF Order
  <2> QED BY <1>0, <1>1, <2>1, <2>2, Zenon DEF Order
<1>5. Calm
  BY <1>0, <1>1, Numbers DEF Calm
<1>6. UsedIds' = UsedIds
  BY <1>1, Zenon DEF UsedIds
<1>7. Forward'
  BY <1>0, <1>1, Zenon DEF Forward, Undisturbed
<1> QED BY <1>0, <1>1, <1>3, <1>4, <1>5, <1>6, <1>7, Bounds, CalmFiles, CalmComplete, CalmSending
        DEF SourceInv, SourceTypes

LEMMA PollStep ==
    ASSUME SourceInv, NEW due, NEW behind, SchedulerPoll(due, behind)
    PROVE  SourceInv'
<1>0. SourceTypes /\ Order /\ Files /\ Complete /\ Sending /\ Forward
  BY Zenon DEF SourceInv
<1>1. /\ sched' = "create"
      /\ UNCHANGED <<committed, smCommit, startIndex, descriptor, payload, mutex, lastSnapshot,
                     raftSnapshot, job, manual, request, export, transfer, left, raced>>
  BY Zenon DEF SchedulerPoll, entries, snapshots, raft, endpoint
<1>3. SourceTypes'
  BY <1>0, <1>1, Zenon DEF SourceTypes
<1>4. Order'
  BY <1>0, <1>1, Zenon DEF Order
<1>5. Calm
  BY <1>0, <1>1, Numbers DEF Calm
<1>6. UsedIds' = UsedIds
  BY <1>1, Zenon DEF UsedIds
<1>7. Forward'
  BY <1>0, <1>1, Zenon DEF Forward, Undisturbed
<1> QED BY <1>0, <1>1, <1>3, <1>4, <1>5, <1>6, <1>7, Bounds, CalmFiles, CalmComplete, CalmSending
        DEF SourceInv, SourceTypes

(* Raft begins a snapshot of its own, or does not because one is running.  *)
LEMMA RaftCreatesStep ==
    ASSUME SourceInv, NEW serial \in BOOLEAN, RaftCreates(serial),
           sched' \in {"idle", "create"}, manual' \in BOOLEAN,
           UNCHANGED <<committed, smCommit, startIndex, descriptor, payload, mutex, lastSnapshot,
                       raftSnapshot, request, export, transfer, left, raced>>
    PROVE  SourceInv'
<1>0. SourceTypes /\ Order /\ Files /\ Complete /\ Sending /\ Forward
  BY Zenon DEF SourceInv
<1>1. SourceTypes'
  BY <1>0, RaftCreatesTypes, Zenon DEF SourceTypes
<1>2. /\ job'["export"] = job["export"]
      /\ \/ job'["sm"] = job["sm"]
         \/ /\ job["sm"].pc = "idle" /\ smCommit > 0
            /\ job'["sm"].pc = "describe" /\ job'["sm"].index = smCommit
            /\ job'["sm"].id = NoDescriptor
  BY <1>0 DEF RaftCreates, Begin, SourceTypes, Callers
<1>3. Calm
  BY <1>0, <1>2, Numbers DEF Calm, Callers, Parts
<1>4. Order'
  BY <1>0, <1>2, Numbers DEF Order, Callers
<1>5. UsedIds' \subseteq UsedIds \cup {NoDescriptor}
  BY <1>2, Zenon DEF UsedIds, Callers
<1>6. \A c \in Callers : job[c].pc \in Parts => job'[c] = job[c]
  BY <1>2, Zenon DEF Callers, Parts
<1>7. Forward'
  BY <1>0, <1>2, Numbers DEF Forward, Order, Undisturbed
<1> QED BY <1>0, <1>1, <1>3, <1>4, <1>5, <1>6, <1>7, Bounds, CalmFiles, CalmComplete, CalmSending
        DEF SourceInv, SourceTypes

-----------------------------------------------------------------------------
(* The steps of create_snapshot other than its writes.                     *)
LEMMA CopyFailsStep ==
    ASSUME SourceInv, NEW c \in Callers, CopyFails(c)
    PROVE  SourceInv'
<1>0. SourceTypes /\ Order /\ Files /\ Complete /\ Sending /\ Forward
  BY Zenon DEF SourceInv
<1>1. /\ job[c].pc \in Parts /\ job' = [job EXCEPT ![c] = [job[c] EXCEPT !.pc = "end", !.ok = FALSE]]
      /\ UNCHANGED <<committed, smCommit, startIndex, descriptor, payload, mutex,
                     lastSnapshot, raftSnapshot, sched, manual, request, export, transfer,
                     raced>>
  BY <1>0, Zenon DEF CopyFails, entries, snapshots, raft, asking, endpoint
<1>2. SourceTypes'
  <2>1. [job[c] EXCEPT !.pc = "end", !.ok = FALSE] \in Job
    BY <1>0, ZenonT(40) DEF SourceTypes, Job, JobStep
  <2>2. left' \in [requests : Nat, transfers : Nat, faults : 0..MaxFaults]
    BY <1>0, SpendTypes, Zenon DEF SourceTypes, CopyFails
  <2>3. job' \in [Callers -> Job]
    BY <1>0, <1>1, <2>1, Zenon DEF SourceTypes
  <2> QED BY <1>0, <1>1, <2>2, <2>3, Zenon DEF SourceTypes
<1>3. Order'
  <2>1. /\ job'[c].pc = "end" /\ job'[c].index = job[c].index /\ job'[c].id = job[c].id
        /\ \A d \in Callers \ {c} : job'[d] = job[d]
    BY <1>0, <1>1 DEF SourceTypes, Job
  <2> QED BY <1>0, <1>1, <2>1, Numbers DEF Order, Callers, Parts
<1>4. Calm
  BY <1>0, <1>1, Numbers DEF Calm, Parts, SourceTypes, Job
<1>5. UsedIds' \subseteq UsedIds \cup {NoDescriptor}
  BY <1>0, <1>1 DEF UsedIds, SourceTypes, Job
<1>6. Forward'
  <2>1. ~Undisturbed'
    BY <1>0, <1>2, SpendTypes, Bounds DEF SourceTypes, CopyFails, Undisturbed
  <2> QED BY <2>1, Zenon DEF Forward
<1>7. left'.faults <= left.faults
  BY <1>0, SpendTypes, Zenon DEF SourceTypes, CopyFails
<1>8. Undisturbed' => \A d \in Callers : job[d].pc \in Parts => job'[d] = job[d]
  <2>1. ~Undisturbed'
    BY <1>0, <1>2, SpendTypes, Bounds DEF SourceTypes, CopyFails, Undisturbed
  <2> QED BY <2>1, Zenon
<1> QED BY <1>0, <1>1, <1>2, <1>3, <1>4, <1>5, <1>6, <1>7, <1>8, CalmFiles, CalmComplete, CalmSending, Zenon
        DEF SourceInv

LEMMA ReleaseStep ==
    ASSUME SourceInv, Release
    PROVE  SourceInv'
<1>0. SourceTypes /\ Order /\ Files /\ Complete /\ Sending /\ Forward
  BY Zenon DEF SourceInv
<1>1. /\ job["sm"].pc = "end" /\ mutex' = "free"
      /\ lastSnapshot' \in {lastSnapshot, job["sm"].index}
      /\ job' = [job EXCEPT !["sm"] = [job["sm"] EXCEPT !.pc = "done"]]
      /\ UNCHANGED <<committed, smCommit, startIndex, descriptor, payload,
                     raftSnapshot, sched, manual, request, export, transfer, left, raced>>
  BY <1>0, Zenon DEF Release, entries, snapshots, raft, asking, endpoint
<1>2. SourceTypes'
  <2>1. [job["sm"] EXCEPT !.pc = "done"] \in Job
    BY <1>0 DEF SourceTypes, Job, JobStep, Callers
  <2>2. job' \in [Callers -> Job] /\ lastSnapshot' \in Index
    BY <1>0, <1>1, <2>1, Zenon DEF SourceTypes, Job, Callers
  <2> QED BY <1>0, <1>1, <2>2, Zenon DEF SourceTypes
<1>3. Order'
  <2>1. /\ job'["sm"].pc = "done" /\ job'["sm"].index = job["sm"].index
        /\ job'["sm"].id = job["sm"].id /\ job'["export"] = job["export"]
    BY <1>0, <1>1 DEF SourceTypes, Job, Callers
  <2>2. lastSnapshot' <= descriptor'.applied
    BY <1>0, <1>1, Numbers DEF Order, Callers
  <2> QED BY <1>0, <1>1, <2>1, <2>2, Numbers DEF Order, Callers
<1>4. Calm
  BY <1>0, <1>1, Numbers DEF Calm, Callers, Parts, SourceTypes, Job
<1>5. UsedIds' \subseteq UsedIds \cup {NoDescriptor}
  BY <1>0, <1>1 DEF UsedIds, SourceTypes, Job, Callers
<1>6. Forward'
  <2>1. job'["sm"].pc = "done" /\ job'["sm"].index = job["sm"].index
    BY <1>0, <1>1, Zenon DEF SourceTypes, Job, Callers
  <2> QED BY <1>0, <1>1, <2>1, Numbers DEF Forward, Undisturbed, Callers
<1>7. left'.faults <= left.faults
  BY <1>0, <1>1, Bounds DEF SourceTypes
<1>8. Undisturbed' => \A d \in Callers : job[d].pc \in Parts => job'[d] = job[d]
  BY <1>0, <1>1, Zenon DEF SourceTypes, Parts, Callers
<1> QED BY <1>0, <1>1, <1>2, <1>3, <1>4, <1>5, <1>6, <1>7, <1>8, CalmFiles, CalmComplete, CalmSending, Zenon
        DEF SourceInv

LEMMA WhenDoneStep ==
    ASSUME SourceInv, WhenDone
    PROVE  SourceInv'
<1>0. SourceTypes /\ Order /\ Files /\ Complete /\ Sending /\ Forward
  BY Zenon DEF SourceInv
<1>1. /\ job["sm"].pc = "done"
      /\ job' = [job EXCEPT !["sm"] = NoJob]
      /\ \/ UNCHANGED <<raftSnapshot, startIndex>>
         \/ /\ raftSnapshot' = lastSnapshot
            /\ startIndex' = Larger(startIndex, ExpectedStart(lastSnapshot))
      /\ UNCHANGED <<committed, smCommit, descriptor, payload, mutex, lastSnapshot,
                     sched, manual, request, export, transfer, left, raced>>
  BY <1>0, Zenon DEF WhenDone, entries, snapshots, raft, asking, endpoint
<1>2. SourceTypes'
  <2>1. job' \in [Callers -> Job]
    BY <1>0, <1>1, Empties, Zenon DEF SourceTypes
  <2>2. startIndex' \in 1..(MaxIndex + 1) /\ raftSnapshot' \in Index
    BY <1>0, <1>1, StartTypes, Zenon DEF SourceTypes
  <2> QED BY <1>0, <1>1, <2>1, <2>2, Zenon DEF SourceTypes
<1>3. Order'
  <2>1. job'["sm"].pc = "idle" /\ job'["export"] = job["export"]
    BY <1>0, <1>1, Zenon DEF SourceTypes, NoJob, Callers
  <2>2. raftSnapshot' <= descriptor'.applied
    BY <1>0, <1>1, Zenon DEF Order
  <2> QED BY <1>0, <1>1, <2>1, <2>2 DEF Order, Callers
<1>4. Calm
  BY <1>0, <1>1, Numbers DEF Calm, Callers, Parts, SourceTypes, NoJob
<1>5. UsedIds' \subseteq UsedIds \cup {NoDescriptor}
  BY <1>0, <1>1, Zenon DEF UsedIds, SourceTypes, Callers, NoJob
<1>6. Forward'
  <2>1. job'["sm"].pc = "idle"
    BY <1>0, <1>1, Zenon DEF SourceTypes, NoJob, Callers
  <2> SUFFICES ASSUME Undisturbed'
               PROVE  startIndex' <= raftSnapshot' + 1 /\ raftSnapshot' <= lastSnapshot'
    BY <2>1, Zenon DEF Forward
  <2>2. startIndex <= raftSnapshot + 1 /\ raftSnapshot <= lastSnapshot
    BY <1>0, <1>1, Zenon DEF Forward, Undisturbed
  <2>3. CASE UNCHANGED <<raftSnapshot, startIndex>>
    BY <1>1, <2>2, <2>3, Zenon
  <2>4. CASE /\ raftSnapshot' = lastSnapshot
             /\ startIndex' = Larger(startIndex, ExpectedStart(lastSnapshot))
    BY <1>0, <1>1, <2>2, <2>4, StartTypes, Numbers DEF SourceTypes
  <2> QED BY <1>1, <2>3, <2>4, Zenon
<1>7. left'.faults <= left.faults
  BY <1>0, <1>1, Bounds DEF SourceTypes
<1>8. Undisturbed' => \A d \in Callers : job[d].pc \in Parts => job'[d] = job[d]
  BY <1>0, <1>1, Zenon DEF SourceTypes, Parts, Callers
<1> QED BY <1>0, <1>1, <1>2, <1>3, <1>4, <1>5, <1>6, <1>7, <1>8, CalmFiles, CalmComplete, CalmSending, Zenon
        DEF SourceInv

-----------------------------------------------------------------------------
(* The steps of do_snapshot.                                               *)
LEMMA DoSnapshotStep ==
    ASSUME SourceInv, NEW kind \in Requests, DoSnapshot(kind)
    PROVE  SourceInv'
<1>0. SourceTypes /\ Order /\ Files /\ Complete /\ Sending /\ Forward
  BY Zenon DEF SourceInv
<1>1. /\ request.pc = "idle" /\ committed > 0
      /\ request' = [pc |-> "wait", index |-> committed, kind |-> kind, id |-> NoDescriptor]
      /\ manual' = TRUE
      /\ UNCHANGED <<committed, smCommit, startIndex, descriptor, payload, mutex,
                     lastSnapshot, raftSnapshot, job, sched, export, transfer, raced>>
  BY <1>0, Zenon DEF DoSnapshot, Idle, entries, snapshots, raft, asking, endpoint
<1>2. SourceTypes'
  <2>1. request' \in Request
    BY <1>0, <1>1, Empties, SourceAssumption, Zenon DEF SourceTypes, Request, RequestStep
  <2>2. left' \in [requests : Nat, transfers : Nat, faults : 0..MaxFaults]
    BY <1>0, SpendTypes, Zenon DEF SourceTypes, DoSnapshot
  <2> QED BY <1>0, <1>1, <2>1, <2>2, Zenon DEF SourceTypes
<1>3. Order'
  BY <1>0, <1>1, Numbers DEF Order, Callers, NoJob, NoRequest
<1>4. Calm
  BY <1>0, <1>1, Numbers DEF Calm, Callers, Parts, NoJob
<1>5. UsedIds' \subseteq UsedIds \cup {NoDescriptor}
  BY <1>1, Zenon DEF UsedIds
<1>6. Forward'
  BY <1>0, <1>1, Zenon DEF Forward, Undisturbed, DoSnapshot, Spend, SourceTypes
<1>7. left'.faults <= left.faults
  BY <1>0, SpendTypes, Zenon DEF SourceTypes, DoSnapshot
<1>8. Undisturbed' => \A d \in Callers : job[d].pc \in Parts => job'[d] = job[d]
  BY <1>1, Zenon
<1> QED BY <1>0, <1>1, <1>2, <1>3, <1>4, <1>5, <1>6, <1>7, <1>8, CalmFiles, CalmComplete, CalmSending, Zenon
        DEF SourceInv

LEMMA SnapshotSeenStep ==
    ASSUME SourceInv, SnapshotSeen
    PROVE  SourceInv'
<1>0. SourceTypes /\ Order /\ Files /\ Complete /\ Sending /\ Forward
  BY Zenon DEF SourceInv
<1>1. /\ request.pc = "wait" /\ request.index <= raftSnapshot
      /\ startIndex' = Larger(startIndex, ExpectedStart(request.index))
      /\ request' = [request EXCEPT !.pc = "create"]
      /\ UNCHANGED <<committed, smCommit, descriptor, payload, mutex, lastSnapshot,
                     raftSnapshot, job, sched, manual, export, transfer, left, raced>>
  BY <1>0, Bounds, Zenon DEF SnapshotSeen, SourceTypes, Request, entries, snapshots, raft, asking, endpoint
<1>2. SourceTypes'
  <2>1. request' \in Request
    BY <1>0, <1>1, Empties, Zenon DEF SourceTypes, Request, RequestStep
  <2>2. startIndex' \in 1..(MaxIndex + 1)
    BY <1>0, <1>1, StartTypes, Zenon DEF SourceTypes, Request
  <2> QED BY <1>0, <1>1, <2>1, <2>2, Zenon DEF SourceTypes
<1>3. Order'
  <2>1. request'.pc = "create" /\ request'.index = request.index /\ request.index <= descriptor.applied
    BY <1>0, <1>1, Numbers DEF SourceTypes, Request, Order
  <2> QED BY <1>0, <1>1, <2>1, Numbers, Zenon DEF Order
<1>4. Calm
  BY <1>0, <1>1, Numbers DEF Calm, Callers, Parts, NoJob
<1>5. UsedIds' \subseteq UsedIds \cup {NoDescriptor}
  BY <1>0, <1>1, Zenon DEF UsedIds, SourceTypes, Request
<1>6. Forward'
  <2> SUFFICES ASSUME Undisturbed' PROVE startIndex' <= raftSnapshot' + 1
    BY <1>0, <1>1, Zenon DEF Forward, Undisturbed
  <2>1. startIndex <= raftSnapshot + 1
    BY <1>0, <1>1, Zenon DEF Forward, Undisturbed
  <2> QED BY <1>0, <1>1, <2>1, StartTypes, Numbers, Zenon DEF SourceTypes, Request
<1>7. left'.faults <= left.faults
  BY <1>0, <1>1, Bounds DEF SourceTypes
<1>8. Undisturbed' => \A d \in Callers : job[d].pc \in Parts => job'[d] = job[d]
  BY <1>1, Zenon
<1> QED BY <1>0, <1>1, <1>2, <1>3, <1>4, <1>5, <1>6, <1>7, <1>8, CalmFiles, CalmComplete, CalmSending, Zenon
        DEF SourceInv

LEMMA SnapshotTimeoutStep ==
    ASSUME SourceInv, SnapshotTimeout
    PROVE  SourceInv'
<1>0. SourceTypes /\ Order /\ Files /\ Complete /\ Sending /\ Forward
  BY Zenon DEF SourceInv
<1>1. /\ request.pc = "wait" /\ request' = NoRequest
      /\ UNCHANGED <<committed, smCommit, startIndex, descriptor, payload, mutex,
                     lastSnapshot, raftSnapshot, job, sched, manual, export, transfer, left,
                     raced>>
  BY <1>0, Zenon DEF SnapshotTimeout, entries, snapshots, raft, asking, endpoint
<1>2. SourceTypes'
  BY <1>0, <1>1, Empties, Zenon DEF SourceTypes
<1>3. Order'
  BY <1>0, <1>1, Numbers, Zenon DEF Order, Callers, NoJob, NoRequest
<1>4. Calm
  BY <1>0, <1>1, Numbers DEF Calm, Callers, Parts, NoJob
<1>5. UsedIds' \subseteq UsedIds \cup {NoDescriptor}
  BY <1>1, Zenon DEF UsedIds, Callers, NoJob, NoRequest, NoExport, NoTransfer
<1>6. Forward'
  BY <1>0, <1>1, Zenon DEF Forward, Undisturbed
<1>7. left'.faults <= left.faults
  BY <1>0, <1>1, Bounds DEF SourceTypes
<1>8. Undisturbed' => \A d \in Callers : job[d].pc \in Parts => job'[d] = job[d]
  BY <1>1, Zenon
<1> QED BY <1>0, <1>1, <1>2, <1>3, <1>4, <1>5, <1>6, <1>7, <1>8, CalmFiles, CalmComplete, CalmSending, Zenon
        DEF SourceInv

LEMMA AnsweredStep ==
    ASSUME SourceInv, Answered
    PROVE  SourceInv'
<1>0. SourceTypes /\ Order /\ Files /\ Complete /\ Sending /\ Forward
  BY Zenon DEF SourceInv
<1>1. /\ request.pc = "acked" /\ request' = NoRequest
      /\ export' = NoExport
      /\ UNCHANGED <<committed, smCommit, startIndex, descriptor, payload, mutex,
                     lastSnapshot, raftSnapshot, job, sched, manual, transfer, left, raced>>
  BY <1>0, Zenon DEF Answered, entries, snapshots, raft, asking, endpoint
<1>2. SourceTypes'
  BY <1>0, <1>1, Empties, Zenon DEF SourceTypes
<1>3. Order'
  BY <1>0, <1>1, Numbers, Zenon DEF Order, Callers, NoJob, NoRequest
<1>4. Calm
  BY <1>0, <1>1, Numbers DEF Calm, Callers, Parts, NoJob
<1>5. UsedIds' \subseteq UsedIds \cup {NoDescriptor}
  BY <1>1, Zenon DEF UsedIds, Callers, NoJob, NoRequest, NoExport, NoTransfer
<1>6. Forward'
  BY <1>0, <1>1, Zenon DEF Forward, Undisturbed
<1>7. left'.faults <= left.faults
  BY <1>0, <1>1, Bounds DEF SourceTypes
<1>8. Undisturbed' => \A d \in Callers : job[d].pc \in Parts => job'[d] = job[d]
  BY <1>1, Zenon
<1> QED BY <1>0, <1>1, <1>2, <1>3, <1>4, <1>5, <1>6, <1>7, <1>8, CalmFiles, CalmComplete, CalmSending, Zenon
        DEF SourceInv

LEMMA AnswerInternalStep ==
    ASSUME SourceInv, AnswerInternal
    PROVE  SourceInv'
<1>0. SourceTypes /\ Order /\ Files /\ Complete /\ Sending /\ Forward
  BY Zenon DEF SourceInv
<1>1. /\ request.pc = "create"
      /\ request' = [request EXCEPT !.pc = "acked", !.id = descriptor]
      /\ UNCHANGED <<committed, smCommit, startIndex, descriptor, payload, mutex,
                     lastSnapshot, raftSnapshot, job, sched, manual, export, transfer, left,
                     raced>>
  BY <1>0, Zenon DEF AnswerInternal, entries, snapshots, raft, asking, endpoint
<1>2. SourceTypes'
  <2>1. request' \in Request
    BY <1>0, <1>1, Empties, Zenon DEF SourceTypes, Request, RequestStep
  <2> QED BY <1>0, <1>1, <2>1, Zenon DEF SourceTypes
<1>3. Order'
  <2>1. request'.pc = "acked" /\ request'.index = request.index /\ request'.id = descriptor
    BY <1>0, <1>1, Zenon DEF SourceTypes, Request
  <2> QED BY <1>0, <1>1, <2>1, Zenon DEF Order
<1>4. Calm
  BY <1>0, <1>1, Numbers DEF Calm, Callers, Parts, NoJob
<1>5. UsedIds' \subseteq UsedIds \cup {NoDescriptor}
  BY <1>0, <1>1, Zenon DEF UsedIds, SourceTypes, Request
<1>6. Forward'
  BY <1>0, <1>1, Zenon DEF Forward, Undisturbed
<1>7. left'.faults <= left.faults
  BY <1>0, <1>1, Bounds DEF SourceTypes
<1>8. Undisturbed' => \A d \in Callers : job[d].pc \in Parts => job'[d] = job[d]
  BY <1>1, Zenon
<1> QED BY <1>0, <1>1, <1>2, <1>3, <1>4, <1>5, <1>6, <1>7, <1>8, CalmFiles, CalmComplete, CalmSending, Zenon
        DEF SourceInv

LEMMA ExportCreateStep ==
    ASSUME SourceInv, ExportCreate
    PROVE  SourceInv'
<1>0. SourceTypes /\ Order /\ Files /\ Complete /\ Sending /\ Forward
  BY Zenon DEF SourceInv
<1>1. /\ request.pc = "create" /\ Begin("export", request.index, FALSE)
      /\ request' = [request EXCEPT !.pc = "export"]
      /\ UNCHANGED <<committed, smCommit, startIndex, descriptor, payload, mutex,
                     lastSnapshot, raftSnapshot, sched, manual, export, transfer, left, raced>>
  BY <1>0, Zenon DEF ExportCreate, entries, snapshots, raft, asking, endpoint
<1>2. SourceTypes'
  <2>1. request' \in Request
    BY <1>0, <1>1, Empties, Zenon DEF SourceTypes, Request, RequestStep
  <2>2. job' \in [Callers -> Job]
    BY <1>0, <1>1, BeginTypes, Zenon DEF SourceTypes, Request, Callers
  <2> QED BY <1>0, <1>1, <2>1, <2>2, Zenon DEF SourceTypes
<1>3. Order'
  <2>1. request'.pc = "export" /\ request'.index = request.index
    BY <1>0, <1>1, Zenon DEF SourceTypes, Request
  <2>2. /\ job'["export"].pc = "describe" /\ job'["export"].index = request.index
        /\ job'["sm"] = job["sm"]
    BY <1>0, <1>1, Zenon DEF SourceTypes, Begin, Callers
  <2>3. request.index \in 1..smCommit
    BY <1>0, <1>1, Numbers DEF Order
  <2> QED BY <1>0, <1>1, <2>1, <2>2, <2>3 DEF Order, Callers
<1>4. Calm
  BY <1>0, <1>1, Numbers DEF Calm, Callers, Parts, SourceTypes, Begin
<1>5. UsedIds' \subseteq UsedIds \cup {NoDescriptor}
  BY <1>0, <1>1 DEF UsedIds, SourceTypes, Request, Begin, Callers
<1>6. Forward'
  BY <1>0, <1>1, Zenon DEF Forward, Undisturbed, Begin, SourceTypes, Callers
<1>7. left'.faults <= left.faults
  BY <1>0, <1>1, Bounds DEF SourceTypes
<1>8. Undisturbed' => \A d \in Callers : job[d].pc \in Parts => job'[d] = job[d]
  <2>1. job["export"].pc = "idle"
    BY <1>0, <1>1, Zenon DEF Order
  <2> QED BY <1>0, <1>1, <2>1, Zenon DEF SourceTypes, Begin, Callers, Parts
<1> QED BY <1>0, <1>1, <1>2, <1>3, <1>4, <1>5, <1>6, <1>7, <1>8, CalmFiles, CalmComplete, CalmSending, Zenon
        DEF SourceInv

LEMMA ExportMetaStep ==
    ASSUME SourceInv, ExportMeta
    PROVE  SourceInv'
<1>0. SourceTypes /\ Order /\ Files /\ Complete /\ Sending /\ Forward
  BY Zenon DEF SourceInv
<1>1. /\ request.pc = "export" /\ job["export"].pc = "end"
      /\ export' = [id |-> descriptor, tree |-> NoPayload]
      /\ request' = [request EXCEPT !.pc = "tree"]
      /\ UNCHANGED <<committed, smCommit, startIndex, descriptor, payload, mutex,
                     lastSnapshot, raftSnapshot, job, sched, manual, transfer, left, raced>>
  BY <1>0, Zenon DEF ExportMeta, entries, snapshots, raft, asking, endpoint
<1>2. SourceTypes'
  <2>1. request' \in Request
    BY <1>0, <1>1, Empties, Zenon DEF SourceTypes, Request, RequestStep
  <2>2. export' \in [id : Descriptor, tree : [Parts -> Part]]
    BY <1>0, <1>1, Empties, Zenon DEF SourceTypes
  <2> QED BY <1>0, <1>1, <2>1, <2>2, Zenon DEF SourceTypes
<1>3. Order'
  <2>1. request'.pc = "tree" /\ request'.index = request.index
    BY <1>0, <1>1, Zenon DEF SourceTypes, Request
  <2>2. export'.id.applied >= request.index
    BY <1>0, <1>1, Numbers, Zenon DEF Order
  <2> QED BY <1>0, <1>1, <2>1, <2>2, Zenon DEF Order
<1>4. Calm
  BY <1>0, <1>1, Numbers DEF Calm, Callers, Parts, NoJob
<1>5. UsedIds' \subseteq UsedIds \cup {NoDescriptor}
  BY <1>0, <1>1, Zenon DEF UsedIds, SourceTypes, Request
<1>6. Forward'
  BY <1>0, <1>1, Zenon DEF Forward, Undisturbed
<1>7. left'.faults <= left.faults
  BY <1>0, <1>1, Bounds DEF SourceTypes
<1>8. Undisturbed' => \A d \in Callers : job[d].pc \in Parts => job'[d] = job[d]
  BY <1>1, Zenon
<1> QED BY <1>0, <1>1, <1>2, <1>3, <1>4, <1>5, <1>6, <1>7, <1>8, CalmFiles, CalmComplete, CalmSending, Zenon
        DEF SourceInv

LEMMA ExportTreeStep ==
    ASSUME SourceInv, ExportTree
    PROVE  SourceInv'
<1>0. SourceTypes /\ Order /\ Files /\ Complete /\ Sending /\ Forward
  BY Zenon DEF SourceInv
<1>1. /\ request.pc = "tree"
      /\ export' = [export EXCEPT !.tree = Dir(export.id)]
      /\ request' = [request EXCEPT !.pc = "acked", !.id = job["export"].id]
      /\ job' = [job EXCEPT !["export"] = NoJob]
      /\ UNCHANGED <<committed, smCommit, startIndex, descriptor, payload, mutex,
                     lastSnapshot, raftSnapshot, sched, manual, transfer, left, raced>>
  BY <1>0, Zenon DEF ExportTree, entries, snapshots, raft, asking, endpoint
<1>2. SourceTypes'
  <2>1. request' \in Request
    BY <1>0, <1>1, Zenon DEF SourceTypes, Request, RequestStep, Job, Callers
  <2>2. export' \in [id : Descriptor, tree : [Parts -> Part]]
    BY <1>0, <1>1, DirType, Zenon DEF SourceTypes
  <2>3. job' \in [Callers -> Job]
    BY <1>0, <1>1, Empties, Zenon DEF SourceTypes
  <2> QED BY <1>0, <1>1, <2>1, <2>2, <2>3, Zenon DEF SourceTypes
<1>3. Order'
  <2>1. /\ request'.pc = "acked" /\ request'.index = request.index
        /\ request'.id = job["export"].id
    BY <1>0, <1>1, Zenon DEF SourceTypes, Request
  <2>2. job'["export"].pc = "idle" /\ job'["sm"] = job["sm"]
    BY <1>0, <1>1, Zenon DEF SourceTypes, NoJob, Callers
  <2>3. request.index <= job["export"].id.applied
    BY <1>0, <1>1, Zenon DEF Order, Callers
  <2> QED BY <1>0, <1>1, <2>1, <2>2, <2>3 DEF Order, Callers
<1>4. Calm
  BY <1>0, <1>1, Numbers DEF Calm, Callers, Parts, SourceTypes, NoJob
<1>5. UsedIds' \subseteq UsedIds \cup {NoDescriptor}
  BY <1>0, <1>1 DEF UsedIds, SourceTypes, Request, Callers, NoJob
<1>6. Forward'
  BY <1>0, <1>1, Zenon DEF Forward, Undisturbed, SourceTypes, Callers
<1>7. left'.faults <= left.faults
  BY <1>0, <1>1, Bounds DEF SourceTypes
<1>8. Undisturbed' => \A d \in Callers : job[d].pc \in Parts => job'[d] = job[d]
  <2>1. job["export"].pc = "end"
    BY <1>0, <1>1, Zenon DEF Order
  <2> QED BY <1>0, <1>1, <2>1, Zenon DEF SourceTypes, Callers, Parts
<1> QED BY <1>0, <1>1, <1>2, <1>3, <1>4, <1>5, <1>6, <1>7, <1>8, CalmFiles, CalmComplete, CalmSending, Zenon
        DEF SourceInv

LEMMA ExportFailedStep ==
    ASSUME SourceInv, ExportFailed
    PROVE  SourceInv'
<1>0. SourceTypes /\ Order /\ Files /\ Complete /\ Sending /\ Forward
  BY Zenon DEF SourceInv
<1>1. /\ request.pc = "export" /\ job["export"].pc = "end"
      /\ request' = NoRequest
      /\ job' = [job EXCEPT !["export"] = NoJob]
      /\ UNCHANGED <<committed, smCommit, startIndex, descriptor, payload, mutex,
                     lastSnapshot, raftSnapshot, sched, manual, export, transfer, left, raced>>
  BY <1>0, Zenon DEF ExportFailed, entries, snapshots, raft, asking, endpoint
<1>2. SourceTypes'
  BY <1>0, <1>1, Empties, Zenon DEF SourceTypes
<1>3. Order'
  <2>1. request'.pc = "idle" /\ job'["export"].pc = "idle" /\ job'["sm"] = job["sm"]
    BY <1>0, <1>1, Zenon DEF SourceTypes, NoJob, NoRequest, Callers
  <2> QED BY <1>0, <1>1, <2>1 DEF Order, Callers
<1>4. Calm
  BY <1>0, <1>1, Numbers DEF Calm, Callers, Parts, SourceTypes, NoJob
<1>5. UsedIds' \subseteq UsedIds \cup {NoDescriptor}
  BY <1>0, <1>1, Zenon DEF UsedIds, SourceTypes, Callers, NoJob, NoRequest
<1>6. Forward'
  BY <1>0, <1>1, Zenon DEF Forward, Undisturbed, SourceTypes, Callers
<1>7. left'.faults <= left.faults
  BY <1>0, <1>1, Bounds DEF SourceTypes
<1>8. Undisturbed' => \A d \in Callers : job[d].pc \in Parts => job'[d] = job[d]
  BY <1>0, <1>1, Zenon DEF SourceTypes, Callers, Parts
<1> QED BY <1>0, <1>1, <1>2, <1>3, <1>4, <1>5, <1>6, <1>7, <1>8, CalmFiles, CalmComplete, CalmSending, Zenon
        DEF SourceInv

-----------------------------------------------------------------------------
(* The steps of a transfer, and a restart.                                 *)
(* The object read next: the store comes before the checkpoint.            *)
LEMMA FirstPending ==
    ASSUME SourceTypes, Pending # {}
    PROVE  /\ FirstOf(Pending) \in Parts /\ FirstOf(Pending) \in Pending
           /\ "db" \in Pending => FirstOf(Pending) = "db"
<1>1. Pending \subseteq {"db", "kv"}
  BY Zenon DEF SourceTypes, Transfer, Pending, Parts
<1>2. TransferOrder["db"] = 1 /\ TransferOrder["kv"] = 2
  BY Zenon DEF TransferOrder
<1>3. PICK p \in Pending : \A q \in Pending : TransferOrder[p] <= TransferOrder[q]
  <2>1. CASE "db" \in Pending
    BY <1>1, <1>2, <2>1
  <2>2. CASE "db" \notin Pending
    <3>1. Pending = {"kv"}
      BY <1>1, <2>2, Zenon
    <3> QED BY <1>2, <3>1
  <2> QED BY <2>1, <2>2, Zenon
<1>4. /\ FirstOf(Pending) \in Pending
      /\ \A q \in Pending : TransferOrder[FirstOf(Pending)] <= TransferOrder[q]
  BY <1>3, Zenon DEF FirstOf
<1>5. FirstOf(Pending) \in {"db", "kv"}
  BY <1>1, <1>4, Zenon
<1>6. ASSUME "db" \in Pending PROVE FirstOf(Pending) # "kv"
  BY <1>2, <1>4, <1>6
<1> QED BY <1>4, <1>5, <1>6, Zenon DEF Parts

LEMMA PutTypes ==
    ASSUME NEW f \in UNION {[S -> Index] : S \in SUBSET Parts}, NEW p \in Parts, NEW v \in Index
    PROVE  Put(f, p, v) \in UNION {[S -> Index] : S \in SUBSET Parts}
<1>1. PICK S \in SUBSET Parts : f \in [S -> Index]
  BY Zenon
<1>2. Put(f, p, v) \in [({p} \cup S) -> Index]
  BY <1>1, Zenon DEF Put
<1> QED BY <1>1, <1>2

LEMMA ManifestStep ==
    ASSUME SourceInv, Manifest
    PROVE  SourceInv'
<1>0. SourceTypes /\ Order /\ Files /\ Complete /\ Sending /\ Forward
  BY Zenon DEF SourceInv
<1>1. /\ \/ transfer' = NoTransfer
         \/ \E files \in SUBSET Parts :
              transfer' = [on |-> TRUE, s |-> raftSnapshot, id |-> descriptor, files |-> files,
                           sent |-> NothingSent]
      /\ UNCHANGED <<committed, smCommit, startIndex, descriptor, payload, mutex,
                     lastSnapshot, raftSnapshot, job, sched, manual, request, export, raced>>
  BY <1>0, Zenon DEF Manifest, Present, entries, snapshots, raft, asking, endpoint
<1>2. SourceTypes'
  <2>1. left' \in [requests : Nat, transfers : Nat, faults : 0..MaxFaults]
    BY <1>0, SpendTypes, Zenon DEF SourceTypes, Manifest
  <2>2. NothingSent \in [{} -> Index]
    BY Zenon DEF NothingSent
  <2>3. NothingSent \in UNION {[S -> Index] : S \in SUBSET Parts}
    BY <2>2, Zenon
  <2>4. ASSUME NEW files \in SUBSET Parts
        PROVE  [on |-> TRUE, s |-> raftSnapshot, id |-> descriptor, files |-> files,
                sent |-> NothingSent] \in Transfer
    BY <1>0, <2>3, Zenon DEF SourceTypes, Transfer
  <2>5. transfer' \in Transfer
    BY <1>1, <2>4, Empties, Zenon
  <2> QED BY <1>0, <1>1, <2>1, <2>5, Zenon DEF SourceTypes
<1>3. Order'
  BY <1>0, <1>1, Zenon DEF Order
<1>4. Calm
  BY <1>0, <1>1, Numbers DEF Calm, Callers, Parts, NoJob
<1>5. UsedIds' \subseteq UsedIds \cup {NoDescriptor}
  BY <1>1 DEF UsedIds, NoTransfer
<1>6. Forward'
  BY <1>0, <1>1, Zenon DEF Forward, Undisturbed, Manifest, Spend, SourceTypes
<1>7. left'.faults <= left.faults
  BY <1>0, SpendTypes, Zenon DEF SourceTypes, Manifest
<1>8. Undisturbed' => \A d \in Callers : job[d].pc \in Parts => job'[d] = job[d]
  BY <1>1, Zenon
<1>9. Sending'
  <2>1. CASE transfer' = NoTransfer
    BY <2>1, Zenon DEF Sending, NoTransfer
  <2>2. CASE \E files \in SUBSET Parts :
               transfer' = [on |-> TRUE, s |-> raftSnapshot, id |-> descriptor, files |-> files,
                            sent |-> NothingSent]
    <3>1. transfer'.s = raftSnapshot /\ transfer'.id = descriptor /\ transfer'.sent = NothingSent
      BY <2>2
    <3>2. DOMAIN transfer'.sent = {}
      BY <3>1, Zenon DEF NothingSent
    <3> QED BY <1>0, <3>1, <3>2, Zenon DEF Sending, Order
  <2> QED BY <1>1, <2>1, <2>2, Zenon
<1> QED BY <1>0, <1>2, <1>3, <1>4, <1>5, <1>6, <1>7, <1>8, <1>9, CalmFiles, CalmComplete, Zenon
        DEF SourceInv

LEMMA ReadObjectStep ==
    ASSUME SourceInv, ReadObject
    PROVE  SourceInv'
<1>0. SourceTypes /\ Order /\ Files /\ Complete /\ Sending /\ Forward
  BY Zenon DEF SourceInv
<1>1. /\ transfer.on /\ Pending # {}
      /\ LET part == FirstOf(Pending)
             file == Dir(transfer.id)[part]
         IN  \/ transfer' = NoTransfer
             \/ /\ file.by # "none"
                /\ transfer' = [transfer EXCEPT !.sent = Put(transfer.sent, part, file.at)]
      /\ UNCHANGED <<committed, smCommit, startIndex, descriptor, payload, mutex,
                     lastSnapshot, raftSnapshot, job, sched, manual, request, export, left,
                     raced>>
  BY <1>0, Zenon DEF ReadObject, entries, snapshots, raft, asking, endpoint
<1>2. SourceTypes'
  <2>1. PICK part \in Parts : part = FirstOf(Pending) /\ part \in Pending
    BY <1>0, <1>1, FirstPending, Zenon
  <2>2. Dir(transfer.id)[part].at \in Index
    BY <1>0, DirType, Zenon DEF Part
  <2>3. Put(transfer.sent, part, Dir(transfer.id)[part].at) \in UNION {[S -> Index] : S \in SUBSET Parts}
    BY <1>0, <2>2, PutTypes, Zenon DEF SourceTypes, Transfer
  <2>4. transfer' \in Transfer
    BY <1>0, <1>1, <2>1, <2>3, Empties DEF SourceTypes, Transfer
  <2> QED BY <1>0, <1>1, <2>4, Zenon DEF SourceTypes
<1>3. Order'
  BY <1>0, <1>1, Zenon DEF Order
<1>4. Calm
  BY <1>0, <1>1, Numbers DEF Calm, Callers, Parts, NoJob
<1>5. UsedIds' \subseteq UsedIds \cup {NoDescriptor}
  BY <1>0, <1>1 DEF UsedIds, NoTransfer, SourceTypes, Transfer
<1>6. Forward'
  BY <1>0, <1>1, Zenon DEF Forward, Undisturbed
<1>7. left'.faults <= left.faults
  BY <1>0, <1>1, Bounds DEF SourceTypes
<1>8. Undisturbed' => \A d \in Callers : job[d].pc \in Parts => job'[d] = job[d]
  BY <1>1, Zenon
<1>9. Sending'
  <2>1. CASE transfer' = NoTransfer
    BY <2>1, Zenon DEF Sending, NoTransfer
  <2>2. CASE transfer' # NoTransfer
    <3>1. PICK part \in Parts : part = FirstOf(Pending) /\ part \in Pending
      BY <1>0, <1>1, FirstPending, Zenon
    <3>2. PICK file : file = Dir(transfer.id)[part] /\ file.by # "none" /\ file.at \in Nat
      BY <1>0, <1>1, <2>2, <3>1, DirType, Bounds, Zenon DEF Part
    <3>3. /\ transfer'.on = transfer.on /\ transfer'.s = transfer.s /\ transfer'.id = transfer.id
          /\ transfer'.files = transfer.files
          /\ transfer'.sent = Put(transfer.sent, part, file.at)
      BY <1>0, <1>1, <2>2, <3>1, <3>2, Zenon DEF SourceTypes, Transfer
    <3>4. /\ DOMAIN transfer'.sent = DOMAIN transfer.sent \cup {part}
          /\ transfer'.sent[part] = file.at
          /\ \A q \in DOMAIN transfer.sent \ {part} : transfer'.sent[q] = transfer.sent[q]
      BY <3>3, Zenon DEF Put
    <3>5. Dir(transfer.id)' = Dir(transfer.id)
      BY <1>1, <3>3, Zenon DEF Dir
    <3>6. transfer'.s <= transfer'.id.applied
      BY <1>0, <1>1, <3>3, Zenon DEF Sending
    <3> SUFFICES ASSUME transfer.files = Parts, transfer.id \notin raced
                 PROVE  /\ "db" \in DOMAIN transfer'.sent =>
                             /\ transfer'.sent["db"] <= smCommit
                             /\ Dir(transfer.id)["kv"].by # "none" =>
                                  transfer'.sent["db"] <= Dir(transfer.id)["kv"].at
                        /\ "kv" \in DOMAIN transfer'.sent =>
                             /\ "db" \in DOMAIN transfer'.sent
                             /\ transfer'.sent["db"] <= transfer'.sent["kv"]
                             /\ transfer'.s <= transfer'.sent["kv"]
      BY <1>1, <3>3, <3>5, <3>6, Zenon DEF Sending
    <3>7. transfer.id \in Descriptor \ raced
      BY <1>0, Zenon DEF SourceTypes, Transfer
    <3>8. Filled(transfer.id) /\ file.at <= smCommit
      BY <1>0, <3>2, <3>7, Zenon DEF Files
    <3>9. CASE part = "db"
      <4>1. "kv" \notin DOMAIN transfer.sent
        BY <1>0, <1>1, <3>1, <3>9, Zenon DEF Sending, Pending
      <4> QED BY <3>2, <3>4, <3>8, <3>9, <4>1, Zenon DEF Filled
    <3>10. CASE part = "kv"
      <4>1. "db" \in DOMAIN transfer.sent
        BY <1>0, <1>1, <3>1, <3>10, FirstPending, Zenon DEF Pending, Parts
      <4>2. /\ transfer'.sent["db"] = transfer.sent["db"] /\ transfer'.sent["kv"] = file.at
            /\ transfer.sent["db"] <= smCommit
            /\ Dir(transfer.id)["kv"].by # "none" =>
                 transfer.sent["db"] <= Dir(transfer.id)["kv"].at
        BY <1>0, <1>1, <3>4, <3>10, <4>1, Zenon DEF Sending
      <4>3. transfer.s <= transfer.id.applied /\ transfer.id.applied <= file.at
        BY <1>0, <1>1, <3>2, <3>8, <3>10, Zenon DEF Sending, Filled
      <4>4. transfer.s <= file.at
        BY <1>0, <3>2, <4>3, Bounds DEF SourceTypes, Transfer, Descriptor
      <4> QED BY <3>2, <3>3, <3>4, <3>10, <4>1, <4>2, <4>4, Zenon
    <3> QED BY <3>1, <3>9, <3>10, Zenon DEF Parts
  <2> QED BY <2>1, <2>2, Zenon
<1> QED BY <1>0, <1>2, <1>3, <1>4, <1>5, <1>6, <1>7, <1>8, <1>9, CalmFiles, CalmComplete, Zenon
        DEF SourceInv

LEMMA TransferDoneStep ==
    ASSUME SourceInv, TransferDone
    PROVE  SourceInv'
<1>0. SourceTypes /\ Order /\ Files /\ Complete /\ Sending /\ Forward
  BY Zenon DEF SourceInv
<1>1. /\ transfer' = NoTransfer
      /\ UNCHANGED <<committed, smCommit, startIndex, descriptor, payload, mutex,
                     lastSnapshot, raftSnapshot, job, sched, manual, request, export, left,
                     raced>>
  BY <1>0, Zenon DEF TransferDone, entries, snapshots, raft, asking, endpoint
<1>2. SourceTypes'
  BY <1>0, <1>1, Empties, Zenon DEF SourceTypes
<1>3. Order'
  BY <1>0, <1>1, Zenon DEF Order
<1>4. Calm
  BY <1>0, <1>1, Numbers DEF Calm, Callers, Parts, NoJob
<1>5. UsedIds' \subseteq UsedIds \cup {NoDescriptor}
  BY <1>1, Zenon DEF UsedIds, NoTransfer
<1>6. Forward'
  BY <1>0, <1>1, Zenon DEF Forward, Undisturbed
<1>7. left'.faults <= left.faults
  BY <1>0, <1>1, Bounds DEF SourceTypes
<1>8. Undisturbed' => \A d \in Callers : job[d].pc \in Parts => job'[d] = job[d]
  BY <1>1, Zenon
<1>9. Sending'
  <2>1. ~transfer'.on
    BY <1>1, Zenon DEF NoTransfer
  <2> QED BY <2>1, Zenon DEF Sending
<1> QED BY <1>0, <1>2, <1>3, <1>4, <1>5, <1>6, <1>7, <1>8, <1>9, CalmFiles, CalmComplete, Zenon
        DEF SourceInv

LEMMA RestartStep ==
    ASSUME SourceInv, Restart
    PROVE  SourceInv'
<1>0. SourceTypes /\ Order /\ Files /\ Complete /\ Sending /\ Forward
  BY Zenon DEF SourceInv
<1>1. /\ mutex' = "free" /\ job' = [c \in Callers |-> NoJob]
      /\ sched' = "idle" /\ manual' = FALSE
      /\ request' = NoRequest /\ transfer' = NoTransfer
      /\ lastSnapshot' = descriptor.last_log /\ raftSnapshot' = descriptor.last_log
      /\ UNCHANGED <<committed, smCommit, startIndex, descriptor, payload, export,
                     raced>>
  BY <1>0, Zenon DEF Restart, entries, snapshots, raft, asking, endpoint
<1>2. SourceTypes'
  <2>1. left' \in [requests : Nat, transfers : Nat, faults : 0..MaxFaults]
    BY <1>0, SpendTypes, Zenon DEF SourceTypes, Restart
  <2> QED BY <1>0, <1>1, <2>1, Empties, Zenon DEF SourceTypes, Descriptor
<1>3. Order'
  <2>1. \A c \in Callers : job'[c] = NoJob
    BY <1>1, Zenon
  <2>2. job'["sm"].pc = "idle" /\ job'["export"].pc = "idle"
    BY <2>1 DEF NoJob, Callers
  <2> QED BY <1>0, <1>1, <2>1, <2>2, Zenon DEF Order, NoJob, NoRequest
<1>4. Calm
  BY <1>0, <1>1, Numbers DEF Calm, Callers, Parts, NoJob
<1>5. UsedIds' \subseteq UsedIds \cup {NoDescriptor}
  BY <1>1, Zenon DEF UsedIds, NoTransfer, NoRequest, NoJob
<1>6. Forward'
  <2>1. ~Undisturbed'
    BY <1>0, <1>2, SpendTypes, Bounds DEF SourceTypes, Restart, Undisturbed
  <2> QED BY <2>1, Zenon DEF Forward
<1>7. left'.faults <= left.faults
  BY <1>0, SpendTypes, Zenon DEF SourceTypes, Restart
<1>8. Undisturbed' => \A d \in Callers : job[d].pc \in Parts => job'[d] = job[d]
  <2>1. ~Undisturbed'
    BY <1>0, <1>2, SpendTypes, Bounds DEF SourceTypes, Restart, Undisturbed
  <2> QED BY <2>1, Zenon
<1>9. Sending'
  <2>1. ~transfer'.on
    BY <1>1, Zenon DEF NoTransfer
  <2> QED BY <2>1, Zenon DEF Sending
<1> QED BY <1>0, <1>2, <1>3, <1>4, <1>5, <1>6, <1>7, <1>8, <1>9, CalmFiles, CalmComplete, Zenon
        DEF SourceInv

-----------------------------------------------------------------------------
(* A creation writes its descriptor and clears the directory of its id.    *)
LEMMA DescribeStep ==
    ASSUME SourceInv, NEW c \in Callers, Describe(c)
    PROVE  SourceInv'
<1>0. SourceTypes /\ Order /\ Files /\ Complete /\ Sending /\ Forward /\ SourceTypes'
  BY DescribeTypes, Zenon DEF SourceInv
<1>1. PICK d \in Callers : d = Other(c) /\ d # c /\ Callers = {c, d}
  BY Zenon DEF Callers, Other
<1>2. PICK id \in Descriptor : id = [last_log |-> job[c].index, applied |-> smCommit]
  BY <1>0, Zenon DEF Descriptor, SourceTypes, Job
<1>3. /\ job[c].pc = "describe" /\ (c = "sm" => mutex = "free")
      /\ mutex' = IF c = "sm" THEN "sm" ELSE mutex
      /\ descriptor' = id
      /\ payload' = [i \in (UsedIds \ {id}) \cap DOMAIN payload |-> payload[i]]
      /\ raced' = (raced \cap UsedIds) \cup (IF Writing(d, id) THEN {id} ELSE {})
      /\ UNCHANGED <<committed, smCommit, lastSnapshot, startIndex, raftSnapshot, sched, manual,
                     request, export, transfer, left>>
  BY <1>1, <1>2, Zenon DEF Describe, entries, raft, asking, endpoint
<1>4. /\ job'[c].pc = "db" /\ job'[c].index = job[c].index /\ job'[c].id = id
      /\ job'[d] = job[d]
  BY <1>0, <1>1, <1>2 DEF Describe, SourceTypes, Job
<1>5. /\ \A i \in UsedIds \ {id} : Dir(i)' = Dir(i)
      /\ \A i : i \notin UsedIds \ {id} => Dir(i)' = NoPayload
  BY <1>3, Zenon DEF Dir
<1>6. /\ \A i : ~Writing(c, i) /\ (Writing(c, i)' <=> i = id)
      /\ \A i : Writing(d, i)' <=> Writing(d, i)
      /\ \A i : Writing(d, i) => i \in UsedIds
  <2>1. job'[c].pc \in Parts /\ job[c].pc \notin Parts
    BY <1>3, <1>4, Zenon DEF Parts
  <2> QED BY <1>0, <1>1, <1>4, <2>1, WritingIs, WritingNext DEF UsedIds
<1>7. descriptor.applied <= smCommit /\ smCommit \in Nat /\ job[c].index \in 1..smCommit
  BY <1>0, <1>3, Numbers, Zenon DEF Order
<1>8. Order'
  <2>1. descriptor'.last_log <= descriptor'.applied /\ descriptor'.applied <= smCommit'
    BY <1>2, <1>3, <1>7
  <2>2. lastSnapshot' <= descriptor'.applied /\ raftSnapshot' <= descriptor'.applied
    BY <1>0, <1>2, <1>3, <1>7, Numbers DEF Order
  <2>3. mutex' = "sm" <=> job'["sm"].pc \in {"db", "kv", "end"}
    BY <1>0, <1>1, <1>3, <1>4, Zenon DEF Order, Callers
  <2>4. \A e \in Callers :
          /\ job'[e].pc # "idle" => job'[e].index \in 1..smCommit'
          /\ job'[e].pc \notin {"idle", "describe"} =>
               /\ job'[e].id.last_log = job'[e].index
               /\ job'[e].index <= job'[e].id.applied
               /\ job'[e].id.applied <= descriptor'.applied
    <3>1. job[d].pc \notin {"idle", "describe"} => job[d].id.applied <= smCommit
      BY <1>0, <1>7, Numbers DEF Order
    <3> QED BY <1>0, <1>1, <1>2, <1>3, <1>4, <1>7, <3>1 DEF Order
  <2>5. request'.pc \in {"create", "export", "tree", "acked"} => request'.index <= descriptor'.applied
    BY <1>0, <1>2, <1>3, <1>7, Numbers DEF Order
  <2>6. /\ request'.pc = "export" => /\ job'["export"].pc \in {"describe", "db", "kv", "end"}
                                     /\ job'["export"].index = request'.index
        /\ request'.pc = "tree" => /\ job'["export"].pc = "end"
                                   /\ job'["export"].index = request'.index
                                   /\ export'.id.applied >= request'.index
        /\ request'.pc \notin {"export", "tree"} => job'["export"].pc = "idle"
    BY <1>0, <1>1, <1>3, <1>4 DEF Order, Callers
  <2> QED BY <1>0, <1>3, <2>1, <2>2, <2>3, <2>4, <2>5, <2>6, Zenon DEF Order
<1>9. Files'
  <2>1. ASSUME NEW i \in Descriptor, NEW p \in Parts PROVE Dir(i)'[p].at <= smCommit'
    BY <1>0, <1>3, <1>5, <1>7, NothingThere DEF Files
  <2>2. ASSUME NEW i \in Descriptor \ raced' PROVE Filled(i)'
    <3>1. CASE i = id
      <4>1. ~Writing(d, id)
        BY <1>3, <2>2, <3>1, Zenon
      <4>2. Dir(i)' = NoPayload
        BY <1>5, <3>1, Zenon
      <4> QED BY <1>1, <1>4, <1>6, <3>1, <4>1, <4>2, NothingThere DEF Filled, Parts, Callers
    <3>2. CASE i # id /\ i \in UsedIds
      <4>1. Filled(i) /\ Dir(i)' = Dir(i)
        BY <1>0, <1>3, <1>5, <2>2, <3>2, Zenon DEF Files
      <4> QED BY <1>1, <1>4, <1>6, <3>2, <4>1 DEF Filled, Callers
    <3>3. CASE i # id /\ i \notin UsedIds
      <4>1. Dir(i)' = NoPayload /\ ~Writing(d, i)' /\ ~Writing(c, i)'
        BY <1>5, <1>6, <3>3, Zenon
      <4> QED BY <1>1, <4>1, NothingThere, Zenon DEF Filled, Parts, Callers
    <3> QED BY <3>1, <3>2, <3>3, Zenon
  <2> QED BY <2>1, <2>2, Zenon DEF Files
<1>10. Complete'
  <2> SUFFICES ASSUME Undisturbed', NEW i \in UsedIds' \ ({NoDescriptor} \cup raced'),
                      \A e \in Callers : ~Writing(e, i)'
               PROVE  Dir(i)'["kv"].by # "none"
    BY Zenon DEF Complete
  <2>1. i # id
    BY <1>6, Zenon
  <2>2. i \in UsedIds
    BY <1>1, <1>3, <1>4, <2>1 DEF UsedIds
  <2>3. i \notin raced /\ \A e \in Callers : ~Writing(e, i)
    BY <1>1, <1>3, <1>6, <2>2, Zenon
  <2> QED BY <1>0, <1>3, <1>5, <2>1, <2>2, <2>3, Zenon DEF Complete, Undisturbed
<1>11. Sending'
  <2>1. transfer.id \in UsedIds
    BY Zenon DEF UsedIds
  <2>2. transfer.id \notin raced' => transfer.id \notin raced
    BY <1>3, <2>1, Zenon
  <2>3. Dir(transfer.id)' \in {Dir(transfer.id), NoPayload}
    BY <1>3, <1>5, Zenon DEF Dir
  <2> QED BY <1>0, <1>3, <2>2, <2>3, NothingThere, Zenon DEF Sending, Parts
<1>12. Forward'
  BY <1>0, <1>1, <1>3, <1>4, Zenon DEF Forward, Undisturbed, Callers
<1> QED BY <1>0, <1>8, <1>9, <1>10, <1>11, <1>12, Zenon DEF SourceInv

(* A creation copies one part.                                             *)
LEMMA CopyStep ==
    ASSUME SourceInv, NEW c \in Callers, Copy(c)
    PROVE  SourceInv'
<1>0. SourceTypes /\ Order /\ Files /\ Complete /\ Sending /\ Forward /\ SourceTypes'
  BY CopyTypes, Zenon DEF SourceInv
<1>1. PICK d \in Callers : d # c /\ Callers = {c, d}
  BY Zenon DEF Callers
<1>2. PICK id \in Descriptor : id = job[c].id
  BY <1>0, Zenon DEF SourceTypes, Job
<1>3. PICK part \in Parts : part = job[c].pc
  BY Zenon DEF Copy
<1>4. /\ payload' = Put(payload, id, [Dir(id) EXCEPT ![part] = [by |-> c, at |-> smCommit]])
      /\ UNCHANGED <<committed, smCommit, descriptor, mutex, lastSnapshot, startIndex, raftSnapshot,
                     sched, manual, request, export, transfer, left, raced>>
  BY <1>2, <1>3, Zenon DEF Copy, entries, raft, asking, endpoint
<1>5. /\ job'[c].pc = After[part] /\ job'[c].index = job[c].index /\ job'[c].id = id
      /\ job'[d] = job[d]
  BY <1>0, <1>1, <1>2, <1>3 DEF Copy, SourceTypes, Job
<1>6. /\ Dir(id)' = [Dir(id) EXCEPT ![part] = [by |-> c, at |-> smCommit]]
      /\ \A i : i # id => Dir(i)' = Dir(i)
  BY <1>4, Zenon DEF Dir, Put
<1>7. /\ Dir(id)'[part].by = c /\ Dir(id)'[part].at = smCommit
      /\ \A q \in Parts \ {part} : Dir(id)'[q] = Dir(id)[q]
  BY <1>0, <1>3, <1>6, DirType
<1>8. /\ \A i : Writing(c, i) <=> i = id
      /\ \A i : Writing(c, i)' <=> part = "db" /\ i = id
      /\ \A i : Writing(d, i)' <=> Writing(d, i)
  <2>1. job[c].pc \in Parts /\ (job'[c].pc \in Parts <=> part = "db")
    BY <1>3, <1>5 DEF Parts, After
  <2> QED BY <1>0, <1>1, <1>2, <1>5, <2>1, WritingIs, WritingNext
<1>9. Order'
  <2>1. job'[c].pc \in {"kv", "end"} /\ job[c].pc \in {"db", "kv"}
    BY <1>3, <1>5 DEF Parts, After
  <2> QED BY <1>0, <1>1, <1>2, <1>4, <1>5, <2>1 DEF Order, Callers
<1>10. smCommit \in Nat /\ id.applied <= smCommit
  BY <1>0, <1>2, <1>3, Numbers DEF Order, Parts
<1>11. Files'
  <2>1. ASSUME NEW i \in Descriptor, NEW p \in Parts PROVE Dir(i)'[p].at <= smCommit'
    <3>1. Dir(i)[p].at <= smCommit
      BY <1>0, Zenon DEF Files
    <3>2. CASE i = id /\ p = part
      BY <1>4, <1>7, <1>10, <3>2
    <3>3. CASE i = id /\ p # part
      BY <1>4, <1>7, <3>1, <3>3, Zenon
    <3>4. CASE i # id
      BY <1>4, <1>6, <3>1, <3>4, Zenon
    <3> QED BY <3>2, <3>3, <3>4, Zenon
  <2>2. ASSUME NEW i \in Descriptor \ raced' PROVE Filled(i)'
    <3>0. Filled(i)
      BY <1>0, <1>4, <2>2, Zenon DEF Files
    <3>1. CASE i = id
      <4>1. /\ ~Writing(d, id) /\ Dir(id)["kv"].by = "none"
            /\ part = "kv" => Dir(id)["db"].by = c
        BY <1>1, <1>3, <1>8, <3>0, <3>1, Zenon DEF Filled, Callers
      <4>2. CASE part = "db"
        <5>1. Dir(id)'["kv"].by = "none" /\ Dir(id)'["db"].by = c
          BY <1>7, <4>1, <4>2, Zenon DEF Parts
        <5> QED BY <1>1, <1>8, <3>1, <4>1, <5>1, Zenon DEF Filled, Callers
      <4>3. CASE part = "kv"
        <5>1. /\ Dir(id)'["kv"].by = c /\ Dir(id)'["kv"].at = smCommit
              /\ Dir(id)'["db"].by = c /\ Dir(id)'["db"].at <= smCommit
          BY <1>0, <1>2, <1>7, <4>1, <4>3, Zenon DEF Parts, Files
        <5> QED BY <1>1, <1>8, <1>10, <3>1, <4>1, <4>3, <5>1, Zenon DEF Filled, Callers
      <4> QED BY <1>3, <4>2, <4>3, Zenon DEF Parts
    <3>2. CASE i # id
      BY <1>1, <1>5, <1>6, <1>8, <3>0, <3>2 DEF Filled, Callers
    <3> QED BY <3>1, <3>2, Zenon
  <2> QED BY <2>1, <2>2, Zenon DEF Files
<1>12. Complete'
  <2> SUFFICES ASSUME Undisturbed', NEW i \in UsedIds' \ ({NoDescriptor} \cup raced'),
                      \A e \in Callers : ~Writing(e, i)'
               PROVE  Dir(i)'["kv"].by # "none"
    BY Zenon DEF Complete
  <2>1. i \in UsedIds \ ({NoDescriptor} \cup raced)
    BY <1>1, <1>2, <1>4, <1>5, Zenon DEF UsedIds
  <2>2. CASE i = id
    <3>1. part = "kv"
      BY <1>3, <1>8, <2>2, Zenon DEF Parts
    <3> QED BY <1>7, <2>2, <3>1, Zenon DEF Callers
  <2>3. CASE i # id
    <3>1. \A e \in Callers : ~Writing(e, i)
      BY <1>1, <1>8, <2>3, Zenon
    <3> QED BY <1>0, <1>4, <1>6, <2>1, <2>3, <3>1, Zenon DEF Complete, Undisturbed
  <2> QED BY <2>2, <2>3, Zenon
<1>13. Sending'
  <2>1. \/ Dir(transfer.id)'["kv"] = Dir(transfer.id)["kv"]
        \/ Dir(transfer.id)'["kv"].at = smCommit
    <3>1. CASE transfer.id = id
      BY <1>4, <1>7, <3>1, Zenon DEF Parts
    <3>2. CASE transfer.id # id
      BY <1>4, <1>6, <3>2, Zenon
    <3> QED BY <3>1, <3>2, Zenon
  <2> QED BY <1>0, <1>4, <2>1, Zenon DEF Sending
<1>14. Forward'
  BY <1>0, <1>1, <1>3, <1>4, <1>5, Zenon DEF Forward, Undisturbed, Callers, Parts
<1> QED BY <1>0, <1>9, <1>11, <1>12, <1>13, <1>14, Zenon DEF SourceInv

-----------------------------------------------------------------------------
LEMMA SourceStep == SourceInv /\ [Next]_vars => SourceInv'
<1> SUFFICES ASSUME SourceInv, [Next]_vars PROVE SourceInv'
  BY Zenon
<1>1. CASE UNCHANGED vars
  <2>1. UNCHANGED <<committed, smCommit, startIndex, descriptor, payload, mutex, lastSnapshot,
                    raftSnapshot, job, sched, manual, request, export, transfer, left, raced>>
    BY <1>1, Zenon DEF vars, entries, snapshots, raft, asking, endpoint
  <2>2. SourceTypes' /\ Order'
    BY <2>1 DEF SourceInv, SourceTypes, Order
  <2>3. UsedIds' = UsedIds
    BY <2>1, Zenon DEF UsedIds
  <2>4. Calm /\ left'.faults <= left.faults
    <3>1. left.faults \in 0..MaxFaults /\ smCommit \in Nat
      BY Numbers, Zenon DEF SourceInv, SourceTypes
    <3>2. left.faults <= left.faults /\ smCommit <= smCommit
      BY <3>1, Bounds
    <3> QED BY <2>1, <3>2, Zenon DEF Calm
  <2>5. Forward'
    BY <2>1, Zenon DEF SourceInv, Forward, Undisturbed
  <2> QED BY <2>1, <2>2, <2>3, <2>4, <2>5, CalmFiles, CalmComplete, CalmSending, Zenon DEF SourceInv
<1>2. CASE Commit \/ Apply \/ (\E due, behind \in BOOLEAN : SchedulerPoll(due, behind))
  BY <1>2, CommitStep, ApplyStep, PollStep, Zenon
<1>3. CASE DistanceSnapshot \/ SchedulerCreate \/ ManualCreate
  <2>1. SourceTypes
    BY Zenon DEF SourceInv
  <2>2. CASE DistanceSnapshot
    BY <2>1, <2>2, RaftCreatesStep, Zenon
    DEF DistanceSnapshot, entries, snapshots, raft, asking, endpoint, SourceTypes
  <2>3. CASE SchedulerCreate
    BY <2>1, <2>3, RaftCreatesStep, Zenon DEF SchedulerCreate, entries, snapshots, raft, endpoint, SourceTypes
  <2>4. CASE ManualCreate
    BY <2>1, <2>4, RaftCreatesStep, Zenon DEF ManualCreate, entries, snapshots, raft, endpoint, SourceTypes
  <2> QED BY <1>3, <2>2, <2>3, <2>4, Zenon
<1>4. CASE Creation \/ (\E c \in Callers : CopyFails(c)) \/ Release \/ WhenDone
  BY <1>4, DescribeStep, CopyStep, CopyFailsStep, ReleaseStep, WhenDoneStep, Zenon DEF Creation
<1>5. CASE \/ \E kind \in Requests : DoSnapshot(kind)
           \/ SnapshotSeen \/ SnapshotTimeout \/ AnswerInternal
  BY <1>5, DoSnapshotStep, SnapshotSeenStep, SnapshotTimeoutStep, AnswerInternalStep, Zenon
<1>6. CASE ExportCreate \/ ExportMeta \/ ExportTree \/ ExportFailed \/ Answered
  BY <1>6, ExportCreateStep, ExportMetaStep, ExportTreeStep, ExportFailedStep, AnsweredStep, Zenon
<1>7. CASE Manifest \/ ReadObject \/ TransferDone \/ Restart
  BY <1>7, ManifestStep, ReadObjectStep, TransferDoneStep, RestartStep, Zenon
<1> QED
  BY <1>1, <1>2, <1>3, <1>4, <1>5, <1>6, <1>7, Zenon DEF Next

LEMMA SourceAlways == Spec => []SourceInv
BY SourceInit, SourceStep, PTL DEF Spec

(* A directory with its last part is whole.                                *)
LEMMA LastPartMakesWhole ==
    ASSUME NEW id, Filled(id), Dir(id)["kv"].by # "none"
    PROVE  Whole(Dir(id))
<1>1. Dir(id)["db"].by = Dir(id)["kv"].by
  BY Zenon DEF Filled
<1>2. Present(Dir(id)) = Parts
  BY <1>1, Zenon DEF Present, Parts
<1>3. {Dir(id)[p].by : p \in Parts} = {Dir(id)["kv"].by}
  BY <1>1, Zenon DEF Parts
<1>4. Cardinality({Dir(id)["kv"].by}) = 1
  BY FS_Singleton, Zenon
<1> QED BY <1>2, <1>3, <1>4, Zenon DEF Whole

(* What is referred to and not being written is whole, without faults.     *)
LEMMA RestingIsWhole ==
    ASSUME SourceInv, Undisturbed, NEW id \in UsedIds \ ({NoDescriptor} \cup raced),
           \A c \in Callers : ~Writing(c, id)
    PROVE  Whole(Dir(id))
<1>1. Dir(id)["kv"].by # "none"
  BY Zenon DEF SourceInv, Complete
<1>2. UsedIds \subseteq Descriptor
  BY DEF SourceInv, SourceTypes, UsedIds, Transfer, Request, Job
<1>3. Filled(id)
  BY <1>2, Zenon DEF SourceInv, Files
<1> QED BY <1>1, <1>3, LastPartMakesWhole, Zenon

LEMMA FreeIsNotWriting ==
    ASSUME SourceInv, mutex = "free"
    PROVE  \A id : ~Writing("sm", id)
BY Zenon DEF SourceInv, Order, Writing, SourceTypes, Job, JobStep, Callers, Parts

(* Whoever takes the mutex finds the whole payload of one creation under   *)
(* the latest descriptor, although create_snapshot writes that first.      *)
THEOREM SourceOfferedIsWhole == Spec => []OfferedIsWhole
<1>1. SourceInv => OfferedIsWhole
  <2> SUFFICES ASSUME SourceInv, Undisturbed, mutex = "free", HaveDescriptor,
                      job["export"].pc \in {"idle", "describe", "end"}, descriptor \notin raced
               PROVE  Whole(Dir(descriptor))
    BY Zenon DEF OfferedIsWhole
  <2>1. \A c \in Callers : ~Writing(c, descriptor)
    BY FreeIsNotWriting, Zenon DEF Writing, Callers
  <2> QED BY <2>1, RestingIsWhole, Zenon DEF UsedIds, HaveDescriptor
<1> QED BY <1>1, SourceAlways, PTL

(* A transfer that is complete covers the snapshot Raft sent, and its      *)
(* store has no entry that its checkpoint lacks, even when the directory   *)
(* is rewritten while it is read.                                          *)
THEOREM SourceDeliveredCovers == Spec => []DeliveredCovers
<1>1. SourceInv => DeliveredCovers
  <2> SUFFICES ASSUME SourceInv, Sent, transfer.files = Parts, transfer.id \notin raced
               PROVE  /\ transfer.sent["kv"] >= transfer.s
                      /\ transfer.sent["db"] <= transfer.sent["kv"]
    BY Zenon DEF DeliveredCovers
  <2>1. transfer.on /\ {"db", "kv"} \subseteq DOMAIN transfer.sent
    BY Zenon DEF Sent, Pending, Parts
  <2>2. transfer.sent["kv"] \in Nat /\ transfer.s \in Nat
    BY <2>1, Bounds DEF SourceInv, SourceTypes, Transfer
  <2> QED BY <2>1, <2>2, Zenon DEF SourceInv, Sending
<1> QED BY <1>1, SourceAlways, PTL

(* An answered request names a snapshot that covers every entry committed  *)
(* when it came in, with its whole payload.                                *)
THEOREM SourceAckedSnapshotCovers == Spec => []AckedSnapshotCovers
<1>1. SourceInv => AckedSnapshotCovers
  <2> SUFFICES ASSUME SourceInv, request.pc = "acked"
               PROVE  /\ request.id.applied >= request.index
                      /\ Undisturbed /\ mutex = "free" /\ request.id \notin raced
                         => Whole(Dir(request.id))
    BY Zenon DEF AckedSnapshotCovers
  <2>1. request.index <= request.id.applied /\ 0 < request.index /\ job["export"].pc = "idle"
    BY Numbers DEF SourceInv, Order
  <2>2. request.id.applied >= request.index /\ request.id # NoDescriptor
    BY <2>1, Numbers DEF SourceInv, NoDescriptor
  <2>3. ASSUME Undisturbed, mutex = "free", request.id \notin raced PROVE Whole(Dir(request.id))
    <3>1. \A c \in Callers : ~Writing(c, request.id)
      BY <2>1, <2>3, FreeIsNotWriting, Zenon DEF Writing, Callers
    <3> QED BY <2>2, <2>3, <3>1, RestingIsWhole, Zenon DEF UsedIds
  <2> QED BY <2>2, <2>3, Zenon
<1> QED BY <1>1, SourceAlways, PTL

(* Neither Raft's compaction nor do_snapshot's own takes an entry that no  *)
(* snapshot has.                                                           *)
THEOREM SourceLogFollowsSnapshot == Spec => []LogFollowsSnapshot
<1>1. SourceInv => LogFollowsSnapshot
  BY Zenon DEF SourceInv, Forward, LogFollowsSnapshot
<1> QED BY <1>1, SourceAlways, PTL

(* An export is whole unless the state machine was creating that snapshot. *)
THEOREM SourceExportWhole == Spec => ExportWholeUnlessOverlapped
<1>1. SourceInv /\ [Next]_vars =>
        [ request.pc = "tree" /\ request'.pc = "acked"
          /\ Undisturbed /\ ~Writing("sm", export.id) /\ export.id \notin raced
          => Whole(export'.tree) ]_vars
  <2> SUFFICES ASSUME SourceInv, Next, request.pc = "tree", request'.pc = "acked",
                      Undisturbed, ~Writing("sm", export.id), export.id \notin raced
               PROVE  Whole(export'.tree)
    BY Zenon DEF vars, endpoint
  <2>1. CASE ExportTree
    <3>1. export'.tree = Dir(export.id)
      BY <2>1, Zenon DEF ExportTree, SourceInv, SourceTypes
    <3>2. job["export"].pc = "end" /\ 0 < request.index /\ export.id.applied >= request.index
      BY Numbers DEF SourceInv, Order
    <3>3. export.id # NoDescriptor
      BY <3>2, Numbers DEF SourceInv, NoDescriptor
    <3>4. \A c \in Callers : ~Writing(c, export.id)
      BY <3>2, Zenon DEF Writing, Callers
    <3> QED BY <3>1, <3>3, <3>4, RestingIsWhole, Zenon DEF UsedIds
  <2>2. CASE \/ Commit \/ Apply \/ DistanceSnapshot \/ SchedulerCreate \/ ManualCreate
             \/ \E due, behind \in BOOLEAN : SchedulerPoll(due, behind)
    BY <2>2, Zenon DEF Commit, Apply, DistanceSnapshot, SchedulerCreate, ManualCreate, SchedulerPoll, endpoint
  <2>3. CASE Creation \/ (\E c \in Callers : CopyFails(c)) \/ Release \/ WhenDone
    BY <2>3, Zenon DEF Creation, Describe, Copy, CopyFails, Release, WhenDone, endpoint
  <2>4. CASE \/ \E kind \in Requests : DoSnapshot(kind)
             \/ SnapshotSeen \/ SnapshotTimeout \/ AnswerInternal
             \/ ExportCreate \/ ExportMeta \/ ExportFailed \/ Answered
    BY <2>4, Zenon DEF DoSnapshot, Idle, SnapshotSeen, SnapshotTimeout, AnswerInternal, ExportCreate,
                ExportMeta, ExportFailed, Answered
  <2>5. CASE Manifest \/ ReadObject \/ TransferDone \/ Restart
    BY <2>5 DEF Manifest, ReadObject, TransferDone, Restart, NoRequest, endpoint
  <2> QED BY <2>1, <2>2, <2>3, <2>4, <2>5, Zenon DEF Next
<1> QED BY <1>1, SourceAlways, PTL DEF Spec, ExportWholeUnlessOverlapped
=============================================================================
