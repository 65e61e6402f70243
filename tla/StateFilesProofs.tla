-------------------------- MODULE StateFilesProofs --------------------------
(***************************************************************************)
(* Proofs about StateFiles for every set of start options and candidates   *)
(* and every bound.                                                        *)
(*                                                                         *)
(* One vote per term needs three things besides the statement itself: that *)
(* what NuRaft holds in memory (or, when the process is down, what it will *)
(* read) is no older than any vote granted; that the file agrees with the  *)
(* memory unless "volatile" says how it may not; and that a file nobody    *)
(* left volatile has only one content a power loss can leave.              *)
(***************************************************************************)
EXTENDS StateFiles, TLAPS

Running == pc = "up" \/ pc \in Installing
Now == IF Running THEN srv ELSE ReadState

StateContent == ServerState \cup {None, Empty}

VoteTypes ==
    /\ files = [f \in File |-> files[f]]
    /\ may = [f \in File |-> may[f]]
    /\ files["state"] \in may["state"]
    /\ may["state"] \subseteq StateContent
    /\ srv \in ServerState
    /\ forgot \in BOOLEAN
    /\ votes \subseteq [term : 0..MaxTerm, vote : Candidates]
    /\ volatile \subseteq {"unsynced", "failed", "install"}

VoteSafe ==
    /\ \A v, w \in votes : v.term = w.term => v.vote = w.vote
    /\ \A v \in votes : v.term <= Now.term /\ (v.term = Now.term => v.vote = Now.vote)
    /\ Running /\ volatile \subseteq {"unsynced"} => ReadState = srv
    /\ pc \in Installing => "install" \in volatile
    /\ ~Running => volatile \subseteq {"unsynced"}
    /\ volatile = {} => may["state"] = {files["state"]}

VoteInv == VoteTypes /\ (~forgot => VoteSafe)

-----------------------------------------------------------------------------
(* A saved state is read back as it was saved.                             *)
LEMMA SavedIsRead ==
    ASSUME files["state"] \in ServerState
    PROVE  ReadState = files["state"]
BY FilesAssumption DEF ReadState, Readable, ServerState

(* Whatever is read is a server state.                                     *)
LEMMA ReadStateType ==
    ASSUME files["state"] \in StateContent
    PROVE  ReadState \in ServerState
BY FilesAssumption DEF ReadState, Readable, ServerState, StateContent, NewState

(* Writing another file neither changes srv_state.bin nor makes its        *)
(* content uncertain when it was not.                                      *)
LEMMA SyncedElsewhere ==
    ASSUME VoteTypes, NEW f \in File, f # "state", NEW v, WriteSynced(f, v)
    PROVE  /\ files' = [g \in File |-> files'[g]]
           /\ may' = [g \in File |-> may'[g]]
           /\ files'["state"] = files["state"]
           /\ files'["state"] \in may'["state"]
           /\ may'["state"] \subseteq StateContent
           /\ may["state"] = {files["state"]} => may'["state"] = {files["state"]}
<1>1. "state" \in File
  BY Zenon DEF File
<1>2. files' = [files EXCEPT ![f] = v]
  BY Zenon DEF WriteSynced
<1>3. files'["state"] = files["state"] /\ files' = [g \in File |-> files'[g]]
  BY <1>1, <1>2, Zenon DEF VoteTypes
<1>4. may'["state"] = IF files["state"] = None \/ may["state"] = {files["state"]} THEN {files["state"]}
                      ELSE {files["state"], Empty}
  BY <1>1, Zenon DEF WriteSynced
<1>5. may' = [g \in File |-> may'[g]]
  BY Zenon DEF WriteSynced
<1> QED
  BY <1>3, <1>4, <1>5 DEF VoteTypes, StateContent

LEMMA UnsyncedElsewhere ==
    ASSUME VoteTypes, NEW f \in File, f # "state", NEW v, WriteUnsynced(f, v)
    PROVE  /\ files' = [g \in File |-> files'[g]]
           /\ may' = [g \in File |-> may'[g]]
           /\ files'["state"] = files["state"]
           /\ may'["state"] = may["state"]
BY Zenon DEF WriteUnsynced, VoteTypes, File

LEMMA StateWritten ==
    ASSUME VoteTypes, NEW s \in ServerState, WriteUnsynced("state", s)
    PROVE  /\ files' = [g \in File |-> files'[g]]
           /\ may' = [g \in File |-> may'[g]]
           /\ files'["state"] = s
           /\ files'["state"] \in may'["state"]
           /\ may'["state"] \subseteq StateContent
BY Zenon DEF WriteUnsynced, VoteTypes, File, StateContent

LEMMA Removed ==
    ASSUME VoteTypes, NEW fs, Remove(fs)
    PROVE  /\ files' = [g \in File |-> files'[g]]
           /\ may' = [g \in File |-> may'[g]]
           /\ files'["state"] \in may'["state"]
           /\ may'["state"] \subseteq StateContent
BY Zenon DEF Remove, VoteTypes, File, StateContent

-----------------------------------------------------------------------------
LEMMA VoteInit == Init => VoteInv
<1> SUFFICES ASSUME Init PROVE VoteInv
  BY Zenon
<1>1. files["state"] = None /\ may["state"] = {None}
  BY Zenon DEF Init, Missing, File
<1>2. NewState \in ServerState
  BY FilesAssumption DEF ServerState, NewState
<1>3. VoteTypes
  BY <1>1, <1>2, Zenon DEF Init, VoteTypes, Missing, StateContent
<1>4. VoteSafe
  BY <1>1, Zenon DEF Init, VoteSafe, Running, Installing
<1> QED
  BY <1>3, <1>4, Zenon DEF VoteInv

(* Steps of the start sequence: the process is not running before, and     *)
(* srv_state.bin is left alone.                                            *)
LEMMA StartKeepsVotes ==
    ASSUME VoteInv, ~Running,
           UNCHANGED <<srv, votes, volatile, forgot>>,
           files' = [g \in File |-> files'[g]], may' = [g \in File |-> may'[g]],
           files'["state"] = files["state"],
           files'["state"] \in may'["state"], may'["state"] \subseteq StateContent,
           may["state"] = {files["state"]} => may'["state"] = {files["state"]},
           ~Running'
    PROVE  VoteInv'
<1>1. VoteTypes'
  BY Zenon DEF VoteInv, VoteTypes
<1>2. ReadState' = ReadState
  BY Zenon DEF ReadState, Readable
<1>3. pc' \notin Installing
  BY Zenon DEF Running
<1>4. ASSUME ~forgot PROVE VoteSafe'
  BY <1>2, <1>3, <1>4, Zenon DEF VoteInv, VoteSafe, Now
<1> QED
  BY <1>1, <1>4, Zenon DEF VoteInv

LEMMA InitializeKeepsVotes ==
    ASSUME VoteInv, NEW built \in Options, Initialize(built)
    PROVE  VoteInv'
<1>1. ~Running
  BY Zenon DEF Initialize, Running, Installing
<1>2. pc' \in {"identity", "refused", "launch"}
  BY Zenon DEF Initialize
<1>3. ~Running'
  BY <1>2, Zenon DEF Running, Installing
<1>4. UNCHANGED <<files, may, srv, votes, volatile, forgot>>
  BY Zenon DEF Initialize
<1> QED
  BY <1>1, <1>3, <1>4, StartKeepsVotes, Zenon DEF VoteInv, VoteTypes

LEMMA PersistKeepsVotes ==
    ASSUME VoteInv, PersistIdentity \/ PersistBootstrap
    PROVE  VoteInv'
<1>1. ~Running /\ ~Running'
  BY Zenon DEF PersistIdentity, PersistBootstrap, Running, Installing
<1>2. UNCHANGED <<srv, votes, volatile, forgot>>
  BY Zenon DEF PersistIdentity, PersistBootstrap
<1>3. CASE PersistIdentity
  <2>1. WriteSynced("identity", options.self) /\ "identity" \in File /\ VoteTypes
    BY <1>3, Zenon DEF PersistIdentity, File, VoteInv
  <2> QED
    BY <1>1, <1>2, <2>1, SyncedElsewhere, StartKeepsVotes, Zenon
<1>4. CASE PersistBootstrap
  <2>1. WriteSynced("bootstrap", options) /\ "bootstrap" \in File /\ VoteTypes
    BY <1>4, Zenon DEF PersistBootstrap, File, VoteInv
  <2> QED
    BY <1>1, <1>2, <2>1, SyncedElsewhere, StartKeepsVotes, Zenon
<1> QED
  BY <1>3, <1>4, Zenon

LEMMA LaunchKeepsVotes ==
    ASSUME VoteInv, Launch
    PROVE  VoteInv'
<1>1. ReadState \in ServerState
  BY ReadStateType, Zenon DEF VoteInv, VoteTypes
<1>2. VoteTypes'
  BY <1>1, Zenon DEF VoteInv, VoteTypes, Launch
<1>3. ASSUME ~forgot PROVE VoteSafe'
  <2>1. ReadState' = ReadState
    BY Zenon DEF ReadState, Readable, Launch
  <2>2. Now = ReadState /\ ~Running
    BY Zenon DEF Now, Running, Launch, Installing
  <2>3. Now' = ReadState /\ srv' = ReadState /\ Running' /\ pc' \notin Installing
    BY Zenon DEF Now, Running, Launch, Installing
  <2> QED
    BY <1>3, <2>1, <2>2, <2>3, Zenon DEF VoteInv, VoteSafe, Launch
<1> QED
  BY <1>2, <1>3, Zenon DEF VoteInv, Launch

-----------------------------------------------------------------------------
(* Saving a state that is no older than the votes granted so far.          *)
LEMMA SaveKeepsVotes ==
    ASSUME VoteInv, pc = "up", pc' = "up", NEW s \in ServerState,
           srv' = s, SaveState(s), forgot' = forgot,
           votes' \subseteq [term : 0..MaxTerm, vote : Candidates],
           ~forgot => /\ \A v, w \in votes' : v.term = w.term => v.vote = w.vote
                      /\ \A v \in votes' : v.term <= s.term /\ (v.term = s.term => v.vote = s.vote)
    PROVE  VoteInv'
<1>0. Running' /\ pc' \notin Installing /\ Now' = s
  BY Zenon DEF Running, Installing, Now
<1>1. CASE WriteUnsynced("state", s) /\ volatile' = {"unsynced"}
  <2>1. /\ files' = [g \in File |-> files'[g]] /\ may' = [g \in File |-> may'[g]]
        /\ files'["state"] = s /\ files'["state"] \in may'["state"]
        /\ may'["state"] \subseteq StateContent
    BY <1>1, StateWritten, Zenon DEF VoteInv
  <2>2. VoteTypes'
    BY <1>1, <2>1, Zenon DEF VoteInv, VoteTypes, StateContent
  <2>3. ReadState' = s
    BY <2>1, FilesAssumption DEF ReadState, Readable, ServerState
  <2>4. ASSUME ~forgot PROVE VoteSafe'
    BY <1>0, <1>1, <2>3, <2>4, Zenon DEF VoteSafe
  <2> QED
    BY <2>2, <2>4, Zenon DEF VoteInv
<1>2. CASE volatile' = volatile \cup {"failed"} /\ UNCHANGED <<files, may>>
  <2>1. VoteTypes'
    BY <1>2, Zenon DEF VoteInv, VoteTypes, StateContent
  <2>2. ASSUME ~forgot PROVE VoteSafe'
    BY <1>0, <1>2, <2>2, Zenon DEF VoteSafe
  <2> QED
    BY <2>1, <2>2, Zenon DEF VoteInv
<1> QED
  BY <1>1, <1>2, Zenon DEF SaveState

LEMMA NewTermKeepsVotes ==
    ASSUME VoteInv, NEW t \in 1..MaxTerm, NewTerm(t)
    PROVE  VoteInv'
<1> DEFINE s == [term |-> t, vote |-> None]
<1>1. s \in ServerState /\ srv' = s /\ SaveState(s) /\ pc = "up" /\ pc' = "up"
  BY FilesAssumption DEF NewTerm, ServerState
<1>2. votes' = votes /\ forgot' = forgot
  BY Zenon DEF NewTerm
<1>3. ASSUME ~forgot
      PROVE  /\ \A v, w \in votes : v.term = w.term => v.vote = w.vote
             /\ \A v \in votes : v.term <= t /\ (v.term = t => v.vote = None)
  <2>1. Now = srv /\ srv.term < t /\ srv.term \in Nat
    BY <1>1, FilesAssumption DEF Now, Running, NewTerm, VoteInv, VoteTypes, ServerState
  <2>2. \A v \in votes : v.term \in Nat
    BY FilesAssumption DEF VoteInv, VoteTypes
  <2> QED
    BY <1>3, <2>1, <2>2, FilesAssumption DEF VoteInv, VoteSafe
<1>4. votes' \subseteq [term : 0..MaxTerm, vote : Candidates]
  BY <1>2, Zenon DEF VoteInv, VoteTypes
<1> QED
  BY <1>1, <1>2, <1>3, <1>4, SaveKeepsVotes, Zenon

LEMMA GrantKeepsVotes ==
    ASSUME VoteInv, NEW t \in 1..MaxTerm, NEW c \in Candidates, GrantVote(t, c)
    PROVE  VoteInv'
<1> DEFINE s == [term |-> t, vote |-> c]
<1>1. s \in ServerState /\ srv' = s /\ SaveState(s) /\ pc = "up" /\ pc' = "up"
  BY FilesAssumption DEF GrantVote, ServerState
<1>2. votes' = votes \cup {s} /\ forgot' = forgot
  BY Zenon DEF GrantVote
<1>3. votes' \subseteq [term : 0..MaxTerm, vote : Candidates]
  BY <1>2, FilesAssumption DEF VoteInv, VoteTypes
<1>4. ASSUME ~forgot, NEW v \in votes
      PROVE  v.term <= t /\ (v.term = t => v.vote = c)
  <2>1. Now = srv /\ srv.term \in Nat /\ v.term \in Nat /\ v.vote \in Candidates
    BY <1>1, FilesAssumption DEF Now, Running, VoteInv, VoteTypes, ServerState
  <2>2. v.term <= srv.term /\ (v.term = srv.term => v.vote = srv.vote)
    BY <1>4, <2>1, Zenon DEF VoteInv, VoteSafe
  <2>3. CASE t > srv.term
    BY <2>1, <2>2, <2>3, FilesAssumption
  <2>4. CASE t = srv.term /\ srv.vote \in {None, c}
    BY <2>1, <2>2, <2>4, FilesAssumption, Zenon
  <2> QED
    BY <2>3, <2>4, Zenon DEF GrantVote
<1>5. ASSUME ~forgot, NEW v \in votes', NEW w \in votes', v.term = w.term
      PROVE  v.vote = w.vote
  <2>1. v \in votes /\ w \in votes => v.vote = w.vote
    BY <1>5, Zenon DEF VoteInv, VoteSafe
  <2>2. s.term = t /\ s.vote = c
    BY Zenon
  <2> QED
    BY <1>2, <1>4, <1>5, <2>1, <2>2, Zenon
<1>6. ASSUME ~forgot, NEW v \in votes'
      PROVE  v.term <= s.term /\ (v.term = s.term => v.vote = s.vote)
  BY <1>2, <1>4, <1>6, FilesAssumption
<1> HIDE DEF s
<1> QED
  BY <1>1, <1>2, <1>3, <1>5, <1>6, SaveKeepsVotes, Zenon

LEMMA SaveConfigKeepsVotes ==
    ASSUME VoteInv, NEW view, SaveConfig(view)
    PROVE  VoteInv'
<1>1. /\ files' = [g \in File |-> files'[g]] /\ may' = [g \in File |-> may'[g]]
      /\ files'["state"] = files["state"] /\ may'["state"] = may["state"]
  <2>1. WriteUnsynced("config", view) /\ "config" \in File /\ VoteTypes
    BY Zenon DEF SaveConfig, VoteInv, File
  <2> QED
    BY <2>1, UnsyncedElsewhere, Zenon
<1>2. VoteTypes'
  BY <1>1, Zenon DEF SaveConfig, VoteInv, VoteTypes
<1>3. ReadState' = ReadState
  BY <1>1, Zenon DEF ReadState, Readable
<1>4. ASSUME ~forgot PROVE VoteSafe'
  BY <1>1, <1>3, <1>4, Zenon DEF VoteInv, VoteSafe, SaveConfig, Now, Running
<1> QED
  BY <1>2, <1>4, Zenon DEF VoteInv, SaveConfig

-----------------------------------------------------------------------------
(* While a snapshot is installed the file is of no account: "volatile"     *)
(* says so from the first step to the next save.                           *)
LEMMA InstallKeepsVotes ==
    ASSUME VoteInv, Running, Running', "install" \in volatile',
           UNCHANGED <<srv, votes, forgot>>, VoteTypes'
    PROVE  VoteInv'
<1>1. ASSUME ~forgot PROVE VoteSafe'
  BY <1>1, Zenon DEF VoteInv, VoteSafe, Now
<1> QED
  BY <1>1, Zenon DEF VoteInv

LEMMA InstallBeginKeepsVotes ==
    ASSUME VoteInv, InstallBegin
    PROVE  VoteInv'
<1>1. pc = "up" /\ pc' \in {"wipe", "copy"}
  BY Zenon DEF InstallBegin
<1>2. Running /\ Running'
  BY <1>1, Zenon DEF Running, Installing
<1>3. VoteTypes'
  BY Zenon DEF InstallBegin, VoteInv, VoteTypes
<1> QED
  BY <1>2, <1>3, InstallKeepsVotes, Zenon DEF InstallBegin

(* The two removals, done or failed unnoticed.                             *)
LEMMA DropEffect ==
    ASSUME DropConfig \/ DropState
    PROVE  /\ pc \in {"drop_config", "drop_state"} /\ pc' \in {"drop_state", "own_config"}
           /\ damaged' = damaged \/ damaged' = damaged \cup {"foreign_state"}
           /\ UNCHANGED <<options, preserved, known, moved, config>>
           /\ UNCHANGED <<files, may>> \/ \E f \in {"config", "state"} : Remove({f})
           /\ pc' = "own_config" => Remove({"state"}) \/ "foreign_state" \in damaged'
<1>1. CASE DropConfig
  <2>1. damaged' = damaged \/ damaged' = damaged \cup {}
    BY <1>1, Zenon DEF DropConfig, DropForeign
  <2>2. damaged' = damaged
    BY <2>1, Zenon
  <2>3. pc = "drop_config" /\ pc' = "drop_state" /\ pc' # "own_config"
    BY <1>1, Zenon DEF DropConfig, DropForeign
  <2> QED BY <1>1, <2>2, <2>3, Zenon DEF DropConfig, DropForeign
<1>2. CASE DropState
  BY <1>2, Zenon DEF DropState, DropForeign
<1> QED BY <1>1, <1>2, Zenon

(* The steps of an install after the first.                                *)
InstallStep ==
    \/ \E f \in File : Wipe(f) \/ CopyMeta(f)
    \/ OwnIdentity \/ OwnBootstrap \/ DropConfig \/ DropState \/ OwnConfig

LEMMA InstallStepFrame ==
    ASSUME InstallStep
    PROVE  /\ pc \in Installing /\ pc' \in Installing \cup {"up"}
           /\ UNCHANGED <<srv, votes, volatile, forgot>>
BY Zenon DEF InstallStep, Wipe, CopyMeta, OwnIdentity, OwnBootstrap, PutBack, DropConfig, DropState,
             DropForeign, OwnConfig, Installing

LEMMA InstallStepTypes ==
    ASSUME VoteTypes, InstallStep
    PROVE  VoteTypes'
<1>1. UNCHANGED <<srv, votes, volatile, forgot>>
  BY InstallStepFrame, Zenon
<1>2. SUFFICES /\ files' = [g \in File |-> files'[g]] /\ may' = [g \in File |-> may'[g]]
               /\ files'["state"] \in may'["state"]
               /\ may'["state"] \subseteq StateContent
  BY <1>1, Zenon DEF VoteTypes, StateContent
<1>4. ASSUME NEW f \in File, CopyMeta(f)
      PROVE  \E v : WriteUnsynced(f, v) /\ (f = "state" => v \in ServerState)
  <2>1. PICK v \in SenderMeta(f) : WriteUnsynced(f, v)
    BY <1>4, Zenon DEF CopyMeta
  <2>2. f = "state" => v \in ServerState
    <3> SUFFICES ASSUME f = "state" PROVE v \in ServerState
      BY Zenon
    <3>1. v \in [term : 1..srv.term, vote : {Sender}]
      BY <2>1, Zenon DEF SenderMeta
    <3>2. srv.term \in 0..MaxTerm
      BY Zenon DEF VoteTypes, ServerState
    <3> QED
      BY <3>1, <3>2, FilesAssumption DEF ServerState
  <2> QED
    BY <2>1, <2>2, Zenon
<1>5. CASE \E f \in File : Wipe(f)
  BY <1>5, Removed, Zenon DEF Wipe
<1>6. CASE \E f \in File : CopyMeta(f)
  <2>0. PICK f \in File : \E v : WriteUnsynced(f, v) /\ (f = "state" => v \in ServerState)
    BY <1>4, <1>6, Zenon
  <2>1. PICK v : WriteUnsynced(f, v) /\ (f = "state" => v \in ServerState)
    BY <2>0, Zenon
  <2>2. CASE f = "state"
    BY <2>1, <2>2, StateWritten, Zenon
  <2>3. CASE f # "state"
    BY <2>1, <2>3, UnsyncedElsewhere, Zenon DEF VoteTypes
  <2> QED
    BY <2>2, <2>3, Zenon
<1>7. CASE OwnIdentity \/ OwnBootstrap \/ OwnConfig
  <2>1. UNCHANGED <<files, may>> \/ \E f \in File \ {"state"} : \E v : WriteSynced(f, v)
    BY <1>7, Zenon DEF OwnIdentity, OwnBootstrap, PutBack, OwnConfig, File
  <2> QED
    BY <2>1, SyncedElsewhere, Zenon DEF VoteTypes
<1>8. CASE DropConfig \/ DropState
  BY <1>8, DropEffect, Removed, Zenon DEF VoteTypes
<1> QED
  BY <1>5, <1>6, <1>7, <1>8, Zenon DEF InstallStep

LEMMA InstallStepKeepsVotes ==
    ASSUME VoteInv, InstallStep
    PROVE  VoteInv'
<1>1. /\ Running /\ Running'
      /\ UNCHANGED <<srv, votes, volatile, forgot>>
  BY InstallStepFrame, Zenon DEF Running
<1>2. VoteTypes'
  BY InstallStepTypes, Zenon DEF VoteInv
<1>3. CASE forgot
  BY <1>1, <1>2, <1>3, Zenon DEF VoteInv
<1>4. CASE ~forgot
  <2>1. "install" \in volatile
    BY <1>4, InstallStepFrame, Zenon DEF VoteInv, VoteSafe
  <2> QED
    BY <1>1, <1>2, <2>1, InstallKeepsVotes, Zenon
<1> QED
  BY <1>3, <1>4, Zenon

LEMMA InstallFailsKeepsVotes ==
    ASSUME VoteInv, InstallFails
    PROVE  VoteInv'
<1>1. Running /\ Running' /\ pc \in Installing
  BY Zenon DEF InstallFails, Running
<1>2. VoteTypes'
  BY Zenon DEF InstallFails, VoteInv, VoteTypes
<1>3. UNCHANGED <<srv, votes, volatile, forgot>>
  BY Zenon DEF InstallFails
<1>4. CASE forgot
  BY <1>2, <1>3, <1>4, Zenon DEF VoteInv
<1>5. CASE ~forgot
  BY <1>1, <1>2, <1>3, <1>5, InstallKeepsVotes, Zenon DEF VoteInv, VoteSafe
<1> QED
  BY <1>4, <1>5, Zenon

-----------------------------------------------------------------------------
(* The process stops and what it wrote stays: the file it will read is the *)
(* state it held, unless "forgot" records that it need not be.             *)
LEMMA CrashKeepsVotes ==
    ASSUME VoteInv, Crash
    PROVE  VoteInv'
<1>1. /\ pc' = "down" /\ srv' = NewState
      /\ UNCHANGED <<files, may, votes, volatile>>
      /\ forgot' = (forgot \/ volatile \cap {"install", "failed"} # {})
  BY Zenon DEF Crash, Stop
<1>2. NewState \in ServerState
  BY FilesAssumption DEF ServerState, NewState
<1>3. VoteTypes'
  BY <1>1, <1>2, Zenon DEF VoteInv, VoteTypes
<1>4. ASSUME ~forgot' PROVE VoteSafe'
  <2>1. ~forgot /\ volatile \subseteq {"unsynced"} /\ VoteSafe
    BY <1>1, <1>4, Zenon DEF VoteInv, VoteTypes
  <2>2. Now = ReadState
    BY <2>1, Zenon DEF VoteSafe, Now
  <2>3. ReadState' = ReadState
    BY <1>1, Zenon DEF ReadState, Readable
  <2>4. ~Running' /\ pc' \notin Installing
    BY <1>1, Zenon DEF Running, Installing
  <2> QED
    BY <1>1, <2>1, <2>2, <2>3, <2>4, Zenon DEF VoteSafe, Now
<1> QED
  BY <1>3, <1>4, Zenon DEF VoteInv

LEMMA PowerLossKeepsVotes ==
    ASSUME VoteInv, PowerLoss
    PROVE  VoteInv'
<1>1. /\ pc' = "down" /\ srv' = NewState
      /\ UNCHANGED <<votes, volatile>>
      /\ forgot' = (forgot \/ volatile \cap {"install", "failed", "unsynced"} # {})
  BY Zenon DEF PowerLoss, Stop
<1>2. files'["state"] \in may["state"] /\ files' = [g \in File |-> files'[g]]
  <2>1. PICK i \in may["identity"], b \in may["bootstrap"], c \in may["config"], t \in may["state"] :
          files' = [identity |-> i, bootstrap |-> b, config |-> c, state |-> t]
    BY Zenon DEF PowerLoss
  <2> QED
    BY <2>1, Zenon DEF File
<1>3. may' = [g \in File |-> may'[g]] /\ may'["state"] = {files'["state"]}
  BY Zenon DEF PowerLoss, File
<1>4. NewState \in ServerState
  BY FilesAssumption DEF ServerState, NewState
<1>5. VoteTypes'
  BY <1>1, <1>2, <1>3, <1>4, Zenon DEF VoteInv, VoteTypes, StateContent
<1>6. ASSUME ~forgot' PROVE VoteSafe'
  <2>1. ~forgot /\ volatile = {} /\ VoteSafe
    BY <1>1, <1>6, Zenon DEF VoteInv, VoteTypes
  <2>2. Now = ReadState /\ files'["state"] = files["state"]
    BY <1>2, <2>1, Zenon DEF VoteSafe, Now
  <2>3. ReadState' = ReadState
    BY <2>2, Zenon DEF ReadState, Readable
  <2>4. ~Running' /\ pc' \notin Installing
    BY <1>1, Zenon DEF Running, Installing
  <2> QED
    BY <1>1, <1>3, <2>1, <2>2, <2>3, <2>4, Zenon DEF VoteSafe, Now
<1> QED
  BY <1>5, <1>6, Zenon DEF VoteInv

(* Every step keeps the inductive invariant.                               *)
LEMMA VoteStep ==
    ASSUME VoteInv, [Next]_vars
    PROVE  VoteInv'
<1>1. CASE UNCHANGED vars
  <2>1. VoteTypes' <=> VoteTypes
    BY <1>1, Zenon DEF VoteTypes, vars
  <2>2. VoteSafe' <=> VoteSafe
    BY <1>1 DEF VoteSafe, vars, Now, Running, ReadState, Readable
  <2> QED
    BY <1>1, <2>1, <2>2, Zenon DEF VoteInv, vars
<1>2. CASE \E built \in Options : Initialize(built)
  BY <1>2, InitializeKeepsVotes, Zenon
<1>3. CASE PersistIdentity \/ PersistBootstrap
  BY <1>3, PersistKeepsVotes, Zenon
<1>4. CASE Launch
  BY <1>4, LaunchKeepsVotes, Zenon
<1>5. CASE \E t \in 1..MaxTerm : NewTerm(t) \/ \E c \in Candidates : GrantVote(t, c)
  BY <1>5, NewTermKeepsVotes, GrantKeepsVotes, Zenon
<1>6. CASE \E o \in Options : SaveConfig(Members(o))
  BY <1>6, SaveConfigKeepsVotes, Zenon
<1>7. CASE InstallBegin
  BY <1>7, InstallBeginKeepsVotes, Zenon
<1>8. CASE InstallStep
  BY <1>8, InstallStepKeepsVotes, Zenon
<1>9. CASE InstallFails
  BY <1>9, InstallFailsKeepsVotes, Zenon
<1>10. CASE Crash
  BY <1>10, CrashKeepsVotes, Zenon
<1>11. CASE PowerLoss
  BY <1>11, PowerLossKeepsVotes, Zenon
<1> QED
  BY <1>1, <1>2, <1>3, <1>4, <1>5, <1>6, <1>7, <1>8, <1>9, <1>10, <1>11, Zenon DEF Next, InstallStep

(* A node votes for one server per term across any number of restarts and  *)
(* snapshot installs, unless a restart came while srv_state.bin was        *)
(* missing, behind the memory, or not yet on disk.                         *)
THEOREM OneVote == Spec => []OneVoteUnlessForgotten
<1>1. VoteInv => OneVoteUnlessForgotten
  BY Zenon DEF VoteInv, VoteSafe, OneVoteUnlessForgotten
<1> QED
  BY <1>1, VoteInit, VoteStep, PTL DEF Spec

-----------------------------------------------------------------------------
(* Who the node is.  As long as nothing cut the rewriting of the directory *)
(* short, identity and bootstrap are those of the last accepted start, and *)
(* certain to survive, except between the steps that rewrite them; and an  *)
(* install has kept them aside by then.                                    *)

Own(f, v) == files[f] = v /\ may[f] = {v}

Named ==
    IF known = None THEN Own("identity", None) /\ Own("bootstrap", None)
    ELSE Own("identity", known.self) /\ Own("bootstrap", known)

Rewriting == {"bootstrap", "wipe", "copy", "own_identity", "own_bootstrap"}

IdTypes ==
    /\ files = [f \in File |-> files[f]]
    /\ may = [f \in File |-> may[f]]
    /\ pc \in {"down", "refused", "up"} \cup Starting \cup Installing
    /\ options \in Options
    /\ known \in Options \cup {None}

IdSafe ==
    /\ pc \notin Rewriting => Named
    /\ pc \in {"launch", "up"} \cup Installing => known = options
    /\ pc \in Installing => preserved = [identity |-> options.self, bootstrap |-> options]
    /\ pc \in {"bootstrap", "own_bootstrap"} => Own("identity", options.self)
    /\ pc \in {"identity", "bootstrap"} /\ known # None /\ known.self # options.self
          => known.peers = {} /\ options.peers = {}
    /\ pc = "refused" /\ known # None => options.self # known.self
    /\ pc = "own_config" => files["state"] = None \/ "foreign_state" \in damaged

IdInv == IdTypes /\ (IdentityAtStake = {} => IdSafe)

(* Options are records that are neither None nor Empty.                    *)
LEMMA OptionFacts ==
    ASSUME NEW o \in Options
    PROVE  o # None /\ o # Empty /\ o.self # None /\ o.self # Empty
BY FilesAssumption, Zenon

(* A synced write establishes its own file and keeps what was certain.     *)
LEMMA SyncedOwn ==
    ASSUME IdTypes, NEW f \in File, NEW v, WriteSynced(f, v)
    PROVE  /\ files' = [g \in File |-> files'[g]]
           /\ may' = [g \in File |-> may'[g]]
           /\ Own(f, v)'
           /\ \A g \in File \ {f} : /\ files'[g] = files[g]
                                    /\ \A w : Own(g, w) => Own(g, w)'
                                    /\ files[g] = None => Own(g, None)'
<1>1. files' = [files EXCEPT ![f] = v] /\ files = [g \in File |-> files[g]]
  BY Zenon DEF WriteSynced, IdTypes
<1>2. \A g \in File : files'[g] = IF g = f THEN v ELSE files[g]
  BY <1>1, Zenon
<1>3. \A g \in File : may'[g] = IF g = f THEN {v}
                                ELSE IF files[g] = None \/ may[g] = {files[g]} THEN {files[g]}
                                ELSE {files[g], Empty}
  BY Zenon DEF WriteSynced
<1>4. files' = [g \in File |-> files'[g]] /\ may' = [g \in File |-> may'[g]]
  BY <1>1, Zenon DEF WriteSynced
<1> QED
  BY <1>2, <1>3, <1>4, Zenon DEF Own

LEMMA IdInit == Init => IdInv
BY Zenon DEF Init, IdInv, IdTypes, IdSafe, Missing, File, Named, Own, Installing, Starting

LEMMA IdInitialize ==
    ASSUME IdInv, NEW built \in Options, Initialize(built)
    PROVE  IdInv'
<1>1. /\ pc \in {"down", "refused"} /\ pc' \in {"identity", "refused", "launch"}
      /\ options' = built /\ known' \in {known, built}
      /\ UNCHANGED <<files, may, preserved, damaged>>
  BY Zenon DEF Initialize, Accepted
<1>2. IdTypes'
  BY <1>1, Zenon DEF IdInv, IdTypes, Starting
<1>3. pc' \notin Rewriting /\ pc' \notin Installing
  BY <1>1, Zenon DEF Rewriting, Installing
<1>4. ASSUME IdentityAtStake' = {} PROVE IdSafe'
  <2>1. IdSafe /\ Named
    BY <1>1, <1>4, Zenon DEF IdInv, IdentityAtStake, IdSafe, Rewriting
  <2>2. CASE known = None
    <3>1. pc' = "identity" /\ known' = known
      BY <2>1, <2>2, <1>1, Zenon DEF Initialize, Named, Own
    <3> QED
      BY <1>1, <1>3, <2>1, <2>2, <3>1, Zenon DEF IdSafe, Named, Own
  <2>3. CASE known # None
    <3>1. known \in Options /\ files["identity"] = known.self /\ files["bootstrap"] = known
      BY <2>1, <2>3, Zenon DEF Named, Own, IdInv, IdTypes
    <3>2. files["identity"] # None /\ files["bootstrap"] # None /\ Readable("identity") /\ Readable("bootstrap")
      BY <3>1, OptionFacts, Zenon DEF Readable
    <3>3. SelfChanged(built) <=> known.self # built.self
      BY <3>1, Zenon DEF SelfChanged
    <3>4. AllowSelfRewrite(built) <=> known.self # built.self /\ known.peers = {} /\ built.peers = {}
      BY <3>1, <3>3, Zenon DEF AllowSelfRewrite
    <3>5. CASE pc' = "refused"
      <4>1. ~Accepts(built) /\ known' = known
        BY <3>2, <3>5, Zenon DEF Initialize
      <4> QED
        BY <1>1, <1>3, <2>1, <3>2, <3>3, <3>5, <4>1, Zenon DEF Accepts, IdSafe, Named, Own
    <3>6. CASE pc' = "identity"
      <4>1. Accepts(built) /\ known' = known
        BY <3>2, <3>6, Zenon DEF Initialize
      <4> QED
        BY <1>1, <1>3, <2>1, <3>3, <3>4, <3>6, <4>1, Zenon DEF Accepts, IdSafe, Named, Own
    <3>7. CASE pc' = "launch"
      <4>1. known' = built /\ files["bootstrap"] = built
        BY <3>2, <3>7, Zenon DEF Initialize, Accepted
      <4>2. known' = known
        BY <3>1, <4>1, Zenon
      <4> QED
        BY <1>1, <1>3, <2>1, <3>7, <4>1, <4>2, Zenon DEF IdSafe, Named, Own
    <3> QED
      BY <1>1, <3>5, <3>6, <3>7, Zenon
  <2> QED
    BY <2>2, <2>3, Zenon
<1> QED
  BY <1>2, <1>4, Zenon DEF IdInv

LEMMA IdPersistIdentity ==
    ASSUME IdInv, PersistIdentity
    PROVE  IdInv'
<1>1. /\ pc = "identity" /\ pc' = "bootstrap" /\ WriteSynced("identity", options.self)
      /\ UNCHANGED <<options, preserved, known, damaged>>
  BY Zenon DEF PersistIdentity
<1>2. /\ files' = [g \in File |-> files'[g]] /\ may' = [g \in File |-> may'[g]]
      /\ Own("identity", options.self)'
  <2>1. "identity" \in File /\ IdTypes
    BY Zenon DEF File, IdInv
  <2> QED
    BY <1>1, <2>1, SyncedOwn, Zenon DEF Own
<1>3. IdTypes'
  BY <1>1, <1>2, Zenon DEF IdInv, IdTypes, Starting
<1>4. ASSUME IdentityAtStake' = {} PROVE IdSafe'
  BY <1>1, <1>2, <1>4, Zenon DEF IdInv, IdentityAtStake, IdSafe, Rewriting, Installing, Own
<1> QED
  BY <1>3, <1>4, Zenon DEF IdInv

LEMMA IdPersistBootstrap ==
    ASSUME IdInv, PersistBootstrap
    PROVE  IdInv'
<1>1. /\ pc = "bootstrap" /\ pc' = "launch" /\ WriteSynced("bootstrap", options)
      /\ known' = options /\ UNCHANGED <<options, preserved, damaged>>
  BY Zenon DEF PersistBootstrap, Accepted
<1>2. /\ files' = [g \in File |-> files'[g]] /\ may' = [g \in File |-> may'[g]]
      /\ Own("bootstrap", options)'
      /\ Own("identity", options.self) => files'["identity"] = options.self /\ may'["identity"] = {options.self}
  <2>1. "bootstrap" \in File /\ "identity" \in File \ {"bootstrap"} /\ IdTypes
    BY Zenon DEF File, IdInv
  <2> QED
    BY <1>1, <2>1, SyncedOwn, Zenon DEF Own
<1>3. IdTypes'
  BY <1>1, <1>2, Zenon DEF IdInv, IdTypes, Starting
<1>4. ASSUME IdentityAtStake' = {} PROVE IdSafe'
  <2>1. Own("identity", options.self)
    BY <1>1, <1>4, Zenon DEF IdInv, IdentityAtStake, IdSafe
  <2>2. options # None
    BY OptionFacts, Zenon DEF IdInv, IdTypes
  <2> QED
    BY <1>1, <1>2, <2>1, <2>2, Zenon DEF IdSafe, Named, Own, Installing
<1> QED
  BY <1>3, <1>4, Zenon DEF IdInv

(* Steps of a running node that touch neither file.                        *)
LEMMA IdQuiet ==
    ASSUME IdInv, pc \in {"launch", "up"}, pc' = "up",
           UNCHANGED <<options, preserved, known, damaged>>,
           files' = [g \in File |-> files'[g]], may' = [g \in File |-> may'[g]],
           files'["identity"] = files["identity"], may'["identity"] = may["identity"],
           files'["bootstrap"] = files["bootstrap"], may'["bootstrap"] = may["bootstrap"]
    PROVE  IdInv'
<1>1. IdTypes'
  BY Zenon DEF IdInv, IdTypes
<1>2. ASSUME IdentityAtStake' = {} PROVE IdSafe'
  BY <1>2, Zenon DEF IdInv, IdentityAtStake, IdSafe, Rewriting, Installing, Named, Own
<1> QED
  BY <1>1, <1>2, Zenon DEF IdInv

LEMMA UnsyncedFrame ==
    ASSUME IdTypes, NEW f \in File, NEW v, WriteUnsynced(f, v)
    PROVE  /\ files' = [g \in File |-> files'[g]] /\ may' = [g \in File |-> may'[g]]
           /\ \A g \in File \ {f} : files'[g] = files[g] /\ may'[g] = may[g]
BY Zenon DEF WriteUnsynced, IdTypes

LEMMA IdRunning ==
    ASSUME IdInv,
           \/ Launch
           \/ \E t \in 1..MaxTerm : NewTerm(t) \/ \E c \in Candidates : GrantVote(t, c)
           \/ \E o \in Options : SaveConfig(Members(o))
    PROVE  IdInv'
<1>1. /\ pc \in {"launch", "up"} /\ pc' = "up"
      /\ UNCHANGED <<options, preserved, known, damaged>>
  BY Zenon DEF Launch, NewTerm, GrantVote, SaveConfig
<1>2. UNCHANGED <<files, may>> \/ \E f \in {"config", "state"} : \E v : WriteUnsynced(f, v)
  BY Zenon DEF Launch, NewTerm, GrantVote, SaveConfig, SaveState
<1>3. CASE UNCHANGED <<files, may>>
  BY <1>1, <1>3, IdQuiet, Zenon DEF IdInv, IdTypes
<1>4. CASE \E f \in {"config", "state"} : \E v : WriteUnsynced(f, v)
  <2>0. PICK f \in {"config", "state"} : \E v : WriteUnsynced(f, v)
    BY <1>4, Zenon
  <2>1. PICK v : WriteUnsynced(f, v)
    BY <2>0, Zenon
  <2>2. f \in File /\ {"identity", "bootstrap"} \subseteq File \ {f} /\ IdTypes
    BY Zenon DEF File, IdInv
  <2>3. /\ files' = [g \in File |-> files'[g]] /\ may' = [g \in File |-> may'[g]]
        /\ \A g \in File \ {f} : files'[g] = files[g] /\ may'[g] = may[g]
    BY <2>1, <2>2, UnsyncedFrame, Zenon
  <2> QED
    BY <1>1, <2>2, <2>3, IdQuiet, Zenon
<1> QED
  BY <1>2, <1>3, <1>4, Zenon

LEMMA IdInstallBegin ==
    ASSUME IdInv, InstallBegin
    PROVE  IdInv'
<1>1. /\ pc = "up" /\ pc' \in {"wipe", "copy"}
      /\ preserved' = [identity |-> files["identity"], bootstrap |-> files["bootstrap"]]
      /\ UNCHANGED <<files, may, options, known, damaged>>
  BY Zenon DEF InstallBegin
<1>2. IdTypes'
  BY <1>1, Zenon DEF IdInv, IdTypes, Installing
<1>3. ASSUME IdentityAtStake' = {} PROVE IdSafe'
  <2>1. Named /\ known = options
    BY <1>1, <1>3, Zenon DEF IdInv, IdentityAtStake, IdSafe, Rewriting
  <2>2. files["identity"] = options.self /\ files["bootstrap"] = options
    BY <2>1, OptionFacts, Zenon DEF Named, Own, IdInv, IdTypes
  <2> QED
    BY <1>1, <2>1, <2>2, Zenon DEF IdSafe, Rewriting, Installing
<1> QED
  BY <1>2, <1>3, Zenon DEF IdInv

(* Removing and copying the directory: nothing is known of the files until *)
(* the node's own are put back.                                            *)
LEMMA IdReplace ==
    ASSUME IdInv, NEW f \in File, Wipe(f) \/ CopyMeta(f)
    PROVE  IdInv'
<1>1. /\ pc \in {"wipe", "copy"} /\ pc' \in {"wipe", "copy", "own_identity"}
      /\ UNCHANGED <<options, preserved, known, damaged>>
  BY Zenon DEF Wipe, CopyMeta
<1>2. files' = [g \in File |-> files'[g]] /\ may' = [g \in File |-> may'[g]]
  <2>1. CASE Wipe(f)
    BY <2>1, Zenon DEF Wipe, Remove
  <2>2. CASE CopyMeta(f)
    <3>1. PICK v : WriteUnsynced(f, v)
      BY <2>2, Zenon DEF CopyMeta
    <3> QED
      BY <3>1, UnsyncedFrame, Zenon DEF IdInv
  <2> QED
    BY <2>1, <2>2, Zenon
<1>3. IdTypes'
  BY <1>1, <1>2, Zenon DEF IdInv, IdTypes, Installing
<1>4. ASSUME IdentityAtStake' = {} PROVE IdSafe'
  <2>1. IdSafe
    BY <1>1, <1>4, Zenon DEF IdInv, IdentityAtStake
  <2> QED
    BY <1>1, <2>1, Zenon DEF IdSafe, Rewriting, Installing
<1> QED
  BY <1>3, <1>4, Zenon DEF IdInv

LEMMA IdOwnIdentity ==
    ASSUME IdInv, OwnIdentity
    PROVE  IdInv'
<1>1. /\ pc = "own_identity" /\ pc' = "own_bootstrap"
      /\ \/ preserved["identity"] = None /\ UNCHANGED <<files, may>>
         \/ preserved["identity"] # None /\ WriteSynced("identity", preserved["identity"])
      /\ UNCHANGED <<options, preserved, known, damaged>>
  BY Zenon DEF OwnIdentity, PutBack
<1>2. "identity" \in File /\ IdTypes
  BY Zenon DEF File, IdInv
<1>3. files' = [g \in File |-> files'[g]] /\ may' = [g \in File |-> may'[g]]
  BY <1>1, <1>2, SyncedOwn, Zenon DEF IdTypes
<1>4. IdTypes'
  BY <1>1, <1>3, Zenon DEF IdInv, IdTypes, Installing
<1>5. ASSUME IdentityAtStake' = {} PROVE IdSafe'
  <2>1. IdSafe
    BY <1>1, <1>5, Zenon DEF IdInv, IdentityAtStake
  <2>2. preserved["identity"] = options.self /\ options.self # None
    BY <1>1, <1>2, <2>1, OptionFacts DEF IdSafe, Installing, IdTypes
  <2>3. files'["identity"] = options.self /\ may'["identity"] = {options.self}
    BY <1>1, <1>2, <2>2, SyncedOwn, Zenon DEF Own
  <2> QED
    BY <1>1, <2>1, <2>3, Zenon DEF IdSafe, Rewriting, Installing, Own
<1> QED
  BY <1>4, <1>5, Zenon DEF IdInv

LEMMA IdOwnBootstrap ==
    ASSUME IdInv, OwnBootstrap
    PROVE  IdInv'
<1>1. /\ pc = "own_bootstrap" /\ pc' = "drop_config"
      /\ \/ preserved["bootstrap"] = None /\ UNCHANGED <<files, may>>
         \/ preserved["bootstrap"] # None /\ WriteSynced("bootstrap", preserved["bootstrap"])
      /\ UNCHANGED <<options, preserved, known, damaged>>
  BY Zenon DEF OwnBootstrap, PutBack
<1>2. "bootstrap" \in File /\ "identity" \in File \ {"bootstrap"} /\ IdTypes
  BY Zenon DEF File, IdInv
<1>3. files' = [g \in File |-> files'[g]] /\ may' = [g \in File |-> may'[g]]
  BY <1>1, <1>2, SyncedOwn, Zenon DEF IdTypes
<1>4. IdTypes'
  BY <1>1, <1>3, Zenon DEF IdInv, IdTypes, Installing
<1>5. ASSUME IdentityAtStake' = {} PROVE IdSafe'
  <2>1. IdSafe
    BY <1>1, <1>5, Zenon DEF IdInv, IdentityAtStake
  <2>2. /\ preserved["bootstrap"] = options /\ options # None /\ known = options
        /\ Own("identity", options.self)
    BY <1>1, <1>2, <2>1, OptionFacts DEF IdSafe, Installing, IdTypes
  <2>3. /\ files'["bootstrap"] = options /\ may'["bootstrap"] = {options}
        /\ files'["identity"] = options.self /\ may'["identity"] = {options.self}
    BY <1>1, <1>2, <2>2, SyncedOwn DEF Own
  <2> QED
    BY <1>1, <2>1, <2>2, <2>3, Zenon DEF IdSafe, Rewriting, Installing, Own, Named
<1> QED
  BY <1>4, <1>5, Zenon DEF IdInv

LEMMA IdDrop ==
    ASSUME IdInv, DropConfig \/ DropState
    PROVE  IdInv'
<1>1. /\ pc \in {"drop_config", "drop_state"} /\ pc' \in {"drop_state", "own_config"}
      /\ damaged' = damaged \/ damaged' = damaged \cup {"foreign_state"}
      /\ UNCHANGED <<options, preserved, known>>
      /\ UNCHANGED <<files, may>> \/ \E f \in {"config", "state"} : Remove({f})
      /\ pc' = "own_config" => Remove({"state"}) \/ "foreign_state" \in damaged'
  BY DropEffect, Zenon
<1>2. /\ files' = [g \in File |-> files'[g]] /\ may' = [g \in File |-> may'[g]]
      /\ files'["identity"] = files["identity"] /\ may'["identity"] = may["identity"]
      /\ files'["bootstrap"] = files["bootstrap"] /\ may'["bootstrap"] = may["bootstrap"]
  BY <1>1, Zenon DEF Remove, File, IdInv, IdTypes
<1>3. pc' = "own_config" => files'["state"] = None \/ "foreign_state" \in damaged'
  BY <1>1, Zenon DEF Remove, File
<1>4. IdTypes'
  BY <1>1, <1>2, Zenon DEF IdInv, IdTypes, Installing
<1>5. ASSUME IdentityAtStake' = {} PROVE IdSafe'
  <2>1. IdentityAtStake = {}
    BY <1>1, <1>5, Zenon DEF IdentityAtStake
  <2>2. IdSafe
    BY <2>1, Zenon DEF IdInv
  <2> QED
    BY <1>1, <1>2, <1>3, <2>2, Zenon DEF IdSafe, Rewriting, Installing, Own, Named
<1> QED
  BY <1>4, <1>5, Zenon DEF IdInv

(* The last step of an install; its effect is also what the action         *)
(* property below states.                                                  *)
LEMMA OwnConfigEffect ==
    ASSUME IdInv, OwnConfig, IdentityAtStake = {}
    PROVE  /\ files' = [g \in File |-> files'[g]] /\ may' = [g \in File |-> may'[g]]
           /\ known = options
           /\ files'["identity"] = options.self /\ may'["identity"] = {options.self}
           /\ files'["bootstrap"] = options /\ may'["bootstrap"] = {options}
           /\ files'["config"] = Members(options) /\ may'["config"] = {Members(options)}
           /\ may'["state"] = {None} \/ "foreign_state" \in damaged
<1>1. IdSafe /\ IdTypes /\ pc = "own_config"
  BY Zenon DEF IdInv, OwnConfig
<1>2. /\ preserved.identity = options.self /\ preserved.bootstrap = options
      /\ known = options /\ Named /\ options \in Options
      /\ files["state"] = None \/ "foreign_state" \in damaged
  BY <1>1 DEF IdSafe, IdTypes, Installing, Rewriting
<1>3. WriteSynced("config", Members(options))
  BY <1>2, OptionFacts, Zenon DEF OwnConfig, Members
<1>4. Own("identity", options.self) /\ Own("bootstrap", options)
  BY <1>2, OptionFacts, Zenon DEF Named
<1>5. "config" \in File /\ {"identity", "bootstrap", "state"} \subseteq File \ {"config"}
  BY Zenon DEF File
<1> QED
  BY <1>1, <1>2, <1>3, <1>4, <1>5, SyncedOwn DEF Own

LEMMA IdOwnConfig ==
    ASSUME IdInv, OwnConfig
    PROVE  IdInv'
<1>1. /\ pc = "own_config" /\ pc' = "up"
      /\ UNCHANGED <<options, preserved, known, damaged>>
      /\ UNCHANGED <<files, may>> \/ \E v : WriteSynced("config", v)
  BY Zenon DEF OwnConfig
<1>2. files' = [g \in File |-> files'[g]] /\ may' = [g \in File |-> may'[g]]
  <2>1. "config" \in File /\ IdTypes
    BY Zenon DEF File, IdInv
  <2> QED
    BY <1>1, <2>1, SyncedOwn, Zenon DEF IdTypes
<1>3. IdTypes'
  BY <1>1, <1>2, Zenon DEF IdInv, IdTypes
<1>4. ASSUME IdentityAtStake' = {} PROVE IdSafe'
  <2>1. IdentityAtStake = {}
    BY <1>1, <1>4, Zenon DEF IdentityAtStake
  <2>2. options # None
    BY OptionFacts, Zenon DEF IdInv, IdTypes
  <2> QED
    BY <1>1, <2>1, <2>2, OwnConfigEffect, Zenon DEF IdSafe, Installing, Named, Own
<1> QED
  BY <1>3, <1>4, Zenon DEF IdInv

LEMMA IdInstallFails ==
    ASSUME IdInv, InstallFails
    PROVE  IdInv'
<1>1. /\ pc \in Installing \ {"drop_config", "drop_state"} /\ pc' = "up"
      /\ damaged \cup {pc} \subseteq damaged'
      /\ UNCHANGED <<files, may, options, preserved, known>>
  BY Zenon DEF InstallFails
<1>2. IdTypes'
  BY <1>1, Zenon DEF IdInv, IdTypes
<1>3. ASSUME IdentityAtStake' = {} PROVE IdSafe'
  <2>1. IdentityAtStake = {} /\ pc = "own_config"
    BY <1>1, <1>3, Zenon DEF IdentityAtStake, Installing
  <2> QED
    BY <1>1, <2>1, Zenon DEF IdInv, IdSafe, Rewriting, Installing, Named, Own
<1> QED
  BY <1>2, <1>3, Zenon DEF IdInv

(* A stop outside the steps that rewrite the two files leaves them as they *)
(* are, with or without power.                                             *)
LEMMA IdStop ==
    ASSUME IdInv, Crash \/ PowerLoss
    PROVE  IdInv'
<1>1. /\ pc' = "down" /\ pc \notin {"down", "refused"}
      /\ damaged' = damaged \cup ({pc} \cap (Installing \cup {"bootstrap"}))
      /\ UNCHANGED <<options, known>>
  BY Zenon DEF Crash, PowerLoss, Stop
<1>2. /\ files' = [g \in File |-> files'[g]] /\ may' = [g \in File |-> may'[g]]
      /\ \A f \in {"identity", "bootstrap"} : \A v : Own(f, v) => files'[f] = v /\ may'[f] = {v}
  <2>1. CASE Crash
    BY <2>1, Zenon DEF Crash, Own, IdInv, IdTypes
  <2>2. CASE PowerLoss
    <3>1. PICK i \in may["identity"], b \in may["bootstrap"], c \in may["config"], t \in may["state"] :
            files' = [identity |-> i, bootstrap |-> b, config |-> c, state |-> t]
      BY <2>2, Zenon DEF PowerLoss
    <3>2. may' = [f \in File |-> {files'[f]}]
      BY <2>2, Zenon DEF PowerLoss
    <3> QED
      BY <3>1, <3>2 DEF File, Own
  <2> QED
    BY <2>1, <2>2, Zenon
<1>3. IdTypes'
  BY <1>1, <1>2, Zenon DEF IdInv, IdTypes
<1>4. ASSUME IdentityAtStake' = {} PROVE IdSafe'
  <2>1. IdentityAtStake = {} /\ pc \notin Rewriting
    BY <1>1, <1>4, Zenon DEF IdentityAtStake, Rewriting, Installing
  <2>2. Named
    BY <2>1, Zenon DEF IdInv, IdSafe
  <2>3. Named'
    BY <1>1, <1>2, <2>2, Zenon DEF Named, Own
  <2> QED
    BY <1>1, <2>3, Zenon DEF IdSafe, Rewriting, Installing
<1> QED
  BY <1>3, <1>4, Zenon DEF IdInv

LEMMA IdStep ==
    ASSUME IdInv, [Next]_vars
    PROVE  IdInv'
<1>1. CASE UNCHANGED vars
  <2>1. UNCHANGED <<files, may, pc, options, preserved, known, damaged>>
    BY <1>1, Zenon DEF vars
  <2> QED
    BY <2>1 DEF IdInv, IdTypes, IdSafe, Named, Own, IdentityAtStake
<1>2. CASE \E built \in Options : Initialize(built)
  BY <1>2, IdInitialize, Zenon
<1>3. CASE PersistIdentity \/ PersistBootstrap
  BY <1>3, IdPersistIdentity, IdPersistBootstrap, Zenon
<1>4. CASE \/ Launch
           \/ \E t \in 1..MaxTerm : NewTerm(t) \/ \E c \in Candidates : GrantVote(t, c)
           \/ \E o \in Options : SaveConfig(Members(o))
  BY <1>4, IdRunning, Zenon
<1>5. CASE InstallBegin
  BY <1>5, IdInstallBegin, Zenon
<1>6. CASE \E f \in File : Wipe(f) \/ CopyMeta(f)
  BY <1>6, IdReplace, Zenon
<1>7. CASE OwnIdentity \/ OwnBootstrap \/ DropConfig \/ DropState \/ OwnConfig
  BY <1>7, IdOwnIdentity, IdOwnBootstrap, IdDrop, IdOwnConfig, Zenon
<1>8. CASE InstallFails
  BY <1>8, IdInstallFails, Zenon
<1>9. CASE Crash \/ PowerLoss
  BY <1>9, IdStop, Zenon
<1> QED
  BY <1>1, <1>2, <1>3, <1>4, <1>5, <1>6, <1>7, <1>8, <1>9, Zenon DEF Next

(* A node can always be started again under its own address, unless an     *)
(* install or a move was cut short while its two files were being written. *)
THEOREM StartsAgain == Spec => []RefusedOnlyWhenDamaged
<1>1. IdInv => RefusedOnlyWhenDamaged
  BY Zenon DEF IdInv, IdSafe, RefusedOnlyWhenDamaged
<1> QED
  BY <1>1, IdInit, IdStep, PTL DEF Spec

(* An address changes only from single node to single node.                *)
THEOREM Moves == Spec => MovesOnlyAlone
<1> DEFINE A == known # None /\ known' # known /\ known'.self # known.self
                  => (known.peers = {} /\ known'.peers = {}) \/ IdentityAtStake # {}
<1>1. ASSUME IdInv, [Next]_vars PROVE [A]_vars
  <2> SUFFICES ASSUME Next, known # None, known' # known, known'.self # known.self, IdentityAtStake = {}
               PROVE  known.peers = {} /\ known'.peers = {}
    BY <1>1, Zenon
  <2>1. IdSafe
    BY <1>1, Zenon DEF IdInv
  <2>2. (\E built \in Options : Initialize(built)) \/ PersistBootstrap
    BY Zenon DEF Next, PersistIdentity, Launch, NewTerm, GrantVote, SaveConfig, InstallBegin, Wipe, CopyMeta,
           OwnIdentity, OwnBootstrap, PutBack, DropConfig, DropState, DropForeign, OwnConfig, InstallFails,
           Crash, PowerLoss, Stop
  <2>3. CASE \E built \in Options : Initialize(built)
    <3>1. PICK built \in Options : Initialize(built)
      BY <2>3, Zenon
    <3>2. known' = built /\ files["bootstrap"] = built /\ pc \in {"down", "refused"}
      BY <3>1, Zenon DEF Initialize, Accepted
    <3>3. files["bootstrap"] = known
      BY <2>1, <3>2, Zenon DEF IdSafe, Named, Own, Rewriting
    <3> QED
      BY <3>2, <3>3, Zenon
  <2>4. CASE PersistBootstrap
    BY <2>1, <2>4, Zenon DEF PersistBootstrap, Accepted, IdSafe
  <2> QED
    BY <2>2, <2>3, <2>4, Zenon
<1> QED
  BY <1>1, IdInit, IdStep, PTL DEF Spec, MovesOnlyAlone

(* An install that comes to its end leaves the node its own files, and of  *)
(* the sender's at most the state whose removal failed unnoticed.          *)
THEOREM InstallKeeps == Spec => InstallKeepsIdentity
<1> DEFINE A == OwnConfig /\ IdentityAtStake = {}
                  => /\ files'["identity"] = options.self
                     /\ files'["bootstrap"] = options
                     /\ files'["config"] = Members(options)
                     /\ \A f \in {"identity", "bootstrap", "config"} : may'[f] = {files'[f]}
                     /\ may'["state"] = {None} \/ "foreign_state" \in damaged
<1>1. IdInv => A
  BY OwnConfigEffect, Zenon
<1>2. IdInv /\ [Next]_vars => IdInv'
  BY IdStep, Zenon
<1> QED
  BY <1>1, <1>2, IdInit, PTL DEF Spec, InstallKeepsIdentity
-----------------------------------------------------------------------------
(* Whom the node belongs to.  Every configuration that the file holds, or  *)
(* may hold after a power loss, has the node as a member.  An install      *)
(* rebuilds it from the two files it finds, so these have to fit: the      *)
(* node's own bootstrap file never stands beside a foreign identity or     *)
(* none, unless the directory was torn.                                    *)

SenderBootstrap == [self |-> Sender, peers |-> Members(options) \ {Sender}]

Fit(i, b) ==
    /\ i \in {None, options.self, Sender}
    /\ b \in {None, options, SenderBootstrap}
    /\ options.self # Sender /\ b = options => i = options.self

Belongs(c) == c \in {None, Empty} \/ (known # None /\ known.self \in c)

MemTypes ==
    /\ IdTypes
    /\ moved \in BOOLEAN
    /\ files["config"] \in may["config"]

MemSafe ==
    /\ \A c \in may["config"] : Belongs(c)
    /\ pc \in {"launch", "up"} \cup Installing => known = options
    /\ pc \in {"up"} \cup Installing => options.self \in config
    /\ pc = "bootstrap" => files["identity"] = options.self
    /\ pc \in {"launch", "up"} => Fit(files["identity"], files["bootstrap"])
    /\ pc \in Installing => Fit(preserved.identity, preserved.bootstrap)
    /\ pc \in {"copy", "own_identity"} =>
           files["identity"] \in {None, Sender} /\ files["bootstrap"] \in {None, SenderBootstrap}
    /\ pc = "own_bootstrap" =>
           /\ files["bootstrap"] \in {None, SenderBootstrap}
           /\ files["identity"] \in {None, options.self, Sender}
           /\ preserved.identity # None => files["identity"] = preserved.identity
    /\ pc \in {"drop_config", "drop_state", "own_config"} => Fit(files["identity"], files["bootstrap"])

MemInv == MemTypes /\ (~moved /\ "torn" \notin damaged => MemSafe)

(* What the file operations do to cluster_config.bin: a write of another   *)
(* file can at most lose what was not synced.                              *)
LEMMA ConfigElsewhere ==
    ASSUME MemTypes, NEW f \in File \ {"config"}, NEW v, WriteSynced(f, v) \/ WriteUnsynced(f, v)
    PROVE  /\ files'["config"] \in may'["config"]
           /\ may'["config"] \subseteq may["config"] \cup {None, Empty}
<1>1. "config" \in File /\ files = [g \in File |-> files[g]] /\ may = [g \in File |-> may[g]]
      /\ files["config"] \in may["config"]
  BY Zenon DEF File, MemTypes, IdTypes
<1>2. CASE WriteSynced(f, v)
  <2>1. files'["config"] = files["config"]
    BY <1>1, <1>2, Zenon DEF WriteSynced
  <2>2. may'["config"] \in {{files["config"]}, {files["config"], Empty}}
    BY <1>1, <1>2, Zenon DEF WriteSynced
  <2> QED BY <1>1, <2>1, <2>2, Zenon
<1>3. CASE WriteUnsynced(f, v)
  BY <1>1, <1>3, Zenon DEF WriteUnsynced
<1> QED BY <1>2, <1>3, Zenon

LEMMA ConfigWritten ==
    ASSUME MemTypes, NEW v, WriteSynced("config", v) \/ WriteUnsynced("config", v)
    PROVE  /\ files'["config"] \in may'["config"]
           /\ may'["config"] \subseteq may["config"] \cup {None, Empty, v}
<1>1. "config" \in File /\ files = [g \in File |-> files[g]] /\ may = [g \in File |-> may[g]]
  BY Zenon DEF File, MemTypes, IdTypes
<1>2. CASE WriteSynced("config", v)
  BY <1>1, <1>2, Zenon DEF WriteSynced
<1>3. CASE WriteUnsynced("config", v)
  BY <1>1, <1>3, Zenon DEF WriteUnsynced
<1> QED BY <1>2, <1>3, Zenon

LEMMA ConfigRemoved ==
    ASSUME MemTypes, NEW fs, Remove(fs)
    PROVE  /\ files'["config"] \in may'["config"]
           /\ may'["config"] \subseteq may["config"] \cup {None, Empty}
<1>1. "config" \in File /\ files["config"] \in may["config"]
  BY Zenon DEF File, MemTypes
<1> QED BY <1>1, Zenon DEF Remove

(* A write of one file leaves the content of the others to a reader.       *)
LEMMA WriteReads ==
    ASSUME IdTypes, NEW f \in File, NEW v, WriteSynced(f, v) \/ WriteUnsynced(f, v)
    PROVE  \A g \in File : files'[g] = IF g = f THEN v ELSE files[g]
BY Zenon DEF WriteSynced, WriteUnsynced, IdTypes

(* The configurations that may be found have the node as a member, if the  *)
(* new one has it and the node keeps its address.                          *)
LEMMA KeepsBelonging ==
    ASSUME \A c \in may["config"] : Belongs(c), NEW w,
           may'["config"] \subseteq may["config"] \cup {None, Empty, w},
           w \in {None, Empty} \/ (known' # None /\ known'.self \in w),
           \/ known' = known
           \/ known' # None /\ (known = None \/ known'.self = known.self)
    PROVE  \A c \in may'["config"] : Belongs(c)'
BY Zenon DEF Belongs

(* A foreign bootstrap file is not the node's own.                         *)
LEMMA ForeignFits ==
    ASSUME options \in Options, NEW i \in {None, options.self, Sender},
           NEW b \in {None, SenderBootstrap}
    PROVE  Fit(i, b)
BY OptionFacts DEF Fit, SenderBootstrap

LEMMA MemInit == Init => MemInv
<1> SUFFICES ASSUME Init PROVE MemInv
  BY Zenon
<1>1. IdTypes
  BY IdInit, Zenon DEF IdInv
<1>2. files["config"] = None /\ may["config"] = {None}
  BY Zenon DEF Init, Missing, File
<1> QED BY <1>1, <1>2, Zenon DEF Init, MemInv, MemTypes, MemSafe, Belongs, Installing

LEMMA MemInitialize ==
    ASSUME IdInv, IdInv', MemInv, NEW built \in Options, Initialize(built)
    PROVE  MemInv'
<1>1. /\ pc \in {"down", "refused"} /\ pc' \in {"identity", "refused", "launch"}
      /\ options' = built
      /\ UNCHANGED <<files, may, preserved, damaged, config>>
      /\ pc' # "launch" => UNCHANGED <<known, moved>>
      /\ pc' = "launch" => /\ Accepted(built)
                           /\ files["identity"] = built.self /\ files["bootstrap"] = built
  BY Zenon DEF Initialize, SelfChanged
<1>2. MemTypes'
  BY <1>1, Zenon DEF MemInv, MemTypes, IdInv, Accepted
<1>3. ASSUME ~moved', "torn" \notin damaged' PROVE MemSafe'
  <2>0. ~moved
    BY <1>1, <1>3, Zenon DEF Accepted
  <2>1. MemSafe /\ built # None
    BY <1>1, <1>3, <2>0, OptionFacts, Zenon DEF MemInv
  <2>2. known' = known \/ (known' # None /\ (known = None \/ known'.self = known.self))
    BY <1>1, <1>3, <2>1, Zenon DEF Accepted
  <2>3. \A c \in may'["config"] : Belongs(c)'
    BY <1>1, <2>1, <2>2, KeepsBelonging, Zenon DEF MemSafe
  <2>4. pc' = "launch" => known' = options' /\ Fit(files["identity"], files["bootstrap"])'
    BY <1>1, Zenon DEF Accepted, Fit
  <2> QED BY <1>1, <2>3, <2>4, Zenon DEF MemSafe, Installing
<1> QED BY <1>2, <1>3, Zenon DEF MemInv

LEMMA MemPersistIdentity ==
    ASSUME IdInv, IdInv', MemInv, PersistIdentity
    PROVE  MemInv'
<1>1. /\ pc = "identity" /\ pc' = "bootstrap" /\ WriteSynced("identity", options.self)
      /\ UNCHANGED <<options, preserved, known, moved, damaged, config>>
  BY Zenon DEF PersistIdentity
<1>2. /\ files'["config"] \in may'["config"]
      /\ may'["config"] \subseteq may["config"] \cup {None, Empty}
      /\ files'["identity"] = options.self
  BY <1>1, ConfigElsewhere, WriteReads, Zenon DEF MemInv, IdInv, File
<1>3. MemTypes'
  BY <1>1, <1>2, Zenon DEF MemInv, MemTypes, IdInv
<1>4. ASSUME ~moved', "torn" \notin damaged' PROVE MemSafe'
  <2>1. MemSafe
    BY <1>1, <1>4, Zenon DEF MemInv
  <2>2. \A c \in may'["config"] : Belongs(c)'
    BY <1>1, <1>2, <2>1, KeepsBelonging, Zenon DEF MemSafe
  <2> QED BY <1>1, <1>2, <2>2, Zenon DEF MemSafe, Installing
<1> QED BY <1>3, <1>4, Zenon DEF MemInv

LEMMA MemPersistBootstrap ==
    ASSUME IdInv, IdInv', MemInv, PersistBootstrap
    PROVE  MemInv'
<1>1. /\ pc = "bootstrap" /\ pc' = "launch" /\ WriteSynced("bootstrap", options)
      /\ Accepted(options)
      /\ UNCHANGED <<options, preserved, damaged, config>>
  BY Zenon DEF PersistBootstrap
<1>2. /\ files'["config"] \in may'["config"]
      /\ may'["config"] \subseteq may["config"] \cup {None, Empty}
      /\ files'["bootstrap"] = options /\ files'["identity"] = files["identity"]
  BY <1>1, ConfigElsewhere, WriteReads, Zenon DEF MemInv, IdInv, File
<1>3. MemTypes'
  BY <1>1, <1>2, Zenon DEF MemInv, MemTypes, IdInv, Accepted
<1>4. ASSUME ~moved', "torn" \notin damaged' PROVE MemSafe'
  <2>1. MemSafe /\ options # None
    BY <1>1, <1>4, OptionFacts, Zenon DEF MemInv, Accepted, IdInv, IdTypes
  <2>2. known' = options /\ (known = None \/ known'.self = known.self)
    BY <1>1, <1>4, Zenon DEF Accepted
  <2>3. \A c \in may'["config"] : Belongs(c)'
    BY <1>2, <2>1, <2>2, KeepsBelonging, Zenon DEF MemSafe
  <2>4. files["identity"] = options.self
    BY <1>1, <2>1, Zenon DEF MemSafe
  <2>5. Fit(files["identity"], files["bootstrap"])'
    BY <1>1, <1>2, <2>4, Zenon DEF Fit
  <2> QED BY <1>1, <2>2, <2>3, <2>5, Zenon DEF MemSafe, Installing
<1> QED BY <1>3, <1>4, Zenon DEF MemInv

(* NuRaft is given the configuration file, or the node and its peers.      *)
LEMMA MemLaunch ==
    ASSUME IdInv, IdInv', MemInv, Launch
    PROVE  MemInv'
<1>1. /\ pc = "launch" /\ pc' = "up" /\ config' = LoadConfig
      /\ UNCHANGED <<files, may, options, preserved, known, moved, damaged>>
  BY Zenon DEF Launch
<1>2. MemTypes'
  BY <1>1, Zenon DEF MemInv, MemTypes, IdInv
<1>3. ASSUME ~moved', "torn" \notin damaged' PROVE MemSafe'
  <2>1. MemSafe /\ known = options /\ files["config"] \in may["config"]
    BY <1>1, <1>3, Zenon DEF MemInv, MemTypes, MemSafe
  <2>2. options.self \in config'
    BY <1>1, <2>1, Zenon DEF LoadConfig, Readable, MemSafe, Belongs, Members
  <2>3. \A c \in may'["config"] : Belongs(c)'
    BY <1>1, <2>1, KeepsBelonging, Zenon DEF MemSafe
  <2> QED BY <1>1, <2>1, <2>2, <2>3, Zenon DEF MemSafe, Installing, Fit, SenderBootstrap
<1> QED BY <1>2, <1>3, Zenon DEF MemInv

(* What NuRaft stores while the node runs.                                 *)
LEMMA MemSave ==
    ASSUME IdInv, IdInv', MemInv, pc = "up", pc' = "up",
           UNCHANGED <<options, preserved, known, moved, damaged>>,
           NEW w, w \in {None, Empty} \/ options.self \in w,
           options.self \in config => options.self \in config',
           files'["config"] \in may'["config"],
           may'["config"] \subseteq may["config"] \cup {None, Empty, w},
           files'["identity"] = files["identity"], files'["bootstrap"] = files["bootstrap"]
    PROVE  MemInv'
<1>1. MemTypes'
  BY Zenon DEF MemInv, MemTypes, IdInv
<1>2. ASSUME ~moved', "torn" \notin damaged' PROVE MemSafe'
  <2>1. MemSafe /\ known = options /\ options # None
    BY <1>2, OptionFacts, Zenon DEF MemInv, MemTypes, MemSafe, IdTypes
  <2>2. \A c \in may'["config"] : Belongs(c)'
    BY <2>1, KeepsBelonging, Zenon DEF MemSafe
  <2> QED BY <2>1, <2>2, Zenon DEF MemSafe, Installing, Fit, SenderBootstrap
<1> QED BY <1>1, <1>2, Zenon DEF MemInv

LEMMA MemRunning ==
    ASSUME IdInv, IdInv', MemInv,
           \/ \E t \in 1..MaxTerm : NewTerm(t) \/ \E c \in Candidates : GrantVote(t, c)
           \/ \E o \in Options : SaveConfig(Members(o))
    PROVE  MemInv'
<1>0. IdTypes /\ MemTypes
  BY Zenon DEF MemInv, IdInv
<1>1. /\ pc = "up" /\ pc' = "up"
      /\ UNCHANGED <<options, preserved, known, moved, damaged>>
  BY Zenon DEF NewTerm, GrantVote, SaveConfig
<1>2. CASE \E t \in 1..MaxTerm : NewTerm(t) \/ \E c \in Candidates : GrantVote(t, c)
  <2>1. /\ config' = config
        /\ UNCHANGED <<files, may>> \/ \E v : WriteUnsynced("state", v)
    BY <1>2, Zenon DEF NewTerm, GrantVote, SaveState
  <2>2. CASE UNCHANGED <<files, may>>
    BY <1>0, <1>1, <2>1, <2>2, MemSave, Zenon DEF MemTypes
  <2>3. CASE \E v : WriteUnsynced("state", v)
    <3>1. PICK v : WriteUnsynced("state", v)
      BY <2>3, Zenon
    <3>2. "state" \in File \ {"config"} /\ {"identity", "bootstrap"} \subseteq File \ {"state"}
      BY Zenon DEF File
    <3>3. /\ files'["config"] \in may'["config"]
          /\ may'["config"] \subseteq may["config"] \cup {None, Empty}
      BY <1>0, <3>1, <3>2, ConfigElsewhere, Zenon
    <3>4. files'["identity"] = files["identity"] /\ files'["bootstrap"] = files["bootstrap"]
      BY <1>0, <3>1, <3>2, WriteReads, Zenon
    <3> QED BY <1>1, <2>1, <3>3, <3>4, MemSave, Zenon
  <2> QED BY <2>1, <2>2, <2>3, Zenon
<1>3. CASE \E o \in Options : SaveConfig(Members(o))
  <2>1. PICK o \in Options : SaveConfig(Members(o))
    BY <1>3, Zenon
  <2>2. /\ options.self \in Members(o) /\ config' = Members(o)
        /\ WriteUnsynced("config", Members(o))
    BY <2>1, Zenon DEF SaveConfig
  <2>3. "config" \in File /\ {"identity", "bootstrap"} \subseteq File \ {"config"}
    BY Zenon DEF File
  <2>4. /\ files'["config"] \in may'["config"]
        /\ may'["config"] \subseteq may["config"] \cup {None, Empty, Members(o)}
    BY <1>0, <2>2, ConfigWritten, Zenon
  <2>5. files'["identity"] = files["identity"] /\ files'["bootstrap"] = files["bootstrap"]
    BY <1>0, <2>2, <2>3, WriteReads, Zenon
  <2> QED BY <1>1, <2>2, <2>4, <2>5, MemSave, Zenon
<1> QED BY <1>2, <1>3, Zenon

LEMMA MemInstallBegin ==
    ASSUME IdInv, IdInv', MemInv, InstallBegin
    PROVE  MemInv'
<1>1. /\ pc = "up" /\ pc' \in {"wipe", "copy"} /\ (pc' = "copy" => files = Missing)
      /\ preserved' = [identity |-> files["identity"], bootstrap |-> files["bootstrap"]]
      /\ UNCHANGED <<files, may, options, known, moved, damaged, config>>
  BY Zenon DEF InstallBegin
<1>2. MemTypes'
  BY <1>1, Zenon DEF MemInv, MemTypes, IdInv
<1>3. ASSUME ~moved', "torn" \notin damaged' PROVE MemSafe'
  <2>1. MemSafe /\ known = options
    BY <1>1, <1>3, Zenon DEF MemInv, MemSafe
  <2>2. \A c \in may'["config"] : Belongs(c)'
    BY <1>1, <2>1, KeepsBelonging, Zenon DEF MemSafe
  <2>3. Fit(preserved.identity, preserved.bootstrap)'
    BY <1>1, <2>1, Zenon DEF MemSafe, Fit, SenderBootstrap
  <2>4. pc' = "copy" => files["identity"] = None /\ files["bootstrap"] = None
    BY <1>1, Zenon DEF Missing, File
  <2> QED BY <1>1, <2>1, <2>2, <2>3, <2>4, Zenon DEF MemSafe, Installing
<1> QED BY <1>2, <1>3, Zenon DEF MemInv

(* A step of an install that leaves the memory of the node alone and goes  *)
(* on with the install: what is to be shown of the files.                  *)
LEMMA MemInstallStep ==
    ASSUME IdInv, IdInv', MemInv, pc \in Installing, pc' \in Installing,
           UNCHANGED <<options, preserved, known, moved, config>>, damaged \subseteq damaged',
           NEW w, w \in {None, Empty} \/ options.self \in w,
           files'["config"] \in may'["config"],
           may'["config"] \subseteq may["config"] \cup {None, Empty, w},
           ~moved /\ "torn" \notin damaged /\ MemSafe =>
             /\ pc' \in {"copy", "own_identity"} =>
                   /\ files'["identity"] \in {None, Sender}
                   /\ files'["bootstrap"] \in {None, SenderBootstrap}
             /\ pc' = "own_bootstrap" =>
                   /\ files'["bootstrap"] \in {None, SenderBootstrap}
                   /\ files'["identity"] \in {None, options.self, Sender}
                   /\ preserved.identity # None => files'["identity"] = preserved.identity
             /\ pc' \in {"drop_config", "drop_state", "own_config"} => Fit(files'["identity"], files'["bootstrap"])
    PROVE  MemInv'
<1>1. MemTypes'
  BY Zenon DEF MemInv, MemTypes, IdInv
<1>2. ASSUME ~moved', "torn" \notin damaged' PROVE MemSafe'
  <2>1. MemSafe /\ known = options /\ options # None
    BY <1>2, OptionFacts, Zenon DEF MemInv, MemTypes, MemSafe, IdTypes
  <2>2. \A c \in may'["config"] : Belongs(c)'
    BY <2>1, KeepsBelonging, Zenon DEF MemSafe
  <2>3. pc' \notin {"launch", "up", "bootstrap"}
    BY Zenon DEF Installing
  <2>4. SenderBootstrap' = SenderBootstrap
    BY Zenon DEF SenderBootstrap
  <2>5. \A i, b : Fit(i, b) => i \in {None, options.self, Sender}
    BY Zenon DEF Fit
  <2>6. Fit(preserved.identity, preserved.bootstrap)'
    BY <2>1, <2>4, Zenon DEF MemSafe, Fit
  <2>7. pc' \in {"drop_config", "drop_state", "own_config"} => Fit(files["identity"], files["bootstrap"])'
    BY <1>2, <2>1, <2>4, Zenon DEF Fit
  <2>8. options.self \in config'
    BY <2>1, Zenon DEF MemSafe
  <2> QED BY <1>2, <2>1, <2>2, <2>3, <2>4, <2>6, <2>7, <2>8, Zenon DEF MemSafe
<1> QED BY <1>1, <1>2, Zenon DEF MemInv

LEMMA MemWipe ==
    ASSUME IdInv, IdInv', MemInv, NEW f \in File, Wipe(f)
    PROVE  MemInv'
<1>1. /\ pc = "wipe" /\ pc' \in {"wipe", "copy"} /\ (pc' = "copy" => files' = Missing)
      /\ Remove({f})
      /\ UNCHANGED <<options, preserved, known, moved, damaged, config>>
  BY Zenon DEF Wipe
<1>2. /\ files'["config"] \in may'["config"]
      /\ may'["config"] \subseteq may["config"] \cup {None, Empty}
  BY <1>1, ConfigRemoved, Zenon DEF MemInv
<1>3. pc' = "copy" => files'["identity"] = None /\ files'["bootstrap"] = None
  BY <1>1, Zenon DEF Missing, File
<1> QED BY <1>1, <1>2, <1>3, MemInstallStep, Zenon DEF Installing

(* The sender's files are one of its own snapshots': its configuration has *)
(* the node it sends to.                                                   *)
LEMMA MemCopyMeta ==
    ASSUME IdInv, IdInv', MemInv, NEW f \in File, CopyMeta(f)
    PROVE  MemInv'
<1>0. IdTypes /\ MemTypes /\ File = {"identity", "bootstrap", "config", "state"}
  BY Zenon DEF MemInv, IdInv, File
<1>1. /\ pc = "copy" /\ pc' \in {"copy", "own_identity"}
      /\ UNCHANGED <<options, preserved, known, moved, damaged, config>>
  BY Zenon DEF CopyMeta
<1>2. PICK v \in SenderMeta(f) : WriteUnsynced(f, v)
  BY Zenon DEF CopyMeta
<1>3. /\ f = "identity" => v = Sender
      /\ f = "bootstrap" => v = SenderBootstrap
      /\ f = "config" => options.self \in v
  BY <1>2, Zenon DEF SenderMeta, SenderBootstrap, Members
<1>4. \A g \in File : files'[g] = IF g = f THEN v ELSE files[g]
  BY <1>0, <1>2, WriteReads
<1>5. /\ files'["identity"] \in {files["identity"], Sender}
      /\ files'["bootstrap"] \in {files["bootstrap"], SenderBootstrap}
  BY <1>0, <1>3, <1>4, Zenon
<1>6. MemSafe => /\ files'["identity"] \in {None, Sender}
                 /\ files'["bootstrap"] \in {None, SenderBootstrap}
  BY <1>1, <1>5, Zenon DEF MemSafe
<1>7. CASE f = "config"
  <2>1. /\ files'["config"] \in may'["config"]
        /\ may'["config"] \subseteq may["config"] \cup {None, Empty, v}
    BY <1>0, <1>2, <1>7, ConfigWritten, Zenon
  <2> QED BY <1>1, <1>3, <1>6, <1>7, <2>1, MemInstallStep, Zenon DEF Installing
<1>8. CASE f # "config"
  <2>1. /\ files'["config"] \in may'["config"]
        /\ may'["config"] \subseteq may["config"] \cup {None, Empty}
    BY <1>0, <1>2, <1>8, ConfigElsewhere, Zenon
  <2> QED BY <1>1, <1>6, <2>1, MemInstallStep, Zenon DEF Installing
<1> QED BY <1>7, <1>8, Zenon

LEMMA MemOwnIdentity ==
    ASSUME IdInv, IdInv', MemInv, OwnIdentity
    PROVE  MemInv'
<1>0. IdTypes /\ MemTypes /\ "identity" \in File \ {"config"} /\ "bootstrap" \in File \ {"identity"}
  BY Zenon DEF MemInv, IdInv, File
<1>1. /\ pc = "own_identity" /\ pc' = "own_bootstrap"
      /\ \/ preserved["identity"] = None /\ UNCHANGED <<files, may>>
         \/ preserved["identity"] # None /\ WriteSynced("identity", preserved["identity"])
      /\ UNCHANGED <<options, preserved, known, moved, damaged, config>>
  BY Zenon DEF OwnIdentity, PutBack
<1>2. /\ files'["config"] \in may'["config"]
      /\ may'["config"] \subseteq may["config"] \cup {None, Empty}
  BY <1>0, <1>1, ConfigElsewhere, Zenon DEF MemTypes
<1>3. /\ files'["bootstrap"] = files["bootstrap"]
      /\ preserved["identity"] # None => files'["identity"] = preserved["identity"]
      /\ preserved["identity"] = None => files'["identity"] = files["identity"]
  BY <1>0, <1>1, WriteReads, Zenon
<1>4. MemSafe => /\ files'["bootstrap"] \in {None, SenderBootstrap}
                 /\ files'["identity"] \in {None, options.self, Sender}
  BY <1>1, <1>3, Zenon DEF MemSafe, Fit, Installing
<1> QED BY <1>1, <1>2, <1>3, <1>4, MemInstallStep, Zenon DEF Installing

LEMMA MemOwnBootstrap ==
    ASSUME IdInv, IdInv', MemInv, OwnBootstrap
    PROVE  MemInv'
<1>0. /\ IdTypes /\ MemTypes
      /\ "bootstrap" \in File \ {"config"} /\ "identity" \in File \ {"bootstrap"}
  BY Zenon DEF MemInv, IdInv, File
<1>1. /\ pc = "own_bootstrap" /\ pc' = "drop_config"
      /\ \/ preserved["bootstrap"] = None /\ UNCHANGED <<files, may>>
         \/ preserved["bootstrap"] # None /\ WriteSynced("bootstrap", preserved["bootstrap"])
      /\ UNCHANGED <<options, preserved, known, moved, damaged, config>>
  BY Zenon DEF OwnBootstrap, PutBack
<1>2. /\ files'["config"] \in may'["config"]
      /\ may'["config"] \subseteq may["config"] \cup {None, Empty}
  BY <1>0, <1>1, ConfigElsewhere, Zenon DEF MemTypes
<1>3. /\ files'["identity"] = files["identity"]
      /\ preserved["bootstrap"] # None => files'["bootstrap"] = preserved["bootstrap"]
      /\ preserved["bootstrap"] = None => files'["bootstrap"] = files["bootstrap"]
  BY <1>0, <1>1, WriteReads, Zenon
<1>4. ASSUME MemSafe PROVE Fit(files'["identity"], files'["bootstrap"])
  <2>1. /\ files["bootstrap"] \in {None, SenderBootstrap}
        /\ files["identity"] \in {None, options.self, Sender}
        /\ preserved.identity # None => files["identity"] = preserved.identity
        /\ Fit(preserved.identity, preserved.bootstrap)
        /\ options \in Options
    BY <1>0, <1>1, <1>4, Zenon DEF MemSafe, Installing, IdTypes
  <2>2. CASE preserved.bootstrap = None
    BY <1>3, <2>1, <2>2, ForeignFits, Zenon
  <2>3. CASE preserved.bootstrap # None
    <3>1. files'["bootstrap"] = preserved.bootstrap
      BY <1>3, <2>3, Zenon
    <3>2. options.self # Sender /\ preserved.bootstrap = options => files'["identity"] = options.self
      BY <1>3, <2>1, OptionFacts, Zenon DEF Fit
    <3> QED BY <1>3, <2>1, <3>1, <3>2, Zenon DEF Fit
  <2> QED BY <2>2, <2>3, Zenon
<1> QED BY <1>1, <1>2, <1>4, MemInstallStep, Zenon DEF Installing

LEMMA MemDrop ==
    ASSUME IdInv, IdInv', MemInv, DropConfig \/ DropState
    PROVE  MemInv'
<1>1. /\ pc \in {"drop_config", "drop_state"} /\ pc' \in {"drop_state", "own_config"}
      /\ damaged \subseteq damaged' /\ UNCHANGED <<options, preserved, known, moved, config>>
      /\ UNCHANGED <<files, may>> \/ \E f \in {"config", "state"} : Remove({f})
  BY DropEffect, Zenon
<1>2. /\ files'["config"] \in may'["config"]
      /\ may'["config"] \subseteq may["config"] \cup {None, Empty}
  BY <1>1, ConfigRemoved, Zenon DEF MemInv, MemTypes
<1>3. files'["identity"] = files["identity"] /\ files'["bootstrap"] = files["bootstrap"]
  BY <1>1, Zenon DEF Remove, File
<1>4. MemSafe => Fit(files'["identity"], files'["bootstrap"])
  BY <1>1, <1>3, Zenon DEF MemSafe
<1> QED BY <1>1, <1>2, <1>4, MemInstallStep, Zenon DEF Installing

(* The end of an install, whether it succeeds or fails: the node runs on.  *)
LEMMA MemRunsOn ==
    ASSUME IdInv, IdInv', MemInv, pc \in Installing, pc' = "up",
           UNCHANGED <<options, preserved, known, moved, config>>, damaged \subseteq damaged',
           NEW w, w \in {None, Empty} \/ (~moved /\ "torn" \notin damaged => options.self \in w),
           files'["config"] \in may'["config"],
           may'["config"] \subseteq may["config"] \cup {None, Empty, w},
           "torn" \notin damaged' /\ MemSafe => Fit(files'["identity"], files'["bootstrap"])
    PROVE  MemInv'
<1>1. MemTypes'
  BY Zenon DEF MemInv, MemTypes, IdInv
<1>2. ASSUME ~moved', "torn" \notin damaged' PROVE MemSafe'
  <2>1. MemSafe /\ known = options /\ options # None
    BY <1>2, OptionFacts, Zenon DEF MemInv, MemTypes, MemSafe, IdTypes
  <2>2. \A c \in may'["config"] : Belongs(c)'
    BY <1>2, <2>1, KeepsBelonging, Zenon DEF MemSafe
  <2>3. Fit(files["identity"], files["bootstrap"])'
    BY <1>2, <2>1, Zenon DEF Fit, SenderBootstrap
  <2> QED BY <2>1, <2>2, <2>3, Zenon DEF MemSafe, Installing
<1> QED BY <1>1, <1>2, Zenon DEF MemInv

LEMMA MemOwnConfig ==
    ASSUME IdInv, IdInv', MemInv, OwnConfig
    PROVE  MemInv'
<1> DEFINE w == {preserved.identity} \cup preserved.bootstrap.peers
<1>0. /\ IdTypes /\ MemTypes
      /\ "config" \in File /\ {"bootstrap", "identity"} \subseteq File \ {"config"}
  BY Zenon DEF MemInv, IdInv, File
<1>1. /\ pc = "own_config" /\ pc' = "up"
      /\ UNCHANGED <<options, preserved, known, moved, damaged, config>>
  BY Zenon DEF OwnConfig
<1>2. CASE None \in {preserved.identity, preserved.bootstrap}
  <2>1. UNCHANGED <<files, may>>
    BY <1>2, Zenon DEF OwnConfig
  <2>2. MemSafe => Fit(files'["identity"], files'["bootstrap"])
    BY <1>1, <2>1, Zenon DEF MemSafe
  <2> QED BY <1>0, <1>1, <2>1, <2>2, MemRunsOn, Zenon DEF Installing, MemTypes
<1>3. CASE None \notin {preserved.identity, preserved.bootstrap}
  <2>1. WriteSynced("config", w)
    BY <1>3, Zenon DEF OwnConfig
  <2>2. /\ files'["config"] \in may'["config"]
        /\ may'["config"] \subseteq may["config"] \cup {None, Empty, w}
    BY <1>0, <2>1, ConfigWritten, Zenon
  <2>3. files'["identity"] = files["identity"] /\ files'["bootstrap"] = files["bootstrap"]
    BY <1>0, <2>1, WriteReads, Zenon
  <2>4. MemSafe => Fit(files'["identity"], files'["bootstrap"])
    BY <1>1, <2>3, Zenon DEF MemSafe
  <2>5. ASSUME ~moved, "torn" \notin damaged PROVE options.self \in w
    <3>1. Fit(preserved.identity, preserved.bootstrap) /\ options \in Options
      BY <1>0, <1>1, <2>5, Zenon DEF MemInv, MemSafe, Installing, IdTypes
    <3>2. CASE preserved.identity = options.self
      BY <3>2, Zenon
    <3>3. CASE preserved.identity # options.self
      <4>1. preserved.bootstrap = SenderBootstrap /\ options.self # Sender
        BY <1>3, <3>1, <3>3, Zenon DEF Fit
      <4> QED BY <4>1 DEF SenderBootstrap, Members
    <3> QED BY <3>2, <3>3, Zenon
  <2> HIDE DEF w
  <2> QED BY <1>1, <2>2, <2>4, <2>5, MemRunsOn, Zenon DEF Installing
<1> QED BY <1>2, <1>3, Zenon

LEMMA MemInstallFails ==
    ASSUME IdInv, IdInv', MemInv, InstallFails
    PROVE  MemInv'
<1>1. /\ pc \in Installing /\ pc' = "up" /\ damaged \subseteq damaged'
      /\ pc = "wipe" => "torn" \in damaged'
      /\ UNCHANGED <<files, may, options, preserved, known, moved, config>>
      /\ files["config"] \in may["config"] /\ options \in Options
  BY Zenon DEF InstallFails, MemInv, MemTypes, IdTypes
<1>2. ASSUME "torn" \notin damaged', MemSafe
      PROVE  Fit(files'["identity"], files'["bootstrap"])
  <2>1. CASE pc \in {"copy", "own_identity", "own_bootstrap"}
    <3>1. /\ files["bootstrap"] \in {None, SenderBootstrap}
          /\ files["identity"] \in {None, options.self, Sender}
      BY <1>2, <2>1, Zenon DEF MemSafe
    <3> QED BY <1>1, <3>1, ForeignFits, Zenon
  <2>2. CASE pc \in {"drop_config", "drop_state", "own_config"}
    BY <1>1, <1>2, <2>2, Zenon DEF MemSafe
  <2> QED BY <1>1, <1>2, <2>1, <2>2, Zenon DEF Installing
<1> QED BY <1>1, <1>2, MemRunsOn, Zenon

LEMMA MemStop ==
    ASSUME IdInv, IdInv', MemInv, Crash \/ PowerLoss
    PROVE  MemInv'
<1>1. pc' = "down" /\ damaged \subseteq damaged' /\ UNCHANGED <<options, known, moved>>
  BY Zenon DEF Crash, PowerLoss, Stop
<1>2. files'["config"] \in may'["config"] /\ may'["config"] \subseteq may["config"]
  <2>1. CASE Crash
    BY <2>1, Zenon DEF Crash, MemInv, MemTypes
  <2>2. CASE PowerLoss
    <3>1. PICK i \in may["identity"], b \in may["bootstrap"], c \in may["config"], t \in may["state"] :
            files' = [identity |-> i, bootstrap |-> b, config |-> c, state |-> t]
      BY <2>2, Zenon DEF PowerLoss
    <3>2. may' = [f \in File |-> {files'[f]}]
      BY <2>2, Zenon DEF PowerLoss
    <3> QED BY <3>1, <3>2, Zenon DEF File
  <2> QED BY <2>1, <2>2, Zenon
<1>3. MemTypes'
  BY <1>1, <1>2, Zenon DEF MemInv, MemTypes, IdInv
<1>4. ASSUME ~moved', "torn" \notin damaged' PROVE MemSafe'
  <2>1. MemSafe
    BY <1>1, <1>4, Zenon DEF MemInv
  <2>2. \A c \in may'["config"] : Belongs(c)'
    BY <1>1, <1>2, <2>1, KeepsBelonging, Zenon DEF MemSafe
  <2> QED BY <1>1, <2>2, Zenon DEF MemSafe, Installing
<1> QED BY <1>3, <1>4, Zenon DEF MemInv

LEMMA MemStep == IdInv /\ IdInv' /\ MemInv /\ [Next]_vars => MemInv'
<1> SUFFICES ASSUME IdInv, IdInv', MemInv, [Next]_vars PROVE MemInv'
  BY Zenon
<1>1. CASE UNCHANGED vars
  BY <1>1 DEF vars, MemInv, MemTypes, IdTypes, MemSafe, Belongs, Fit, SenderBootstrap
<1>2. CASE \E built \in Options : Initialize(built)
  BY <1>2, MemInitialize, Zenon
<1>3. CASE PersistIdentity \/ PersistBootstrap \/ Launch
  BY <1>3, MemPersistIdentity, MemPersistBootstrap, MemLaunch, Zenon
<1>4. CASE \/ \E t \in 1..MaxTerm : NewTerm(t) \/ \E c \in Candidates : GrantVote(t, c)
           \/ \E o \in Options : SaveConfig(Members(o))
  BY <1>4, MemRunning, Zenon
<1>5. CASE InstallBegin
  BY <1>5, MemInstallBegin, Zenon
<1>6. CASE \E f \in File : Wipe(f) \/ CopyMeta(f)
  BY <1>6, MemWipe, MemCopyMeta, Zenon
<1>7. CASE OwnIdentity \/ OwnBootstrap \/ DropConfig \/ DropState \/ OwnConfig
  BY <1>7, MemOwnIdentity, MemOwnBootstrap, MemDrop, MemOwnConfig, Zenon
<1>8. CASE InstallFails
  BY <1>8, MemInstallFails, Zenon
<1>9. CASE Crash \/ PowerLoss
  BY <1>9, MemStop, Zenon
<1> QED
  BY <1>1, <1>2, <1>3, <1>4, <1>5, <1>6, <1>7, <1>8, <1>9, Zenon DEF Next

(* A node that kept its address runs with a configuration it is a member   *)
(* of, over any number of starts, installs, failures and power losses,     *)
(* unless it once ran on with part of its directory removed.               *)
THEOREM Member == Spec => []MemberUnlessMoved
<1>1. MemInv => MemberUnlessMoved
  BY Zenon DEF MemInv, MemSafe, MemberUnlessMoved
<1>2. IdInv /\ [Next]_vars => IdInv'
  BY IdStep, Zenon
<1> QED
  BY <1>1, <1>2, IdInit, MemInit, MemStep, PTL DEF Spec
=============================================================================
