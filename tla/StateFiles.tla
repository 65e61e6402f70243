----------------------------- MODULE StateFiles -----------------------------
(***************************************************************************)
(* The four files of a node's meta/ directory that decide who the node is  *)
(* and what it has promised: identity.json and bootstrap.json, written by  *)
(* the state initializer, cluster_config.bin and srv_state.bin, written by *)
(* the state manager on behalf of NuRaft.  Installing a snapshot replaces  *)
(* the whole directory with the sender's and then puts back what has to    *)
(* stay the node's own, file by file; the process may stop, or the machine *)
(* lose power, between any two of these steps.                             *)
(*                                                                         *)
(* An address stands for the triple host, peering port, API port and for   *)
(* the server id derived from it; two addresses differ in their server id. *)
(* A file holds a value, is Empty, or is missing (None).  "files" is what  *)
(* a reader of the directory sees; "may" is, per file, the contents it can *)
(* have after a power loss.                                                *)
(***************************************************************************)
EXTENDS Integers, FiniteSets

CONSTANTS
    None,           \* no file; no vote
    Empty,          \* a file without content
    Options,        \* the [self, peers] the operator may start the node with
    Sender,         \* the node whose snapshot is installed
    Candidates,     \* the servers that ask for votes
    MaxTerm,        \* bound on the Raft term
    MaxStarts,      \* bound on process starts
    MaxInstalls,    \* bound on snapshot installs
    MaxFaults       \* bound on power losses and failed writes

Addresses == UNION {{o.self} \cup o.peers : o \in Options}

ASSUME FilesAssumption ==
    /\ Options \subseteq [self : Addresses, peers : SUBSET Addresses]
    /\ None \notin Candidates /\ Sender \in Candidates
    /\ None # Empty
    /\ \A x \in {None, Empty} :
          /\ x \notin Addresses
          /\ x \notin [self : Addresses, peers : SUBSET Addresses]
          /\ x \notin [term : Nat, vote : Candidates \cup {None}]
    /\ {MaxTerm, MaxStarts, MaxInstalls, MaxFaults} \subseteq Nat

VARIABLES
    files, may,
    pc,             \* what the process is doing
    options,        \* the bootstrap configuration it built from its command line
    srv,            \* term and vote NuRaft holds in memory
    config,         \* the members NuRaft believes in
    preserved,      \* identity and bootstrap install_snapshot keeps aside
    votes,          \* history: the votes this node has granted
    volatile,       \* history: ways in which srv can be lost right now
    forgot,         \* history: the node has restarted while srv could be lost
    known,          \* history: the configuration of the last accepted start
    moved,          \* history: the address has changed between accepted starts
    damaged,        \* history: how the meta directory has been left incomplete;
                    \* "torn": the node ran on with part of it removed;
                    \* "foreign_state": the sender's srv_state.bin has stayed
    left            \* what remains of the bounds

vars == <<files, may, pc, options, srv, config, preserved,
          votes, volatile, forgot, known, moved, damaged, left>>

File == {"identity", "bootstrap", "config", "state"}
ServerState == [term : 0..MaxTerm, vote : Candidates \cup {None}]
NewState == [term |-> 0, vote |-> None]
Missing == [f \in File |-> None]
Members(o) == {o.self} \cup o.peers

Installing == {"wipe", "copy", "own_identity", "own_bootstrap",
               "drop_config", "drop_state", "own_config"}
Starting == {"identity", "bootstrap", "launch"}

Init ==
    /\ files = Missing
    /\ may = [f \in File |-> {None}]
    /\ pc = "down"
    /\ options \in Options
    /\ srv = NewState
    /\ config = {}
    /\ preserved = [identity |-> None, bootstrap |-> None]
    /\ votes = {}
    /\ volatile = {}
    /\ forgot = FALSE
    /\ known = None
    /\ moved = FALSE
    /\ damaged = {}
    /\ left = [starts |-> MaxStarts, installs |-> MaxInstalls, faults |-> MaxFaults]

-----------------------------------------------------------------------------
(* The ways a file is changed.                                             *)

(* write_file_atomically: the data and the directory are synced before it  *)
(* returns, so the other entries of the directory are settled as well, but *)
(* not the data of files nobody synced.                                    *)
WriteSynced(f, v) ==
    /\ files' = [files EXCEPT ![f] = v]
    /\ may' = [g \in File |->
                  IF g = f THEN {v}
                  ELSE IF files[g] = None \/ may[g] = {files[g]} THEN {files[g]}
                  ELSE {files[g], Empty}]

(* The state manager's write_file: renamed into place, never synced.       *)
WriteUnsynced(f, v) ==
    /\ files' = [files EXCEPT ![f] = v]
    /\ may' = [may EXCEPT ![f] = @ \cup {v, Empty}]

Remove(fs) ==
    /\ files' = [f \in File |-> IF f \in fs THEN None ELSE files[f]]
    /\ may' = [f \in File |-> IF f \in fs THEN may[f] \cup {None} ELSE may[f]]

(* A file that is there but holds nothing: JSON parsing fails on it, and   *)
(* the state manager takes it for a first boot.                            *)
Readable(f) == files[f] \notin {None, Empty}

-----------------------------------------------------------------------------
(* Starting the process: the state initializer, then NuRaft.               *)

SelfChanged(built) ==
    \/ files["bootstrap"].self # built.self
    \/ files["identity"] # built.self

AllowSelfRewrite(built) ==
    SelfChanged(built) /\ files["bootstrap"].peers = {} /\ built.peers = {}

(* Mutant: another set of peers counts as another address.                 *)
AcceptsSamePeers(built) ==
    /\ Readable("identity") /\ Readable("bootstrap")
    /\ files["bootstrap"] # built => AllowSelfRewrite(built)

Accepts(built) ==
    /\ Readable("identity") /\ Readable("bootstrap")
    /\ SelfChanged(built) => AllowSelfRewrite(built)

Accepted(built) ==
    /\ known' = built
    /\ moved' = (moved \/ (known # None /\ known.self # built.self))

(* initialize and refresh_existing_metadata up to the first write.         *)
Initialize(built) ==
    /\ pc \in {"down", "refused"}
    /\ left.starts > 0
    /\ left' = [left EXCEPT !.starts = @ - 1]
    /\ options' = built
    /\ \/ /\ files["identity"] = None \/ files["bootstrap"] = None
          /\ pc' = "identity" /\ UNCHANGED <<known, moved>>
       \/ /\ files["identity"] # None /\ files["bootstrap"] # None
          /\ IF ~Accepts(built) THEN pc' = "refused" /\ UNCHANGED <<known, moved>>
             ELSE IF SelfChanged(built) \/ files["bootstrap"] # built
             THEN pc' = "identity" /\ UNCHANGED <<known, moved>>
             ELSE pc' = "launch" /\ Accepted(built)
    /\ UNCHANGED <<files, may, srv, config, preserved, votes, volatile, forgot, damaged>>

(* persist_metadata: the identity first, then the bootstrap configuration. *)
PersistIdentity ==
    /\ pc = "identity"
    /\ WriteSynced("identity", options.self)
    /\ pc' = "bootstrap"
    /\ UNCHANGED <<options, srv, config, preserved, votes, volatile, forgot, known, moved, damaged, left>>

PersistBootstrap ==
    /\ pc = "bootstrap"
    /\ WriteSynced("bootstrap", options)
    /\ Accepted(options)
    /\ pc' = "launch"
    /\ UNCHANGED <<options, srv, config, preserved, votes, volatile, forgot, damaged, left>>

(* Mutant: the node itself is left out.                                    *)
LoadConfigPeers == IF Readable("config") THEN files["config"] ELSE options.peers

LoadConfig == IF Readable("config") THEN files["config"] ELSE Members(options)

ReadState == IF Readable("state") THEN files["state"] ELSE NewState

(* initialize_raft_server: NuRaft loads its configuration and its state.   *)
Launch ==
    /\ pc = "launch"
    /\ config' = LoadConfig
    /\ srv' = ReadState
    /\ pc' = "up"
    /\ UNCHANGED <<files, may, options, preserved, votes, volatile, forgot, known, moved, damaged, left>>

-----------------------------------------------------------------------------
(* What NuRaft stores while it runs.                                       *)

(* Mutant: nothing is written.                                             *)
SaveStateLost(s) == volatile' = {"unsynced"} /\ UNCHANGED <<files, may, left>>

(* save_state: the result of the write is ignored, so a failed one leaves  *)
(* the old file under a vote that is answered all the same.                *)
SaveState(s) ==
    \/ /\ WriteUnsynced("state", s)
       /\ volatile' = {"unsynced"}
       /\ left' = left
    \/ /\ left.faults > 0
       /\ left' = [left EXCEPT !.faults = @ - 1]
       /\ volatile' = volatile \cup {"failed"}
       /\ UNCHANGED <<files, may>>

(* A message of a newer term.                                              *)
NewTerm(t) ==
    /\ pc = "up" /\ t > srv.term
    /\ srv' = [term |-> t, vote |-> None]
    /\ SaveState(srv')
    /\ UNCHANGED <<pc, options, config, preserved, votes, forgot, known, moved, damaged>>

(* A granted vote: NuRaft saves it before it answers.                      *)
GrantVote(t, c) ==
    /\ pc = "up"
    /\ t > srv.term \/ (t = srv.term /\ srv.vote \in {None, c})
    /\ srv' = [term |-> t, vote |-> c]
    /\ SaveState(srv')
    /\ votes' = votes \cup {srv'}
    /\ UNCHANGED <<pc, options, config, preserved, forgot, known, moved, damaged>>

(* A committed configuration entry: the node's own configuration, or the   *)
(* view of a leader among its peers, who replicates only to members.       *)
SaveConfig(view) ==
    /\ pc = "up" /\ options.self \in view
    /\ view = config \/ options.peers # {}
    /\ config' = view
    /\ WriteUnsynced("config", view)
    /\ UNCHANGED <<pc, options, srv, preserved, votes, volatile, forgot, known, moved, damaged, left>>

-----------------------------------------------------------------------------
(* install_snapshot, as far as meta/ is concerned.                         *)

(* Identity and bootstrap are read back from the files, not from memory;   *)
(* one that is there and unreadable ends the install before it starts.     *)
InstallBegin ==
    /\ pc = "up" /\ Sender \in options.peers /\ srv.term > 0
    /\ left.installs > 0
    /\ left' = [left EXCEPT !.installs = @ - 1]
    /\ files["identity"] # Empty /\ files["bootstrap"] # Empty
    /\ preserved' = [identity |-> files["identity"], bootstrap |-> files["bootstrap"]]
    /\ pc' = IF files = Missing THEN "copy" ELSE "wipe"
    /\ volatile' = volatile \cup {"install"}
    /\ UNCHANGED <<files, may, options, srv, config, votes, forgot, known, moved, damaged>>

(* copy_tree removes the directory's entries one by one ...                *)
Wipe(f) ==
    /\ pc = "wipe" /\ files[f] # None
    /\ Remove({f})
    /\ pc' = IF files' = Missing THEN "copy" ELSE "wipe"
    /\ UNCHANGED <<options, srv, config, preserved, votes, volatile, forgot, known, moved, damaged, left>>

(* ... and copies the sender's, in whatever order the directory lists them.*)
(* The sender's state is the one of the term its snapshot was taken in.    *)
SenderMeta(f) ==
    CASE f = "identity" -> {Sender}
      [] f = "bootstrap" -> {[self |-> Sender, peers |-> Members(options) \ {Sender}]}
      [] f = "config" -> {Members(options) \cup {Sender}}
      [] f = "state" -> [term : 1..srv.term, vote : {Sender}]

CopyMeta(f) ==
    /\ pc = "copy" /\ files[f] = None
    /\ \E v \in SenderMeta(f) : WriteUnsynced(f, v)
    /\ pc' = IF \A g \in File : files'[g] # None THEN "own_identity" ELSE "copy"
    /\ UNCHANGED <<options, srv, config, preserved, votes, volatile, forgot, known, moved, damaged, left>>

PutBack(f, step, next) ==
    /\ pc = step
    /\ IF preserved[f] = None THEN UNCHANGED <<files, may>> ELSE WriteSynced(f, preserved[f])
    /\ pc' = next
    /\ UNCHANGED <<options, srv, config, preserved, votes, volatile, forgot, known, moved, damaged, left>>

OwnIdentity == PutBack("identity", "own_identity", "own_bootstrap")
OwnBootstrap == PutBack("bootstrap", "own_bootstrap", "drop_config")

(* The sender's configuration and then its state are removed: another      *)
(* configuration is built below, a state is not.  The error code of either *)
(* removal is ignored, so after a failed one the install goes on.          *)
DropForeign(f, step, next, kept) ==
    /\ pc = step
    /\ \/ Remove({f}) /\ UNCHANGED <<damaged, left>>
       \/ /\ left.faults > 0
          /\ left' = [left EXCEPT !.faults = @ - 1]
          /\ damaged' = damaged \cup kept
          /\ UNCHANGED <<files, may>>
    /\ pc' = next
    /\ UNCHANGED <<options, srv, config, preserved, votes, volatile, forgot, known, moved>>

DropConfig == DropForeign("config", "drop_config", "drop_state", {})

(* Mutant: the sender's term and vote are left where they are.             *)
DropStateSkipped ==
    /\ pc = "drop_state"
    /\ pc' = "own_config"
    /\ UNCHANGED <<files, may, options, srv, config, preserved, votes, volatile, forgot, known, moved, damaged, left>>

DropState == DropForeign("state", "drop_state", "own_config", {"foreign_state"})

OwnConfig ==
    /\ pc = "own_config"
    /\ IF None \in {preserved.identity, preserved.bootstrap} THEN UNCHANGED <<files, may>>
       ELSE WriteSynced("config", {preserved.identity} \cup preserved.bootstrap.peers)
    /\ pc' = "up"
    /\ UNCHANGED <<options, srv, config, preserved, votes, volatile, forgot, known, moved, damaged, left>>

(* Another step fails: install_snapshot returns where it is and the node   *)
(* runs on.                                                                *)
InstallFails ==
    /\ pc \in Installing \ {"drop_config", "drop_state"}
    /\ left.faults > 0
    /\ left' = [left EXCEPT !.faults = @ - 1]
    /\ damaged' = damaged \cup {pc} \cup (IF pc = "wipe" THEN {"torn"} ELSE {})
    /\ pc' = "up"
    /\ UNCHANGED <<files, may, options, srv, config, preserved, votes, volatile, forgot, known, moved>>

-----------------------------------------------------------------------------
(* The process stops: what it wrote stays.  The machine loses power: every *)
(* file comes back with one of the contents it may have.                   *)

Stop(losses) ==
    /\ pc \notin {"down", "refused"}
    /\ pc' = "down"
    /\ forgot' = (forgot \/ volatile \cap losses # {})
    /\ damaged' = damaged \cup ({pc} \cap (Installing \cup {"bootstrap"}))
    /\ srv' = NewState /\ config' = {}
    /\ preserved' = [identity |-> None, bootstrap |-> None]
    /\ UNCHANGED <<options, votes, volatile, known, moved>>

Crash ==
    /\ Stop({"install", "failed"})
    /\ UNCHANGED <<files, may, left>>

PowerLoss ==
    /\ left.faults > 0
    /\ left' = [left EXCEPT !.faults = @ - 1]
    /\ \E i \in may["identity"], b \in may["bootstrap"], c \in may["config"], t \in may["state"] :
          files' = [identity |-> i, bootstrap |-> b, config |-> c, state |-> t]
    /\ may' = [f \in File |-> {files'[f]}]
    /\ Stop({"install", "failed", "unsynced"})

Next ==
    \/ \E built \in Options : Initialize(built)
    \/ PersistIdentity \/ PersistBootstrap \/ Launch
    \/ \E t \in 1..MaxTerm : NewTerm(t) \/ \E c \in Candidates : GrantVote(t, c)
    \/ \E o \in Options : SaveConfig(Members(o))
    \/ InstallBegin
    \/ \E f \in File : Wipe(f) \/ CopyMeta(f)
    \/ OwnIdentity \/ OwnBootstrap \/ DropConfig \/ DropState \/ OwnConfig
    \/ InstallFails
    \/ Crash \/ PowerLoss

Spec == Init /\ [][Next]_vars

-----------------------------------------------------------------------------
(* Properties.                                                             *)

(* Types; a file that is read is one of the contents it may have, and what *)
(* NuRaft is given for its term and vote is never half a file.             *)
TypeOK ==
    /\ files["identity"] \in Addresses \cup {None, Empty}
    /\ files["bootstrap"] \in [self : Addresses, peers : SUBSET Addresses] \cup {None, Empty}
    /\ files["config"] \in SUBSET Addresses \cup {None, Empty}
    /\ files["state"] \in ServerState \cup {None, Empty}
    /\ DOMAIN files = File /\ DOMAIN may = File
    /\ \A f \in File : files[f] \in may[f]
    /\ pc \in {"down", "refused", "up"} \cup Starting \cup Installing
    /\ options \in Options
    /\ srv \in ServerState
    /\ config \subseteq Addresses
    /\ volatile \subseteq {"unsynced", "failed", "install"}
    /\ damaged \subseteq Installing \cup {"bootstrap", "torn", "foreign_state"}
    /\ left \in [starts : 0..MaxStarts, installs : 0..MaxInstalls, faults : 0..MaxFaults]

(* The damage after which the directory may name somebody else or nobody.  *)
IdentityAtStake == damaged \ {"drop_config", "drop_state", "own_config", "foreign_state"}

(* A node never grants two different servers its vote in one term, however *)
(* often it restarts, unless a restart came while its srv_state.bin was    *)
(* missing after a snapshot install, older than memory after a write whose *)
(* failure save_state ignored, or not yet on disk when the power went.     *)
OneVoteUnlessForgotten ==
    ~forgot => \A v, w \in votes : v.term = w.term => v.vote = w.vote

(* A start with the address of the last accepted start is refused only if  *)
(* an install, or the rewriting of a moved single node, was cut short      *)
(* while the directory named the sender, nobody, or two addresses.         *)
RefusedOnlyWhenDamaged ==
    pc = "refused" /\ known # None /\ options.self = known.self => IdentityAtStake # {}

(* A node takes a new address only from a single-node configuration to a   *)
(* single-node configuration, as refresh_existing_metadata demands, unless *)
(* an interrupted install left it without the files that said who it is.   *)
MovesOnlyAlone ==
    [][ known # None /\ known' # known /\ known'.self # known.self
        => (known.peers = {} /\ known'.peers = {}) \/ IdentityAtStake # {} ]_vars

(* A node that has kept its address all along runs with a cluster          *)
(* configuration it is a member of, whether that is its own, one a leader  *)
(* sent, one rebuilt by an install, or the sender's, adopted when an       *)
(* install was cut short.  The exception is a node that ran on after an    *)
(* install failed with part of the directory removed: when only the        *)
(* bootstrap file was left, the next install puts that back beside the     *)
(* sender's identity, and a third one builds a configuration of the two,   *)
(* which a later start reads (README, section 3).                          *)
MemberUnlessMoved ==
    pc = "up" /\ ~moved /\ "torn" \notin damaged => options.self \in config

(* The same of a node that has moved ("single-node recovery after peer/IP  *)
(* drift"): it does not hold (README, section 3).                          *)
RunsAsMember == pc = "up" => options.self \in config

(* An install that comes to its end has left the node its own identity and *)
(* bootstrap configuration and a cluster configuration it belongs to, all  *)
(* three on disk whatever happens next, even if one of the two removals    *)
(* failed unnoticed on the way.  Only then is the sender's term and vote   *)
(* still there; otherwise none is, and none comes back after a power loss. *)
InstallKeepsIdentity ==
    [][ OwnConfig /\ IdentityAtStake = {}
        => /\ files'["identity"] = options.self
           /\ files'["bootstrap"] = options
           /\ files'["config"] = Members(options)
           /\ \A f \in {"identity", "bootstrap", "config"} : may'[f] = {files'[f]}
           /\ may'["state"] = {None} \/ "foreign_state" \in damaged ]_vars
=============================================================================
