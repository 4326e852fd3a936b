---------------------------- MODULE ContentStore ----------------------------
(***************************************************************************)
(* fish-cas: CasStorage over its local backend (storage.rs, backend.rs),   *)
(* alone or in front of a remote one.  An object is two files named by its *)
(* hash, one for the data and one for the metadata, which are written one  *)
(* after the other and removed one after the other without a lock.         *)
(*                                                                         *)
(* A client is one process that works on the store, as each command of     *)
(* `fish cache cas` is; its temporary files are its own, so a file that is *)
(* written aside appears with its rename.  The one file that is written in *)
(* place is the metadata of an object that was read.  Every object has     *)
(* size 1.  The contents of the data files are not modelled: store checks  *)
(* the hash of what it writes, and no data file is written in place.       *)
(***************************************************************************)
EXTENDS Integers, FiniteSets

CONSTANTS
  Hash,
  None,      \* no hash
  Client,
  MaxSize,   \* max_size_bytes of the configuration, more than 0
  Faults,    \* may a write or a request to the remote fail?
  Crashes    \* may a process end in the middle of an operation?

VARIABLES
  backend,   \* CasBackendType of the configuration
  data,      \* the hashes whose data file exists
  meta,      \* the metadata file of each hash
  writers,   \* the clients that have that very file open for writing
  rdata,     \* the remote: the hashes it has the data of
  rmeta,     \*             the hashes it has the metadata of
  pc, arg,   \* where each client is, and the hash it works on, if any
  op,        \* the operation it executes
  todo,      \* the hashes it has still to visit
  found,     \* what it has found: the objects counted, the entries of cleanup
  absent,    \* the clients whose last operation ended with ArtifactNotFound
  stored,    \* history: stored and acknowledged, and no removal has begun since
  calm,      \* history: clients that met no removal (see Begin)
  torn       \* history: hashes whose metadata were left half written, by a kill or a failed write

files == <<data, meta, writers, torn>>
remote == <<rdata, rmeta>>
flow == <<pc, arg, op, absent, calm>>
sets == <<todo, found>>
vars == <<backend, files, remote, flow, sets, stored>>

Removing == {"delete", "rm_data", "check_meta", "rm_meta", "rdel_data", "rdel_meta"}
PC == {"idle", "quota", "data", "meta", "put_meta", "put_data", "look_local", "look", "read_meta", "read_data",
       "truncate", "rewrite", "get_meta", "get_data", "plan"} \cup Removing

TypeOK ==
  /\ backend \in {"Local", "Hybrid"}
  /\ data \subseteq Hash /\ meta \in [Hash -> {"none", "torn", "whole"}]
  /\ writers \in [Hash -> SUBSET Client]
  /\ rdata \subseteq Hash /\ rmeta \subseteq Hash
  /\ pc \in [Client -> PC] /\ arg \in [Client -> Hash \cup {None}]
  /\ op \in [Client -> {"none", "store", "retrieve", "delete", "cleanup"}]
  /\ todo \in [Client -> SUBSET Hash] /\ found \in [Client -> SUBSET Hash]
  /\ absent \subseteq Client /\ calm \subseteq Client
  /\ stored \subseteq Hash /\ torn \subseteq Hash
  /\ \A c \in Client : pc[c] = "idle" =>
       todo[c] = {} /\ found[c] = {} /\ \A h \in Hash : c \notin writers[h]

Init ==
  /\ backend \in {"Local", "Hybrid"}
  /\ data = {} /\ meta = [h \in Hash |-> "none"] /\ writers = [h \in Hash |-> {}]
  /\ rdata = {} /\ rmeta = {}
  /\ pc = [c \in Client |-> "idle"] /\ op = [c \in Client |-> "none"]
  /\ arg = [c \in Client |-> None] /\ absent = {} /\ calm = {}
  /\ todo = [c \in Client |-> {}] /\ found = [c \in Client |-> {}]
  /\ stored = {} /\ torn = {}

\* Slip: an object whose metadata cannot be parsed does not exist.
Exists_Parsed(h) == h \in data /\ meta[h] = "whole"

(* LocalCasBackend::exists, and what its stats counts. *)
Exists(h) == h \in data /\ meta[h] # "none"
Counted(h) == h \in data /\ meta[h] = "whole"

-----------------------------------------------------------------------------
Goto(c, l) == pc' = [pc EXCEPT ![c] = l] /\ UNCHANGED <<op, arg, absent, calm>>

Leave(c) ==
  /\ pc' = [pc EXCEPT ![c] = "idle"] /\ op' = [op EXCEPT ![c] = "none"]
  /\ arg' = [arg EXCEPT ![c] = None] /\ calm' = calm \ {c}
End(c) == Leave(c) /\ UNCHANGED absent
EndAbsent(c) == Leave(c) /\ absent' = absent \cup {c}

(* calm: a client that stores an object nobody is removing, or retrieves   *)
(* one that is known to be there, until a removal of the object begins.    *)
Begin(c, o, l, h) ==
  /\ pc[c] = "idle"
  /\ pc' = [pc EXCEPT ![c] = l] /\ op' = [op EXCEPT ![c] = o] /\ arg' = [arg EXCEPT ![c] = h]
  /\ absent' = absent \ {c}
  /\ UNCHANGED <<files, remote>>

Disturb(h) ==
  /\ stored' = stored \ {h}
  /\ calm' = {d \in calm : arg[d] # h}

Store(c, h) ==
  /\ Begin(c, "store", "quota", h)
  /\ calm' = IF \E d \in Client : pc[d] \in Removing /\ arg[d] = h THEN calm ELSE calm \cup {c}
  /\ todo' = [todo EXCEPT ![c] = data]
  /\ UNCHANGED <<found, stored>>

(* stats: one object of the list after the other. *)
Count(c) ==
  /\ pc[c] = "quota"
  /\ \E h \in todo[c] :
       /\ todo' = [todo EXCEPT ![c] = @ \ {h}]
       /\ found' = [found EXCEPT ![c] = IF Counted(h) THEN @ \cup {h} ELSE @]
  /\ UNCHANGED <<flow, files, remote, stored>>

(* The remote counts as empty when it does not answer. *)
RemoteBytes ==
  IF backend = "Local" THEN {0}
  ELSE {Cardinality(rdata)} \cup (IF Faults THEN {0} ELSE {})

CheckQuota(c) ==
  /\ pc[c] = "quota" /\ todo[c] = {}
  /\ \E bytes \in RemoteBytes :
       IF Cardinality(found[c]) + bytes + 1 > MaxSize THEN End(c) ELSE Goto(c, "data")
  /\ found' = [found EXCEPT ![c] = {}]
  /\ UNCHANGED <<files, remote, todo, stored>>

(* LocalCasBackend::store, for a store or to keep what was downloaded. *)
RenameData(c) ==
  /\ pc[c] = "data"
  /\ data' = data \cup {arg[c]}
  /\ Goto(c, "meta")
  /\ UNCHANGED <<meta, writers, torn, remote, sets, stored>>

Acknowledge(c) ==
  /\ End(c)
  /\ stored' = IF op[c] = "store" /\ c \in calm THEN stored \cup {arg[c]} ELSE stored

\* Slip: a hybrid store keeps to the local backend.
RenameMeta_Local(c) ==
  /\ pc[c] = "meta"
  /\ meta' = [meta EXCEPT ![arg[c]] = "whole"]
  /\ writers' = [writers EXCEPT ![arg[c]] = {}]
  /\ torn' = torn \ {arg[c]}
  /\ Acknowledge(c)
  /\ UNCHANGED <<data, remote, sets>>

RenameMeta(c) ==
  /\ pc[c] = "meta"
  /\ meta' = [meta EXCEPT ![arg[c]] = "whole"]
  /\ writers' = [writers EXCEPT ![arg[c]] = {}]
  /\ torn' = torn \ {arg[c]}
  /\ IF op[c] = "store" /\ backend = "Hybrid"
     THEN Goto(c, "put_meta") /\ UNCHANGED stored
     ELSE Acknowledge(c)
  /\ UNCHANGED <<data, remote, sets>>

WriteFails(c) ==
  /\ Faults /\ pc[c] \in {"data", "meta"}
  /\ End(c)
  /\ UNCHANGED <<files, remote, sets, stored>>

(* RemoteCasBackendImpl::upload: the metadata, then the data. *)
PutMeta(c) ==
  /\ pc[c] = "put_meta"
  /\ rmeta' = rmeta \cup {arg[c]}
  /\ Goto(c, "put_data")
  /\ UNCHANGED <<files, rdata, sets, stored>>

PutData(c) ==
  /\ pc[c] = "put_data"
  /\ rdata' = rdata \cup {arg[c]}
  /\ Acknowledge(c)
  /\ UNCHANGED <<files, rmeta, sets>>

(* The request was lost, or its answer was. *)
PutFails(c) ==
  /\ Faults
  /\ \/ pc[c] = "put_meta" /\ rmeta' \in {rmeta, rmeta \cup {arg[c]}} /\ UNCHANGED rdata
     \/ pc[c] = "put_data" /\ rdata' \in {rdata, rdata \cup {arg[c]}} /\ UNCHANGED rmeta
  /\ End(c)
  /\ UNCHANGED <<files, sets, stored>>

-----------------------------------------------------------------------------
Retrieve(c, h) ==
  /\ Begin(c, "retrieve", IF backend = "Hybrid" THEN "look_local" ELSE "look", h)
  /\ calm' = IF h \in stored THEN calm \cup {c} ELSE calm
  /\ UNCHANGED <<sets, stored>>

(* HybridCasBackend::retrieve; the local one looks again. *)
LookLocal(c) ==
  /\ pc[c] = "look_local"
  /\ Goto(c, IF Exists(arg[c]) THEN "look" ELSE "get_meta")
  /\ UNCHANGED <<files, remote, sets, stored>>

Look(c) ==
  /\ pc[c] = "look"
  /\ IF Exists(arg[c]) THEN Goto(c, "read_meta") ELSE EndAbsent(c)
  /\ UNCHANGED <<files, remote, sets, stored>>

ReadMeta(c) ==
  /\ pc[c] = "read_meta"
  /\ IF meta[arg[c]] = "whole" THEN Goto(c, "read_data") ELSE End(c)
  /\ UNCHANGED <<files, remote, sets, stored>>

ReadData(c) ==
  /\ pc[c] = "read_data"
  /\ IF arg[c] \in data THEN Goto(c, "truncate") ELSE End(c)
  /\ UNCHANGED <<files, remote, sets, stored>>

(* fs::write on the metadata file: it is truncated or created, then        *)
(* written.  Only the file at the path is seen by others: what is written  *)
(* to one that was replaced or removed in between is lost.                 *)
Truncate(c) ==
  /\ pc[c] = "truncate"
  /\ meta' = [meta EXCEPT ![arg[c]] = "torn"]
  /\ writers' = [writers EXCEPT ![arg[c]] = @ \cup {c}]
  /\ Goto(c, "rewrite")
  /\ UNCHANGED <<data, torn, remote, sets, stored>>

(* The file cannot be opened: the retrieve succeeds all the same.          *)
TruncateFails(c) ==
  /\ Faults /\ pc[c] = "truncate"
  /\ End(c)
  /\ UNCHANGED <<files, remote, sets, stored>>

Rewrite(c) ==
  /\ pc[c] = "rewrite"
  /\ IF c \in writers[arg[c]]
     THEN /\ meta' = [meta EXCEPT ![arg[c]] = "whole"]
          /\ writers' = [writers EXCEPT ![arg[c]] = @ \ {c}]
          /\ torn' = torn \ {arg[c]}
     ELSE UNCHANGED <<meta, writers, torn>>
  /\ End(c)
  /\ UNCHANGED <<data, remote, sets, stored>>

(* A process that is killed, or whose write fails, leaves the file it has  *)
(* truncated as it is by then.                                             *)
Abandon(c) ==
  /\ writers' = [h \in Hash |-> writers[h] \ {c}]
  /\ torn' = torn \cup {h \in Hash : c \in writers[h] /\ meta[h] = "torn"}

(* The file was truncated, and what should be in it cannot be written: the *)
(* error is dropped, and the retrieve succeeds.                            *)
RewriteFails(c) ==
  /\ Faults /\ pc[c] = "rewrite"
  /\ Abandon(c)
  /\ End(c)
  /\ UNCHANGED <<data, meta, remote, sets, stored>>

(* RemoteCasBackendImpl::download; what it returns is kept locally. *)
Download(c) ==
  /\ \/ pc[c] = "get_meta" /\ IF arg[c] \in rmeta THEN Goto(c, "get_data") ELSE EndAbsent(c)
     \/ pc[c] = "get_data" /\ IF arg[c] \in rdata THEN Goto(c, "data") ELSE EndAbsent(c)
     \/ pc[c] \in {"get_meta", "get_data"} /\ Faults /\ End(c)
  /\ UNCHANGED <<files, remote, sets, stored>>

-----------------------------------------------------------------------------
Delete(c, h) ==
  /\ Begin(c, "delete", "delete", h)
  /\ Disturb(h)
  /\ UNCHANGED sets

CheckData(c) ==
  /\ pc[c] = "delete"
  /\ Goto(c, IF arg[c] \in data THEN "rm_data" ELSE "check_meta")
  /\ UNCHANGED <<files, remote, sets, stored>>

\* Slip: the plan of a cleanup that failed is left behind.
RemoveData_KeepPlan(c) ==
  /\ pc[c] = "rm_data"
  /\ data' = data \ {arg[c]}
  /\ IF arg[c] \in data THEN Goto(c, "check_meta") ELSE End(c)
  /\ UNCHANGED <<meta, writers, torn, remote, sets, stored>>

(* remove_file fails when another client has removed the file meanwhile;   *)
(* the error ends the delete, and a cleanup it belongs to.                 *)
RemoveData(c) ==
  /\ pc[c] = "rm_data"
  /\ data' = data \ {arg[c]}
  /\ IF arg[c] \in data
     THEN Goto(c, "check_meta") /\ UNCHANGED found
     ELSE End(c) /\ found' = [found EXCEPT ![c] = {}]
  /\ UNCHANGED <<meta, writers, torn, remote, todo, stored>>

RemovalDone(c) == IF op[c] = "cleanup" THEN Goto(c, "plan") ELSE End(c)
LocalDone(c) == IF backend = "Hybrid" THEN Goto(c, "rdel_data") ELSE RemovalDone(c)

CheckMeta(c) ==
  /\ pc[c] = "check_meta"
  /\ IF meta[arg[c]] # "none" THEN Goto(c, "rm_meta") ELSE LocalDone(c)
  /\ UNCHANGED <<files, remote, sets, stored>>

RemoveMeta(c) ==
  /\ pc[c] = "rm_meta"
  /\ meta' = [meta EXCEPT ![arg[c]] = "none"]
  /\ writers' = [writers EXCEPT ![arg[c]] = {}]
  /\ torn' = torn \ {arg[c]}
  /\ IF meta[arg[c]] # "none"
     THEN LocalDone(c) /\ UNCHANGED found
     ELSE End(c) /\ found' = [found EXCEPT ![c] = {}]
  /\ UNCHANGED <<data, remote, todo, stored>>

(* RemoteCasBackendImpl::delete ignores every error. *)
RemoteDelete(c) ==
  /\ \/ /\ pc[c] = "rdel_data" /\ Goto(c, "rdel_meta")
        /\ rdata' \in {rdata \ {arg[c]}} \cup (IF Faults THEN {rdata} ELSE {})
        /\ UNCHANGED rmeta
     \/ /\ pc[c] = "rdel_meta" /\ RemovalDone(c)
        /\ rmeta' \in {rmeta \ {arg[c]}} \cup (IF Faults THEN {rmeta} ELSE {})
        /\ UNCHANGED rdata
  /\ UNCHANGED <<files, sets, stored>>

-----------------------------------------------------------------------------
(* cleanup lists the objects and reads the metadata of each; the policy    *)
(* selects some of them, any of them here, and those are deleted in turn.  *)
Cleanup(c) ==
  /\ Begin(c, "cleanup", "plan", None)
  /\ todo' = [todo EXCEPT ![c] = IF backend = "Hybrid" THEN data \cup rdata ELSE data]
  /\ UNCHANGED <<calm, found, stored>>

HasMetadata(h) ==
  IF backend = "Local" \/ Exists(h) THEN meta[h] = "whole" ELSE h \in rmeta

Plan(c) ==
  /\ pc[c] = "plan"
  /\ \E h \in todo[c] :
       /\ todo' = [todo EXCEPT ![c] = @ \ {h}]
       /\ \/ UNCHANGED found
          \/ HasMetadata(h) /\ found' = [found EXCEPT ![c] = @ \cup {h}]
  /\ UNCHANGED <<flow, files, remote, stored>>

RemoveNext(c) ==
  /\ pc[c] = "plan" /\ todo[c] = {}
  /\ \/ found[c] = {} /\ End(c) /\ UNCHANGED <<found, stored>>
     \/ \E h \in found[c] :
          /\ pc' = [pc EXCEPT ![c] = "delete"] /\ arg' = [arg EXCEPT ![c] = h]
          /\ found' = [found EXCEPT ![c] = @ \ {h}]
          /\ Disturb(h)
          /\ UNCHANGED <<op, absent>>
  /\ UNCHANGED <<files, remote, todo>>

-----------------------------------------------------------------------------
Crash(c) ==
  /\ Crashes /\ pc[c] # "idle"
  /\ End(c)
  /\ Abandon(c)
  /\ todo' = [todo EXCEPT ![c] = {}] /\ found' = [found EXCEPT ![c] = {}]
  /\ UNCHANGED <<data, meta, remote, stored>>

ClientStep(c) ==
  \/ \E h \in Hash : Store(c, h) \/ Retrieve(c, h) \/ Delete(c, h)
  \/ Cleanup(c)
  \/ Count(c) \/ CheckQuota(c) \/ RenameData(c) \/ RenameMeta(c) \/ WriteFails(c)
  \/ PutMeta(c) \/ PutData(c) \/ PutFails(c)
  \/ LookLocal(c) \/ Look(c) \/ ReadMeta(c) \/ ReadData(c) \/ Download(c)
  \/ Truncate(c) \/ TruncateFails(c) \/ Rewrite(c) \/ RewriteFails(c)
  \/ CheckData(c) \/ RemoveData(c) \/ CheckMeta(c) \/ RemoveMeta(c) \/ RemoteDelete(c)
  \/ Plan(c) \/ RemoveNext(c) \/ Crash(c)

Next == (\E c \in Client : ClientStep(c)) /\ UNCHANGED backend

Spec == Init /\ [][Next]_vars

-----------------------------------------------------------------------------
(* Both files of an object are there, and in front of a remote both parts  *)
(* of it.                                                                  *)
Kept(h) ==
  /\ h \in data /\ meta[h] # "none"
  /\ backend = "Hybrid" => h \in rdata \cap rmeta

(* Its metadata can be read, now or once a reader has rewritten them.      *)
Legible(h) == meta[h] = "whole" \/ writers[h] # {}

(* An object whose store was acknowledged, and that nobody has begun to    *)
(* remove since, is kept, and nothing but a rewrite that was cut short can *)
(* have left its metadata illegible: the order of the two files and of the *)
(* two requests, and readers who write, against every other operation.     *)
StoredSurvives == \A h \in stored : Kept(h) /\ (Legible(h) \/ h \in torn)

(* A retrieve never answers that such an object is not there. *)
NoFalseAbsence == [][\A c \in absent' \ absent : c \notin calm]_vars
=============================================================================
