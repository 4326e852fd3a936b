--------------------------- MODULE CompositeCache ---------------------------
(***************************************************************************)
(* fish-remote-cache/src: machines that build the same task, each with a   *)
(* local cache, and the remote cache they share.  The remote keeps the     *)
(* last fingerprint and the last artifact it was sent for a key, in two    *)
(* tables filled by separate requests.                                     *)
(*                                                                         *)
(* One key: keys meet only in the objects of a local cache, which are      *)
(* named by their content.  An artifact is known by the fingerprint it was *)
(* made from.  The task has artifacts; without them nothing is restored    *)
(* or stored.  The local cache is reduced to its record and objects (see   *)
(* LocalCache for the steps that change them).                             *)
(***************************************************************************)
EXTENDS FiniteSets

CONSTANTS
  Machine,
  Version,     \* the fingerprints that the task may have
  Nothing,     \* no record, no fingerprint, no artifact
  OneAtATime,  \* does a build begin, or a prune, only when no build is under way?
  Unreliable,  \* may writes and requests fail, and requests arrive late?
  Killable,    \* may a build be killed?
  Storage      \* has the server a storage directory?

ASSUME CompositeAssumption ==
  /\ Nothing \notin Version
  /\ {OneAtATime, Unreliable, Killable, Storage} \subseteq BOOLEAN

Artifact == Version
MachineRecord == [fp : Version \cup {Nothing}, hash : Artifact \cup {Nothing}]
Message == [to : {"fp", "art"}, val : Version]

VARIABLES
  results,   \* what the outputs on each machine were made from
  local,     \* the record in each local cache
  stores,    \* the objects in each local cache
  remote,    \* the remote's fingerprint and artifact for the key, and the artifact on its disk
  late,      \* puts whose client gave up waiting
  pc,        \* where each machine is in execute
  call,      \* what it executes, what it packed, and where it found a hit
  succeeded  \* history: the fingerprints executed successfully

compositeVars == <<results, local, stores, remote, late, pc, call, succeeded>>

NoRecord == [fp |-> Nothing, hash |-> Nothing]
NoCall == [fp |-> Nothing, hash |-> Nothing, via |-> "none"]
AllIdle == \A m \in Machine : pc[m] = "idle"

CompositeInit ==
  /\ results = [m \in Machine |-> Nothing]
  /\ local = [m \in Machine |-> NoRecord]
  /\ stores = [m \in Machine |-> {}]
  /\ remote = [fp |-> Nothing, art |-> Nothing, disk |-> Nothing]
  /\ late = {}
  /\ pc = [m \in Machine |-> "idle"]
  /\ call = [m \in Machine |-> NoCall]
  /\ succeeded = {}

At(m, step) == pc[m] = step
MoveTo(m, step) == pc' = [pc EXCEPT ![m] = step]
Return(m) == MoveTo(m, "idle") /\ call' = [call EXCEPT ![m] = NoCall]
Maybe(S) == IF Unreliable THEN S ELSE {}

-----------------------------------------------------------------------------
(* The remote server.  A put replaces what the key had, and an artifact is *)
(* written to disk too, unless that fails or the server ends before it.    *)
Replaced(r, to, v) == [r EXCEPT ![to] = v]

\* Slip: an artifact is kept once it is there.
ServerStored_First(r, to, v) == IF to = "art" /\ r.art # Nothing THEN r ELSE Replaced(r, to, v)

ServerStored(r, to, v) ==
  IF to = "art" /\ Storage THEN [r EXCEPT !.art = v, !.disk = v] ELSE Replaced(r, to, v)

Handled(to, v) == {ServerStored(remote, to, v)} \cup Maybe({Replaced(remote, to, v)})

(* A put by a client, which tries three times and ignores the result.  The *)
(* server may get it never, or again long after the client gave up on it.  *)
Send(to, v) ==
  /\ remote' \in Handled(to, v) \cup Maybe({remote})
  /\ late' \in {late} \cup Maybe({late \cup {[to |-> to, val |-> v]}})

LateArrives ==
  /\ \E q \in late : remote' \in Handled(q.to, q.val) /\ late' = late \ {q}
  /\ UNCHANGED <<results, local, stores, pc, call, succeeded>>

(* Fingerprints are on disk only if the key has no slash: the keys of all  *)
(* backends have one.                                                      *)
ServerRestart ==
  /\ OneAtATime => AllIdle
  /\ remote' = [fp |-> Nothing, art |-> remote.disk, disk |-> remote.disk]
  /\ late' = {}
  /\ UNCHANGED <<results, local, stores, pc, call, succeeded>>

-----------------------------------------------------------------------------
(* CompositeCachingExecutor.execute on machine m *)

ExecuteComposite(m, f) ==
  /\ At(m, "idle")
  /\ OneAtATime => AllIdle
  /\ MoveTo(m, "local")
  /\ call' = [call EXCEPT ![m] = [fp |-> f, hash |-> Nothing, via |-> "none"]]
  /\ UNCHANGED <<results, local, stores, remote, late, succeeded>>

Hit(m, via) ==
  /\ MoveTo(m, "restore")
  /\ call' = [call EXCEPT ![m] = [fp |-> call[m].fp, hash |-> Nothing, via |-> via]]

MatchLocal(m) ==
  /\ At(m, "local")
  /\ IF local[m].fp = call[m].fp THEN Hit(m, "local")
     ELSE MoveTo(m, "remote") /\ UNCHANGED call
  /\ UNCHANGED <<results, local, stores, remote, late, succeeded>>

\* Slip: a fingerprint at the remote is taken for this one.
Matches_Any(r, f) == r.fp # Nothing

Matches(r, f) == r.fp = f

(* A hit at the remote is recorded locally, without the name of an artifact. *)
MatchRemote(m) ==
  /\ At(m, "remote")
  /\ \/ /\ Matches(remote, call[m].fp)
        /\ local' \in {[local EXCEPT ![m] = [fp |-> call[m].fp, hash |-> Nothing]]}
                        \cup Maybe({local})
        /\ Hit(m, "remote")
     \/ /\ ~Matches(remote, call[m].fp) \/ Unreliable
        /\ MoveTo(m, "run")
        /\ UNCHANGED <<local, call>>
  /\ UNCHANGED <<results, stores, remote, late, succeeded>>

(* Unpacking over the outputs may fail half way, which is only counted. *)
Unpack(m, a) ==
  results' \in {[results EXCEPT ![m] = a]} \cup Maybe({[results EXCEPT ![m] = Nothing]})

HasObject(m) == local[m].hash \in stores[m]

RestoreLocal(m) ==
  /\ At(m, "restore")
  /\ IF HasObject(m)
     THEN Unpack(m, local[m].hash) /\ MoveTo(m, "cached")
     ELSE MoveTo(m, "fetch") /\ UNCHANGED results
  /\ UNCHANGED <<local, stores, remote, late, call, succeeded>>

(* get_artifact asks the remote by key; nothing found is nothing restored. *)
Fetch(m) ==
  /\ At(m, "fetch")
  /\ \/ /\ remote.art # Nothing
        /\ stores' \in {[stores EXCEPT ![m] = @ \cup {remote.art}]} \cup Maybe({stores})
        /\ Unpack(m, remote.art)
     \/ /\ remote.art = Nothing \/ Unreliable
        /\ UNCHANGED <<stores, results>>
  /\ MoveTo(m, "cached")
  /\ UNCHANGED <<local, remote, late, call, succeeded>>

ReturnCached(m) ==
  /\ At(m, "cached")
  /\ Return(m)
  /\ UNCHANGED <<results, local, stores, remote, late, succeeded>>

MachineRunOk(m) ==
  /\ At(m, "run")
  /\ results' = [results EXCEPT ![m] = call[m].fp]
  /\ succeeded' = succeeded \cup {call[m].fp}
  /\ MoveTo(m, "store")
  /\ UNCHANGED <<local, stores, remote, late, call>>

\* Slip: what a failed command left is stored like any other result.
MachineRunFails_Stored(m) ==
  /\ At(m, "run")
  /\ results' = [results EXCEPT ![m] = Nothing]
  /\ MoveTo(m, "store")
  /\ UNCHANGED <<local, stores, remote, late, call, succeeded>>

MachineRunFails(m) ==
  /\ At(m, "run")
  /\ results' \in {results, [results EXCEPT ![m] = Nothing]}
  /\ Return(m)
  /\ UNCHANGED <<local, stores, remote, late, succeeded>>

(* store_artifacts: pack, put in the local store, send; a failure to pack  *)
(* leaves the record without an artifact.                                  *)
StoreLocal(m) ==
  /\ At(m, "store")
  /\ \/ /\ stores' \in {[stores EXCEPT ![m] = @ \cup {call[m].fp}]} \cup Maybe({stores})
        /\ MoveTo(m, "send")
        /\ call' = [call EXCEPT ![m] = [fp |-> call[m].fp, hash |-> call[m].fp, via |-> "none"]]
     \/ Unreliable /\ MoveTo(m, "put") /\ UNCHANGED <<stores, call>>
  /\ UNCHANGED <<results, local, remote, late, succeeded>>

SendArtifact(m) ==
  /\ At(m, "send")
  /\ Send("art", call[m].hash)
  /\ MoveTo(m, "put")
  /\ UNCHANGED <<results, local, stores, call, succeeded>>

(* put_with_artifact: the local record, the fingerprint, and the artifact  *)
(* once more if the local store has it.                                    *)
PutLocal(m) ==
  /\ At(m, "put")
  /\ local' \in {[local EXCEPT ![m] = [fp |-> call[m].fp, hash |-> call[m].hash]]}
                  \cup Maybe({local})
  /\ MoveTo(m, "sendfp")
  /\ UNCHANGED <<results, stores, remote, late, call, succeeded>>

SendFingerprint(m) ==
  /\ At(m, "sendfp")
  /\ Send("fp", call[m].fp)
  /\ MoveTo(m, "resend")
  /\ UNCHANGED <<results, local, stores, call, succeeded>>

SendAgain(m) ==
  /\ At(m, "resend")
  /\ IF call[m].hash \in stores[m] THEN Send("art", call[m].hash)
     ELSE UNCHANGED <<remote, late>>
  /\ Return(m)
  /\ UNCHANGED <<results, local, stores, succeeded>>

-----------------------------------------------------------------------------
(* What else happens on a machine.  Its cache is pruned, or lost; a prune  *)
(* beside a build may also take an object and leave the record.            *)
Prune(m) ==
  /\ OneAtATime => AllIdle
  /\ stores' \in {[stores EXCEPT ![m] = S] : S \in SUBSET stores[m]}
  /\ local' \in {[local EXCEPT ![m] = NoRecord]} \cup IF OneAtATime THEN {} ELSE {local}
  /\ UNCHANGED <<results, remote, late, pc, call, succeeded>>

(* The outputs are deleted, as by a fresh checkout. *)
Clean(m) ==
  /\ At(m, "idle")
  /\ results' = [results EXCEPT ![m] = Nothing]
  /\ UNCHANGED <<local, stores, remote, late, pc, call, succeeded>>

Crash(m) ==
  /\ Killable /\ ~At(m, "idle")
  /\ Return(m)
  /\ UNCHANGED <<results, local, stores, remote, late, succeeded>>

MachineStep(m) ==
  \/ \E f \in Version : ExecuteComposite(m, f)
  \/ MatchLocal(m) \/ MatchRemote(m) \/ RestoreLocal(m) \/ Fetch(m) \/ ReturnCached(m)
  \/ MachineRunOk(m) \/ MachineRunFails(m) \/ StoreLocal(m) \/ SendArtifact(m) \/ PutLocal(m)
  \/ SendFingerprint(m) \/ SendAgain(m)
  \/ Prune(m) \/ Clean(m) \/ Crash(m)

CompositeNext == (\E m \in Machine : MachineStep(m)) \/ LateArrives \/ ServerRestart

CompositeSpec == CompositeInit /\ [][CompositeNext]_compositeVars

-----------------------------------------------------------------------------
Steps == {"idle", "local", "remote", "restore", "fetch", "cached",
          "run", "store", "send", "put", "sendfp", "resend"}
Call == [fp : Version \cup {Nothing}, hash : Artifact \cup {Nothing},
         via : {"none", "local", "remote"}]

(* The values the variables take; what is sent as an artifact is one. *)
CompositeTypeOK ==
  /\ results \in [Machine -> Artifact \cup {Nothing}]
  /\ local \in [Machine -> MachineRecord]
  /\ stores \in [Machine -> SUBSET Artifact]
  /\ remote \in [fp : Version \cup {Nothing}, art : Artifact \cup {Nothing},
                  disk : Artifact \cup {Nothing}]
  /\ late \in SUBSET Message
  /\ pc \in [Machine -> Steps]
  /\ call \in [Machine -> Call]
  /\ \A m \in Machine : ~At(m, "idle") => call[m].fp # Nothing
  /\ \A m \in Machine : At(m, "send") => call[m].hash # Nothing
  /\ succeeded \in SUBSET Version

(* Whatever fails, is lost, arrives late or is killed, no local cache and  *)
(* not the remote holds a fingerprint or an artifact of a build that did   *)
(* not succeed on some machine; and a build past its command has nothing   *)
(* else to give away.                                                      *)
NothingUnbuiltIsShared ==
  /\ \A m \in Machine :
       /\ {local[m].fp, local[m].hash, call[m].hash} \subseteq succeeded \cup {Nothing}
       /\ stores[m] \subseteq succeeded
       /\ pc[m] \in {"restore", "fetch", "cached", "store", "send", "put", "sendfp", "resend"}
            => call[m].fp \in succeeded
  /\ {remote.fp, remote.art, remote.disk} \subseteq succeeded \cup {Nothing}
  /\ \A q \in late : q.val \in succeeded

(* Inductive as it stands, with the types. *)
IInv == CompositeTypeOK /\ NothingUnbuiltIsShared

(* "a cached task must restore its artifacts before dependents run": when  *)
(* a task is answered with Cached, its outputs are those of its            *)
(* fingerprint.                                                            *)
CachedMeansRestored ==
  \A m \in Machine : At(m, "cached") => results[m] = call[m].fp

(* If machines build in turn, it is so for a hit at the remote, and for a   *)
(* local hit on a record that names its artifact.                          *)
HitRestores ==
  \A m \in Machine :
    At(m, "cached") /\ (call[m].via = "remote" \/ local[m].hash # Nothing)
      => results[m] = call[m].fp

(* Between builds, the two tables of the remote are about the same build,  *)
(* although they are filled by three requests.                             *)
RemoteAgrees == AllIdle /\ remote.fp # Nothing => remote.art = remote.fp

(* Machines that build in turn, and nothing fails or is killed.  The       *)
(* inductive strengthening of the two: a record that names its artifact    *)
(* has the object; the tables of the remote differ only between the        *)
(* request for the artifact and that for the fingerprint; and a hit at the *)
(* remote has left a record without a name, so that it is not taken for    *)
(* one of an older build.                                                  *)
InTurns == OneAtATime /\ ~Unreliable /\ ~Killable

TurnsInv ==
  /\ InTurns
  /\ late = {}
  /\ \A m, n \in Machine : ~At(m, "idle") /\ ~At(n, "idle") => m = n
  /\ \A m \in Machine :
       local[m].hash # Nothing => local[m].hash = local[m].fp /\ local[m].hash \in stores[m]
  /\ (\A m \in Machine : pc[m] \notin {"put", "sendfp"}) /\ remote.fp # Nothing
       => remote.art = remote.fp
  /\ \A m \in Machine :
       /\ pc[m] \in {"send", "put", "sendfp", "resend"}
            => call[m].hash = call[m].fp /\ call[m].fp \in stores[m]
       /\ pc[m] \in {"put", "sendfp", "resend"} => remote.art = call[m].fp
       /\ pc[m] \in {"restore", "fetch"} /\ call[m].via = "remote"
            => local[m].hash = Nothing /\ remote.art = call[m].fp
       /\ pc[m] \in {"restore", "fetch"} /\ call[m].via # "remote" => local[m].fp = call[m].fp
       /\ pc[m] = "fetch" => local[m].hash = Nothing
       /\ pc[m] = "cached" /\ (call[m].via = "remote" \/ local[m].hash # Nothing)
            => results[m] = call[m].fp

=============================================================================
