------------------------ MODULE CompositeCacheProofs ------------------------
(***************************************************************************)
(* For every number of machines and fingerprints.  Whatever may fail: the  *)
(* types, and that nothing is shared that was not built.  For machines     *)
(* that build in turn and do not fail: the two tables of the remote agree, *)
(* and a hit restores what the task builds.                                *)
(***************************************************************************)
EXTENDS CompositeCache, TLAPS

(* Whatever the server does with a value that was built, all it has was.   *)
LEMMA HandledStep ==
  ASSUME CompositeTypeOK, {remote.fp, remote.art, remote.disk} \subseteq succeeded \cup {Nothing},
         NEW to \in {"fp", "art"}, NEW v \in succeeded, remote' \in Handled(to, v)
  PROVE  /\ remote' \in [fp : Version \cup {Nothing}, art : Artifact \cup {Nothing},
                          disk : Artifact \cup {Nothing}]
         /\ {remote'.fp, remote'.art, remote'.disk} \subseteq succeeded \cup {Nothing}
<1>1. v \in Version
  BY DEF CompositeTypeOK
<1>2. CASE to = "fp"
  BY <1>1, <1>2 DEF CompositeTypeOK, Handled, Maybe, ServerStored, Replaced, Artifact
<1>3. CASE to = "art"
  <2>1. CASE remote' = [remote EXCEPT !.art = v]
    BY <1>1, <2>1 DEF CompositeTypeOK, Artifact
  <2>2. CASE remote' = [remote EXCEPT !.art = v, !.disk = v]
    BY <1>1, <2>2 DEF CompositeTypeOK, Artifact
  <2>3. QED
    BY <1>3, <2>1, <2>2 DEF Handled, Maybe, ServerStored, Replaced
<1>4. QED
  BY <1>2, <1>3

(* Nothing but a value that was built may be sent. *)
LEMMA SendStep ==
  ASSUME CompositeTypeOK, {remote.fp, remote.art, remote.disk} \subseteq succeeded \cup {Nothing},
         \A q \in late : q.val \in succeeded,
         NEW to \in {"fp", "art"}, NEW v \in succeeded, Send(to, v)
  PROVE  /\ remote' \in [fp : Version \cup {Nothing}, art : Artifact \cup {Nothing},
                          disk : Artifact \cup {Nothing}]
         /\ late' \in SUBSET Message
         /\ {remote'.fp, remote'.art, remote'.disk} \subseteq succeeded \cup {Nothing}
         /\ \A q \in late' : q.val \in succeeded
<1>1. v \in Version
  BY DEF CompositeTypeOK
<1>2. /\ remote' \in [fp : Version \cup {Nothing}, art : Artifact \cup {Nothing},
                       disk : Artifact \cup {Nothing}]
      /\ {remote'.fp, remote'.art, remote'.disk} \subseteq succeeded \cup {Nothing}
  <2>1. CASE remote' \in Handled(to, v)
    BY <2>1, HandledStep
  <2>2. CASE UNCHANGED remote
    BY <2>2 DEF CompositeTypeOK
  <2>3. QED
    BY <2>1, <2>2 DEF Send, Maybe
<1>3. late' \in SUBSET Message /\ \A q \in late' : q.val \in succeeded
  <2>1. CASE late' = late \cup {[to |-> to, val |-> v]}
    BY <1>1, <2>1 DEF CompositeTypeOK, Message
  <2>2. CASE UNCHANGED late
    BY <2>2 DEF CompositeTypeOK
  <2>3. QED
    BY <2>1, <2>2 DEF Send, Maybe
<1>4. QED
  BY <1>2, <1>3

LEMMA InitInv == CompositeInit => IInv
BY DEF CompositeInit, IInv, CompositeTypeOK, NothingUnbuiltIsShared, At, NoRecord, NoCall,
       MachineRecord, Call, Steps

(* Asking: the two lookups, the restore and the answer. *)
LEMMA AskStep ==
  ASSUME IInv, NEW m \in Machine,
         \/ \E f \in Version : ExecuteComposite(m, f)
         \/ MatchLocal(m) \/ MatchRemote(m) \/ RestoreLocal(m) \/ Fetch(m) \/ ReturnCached(m)
  PROVE  IInv'
<1> USE DEF IInv, CompositeTypeOK, NothingUnbuiltIsShared, At, MoveTo, Return, NoCall, Call,
        Steps, MachineRecord, Artifact
<1>1. CASE \E f \in Version : ExecuteComposite(m, f)
  BY <1>1, CompositeAssumption DEF ExecuteComposite
<1>2. CASE MatchLocal(m)
  <2>1. CASE Hit(m, "local") /\ local[m].fp = call[m].fp
    BY <1>2, <2>1 DEF Hit, MatchLocal
  <2>2. CASE MoveTo(m, "remote") /\ UNCHANGED call
    BY <1>2, <2>2 DEF MatchLocal
  <2>3. QED
    BY <1>2, <2>1, <2>2 DEF MatchLocal
<1>3. CASE MatchRemote(m)
  <2>1. CASE Hit(m, "remote") /\ remote.fp = call[m].fp
             /\ local' \in {local, [local EXCEPT ![m] = [fp |-> call[m].fp, hash |-> Nothing]]}
    <3>1. CASE UNCHANGED local
      BY <1>3, <2>1, <3>1 DEF Hit, MatchRemote
    <3>2. CASE local' = [local EXCEPT ![m] = [fp |-> call[m].fp, hash |-> Nothing]]
      BY <1>3, <2>1, <3>2 DEF Hit, MatchRemote
    <3>3. QED
      BY <2>1, <3>1, <3>2
  <2>2. CASE MoveTo(m, "run") /\ UNCHANGED <<local, call>>
    BY <1>3, <2>2 DEF MatchRemote
  <2>3. QED
    BY <1>3, <2>1, <2>2 DEF MatchRemote, Maybe, Matches
<1>4. CASE RestoreLocal(m)
  <2>1. CASE MoveTo(m, "cached") /\ HasObject(m)
             /\ results' \in {[results EXCEPT ![m] = local[m].hash],
                              [results EXCEPT ![m] = Nothing]}
    BY <1>4, <2>1 DEF RestoreLocal, HasObject
  <2>2. CASE MoveTo(m, "fetch") /\ UNCHANGED results
    BY <1>4, <2>2 DEF RestoreLocal
  <2>3. QED
    BY <1>4, <2>1, <2>2 DEF RestoreLocal, Unpack, Maybe
<1>5. CASE Fetch(m)
  <2>1. CASE /\ remote.art # Nothing
             /\ stores' \in {stores, [stores EXCEPT ![m] = @ \cup {remote.art}]}
             /\ results' \in {[results EXCEPT ![m] = remote.art],
                              [results EXCEPT ![m] = Nothing]}
    <3>1. remote.art \in succeeded
      BY <2>1
    <3>2. results' \in [Machine -> Artifact \cup {Nothing}]
      BY <2>1, <3>1
    <3>3. UNCHANGED stores \/ stores' = [stores EXCEPT ![m] = stores[m] \cup {remote.art}]
      BY <2>1
    <3>4. stores' \in [Machine -> SUBSET Artifact] /\ \A n \in Machine : stores'[n] \subseteq succeeded
      BY <3>1, <3>3
    <3>5. QED
      BY <1>5, <3>2, <3>4 DEF Fetch
  <2>2. CASE UNCHANGED <<stores, results>>
    BY <1>5, <2>2 DEF Fetch
  <2>3. QED
    BY <1>5, <2>1, <2>2 DEF Fetch, Unpack, Maybe
<1>6. CASE ReturnCached(m)
  BY <1>6 DEF ReturnCached
<1>7. QED
  BY <1>1, <1>2, <1>3, <1>4, <1>5, <1>6

(* Building: the command, and what its result is put into. *)
LEMMA BuildStep ==
  ASSUME IInv, NEW m \in Machine,
         MachineRunOk(m) \/ MachineRunFails(m) \/ StoreLocal(m) \/ PutLocal(m)
  PROVE  IInv'
<1> USE DEF IInv, CompositeTypeOK, NothingUnbuiltIsShared, At, MoveTo, Return, NoCall, Call,
        Steps, MachineRecord, Artifact
<1>1. CASE MachineRunOk(m)
  BY <1>1 DEF MachineRunOk
<1>2. CASE MachineRunFails(m)
  BY <1>2 DEF MachineRunFails
<1>3. CASE StoreLocal(m)
  <2>1. CASE /\ stores' \in {stores, [stores EXCEPT ![m] = @ \cup {call[m].fp}]}
             /\ MoveTo(m, "send")
             /\ call' = [call EXCEPT ![m] = [fp |-> call[m].fp, hash |-> call[m].fp,
                                            via |-> "none"]]
    BY <1>3, <2>1 DEF StoreLocal
  <2>2. CASE MoveTo(m, "put") /\ UNCHANGED <<stores, call>>
    BY <1>3, <2>2 DEF StoreLocal
  <2>3. QED
    BY <1>3, <2>1, <2>2 DEF StoreLocal, Maybe
<1>4. CASE PutLocal(m)
  <2>1. local' \in {local, [local EXCEPT ![m] = [fp |-> call[m].fp, hash |-> call[m].hash]]}
    BY <1>4 DEF PutLocal, Maybe
  <2>2. QED
    <3>1. UNCHANGED local \/ local' = [local EXCEPT ![m] = [fp |-> call[m].fp, hash |-> call[m].hash]]
      BY <2>1
    <3>2. call[m].fp \in succeeded /\ call[m].hash \in succeeded \cup {Nothing}
      BY <1>4 DEF PutLocal
    <3>3. local' \in [Machine -> MachineRecord]
      BY <3>1
    <3>4. ASSUME NEW n \in Machine
          PROVE  local'[n].fp \in succeeded \cup {Nothing} /\ local'[n].hash \in succeeded \cup {Nothing}
      <4>1. CASE UNCHANGED local \/ n # m
        BY <3>1, <4>1
      <4>2. CASE local' = [local EXCEPT ![m] = [fp |-> call[m].fp, hash |-> call[m].hash]] /\ n = m
        <5>1. local'[n] = [fp |-> call[m].fp, hash |-> call[m].hash]
          BY <4>2
        <5>2. QED
          BY <3>2, <5>1
      <4>3. QED
        BY <3>1, <4>1, <4>2
    <3>5. CompositeTypeOK'
      BY <1>4, <3>3 DEF PutLocal
    <3>6. QED
      BY <1>4, <3>4, <3>5 DEF PutLocal
<1>5. QED
  BY <1>1, <1>2, <1>3, <1>4

(* Sending: the three requests to the remote. *)
LEMMA SendingStep ==
  ASSUME IInv, NEW m \in Machine,
         SendArtifact(m) \/ SendFingerprint(m) \/ SendAgain(m)
  PROVE  IInv'
<1> USE DEF IInv, CompositeTypeOK, NothingUnbuiltIsShared, At, MoveTo, Return, NoCall, Call,
        Steps, Artifact
<1>1. CASE SendFingerprint(m)
  BY <1>1, SendStep DEF SendFingerprint
<1>2. CASE SendAgain(m)
  BY <1>2, SendStep DEF SendAgain
<1>3. CASE SendArtifact(m)
  <2>1. call[m].hash \in succeeded
    BY <1>3 DEF SendArtifact
  <2>2. QED
    BY <1>3, <2>1, SendStep DEF SendArtifact
<1>4. QED
  BY <1>1, <1>2, <1>3

(* What happens beside the builds. *)
LEMMA OtherStep ==
  ASSUME IInv,
         \/ \E m \in Machine : Prune(m) \/ Clean(m) \/ Crash(m)
         \/ LateArrives \/ ServerRestart
  PROVE  IInv'
<1> USE DEF IInv, CompositeTypeOK, NothingUnbuiltIsShared, At, MoveTo, Return, NoCall, Call,
        Steps, Artifact
<1>1. CASE \E m \in Machine : Prune(m)
  <2>1. PICK m \in Machine : Prune(m)
    BY <1>1
  <2>2. /\ UNCHANGED local \/ local' = [local EXCEPT ![m] = NoRecord]
        /\ UNCHANGED <<results, remote, late, pc, call, succeeded>>
    BY <2>1 DEF Prune
  <2>3. PICK S \in SUBSET stores[m] : stores' = [stores EXCEPT ![m] = S]
    BY <2>1 DEF Prune
  <2>4. stores' \in [Machine -> SUBSET Artifact] /\ \A n \in Machine : stores'[n] \subseteq succeeded
    BY <2>3
  <2>5. local' \in [Machine -> MachineRecord]
    BY <2>2 DEF NoRecord, MachineRecord
  <2>6. ASSUME NEW n \in Machine
        PROVE  local'[n].fp \in succeeded \cup {Nothing} /\ local'[n].hash \in succeeded \cup {Nothing}
    <3>1. CASE UNCHANGED local
      BY <3>1
    <3>2. CASE local' = [local EXCEPT ![m] = NoRecord]
      <4>1. local'[n] = local[n] \/ local'[n] = NoRecord
        BY <3>2
      <4>2. QED
        BY <4>1 DEF NoRecord
    <3>3. QED
      BY <2>2, <3>1, <3>2
  <2>7. QED
    BY <2>2, <2>4, <2>5, <2>6
<1>2. CASE \E m \in Machine : Clean(m)
  BY <1>2 DEF Clean
<1>3. CASE \E m \in Machine : Crash(m)
  BY <1>3 DEF Crash
<1>4. CASE LateArrives
  <2>1. PICK q \in late : remote' \in Handled(q.to, q.val) /\ late' = late \ {q}
    BY <1>4 DEF LateArrives
  <2>2. q.to \in {"fp", "art"} /\ q.val \in succeeded
    BY DEF Message
  <2>3. /\ remote' \in [fp : Version \cup {Nothing}, art : Artifact \cup {Nothing},
                         disk : Artifact \cup {Nothing}]
        /\ {remote'.fp, remote'.art, remote'.disk} \subseteq succeeded \cup {Nothing}
    BY <2>1, <2>2, HandledStep
  <2>4. UNCHANGED <<results, local, stores, pc, call, succeeded>>
    BY <1>4 DEF LateArrives
  <2>5. QED
    BY <2>1, <2>3, <2>4
<1>5. CASE ServerRestart
  BY <1>5 DEF ServerRestart
<1>6. QED
  BY <1>1, <1>2, <1>3, <1>4, <1>5

LEMMA NextInv == IInv /\ [CompositeNext]_compositeVars => IInv'
<1> SUFFICES ASSUME IInv, [CompositeNext]_compositeVars PROVE IInv'
  OBVIOUS
<1>1. CASE \E m \in Machine : MachineStep(m)
  BY <1>1, AskStep, BuildStep, SendingStep, OtherStep DEF MachineStep
<1>2. CASE LateArrives \/ ServerRestart
  BY <1>2, OtherStep
<1>3. CASE UNCHANGED compositeVars
  BY <1>3 DEF compositeVars, IInv, CompositeTypeOK, NothingUnbuiltIsShared, At
<1>4. QED
  BY <1>1, <1>2, <1>3 DEF CompositeNext

(* The inductive invariant holds for every set of machines and settings.   *)
THEOREM Invariant == CompositeSpec => []IInv
BY InitInv, NextInv, PTL DEF CompositeSpec

(* No fingerprint or artifact in a local cache, at the remote or on its    *)
(* way there is of a build that did not succeed.                           *)
THEOREM OnlyBuilt == CompositeSpec => []NothingUnbuiltIsShared
<1>1. IInv => NothingUnbuiltIsShared
  BY DEF IInv
<1>2. QED
  BY <1>1, Invariant, PTL

-----------------------------------------------------------------------------
(* Machines that build in turn: nothing fails, nothing arrives late.       *)
LEMMA Faultless ==
  ASSUME InTurns
  PROVE  /\ \A S : Maybe(S) = {}
         /\ \A to, v : Handled(to, v) = {ServerStored(remote, to, v)}
         /\ OneAtATime /\ ~Killable /\ ~Unreliable
<1>1. \A S : Maybe(S) = {}
  BY DEF InTurns, Maybe
<1>2. QED
  BY <1>1 DEF InTurns, Handled

(* One machine at work, the others are idle: what its step leaves of the   *)
(* records and objects of the others is as it was.                         *)
LEMMA TurnOf ==
  ASSUME TurnsInv, CompositeTypeOK, NEW m \in Machine, ~At(m, "idle")
  PROVE  \A n \in Machine \ {m} : pc[n] = "idle"
BY DEF TurnsInv, CompositeTypeOK, At

LEMMA Begins ==
  ASSUME IInv, TurnsInv, NEW m \in Machine, NEW f \in Version, ExecuteComposite(m, f)
  PROVE  TurnsInv'
<1> USE DEF TurnsInv, At, MoveTo
<1>1. /\ \A n \in Machine : pc[n] = "idle"
      /\ pc' = [pc EXCEPT ![m] = "local"]
      /\ UNCHANGED <<results, local, stores, remote, late>>
  BY Faultless DEF ExecuteComposite, AllIdle
<1>2. pc'[m] = "local" /\ \A n \in Machine : n # m => pc'[n] = "idle"
  BY <1>1 DEF IInv, CompositeTypeOK
<1>3. InTurns'
  BY DEF InTurns
<1>4. QED
  BY <1>1, <1>2, <1>3

(* A lookup, here and at the remote: a hit at the remote leaves a record   *)
(* without the name of an artifact, and the remote has that of the key.    *)
LEMMA MatchesInTurn ==
  ASSUME IInv, TurnsInv, NEW m \in Machine, MatchLocal(m) \/ MatchRemote(m)
  PROVE  TurnsInv'
<1> USE DEF At, MoveTo
<1>1. CompositeTypeOK /\ InTurns /\ InTurns' /\ late' = {} /\ UNCHANGED <<results, stores, remote>>
  BY DEF TurnsInv, IInv, InTurns, MatchLocal, MatchRemote
<1>2. /\ pc[m] \in {"local", "remote"} /\ \A n \in Machine : n # m => pc[n] = "idle"
  BY <1>1, TurnOf DEF MatchLocal, MatchRemote
<1>3. remote.fp # Nothing => remote.art = remote.fp
  BY <1>2 DEF TurnsInv
<1>4. CASE MatchLocal(m) /\ local[m].fp = call[m].fp /\ Hit(m, "local")
  <2>1. /\ pc' = [pc EXCEPT ![m] = "restore"] /\ local' = local
        /\ call' = [call EXCEPT ![m] = [fp |-> call[m].fp, hash |-> Nothing, via |-> "local"]]
    BY <1>4 DEF MatchLocal, Hit
  <2>2. /\ pc'[m] = "restore" /\ \A n \in Machine : n # m => pc'[n] = "idle"
        /\ call'[m].fp = call[m].fp /\ call'[m].via = "local"
    BY <1>1, <1>2, <2>1 DEF CompositeTypeOK
  <2>3. QED
    BY <1>1, <1>2, <1>3, <1>4, <2>1, <2>2 DEF TurnsInv
<1>5. CASE MatchLocal(m) /\ MoveTo(m, "remote") /\ UNCHANGED call
  <2>1. pc' = [pc EXCEPT ![m] = "remote"] /\ local' = local
    BY <1>5 DEF MatchLocal
  <2>2. pc'[m] = "remote" /\ \A n \in Machine : n # m => pc'[n] = "idle"
    BY <1>1, <1>2, <2>1 DEF CompositeTypeOK
  <2>3. QED
    BY <1>1, <1>2, <1>3, <2>1, <2>2 DEF TurnsInv
<1>6. CASE MatchRemote(m) /\ Matches(remote, call[m].fp) /\ Hit(m, "remote")
           /\ local' \in {[local EXCEPT ![m] = [fp |-> call[m].fp, hash |-> Nothing]]} \cup Maybe({local})
  <2>1. /\ pc' = [pc EXCEPT ![m] = "restore"]
        /\ local' = [local EXCEPT ![m] = [fp |-> call[m].fp, hash |-> Nothing]]
        /\ call' = [call EXCEPT ![m] = [fp |-> call[m].fp, hash |-> Nothing, via |-> "remote"]]
        /\ call[m].fp # Nothing /\ remote.fp = call[m].fp
    BY <1>1, <1>2, <1>6, Faultless DEF Hit, CompositeTypeOK, Matches
  <2>2. /\ pc'[m] = "restore" /\ \A n \in Machine : n # m => pc'[n] = "idle"
        /\ call'[m].fp = call[m].fp /\ call'[m].via = "remote"
        /\ local'[m].hash = Nothing /\ \A n \in Machine : n # m => local'[n] = local[n]
    BY <1>1, <1>2, <2>1 DEF CompositeTypeOK
  <2>3. remote.art = call[m].fp
    BY <1>3, <2>1
  <2>4. QED
    BY <1>1, <1>2, <1>3, <2>2, <2>3 DEF TurnsInv
<1>7. CASE MatchRemote(m) /\ MoveTo(m, "run") /\ UNCHANGED <<local, call>>
  <2>1. pc'[m] = "run" /\ \A n \in Machine : n # m => pc'[n] = "idle"
    BY <1>1, <1>2, <1>7 DEF CompositeTypeOK
  <2>2. QED
    BY <1>1, <1>2, <1>3, <1>7, <2>1 DEF TurnsInv
<1>8. QED
  BY <1>4, <1>5, <1>6, <1>7 DEF MatchLocal, MatchRemote

(* What a machine that found a hit puts in place of its outputs.           *)
LEMMA RestoresInTurn ==
  ASSUME IInv, TurnsInv, NEW m \in Machine, RestoreLocal(m) \/ Fetch(m)
  PROVE  TurnsInv'
<1> USE DEF At, MoveTo
<1>1. CompositeTypeOK /\ InTurns /\ InTurns' /\ late' = {} /\ UNCHANGED <<local, remote, call>>
  BY DEF TurnsInv, IInv, InTurns, RestoreLocal, Fetch
<1>2. /\ pc[m] \in {"restore", "fetch"} /\ \A n \in Machine : n # m => pc[n] = "idle"
  BY <1>1, TurnOf DEF RestoreLocal, Fetch
<1>3. remote.fp # Nothing => remote.art = remote.fp
  BY <1>2 DEF TurnsInv
<1>4. CASE RestoreLocal(m) /\ HasObject(m) /\ Unpack(m, local[m].hash) /\ MoveTo(m, "cached")
  <2>1. /\ pc' = [pc EXCEPT ![m] = "cached"] /\ stores' = stores
        /\ results' = [results EXCEPT ![m] = local[m].hash]
    BY <1>1, <1>4, Faultless DEF Unpack, RestoreLocal
  <2>2. /\ pc'[m] = "cached" /\ \A n \in Machine : n # m => pc'[n] = "idle"
        /\ results'[m] = local[m].hash
    BY <1>1, <1>2, <2>1 DEF CompositeTypeOK
  <2>3. local[m].hash # Nothing
    BY <1>1, <1>4, CompositeAssumption DEF HasObject, CompositeTypeOK, Artifact
  <2>4. call[m].via # "remote" /\ local[m].fp = call[m].fp /\ local[m].hash = local[m].fp
    BY <1>2, <2>3 DEF TurnsInv
  <2>5. QED
    BY <1>1, <1>2, <1>3, <2>1, <2>2, <2>3, <2>4 DEF TurnsInv
<1>5. CASE RestoreLocal(m) /\ ~HasObject(m) /\ MoveTo(m, "fetch") /\ UNCHANGED results
  <2>1. pc' = [pc EXCEPT ![m] = "fetch"] /\ stores' = stores
    BY <1>5 DEF RestoreLocal
  <2>2. pc'[m] = "fetch" /\ \A n \in Machine : n # m => pc'[n] = "idle"
    BY <1>1, <1>2, <2>1 DEF CompositeTypeOK
  <2>3. local[m].hash = Nothing
    BY <1>5 DEF TurnsInv, HasObject
  <2>4. QED
    BY <1>1, <1>2, <1>3, <2>1, <2>2, <2>3 DEF TurnsInv
<1>6. CASE Fetch(m)
  <2>1. pc[m] = "fetch" /\ pc' = [pc EXCEPT ![m] = "cached"] /\ local[m].hash = Nothing
    BY <1>6 DEF Fetch, TurnsInv
  <2>2. pc'[m] = "cached" /\ \A n \in Machine : n # m => pc'[n] = "idle"
    BY <1>1, <1>2, <2>1 DEF CompositeTypeOK
  <2>3. \A n \in Machine : stores[n] \subseteq stores'[n]
    <3>1. stores' \in {[stores EXCEPT ![m] = stores[m] \cup {remote.art}], stores}
      BY <1>1, <1>6, Faultless DEF Fetch
    <3>2. QED
      BY <1>1, <3>1 DEF CompositeTypeOK
  <2>4. call[m].via = "remote" => results'[m] = call[m].fp
    <3> SUFFICES ASSUME call[m].via = "remote" PROVE results'[m] = call[m].fp
      OBVIOUS
    <3>1. remote.art = call[m].fp /\ call[m].fp # Nothing
      BY <1>1, <2>1 DEF TurnsInv, CompositeTypeOK
    <3>2. results' = [results EXCEPT ![m] = remote.art]
      BY <1>1, <1>6, <3>1, Faultless DEF Fetch, Unpack
    <3>3. QED
      BY <1>1, <3>1, <3>2 DEF CompositeTypeOK
  <2>5. QED
    BY <1>1, <1>2, <1>3, <2>1, <2>2, <2>3, <2>4 DEF TurnsInv
<1>7. QED
  BY <1>4, <1>5, <1>6 DEF RestoreLocal

(* The command, and the return of a build.                                 *)
LEMMA RunsInTurn ==
  ASSUME IInv, TurnsInv, NEW m \in Machine, ReturnCached(m) \/ MachineRunOk(m) \/ MachineRunFails(m)
  PROVE  TurnsInv'
<1> USE DEF At, MoveTo, Return
<1>1. CompositeTypeOK /\ InTurns' /\ late' = {} /\ UNCHANGED <<local, stores, remote>>
  BY DEF TurnsInv, IInv, InTurns, ReturnCached, MachineRunOk, MachineRunFails
<1>2. pc[m] \in {"cached", "run"} /\ \A n \in Machine : n # m => pc[n] = "idle"
  BY <1>1, TurnOf DEF ReturnCached, MachineRunOk, MachineRunFails
<1>3. remote.fp # Nothing => remote.art = remote.fp
  BY <1>2 DEF TurnsInv
<1>4. pc'[m] \in {"idle", "store"} /\ \A n \in Machine : n # m => pc'[n] = "idle"
  BY <1>1, <1>2 DEF ReturnCached, MachineRunOk, MachineRunFails, CompositeTypeOK
<1>5. QED
  BY <1>1, <1>3, <1>4 DEF TurnsInv

(* What a finished build stores locally.                                   *)
LEMMA StoresInTurn ==
  ASSUME IInv, TurnsInv, NEW m \in Machine, StoreLocal(m) \/ PutLocal(m)
  PROVE  TurnsInv'
<1> USE DEF At, MoveTo
<1>1. CompositeTypeOK /\ InTurns /\ InTurns' /\ late' = {} /\ UNCHANGED <<results, remote>>
  BY DEF TurnsInv, IInv, InTurns, StoreLocal, PutLocal
<1>2. pc[m] \in {"store", "put"} /\ \A n \in Machine : n # m => pc[n] = "idle"
  BY <1>1, TurnOf DEF StoreLocal, PutLocal
<1>3. CASE StoreLocal(m)
  <2>1. /\ stores' = [stores EXCEPT ![m] = stores[m] \cup {call[m].fp}] /\ local' = local
        /\ pc' = [pc EXCEPT ![m] = "send"]
        /\ call' = [call EXCEPT ![m] = [fp |-> call[m].fp, hash |-> call[m].fp, via |-> "none"]]
    BY <1>1, <1>3, Faultless DEF StoreLocal
  <2>2. /\ pc'[m] = "send" /\ \A n \in Machine : n # m => pc'[n] = "idle"
        /\ call'[m].fp = call[m].fp /\ call'[m].hash = call[m].fp
        /\ call[m].fp \in stores'[m] /\ \A n \in Machine : stores[n] \subseteq stores'[n]
    BY <1>1, <1>2, <2>1 DEF CompositeTypeOK
  <2>3. remote.fp # Nothing => remote.art = remote.fp
    BY <1>2, <1>3 DEF TurnsInv, StoreLocal
  <2>4. QED
    BY <1>1, <2>1, <2>2, <2>3 DEF TurnsInv
<1>4. CASE PutLocal(m)
  <2>1. /\ local' = [local EXCEPT ![m] = [fp |-> call[m].fp, hash |-> call[m].hash]]
        /\ stores' = stores /\ pc' = [pc EXCEPT ![m] = "sendfp"] /\ call' = call
    BY <1>1, <1>4, Faultless DEF PutLocal
  <2>2. call[m].hash = call[m].fp /\ call[m].fp \in stores[m] /\ remote.art = call[m].fp
    BY <1>4 DEF TurnsInv, PutLocal
  <2>3. /\ pc'[m] = "sendfp" /\ \A n \in Machine : n # m => pc'[n] = "idle"
        /\ local'[m].fp = call[m].fp /\ local'[m].hash = call[m].fp
        /\ \A n \in Machine : n # m => local'[n] = local[n]
    BY <1>1, <1>2, <2>1, <2>2 DEF CompositeTypeOK
  <2>4. QED
    BY <1>1, <2>1, <2>2, <2>3 DEF TurnsInv
<1>5. QED
  BY <1>3, <1>4

(* What it sends: after the artifact the remote has that of this build,    *)
(* after the fingerprint its tables agree again.                           *)
LEMMA SendsInTurn ==
  ASSUME IInv, TurnsInv, NEW m \in Machine, SendArtifact(m) \/ SendFingerprint(m) \/ SendAgain(m)
  PROVE  TurnsInv'
<1> USE DEF At, MoveTo, Return
<1>1. CompositeTypeOK /\ InTurns /\ InTurns' /\ UNCHANGED <<results, local, stores>>
  BY DEF TurnsInv, IInv, InTurns, SendArtifact, SendFingerprint, SendAgain
<1>2. /\ pc[m] \in {"send", "sendfp", "resend"} /\ \A n \in Machine : n # m => pc[n] = "idle"
      /\ call[m].hash = call[m].fp /\ call[m].fp \in stores[m]
  BY <1>1, TurnOf DEF SendArtifact, SendFingerprint, SendAgain, TurnsInv
<1>3. \A to, v : Send(to, v) => remote' = ServerStored(remote, to, v) /\ late' = late
  BY <1>1, Faultless DEF Send
<1>4. late = {}
  BY DEF TurnsInv
<1>5. \A v : /\ ServerStored(remote, "art", v).art = v /\ ServerStored(remote, "art", v).fp = remote.fp
             /\ ServerStored(remote, "fp", v).fp = v /\ ServerStored(remote, "fp", v).art = remote.art
  BY <1>1 DEF ServerStored, Replaced, CompositeTypeOK
<1>6. CASE SendArtifact(m)
  <2>1. /\ remote'.art = call[m].fp /\ late' = {} /\ call' = call
        /\ pc'[m] = "put" /\ \A n \in Machine : n # m => pc'[n] = "idle"
    BY <1>1, <1>2, <1>3, <1>4, <1>5, <1>6 DEF SendArtifact, CompositeTypeOK
  <2>2. QED
    BY <1>1, <1>2, <2>1 DEF TurnsInv
<1>7. CASE SendFingerprint(m)
  <2>1. remote.art = call[m].fp
    BY <1>7 DEF SendFingerprint, TurnsInv
  <2>2. /\ remote'.art = call[m].fp /\ remote'.fp = call[m].fp /\ late' = {} /\ call' = call
        /\ pc'[m] = "resend" /\ \A n \in Machine : n # m => pc'[n] = "idle"
    BY <1>1, <1>2, <1>3, <1>4, <1>5, <1>7, <2>1 DEF SendFingerprint, CompositeTypeOK
  <2>3. QED
    BY <1>1, <1>2, <2>2 DEF TurnsInv
<1>8. CASE SendAgain(m)
  <2>1. remote.art = call[m].fp /\ (remote.fp # Nothing => remote.art = remote.fp)
    BY <1>2, <1>8 DEF SendAgain, TurnsInv
  <2>2. /\ remote'.art = call[m].fp /\ remote'.fp = remote.fp /\ late' = {}
        /\ \A n \in Machine : pc'[n] = "idle"
    BY <1>1, <1>2, <1>3, <1>4, <1>5, <1>8, <2>1 DEF SendAgain, CompositeTypeOK
  <2>3. QED
    BY <1>1, <2>1, <2>2 DEF TurnsInv
<1>9. QED
  BY <1>6, <1>7, <1>8

(* Between builds the records of a machine may go, and only with them      *)
(* their objects.                                                          *)
LEMMA OthersInTurn ==
  ASSUME IInv, TurnsInv,
         \/ \E m \in Machine : Prune(m) \/ Clean(m) \/ Crash(m)
         \/ LateArrives \/ ServerRestart
  PROVE  TurnsInv'
<1> USE DEF At
<1>1. CompositeTypeOK /\ InTurns /\ InTurns' /\ late = {}
  BY DEF TurnsInv, IInv, InTurns
<1>2. CASE \E m \in Machine : Prune(m)
  <2>1. PICK m \in Machine : Prune(m)
    BY <1>2
  <2>2. /\ \A n \in Machine : pc[n] = "idle"
        /\ local' = [local EXCEPT ![m] = NoRecord]
        /\ UNCHANGED <<results, remote, late, pc, call>>
    BY <1>1, <2>1, Faultless DEF Prune, AllIdle
  <2>3. PICK S : stores' = [stores EXCEPT ![m] = S]
    BY <2>1 DEF Prune
  <2>4. /\ local'[m].hash = Nothing
        /\ \A n \in Machine : n # m => local'[n] = local[n] /\ stores'[n] = stores[n]
    BY <1>1, <2>2, <2>3 DEF CompositeTypeOK, NoRecord
  <2>5. QED
    BY <1>1, <2>2, <2>4 DEF TurnsInv
<1>3. CASE \E m \in Machine : Clean(m)
  <2>1. PICK m \in Machine : Clean(m)
    BY <1>3
  <2>2. /\ pc[m] = "idle" /\ \A n \in Machine : n # m => results'[n] = results[n]
        /\ UNCHANGED <<local, stores, remote, late, pc, call>>
    BY <1>1, <2>1 DEF Clean, CompositeTypeOK
  <2>3. QED
    BY <1>1, <2>2 DEF TurnsInv
<1>4. CASE ServerRestart
  <2>1. /\ \A n \in Machine : pc[n] = "idle"
        /\ remote'.fp = Nothing /\ late' = {} /\ UNCHANGED <<results, local, stores, pc, call>>
    BY <1>1, <1>4, Faultless DEF ServerRestart, AllIdle
  <2>2. QED
    BY <1>1, <2>1 DEF TurnsInv
<1>5. QED
  BY <1>1, <1>2, <1>3, <1>4, Faultless DEF Crash, LateArrives

LEMMA TurnsStep == IInv /\ TurnsInv /\ [CompositeNext]_compositeVars => TurnsInv'
<1> SUFFICES ASSUME IInv, TurnsInv, [CompositeNext]_compositeVars PROVE TurnsInv'
  OBVIOUS
<1>1. CASE \E m \in Machine : MachineStep(m)
  BY <1>1, Begins, MatchesInTurn, RestoresInTurn, RunsInTurn, StoresInTurn, SendsInTurn,
     OthersInTurn
     DEF MachineStep
<1>2. CASE LateArrives \/ ServerRestart
  BY <1>2, OthersInTurn
<1>3. CASE UNCHANGED compositeVars
  BY <1>3 DEF compositeVars, TurnsInv, At, InTurns
<1>4. QED
  BY <1>1, <1>2, <1>3 DEF CompositeNext

LEMMA TurnsInit == CompositeInit /\ InTurns => TurnsInv
BY DEF CompositeInit, TurnsInv, At, NoRecord

(* The invariant of builds in turn, for any number of machines.            *)
THEOREM TurnsInvariant == CompositeSpec /\ InTurns => []TurnsInv
BY TurnsInit, TurnsStep, Invariant, PTL DEF CompositeSpec

(* If machines build in turn, a hit at the remote, and one on a local      *)
(* record that names its artifact, leaves the outputs of its fingerprint.  *)
THEOREM HitsRestoreInTurns == CompositeSpec /\ InTurns => []HitRestores
<1>1. TurnsInv => HitRestores
  BY DEF TurnsInv, HitRestores, At
<1>2. QED
  BY <1>1, TurnsInvariant, PTL

(* If machines build in turn, between builds the two tables of the remote  *)
(* are about the same build, for all that three requests filled them.      *)
THEOREM RemoteAgreesInTurns == CompositeSpec /\ InTurns => []RemoteAgrees
<1>1. TurnsInv => RemoteAgrees
  BY DEF TurnsInv, RemoteAgrees, AllIdle, At
<1>2. QED
  BY <1>1, TurnsInvariant, PTL

=============================================================================
