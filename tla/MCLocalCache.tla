---------------------------- MODULE MCLocalCache ----------------------------
(***************************************************************************)
(* Instances of LocalCache for TLC: one build or two at a time, and the     *)
(* arguments of prune.  A run may hold several small instances side by     *)
(* side: the scope of a behavior says which keys, fingerprints, objects,   *)
(* instants and arguments of prune it may use.                             *)
(***************************************************************************)
EXTENDS LocalCache, TLC

CONSTANTS p1, p2, c1, c2, Scopes

VARIABLE scope

OneClient == [c \in {c1} |-> p1]
TwoProcesses == c1 :> p1 @@ c2 :> p2

ByAge == {[age |-> TRUE, max |-> 9]}
AnyPrune == [age : BOOLEAN, max : {0, 1, 2, 9}]

Everything ==
  {[keys |-> Key, fps |-> Fingerprint, objects |-> Object, until |-> MaxTime,
    options |-> PruneOptions]}

(* One key with several fingerprints, or several keys with one.            *)
OneKeyOrOneFingerprint ==
  {[keys |-> {k}, fps |-> Fingerprint, objects |-> {o}, until |-> 2, options |-> ByAge] :
     k \in Key, o \in Object}
  \cup
  {[keys |-> Key, fps |-> {f}, objects |-> Object, until |-> 1, options |-> AnyPrune] :
     f \in Fingerprint}

InScope(c) ==
  c.pc # "idle" =>
    /\ c.key \in scope.keys /\ c.fp \in scope.fps
    /\ c.rec # None => c.rec.obj \in scope.objects \cup {None}

MCInit == Init /\ scope \in Scopes

MCNext ==
  /\ Next
  /\ UNCHANGED scope
  /\ now' <= scope.until
  /\ \A c \in Client : InScope(client'[c])
  /\ prune'.pc # "idle" => prune'.opt \in scope.options

MCSpec == MCInit /\ [][MCNext]_<<vars, scope>>

Symmetry == Permutations(Key) \cup Permutations(Fingerprint) \cup Permutations(Object)
=============================================================================
