---------------------------- MODULE LocklessGraph ---------------------------
(***************************************************************************)
(* fish-graph: LocklessDependencyGraph (lockless.rs), a map of nodes that  *)
(* may be inserted again with other dependencies, and its critical path.   *)
(* Names are numbers, in their order.                                      *)
(***************************************************************************)
EXTENDS Integers, Sequences, FiniteSets, SequencesExt

CONSTANTS
  Names,     \* how many names there are
  DepLists,  \* the lists of dependencies that are inserted
  Weights

ASSUME LocklessAssumption ==
  /\ Names \in Nat /\ Weights \subseteq Nat
  /\ DepLists \subseteq Seq(1 .. Names)

VARIABLES
  dependencies,          \* of each node: the domain is the nodes of the map
  reverse_dependencies,  \* as sets: nothing is in one of the lists twice
  execution_weight

locklessVars == <<dependencies, reverse_dependencies, execution_weight>>

LocklessInit ==
  dependencies = <<>> /\ reverse_dependencies = <<>> /\ execution_weight = <<>>

(* A dependency that was never inserted becomes a node without any. *)
insert_node(id, deps, weight) ==
  LET old == IF id \in DOMAIN dependencies THEN ToSet(dependencies[id]) ELSE {}
      nodes == DOMAIN dependencies \cup {id} \cup ToSet(deps)
      Default(f, n, d) == IF n \in DOMAIN f THEN f[n] ELSE d
      kept(n) == Default(reverse_dependencies, n, {}) \ (IF n \in old THEN {id} ELSE {})
  IN  /\ dependencies' = [n \in nodes |-> IF n = id THEN deps ELSE Default(dependencies, n, <<>>)]
      /\ execution_weight' = [n \in nodes |-> IF n = id THEN weight ELSE Default(execution_weight, n, 0)]
      /\ reverse_dependencies' =
           [n \in nodes |-> kept(n) \cup (IF n \in ToSet(deps) THEN {id} ELSE {})]

LocklessNext ==
  \E id \in 1 .. Names, deps \in DepLists, weight \in Weights : insert_node(id, deps, weight)

LocklessSpec == LocklessInit /\ [][LocklessNext]_locklessVars

-----------------------------------------------------------------------------
(* The walk of transitive_dependencies ends with the least set that has    *)
(* the dependencies of id and of its members.                              *)
transitive_dependencies(id) ==
  LET step(S) == S \cup UNION {ToSet(dependencies[n]) : n \in S}
      after[k \in 0 .. Names] == IF k = 0 THEN ToSet(dependencies[id]) ELSE step(after[k - 1])
  IN  after[Names]

CycleError == [weight |-> -1, path |-> <<>>]
NoPath == [weight |-> 0, path |-> <<>>]

\* Slip: the error of a dependency is not passed on.
Heavier_Anyway(best, one) == IF one.weight > best.weight THEN one ELSE best

(* Of answers that weigh the same the first is taken, and one that weighs  *)
(* nothing is left out.                                                    *)
Heavier(best, one) ==
  IF best = CycleError \/ one = CycleError THEN CycleError
  ELSE IF one.weight > best.weight THEN one ELSE best

Heaviest(answers) ==
  LET best[i \in 0 .. Len(answers)] ==
        IF i = 0 THEN NoPath ELSE Heavier(best[i - 1], answers[i])
  IN  best[Len(answers)]

(* The answer for id from those for its dependencies. *)
PathTo(id, visiting, below) ==
  LET best == Heaviest([i \in DOMAIN dependencies[id] |-> below[dependencies[id][i]]])
  IN  IF id \in visiting \/ best = CycleError THEN CycleError
      ELSE [weight |-> best.weight + execution_weight[id], path |-> Append(best.path, id)]

(* The memo table is left out: a node that is finished has the same answer *)
(* again.                                                                  *)
longest_path ==
  LET lp[visiting \in SUBSET DOMAIN dependencies] ==
        [id \in DOMAIN dependencies |-> PathTo(id, visiting, lp[visiting \cup {id}])]
  IN  lp[{}]

compute_critical_path ==
  LET longest == longest_path
  IN  Heaviest([id \in 1 .. Names |-> IF id \in DOMAIN dependencies THEN longest[id] ELSE NoPath])

-----------------------------------------------------------------------------
(* After any insertions, of a name again with other dependencies as well,  *)
(* the reverse edges are exactly the edges.                                *)
ReverseEdgesMirror ==
  \A m, n \in DOMAIN dependencies :
    m \in ToSet(dependencies[n]) <=> n \in reverse_dependencies[m]

Weigh(p) ==
  LET sum[i \in 0 .. Len(p)] == IF i = 0 THEN 0 ELSE sum[i - 1] + execution_weight[p[i]]
  IN  sum[Len(p)]

Chains ==
  {p \in UNION {[1 .. k -> DOMAIN dependencies] : k \in 1 .. Names} :
     \A i \in 1 .. Len(p) - 1 : p[i] \in ToSet(dependencies[p[i + 1]])}

(* The critical path is a chain of dependencies, no chain weighs more, and *)
(* it is refused exactly when some node depends on itself.                 *)
CriticalPathIsHeaviest ==
  LET answer == compute_critical_path
  IN  IF \E n \in DOMAIN dependencies : n \in transitive_dependencies(n)
      THEN answer = CycleError
      ELSE /\ answer.path \in Chains \cup {<<>>}
           /\ answer.weight = Weigh(answer.path)
           /\ \A p \in Chains : Weigh(p) <= answer.weight

(* After any calls of insert_node, the two indexes and the critical path.  *)
LocklessIsSound == ReverseEdgesMirror /\ CriticalPathIsHeaviest
=============================================================================
