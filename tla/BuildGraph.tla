----------------------------- MODULE BuildGraph -----------------------------
(***************************************************************************)
(* The task graph every scheduler of Fish works on (fish-graph/graph.rs    *)
(* and state.rs): N nodes numbered like the node vector, the dependencies  *)
(* of each, and a TaskState per node.  The structure does not change while *)
(* a build runs, so the operators take it as the argument deps; a          *)
(* dependency list is kept as a set, since every reader quantifies over    *)
(* it.                                                                     *)
(***************************************************************************)
EXTENDS Integers, FiniteSets

CONSTANT N  \* graph.len()

ASSUME NAssumption == N \in Nat

Node == 0 .. N - 1

TaskState == {"Pending", "Ready", "Running", "Succeeded", "Failed", "Skipped",
              "Cached", "Cancelled"}

is_terminal(s) == s \in {"Succeeded", "Failed", "Skipped", "Cached", "Cancelled"}

\* Slip: a cached task is not counted as a success.
is_successful_NotCached(s) == s \in {"Succeeded", "Skipped"}

is_successful(s) == s \in {"Succeeded", "Skipped", "Cached"}

is_unsuccessful(s) == s \in {"Failed", "Cancelled"}

Structure == [Node -> SUBSET Node]

(***************************************************************************)
(* validate() accepts a graph when Kahn's algorithm orders all its nodes,  *)
(* that is, when every nonempty set of nodes has one whose dependencies    *)
(* all lie outside the set.                                                *)
(***************************************************************************)
Acyclic(deps) ==
  \A S \in SUBSET Node : S # {} => \E n \in S : deps[n] \cap S = {}

dependents(deps, id) == {m \in Node : id \in deps[m]}

is_ready(deps, state, id) == \A d \in deps[id] : is_successful(state[d])

\* Slip: every task that is not blocked by a failure counts as ready.
ready_nodes_NotBlocked(deps, state) ==
  {n \in Node : state[n] = "Pending" /\ \A d \in deps[n] : ~is_unsuccessful(state[d])}

ready_nodes(deps, state) ==
  {n \in Node : state[n] = "Pending" /\ is_ready(deps, state, n)}

set_state(state, id, s) == [state EXCEPT ![id] = s]

(***************************************************************************)
(* mark_failed cancels the nodes its breadth-first search reaches from id  *)
(* along dependents.  The search enters only nodes that are not terminal;  *)
(* id itself is terminal by then.  What it reaches is the least set that   *)
(* such a search cannot leave.                                             *)
(***************************************************************************)
CancelClosed(deps, state, id, S) ==
  \A m \in Node :
    /\ m # id
    /\ ~is_terminal(state[m])
    /\ \E d \in deps[m] : d = id \/ d \in S
    => m \in S

Cascade(deps, state, id) ==
  {m \in Node : \A S \in SUBSET Node : CancelClosed(deps, state, id, S) => m \in S}

\* Slip: only the direct dependents are cancelled.
mark_failed_Direct(deps, state, id) ==
  [n \in Node |-> IF n = id THEN "Failed"
                  ELSE IF id \in deps[n] /\ ~is_terminal(state[n]) THEN "Cancelled"
                  ELSE state[n]]

mark_failed(deps, state, id) ==
  [n \in Node |-> IF n = id THEN "Failed"
                  ELSE IF n \in Cascade(deps, state, id) THEN "Cancelled"
                  ELSE state[n]]

reset_states == [n \in Node |-> "Pending"]

=============================================================================
