------------------------------- MODULE Build --------------------------------
(***************************************************************************)
(* What a build promises, whatever scheduler drives it: a task starts only *)
(* when all its dependencies were successful, at most MaxParallel tasks    *)
(* run at once, a task that fails takes every task that needs it down with *)
(* it in one step, and the build returns only when no task is left.        *)
(* Scheduler and WorkStealing are shown to implement this specification.   *)
(***************************************************************************)
EXTENDS BuildGraph

CONSTANTS Graphs,       \* the graphs a build may be started on
          MaxParallel   \* the most tasks that may run at once

VARIABLES deps, state, returned

buildVars == <<deps, state, returned>>

Running == {n \in Node : state[n] = "Running"}

Init ==
  /\ deps \in Graphs
  /\ state = reset_states
  /\ returned = FALSE

Start(n) ==
  /\ n \in ready_nodes(deps, state)
  /\ Cardinality(Running) < MaxParallel
  /\ state' = set_state(state, n, "Running")
  /\ UNCHANGED <<deps, returned>>

Succeed(n, s) ==
  /\ state[n] = "Running"
  /\ state' = set_state(state, n, s)
  /\ UNCHANGED <<deps, returned>>

Fail(n) ==
  /\ state[n] = "Running"
  /\ state' = mark_failed(deps, state, n)
  /\ UNCHANGED <<deps, returned>>

Return ==
  /\ ~returned
  /\ \A n \in Node : is_terminal(state[n])
  /\ returned' = TRUE
  /\ UNCHANGED <<deps, state>>

Next ==
  \/ \E n \in Node : Start(n)
  \/ \E n \in Node, s \in {"Succeeded", "Cached"} : Succeed(n, s)
  \/ \E n \in Node : Fail(n)
  \/ Return

Spec == Init /\ [][Next]_buildVars

=============================================================================
