---------------------------- MODULE MCScheduler -----------------------------
(***************************************************************************)
(* Instances of Scheduler for TLC: every graph on N nodes whose            *)
(* dependencies were added before their dependents, which is all of them   *)
(* up to renumbering.                                                      *)
(***************************************************************************)
EXTENDS Scheduler

NumberedGraphs ==
  {g \in Structure : \A n \in Node : \A d \in g[n] : d < n}
=============================================================================
