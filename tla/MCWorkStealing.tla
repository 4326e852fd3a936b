--------------------------- MODULE MCWorkStealing ---------------------------
(***************************************************************************)
(* Instances of WorkStealing for TLC, over the graphs whose dependencies   *)
(* were added before their dependents: all of them up to renumbering, and  *)
(* run queues the ready tasks in any order whatever their numbers.         *)
(***************************************************************************)
EXTENDS WorkStealing

NumberedGraphs == {g \in Structure : \A n \in Node : \A d \in g[n] : d < n}
=============================================================================
