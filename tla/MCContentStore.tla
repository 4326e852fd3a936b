--------------------------- MODULE MCContentStore ---------------------------
(***************************************************************************)
(* Instances of ContentStore for TLC: processes and objects are            *)
(* interchangeable.                                                        *)
(***************************************************************************)
EXTENDS ContentStore, TLC

Symmetry == Permutations(Hash) \cup Permutations(Client)
=============================================================================
