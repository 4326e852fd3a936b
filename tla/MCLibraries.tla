---------------------------- MODULE MCLibraries -----------------------------
(***************************************************************************)
(* The library components inside the program, for TLC in one run.  They    *)
(* share no state: in a behavior one of them, the one in focus, takes all  *)
(* the steps, and the others rest in an initial state.  Their threads have *)
(* the same names, and so have keys and files, so that one small group of  *)
(* permutations serves them all.                                           *)
(***************************************************************************)
EXTENDS GraphConstruction, TieredCache, LocklessGraph, FileCache, Racing,
        CacheGc, TLC

CONSTANTS p1, p2, k1, k2

VARIABLE focus

mcVars == <<focus, graphVars, tieredVars, locklessVars, fileVars, racingVars, gcVars>>

MCInit ==
  /\ focus \in {"graph", "tiered", "lockless", "files", "racing", "gc"}
  /\ GraphInit
  /\ TieredInit
  /\ LocklessInit
  /\ FileInit
  /\ RacingInit
  /\ GcInit
  /\ focus # "gc" => dir = <<>> /\ policy = CHOOSE p \in Policies : TRUE

(* At the bounds a component may have no step left. *)
Rest == UNCHANGED mcVars

MCNext ==
  \/ /\ focus = "graph" /\ GraphNext
     /\ UNCHANGED <<focus, tieredVars, locklessVars, fileVars, racingVars, gcVars>>
  \/ /\ focus = "tiered" /\ TieredNext
     /\ UNCHANGED <<focus, graphVars, locklessVars, fileVars, racingVars, gcVars>>
  \/ /\ focus = "lockless" /\ LocklessNext
     /\ UNCHANGED <<focus, graphVars, tieredVars, fileVars, racingVars, gcVars>>
  \/ /\ focus = "files" /\ FileNext
     /\ UNCHANGED <<focus, graphVars, tieredVars, locklessVars, racingVars, gcVars>>
  \/ /\ focus = "racing" /\ RacingNext
     /\ UNCHANGED <<focus, graphVars, tieredVars, locklessVars, fileVars, gcVars>>
  \/ /\ focus = "gc" /\ GcNext
     /\ UNCHANGED <<focus, graphVars, tieredVars, locklessVars, fileVars, racingVars>>
  \/ Rest

MCSpec == MCInit /\ [][MCNext]_mcVars

-----------------------------------------------------------------------------
Symmetry == Permutations({p1, p2}) \cup Permutations({k1, k2})

MCOthers == {<<<<>>, <<>>>>, <<<<>>, <<1>>>>, <<<<2>>, <<>>>>, <<<<2, 2>>, <<>>>>}

MCCapacity == <<1, 1, 2>>
MCTierBytes == <<2, 3, 3>>

MCDepLists == {<<>>, <<1>>, <<2>>, <<3>>, <<1, 2>>, <<2, 1>>, <<3, 3>>}

MCDirectory == {"g"}
MCTaskLists == {<<"f">>, <<"g", "f">>}
=============================================================================
