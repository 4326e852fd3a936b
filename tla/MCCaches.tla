------------------------------ MODULE MCCaches ------------------------------
(***************************************************************************)
(* The two caches of a build for TLC in one run: the cache directory of    *)
(* one machine, and the machines that share a remote cache.  They share no *)
(* state: in a behavior the one in focus takes all the steps, and the      *)
(* other rests in its initial state.                                       *)
(***************************************************************************)
EXTENDS MCLocalCache, CompositeCache

VARIABLE focus

cachesVars == <<focus, scope, vars, compositeVars>>

CachesInit ==
  /\ focus \in {"directory", "machines"}
  /\ MCInit
  /\ CompositeInit
  /\ focus # "directory" => scope = CHOOSE s \in Scopes : TRUE

CachesNext ==
  \/ focus = "directory" /\ MCNext /\ UNCHANGED <<focus, compositeVars>>
  \/ focus = "machines" /\ CompositeNext /\ UNCHANGED <<focus, scope, vars>>

CachesSpec == CachesInit /\ [][CachesNext]_cachesVars

CachesSymmetry == Symmetry \cup Permutations(Machine) \cup Permutations(Version)
=============================================================================
