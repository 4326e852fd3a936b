----------------------------- MODULE MCServices -----------------------------
(***************************************************************************)
(* The services around a build, for TLC in one run.  They share no state:  *)
(* in a behavior one of them, the one in focus, takes all the steps, and   *)
(* the others rest in an initial state.  Readers and requests have the     *)
(* same names, and so have tasks, targets and sources, so that one small   *)
(* group of permutations serves them all.                                  *)
(***************************************************************************)
EXTENDS Cluster, Vfs, Coordinator, Gateway, Watch, DirtySet, ProcessExecutor, TLC

CONSTANTS p1, p2, k1, k2

VARIABLE focus

mcVars == <<focus, clusterVars, vfsVars, coordinatorVars, gatewayVars, watchVars, dirtyVars,
            executorVars>>

MCInit ==
  /\ focus \in {"cluster", "vfs", "registry", "queue", "balancer", "limiter",
                "watch", "dirty", "executor"}
  /\ ClusterInit
  /\ VfsInit
  /\ CoordinatorInit
  /\ GatewayInit
  /\ WatchInit
  /\ DirtyInit
  /\ ExecutorInit
  /\ focus # "cluster" => config = CHOOSE c \in Configs : TRUE

(* At the bounds a component may have no step left. *)
Rest == UNCHANGED mcVars

MCNext ==
  \/ /\ focus = "cluster" /\ ClusterNext
     /\ UNCHANGED <<focus, vfsVars, coordinatorVars, gatewayVars, watchVars, dirtyVars,
                    executorVars>>
  \/ /\ focus = "vfs" /\ VfsNext
     /\ UNCHANGED <<focus, clusterVars, coordinatorVars, gatewayVars, watchVars, dirtyVars,
                    executorVars>>
  \/ /\ focus = "registry" /\ Registry
     /\ UNCHANGED <<focus, clusterVars, vfsVars, gatewayVars, watchVars, dirtyVars,
                    executorVars>>
  \/ /\ focus = "queue" /\ TaskQueue
     /\ UNCHANGED <<focus, clusterVars, vfsVars, gatewayVars, watchVars, dirtyVars,
                    executorVars>>
  \/ /\ focus = "balancer" /\ Balancer
     /\ UNCHANGED <<focus, clusterVars, vfsVars, coordinatorVars, watchVars, dirtyVars,
                    executorVars>>
  \/ /\ focus = "limiter" /\ LimiterNext
     /\ UNCHANGED <<focus, clusterVars, vfsVars, coordinatorVars, watchVars, dirtyVars,
                    executorVars>>
  \/ /\ focus = "watch" /\ WatchNext
     /\ UNCHANGED <<focus, clusterVars, vfsVars, coordinatorVars, gatewayVars, dirtyVars,
                    executorVars>>
  \/ /\ focus = "dirty" /\ DirtyNext
     /\ UNCHANGED <<focus, clusterVars, vfsVars, coordinatorVars, gatewayVars, watchVars,
                    executorVars>>
  \/ /\ focus = "executor" /\ ExecutorNext
     /\ UNCHANGED <<focus, clusterVars, vfsVars, coordinatorVars, gatewayVars, watchVars,
                    dirtyVars>>
  \/ Rest

MCSpec == MCInit /\ [][MCNext]_mcVars

-----------------------------------------------------------------------------
Symmetry == Permutations({p1, p2}) \cup Permutations({k1, k2})

MCConfigs ==
  {[strategy |-> "RoundRobin", local |-> TRUE, packs |-> FALSE],
   [strategy |-> "LeastLoaded", local |-> FALSE, packs |-> FALSE],
   [strategy |-> "Random", local |-> FALSE, packs |-> TRUE]}

MCPath == {<<"a">>, <<"a", "b">>, <<"c">>}

MCRank == "j1" :> <<1, 1>> @@ "j2" :> <<1, 2>>
MCJobTool == "j1" :> "x" @@ "j2" :> "*"
MCMaxRetries == "j1" :> 1 @@ "j2" :> 0
MCNodeTool == "n1" :> "x" @@ "n2" :> "*" @@ "n3" :> "y"
=============================================================================
