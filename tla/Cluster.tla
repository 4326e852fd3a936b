------------------------------ MODULE Cluster ------------------------------
(***************************************************************************)
(* fish-worker: the calls of ClusterExecutor.execute (cluster.rs), one per *)
(* task and any number at a time, the request each sends (client.rs) and   *)
(* the worker processes that answer (server.rs).  A caller that waits too  *)
(* long goes on to the next worker while the first still executes.         *)
(*                                                                         *)
(* Time is abstracted: a caller may time out at any moment before it has   *)
(* its answer, and the cooldown of a worker may be over at any moment.     *)
(***************************************************************************)
EXTENDS Integers, FiniteSets, Sequences, SequencesExt

CONSTANTS
  N,          \* the number of workers configured
  Task,
  Threshold,  \* failure_threshold of the circuit breaker
  MaxCrashes, \* bound on the crashes of worker processes
  Configs     \* the configurations: [strategy, local (a fallback), packs (sources)]

ASSUME ClusterAssumption == N \in Nat /\ MaxCrashes \in Nat

Worker == 1 .. N

VARIABLES
  config,
  rr,        \* round_robin_idx modulo N
  failures,  \* the failures of each worker since its last success
  cooling,   \* is its last failure less than a cooldown ago?
  cpc,       \* where the call for each task is
  pings,     \* what select_candidate_indices has heard: (failures, load) by worker
  order,     \* candidates
  attempt,   \* the position in order
  outcome,
  up,        \* is the worker process running?
  active,    \* its active_jobs
  crashes,   \* how often a worker has crashed
  job        \* the request for each task at each worker

breaker == <<failures, cooling>>
callers == <<cpc, pings, order, attempt, outcome>>
server == <<up, active, crashes, job>>
clusterVars == <<config, rr, breaker, callers, server>>

Unreachable == 1000  \* usize::MAX / 2
Job == {"none", "sent", "running", "Executed", "Failed", "gone", "leaked"}

ClusterTypeOK ==
  /\ config \in Configs /\ rr \in 0 .. N
  /\ failures \in [Worker -> Nat] /\ cooling \in [Worker -> BOOLEAN]
  /\ cpc \in [Task -> {"idle", "ping", "send", "wait", "local", "returned"}]
  /\ pings \in [Task -> Seq(Nat \X Nat)] /\ attempt \in [Task -> 0 .. N]
  /\ order \in [Task -> Seq(Worker)]
  /\ outcome \in [Task -> {"none", "Executed", "Failed", "Err"}]
  /\ up \in [Worker -> BOOLEAN] /\ active \in [Worker -> Nat] /\ crashes \in 0 .. MaxCrashes
  /\ job \in [Task -> [Worker -> Job]]

ClusterInit ==
  /\ config \in Configs
  /\ rr = 0 /\ failures = [w \in Worker |-> 0] /\ cooling = [w \in Worker |-> FALSE]
  /\ cpc = [t \in Task |-> "idle"] /\ pings = [t \in Task |-> <<>>]
  /\ order = [t \in Task |-> <<>>] /\ attempt = [t \in Task |-> 0]
  /\ outcome = [t \in Task |-> "none"]
  /\ crashes = 0 /\ up = [w \in Worker |-> TRUE] /\ active = [w \in Worker |-> 0]
  /\ job = [t \in Task |-> [w \in Worker |-> "none"]]

-----------------------------------------------------------------------------
is_degraded(w) == failures[w] >= Threshold /\ cooling[w]

\* Slip: degraded workers are left out while there are others.
Orders_Healthy ==
  LET good == {w \in Worker : ~is_degraded(w)}
  IN  IF good = {} THEN Bijection(1 .. N, Worker) ELSE Bijection(1 .. Cardinality(good), good)

Orders == Bijection(1 .. N, Worker)

(* Of equals the one of the lower index is first: sort_by_key is stable.   *)
Lighter(p, v, w) ==
  \/ p[v][1] < p[w][1]
  \/ p[v][1] = p[w][1] /\ p[v][2] < p[w][2]
  \/ p[v] = p[w] /\ v < w

PreferredTo(t, start, v, w) ==
  IF config.strategy = "LeastLoaded" THEN Lighter(pings[t], v, w)
  ELSE (v - 1 - start) % N < (w - 1 - start) % N

(* The degraded workers go last, and the order is kept otherwise.          *)
CandidateOrders(t, start) ==
  {o \in Orders : \A i, j \in DOMAIN o : i < j =>
     \/ ~is_degraded(o[i]) /\ is_degraded(o[j])
     \/ (is_degraded(o[i]) <=> is_degraded(o[j])) /\ PreferredTo(t, start, o[i], o[j])}

(* A call begins; least loaded first asks every worker for its load. *)
ClusterExecute(t) ==
  /\ cpc[t] = "idle"
  /\ cpc' = [cpc EXCEPT ![t] = IF N > 0 THEN "ping" ELSE IF config.local THEN "local" ELSE "returned"]
  /\ outcome' = [outcome EXCEPT ![t] = IF N = 0 /\ ~config.local THEN "Err" ELSE @]
  /\ UNCHANGED <<rr, breaker, pings, order, attempt, server>>

Ping(t) ==
  /\ cpc[t] = "ping" /\ config.strategy = "LeastLoaded" /\ Len(pings[t]) < N
  /\ LET w == Len(pings[t]) + 1
     IN  \E load \in {IF up[w] THEN active[w] ELSE Unreachable, Unreachable} :
           pings' = [pings EXCEPT ![t] = Append(@, <<failures[w], load>>)]
  /\ UNCHANGED <<rr, breaker, cpc, order, attempt, outcome, server>>

(* select_candidate_indices; is_degraded is read at one moment. *)
Select(t) ==
  /\ cpc[t] = "ping"
  /\ config.strategy = "LeastLoaded" => Len(pings[t]) = N
  /\ \E start \in IF config.strategy = "Random" THEN 0 .. N - 1 ELSE {rr} :
       \E o \in CandidateOrders(t, start) : order' = [order EXCEPT ![t] = o]
  /\ rr' = IF config.strategy = "RoundRobin" THEN (rr + 1) % N ELSE rr
  /\ cpc' = [cpc EXCEPT ![t] = "send"]
  /\ attempt' = [attempt EXCEPT ![t] = 1]
  /\ pings' = [pings EXCEPT ![t] = <<>>]
  /\ UNCHANGED <<breaker, outcome, server>>

Candidate(t) == order[t][attempt[t]]

Return(t, o) ==
  /\ cpc' = [cpc EXCEPT ![t] = "returned"]
  /\ outcome' = [outcome EXCEPT ![t] = o]
  /\ order' = [order EXCEPT ![t] = <<>>] /\ attempt' = [attempt EXCEPT ![t] = 0]
  /\ UNCHANGED pings

(* The Err arm of the loop, and what follows the loop. *)
AttemptFails(t) ==
  /\ failures' = [failures EXCEPT ![Candidate(t)] = @ + 1]
  /\ cooling' = [cooling EXCEPT ![Candidate(t)] = TRUE]
  /\ IF attempt[t] < Len(order[t])
     THEN /\ cpc' = [cpc EXCEPT ![t] = "send"]
          /\ attempt' = [attempt EXCEPT ![t] = @ + 1]
          /\ UNCHANGED <<pings, order, outcome>>
     ELSE IF config.local
     THEN cpc' = [cpc EXCEPT ![t] = "local"] /\ UNCHANGED <<pings, order, attempt, outcome>>
     ELSE Return(t, "Err")
  /\ UNCHANGED rr

(* send_task: the request is on its way. *)
Send(t) ==
  /\ cpc[t] = "send" /\ up[Candidate(t)]
  /\ job' = [job EXCEPT ![t][Candidate(t)] = "sent"]
  /\ cpc' = [cpc EXCEPT ![t] = "wait"]
  /\ UNCHANGED <<rr, breaker, pings, order, attempt, outcome, up, active, crashes>>

(* No connection, or the sources cannot be packed. *)
SendFails(t) ==
  /\ cpc[t] = "send" /\ (~up[Candidate(t)] \/ config.packs)
  /\ AttemptFails(t)
  /\ UNCHANGED server

Answer(t) ==
  /\ cpc[t] = "wait" /\ job[t][Candidate(t)] \in {"Executed", "Failed"}
  /\ failures' = [failures EXCEPT ![Candidate(t)] = 0]
  /\ cooling' = [cooling EXCEPT ![Candidate(t)] = FALSE]
  /\ job' = [job EXCEPT ![t][Candidate(t)] = "gone"]
  /\ Return(t, job[t][Candidate(t)])
  /\ UNCHANGED <<rr, up, active, crashes>>

(* The connection ended without an answer, or the time is over. *)
NoAnswer(t) ==
  /\ cpc[t] = "wait" /\ job[t][Candidate(t)] \notin {"Executed", "Failed"}
  /\ AttemptFails(t)
  /\ UNCHANGED server

RunLocally(t) ==
  /\ cpc[t] = "local"
  /\ \E o \in {"Executed", "Failed", "Err"} : Return(t, o)
  /\ UNCHANGED <<rr, breaker, server>>

CoolDown(w) ==
  /\ cooling[w]
  /\ cooling' = [cooling EXCEPT ![w] = FALSE]
  /\ UNCHANGED <<rr, failures, callers, server>>

-----------------------------------------------------------------------------
(* handle_connection: a refused token is answered, as a failure.  An error *)
(* of unpack_source leaves the handler before fetch_sub, without answer.   *)
Accept(t, w) ==
  /\ up[w] /\ job[t][w] = "sent"
  /\ \/ job' = [job EXCEPT ![t][w] = "Failed"] /\ UNCHANGED active
     \/ /\ active' = [active EXCEPT ![w] = @ + 1]
        /\ \/ job' = [job EXCEPT ![t][w] = "running"]
           \/ config.packs /\ job' = [job EXCEPT ![t][w] = "leaked"]
  /\ UNCHANGED <<up, crashes>>

\* Slip: the job counts until its answer is delivered.
Finish_Undelivered(t, w) ==
  /\ job[t][w] = "running"
  /\ IF cpc[t] = "wait" /\ Candidate(t) = w
     THEN /\ active' = [active EXCEPT ![w] = @ - 1]
          /\ job' = [job EXCEPT ![t][w] = "Executed"]
     ELSE job' = [job EXCEPT ![t][w] = "gone"] /\ UNCHANGED active
  /\ UNCHANGED <<up, crashes>>

(* The answer of a caller that has gone on is lost. *)
Finish(t, w) ==
  /\ job[t][w] = "running"
  /\ active' = [active EXCEPT ![w] = @ - 1]
  /\ \E o \in {"Executed", "Failed"} :
       job' = [job EXCEPT ![t][w] = IF cpc[t] = "wait" /\ Candidate(t) = w THEN o ELSE "gone"]
  /\ UNCHANGED <<up, crashes>>

CrashWorker(w) ==
  /\ up[w] /\ crashes < MaxCrashes
  /\ crashes' = crashes + 1
  /\ up' = [up EXCEPT ![w] = FALSE]
  /\ active' = [active EXCEPT ![w] = 0]
  /\ job' = [t \in Task |-> [job[t] EXCEPT ![w] =
               IF @ \in {"sent", "running", "leaked"} THEN "gone" ELSE @]]

RestartWorker(w) ==
  /\ ~up[w]
  /\ up' = [up EXCEPT ![w] = TRUE]
  /\ UNCHANGED <<active, crashes, job>>

Caller(t) == Ping(t) \/ Select(t) \/ Send(t) \/ SendFails(t) \/ Answer(t) \/ NoAnswer(t) \/ RunLocally(t)

Server ==
  /\ \E w \in Worker :
       \/ \E t \in Task : Accept(t, w) \/ Finish(t, w)
       \/ CrashWorker(w) \/ RestartWorker(w)
  /\ UNCHANGED <<rr, breaker, callers>>

ClusterNext ==
  /\ \/ \E t \in Task : ClusterExecute(t) \/ Caller(t)
     \/ \E w \in Worker : CoolDown(w)
     \/ Server
  /\ UNCHANGED config

ClusterSpec == ClusterInit /\ [][ClusterNext]_clusterVars

-----------------------------------------------------------------------------
(* The load a worker reports: the jobs it has, and one more for ever for   *)
(* each whose sources it could not unpack (the early return of             *)
(* handle_connection), whatever is lost, given up or crashes.              *)
ActiveJobsAreAccounted ==
  /\ ClusterTypeOK
  /\ \A w \in Worker :
       active[w] = Cardinality({t \in Task : job[t][w] \in {"running", "leaked"}})

(* A call is executed locally, or fails, only after every worker failed    *)
(* it: a degraded worker is tried late but not left out.                   *)
GivesUpAfterAll ==
  [][\A t \in Task :
       cpc[t] \in {"send", "wait"} /\ (cpc'[t] = "local" \/ outcome'[t] = "Err")
       => \A w \in Worker : \E i \in 1 .. attempt[t] : order[t][i] = w]_clusterVars
=============================================================================
