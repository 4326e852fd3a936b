---------------------------- MODULE WorkStealing ----------------------------
(***************************************************************************)
(* fish-scheduler/src/work_stealing.rs, WorkStealingScheduler::run: the    *)
(* scheduler thread queues every task that is ready, waits for an outcome, *)
(* drains what else arrived, and looks again.  Unlike Scheduler::run it    *)
(* neither limits the tasks in flight nor checks, before it returns Ok,    *)
(* that every task is terminal; and it ignores the outcome of a task that  *)
(* is Cancelled.                                                           *)
(***************************************************************************)
EXTENDS BuildGraph, Sequences, Functions

CONSTANTS
  Graphs,  \* the graphs a build may be started on
  Worker   \* the worker threads, worker_count of them

ASSUME GraphsAssumption ==
  \A g \in Graphs : g \in Structure /\ Acyclic(g)

ASSUME WorkerAssumption == IsFiniteSet(Worker) /\ Worker # {}

VARIABLES
  deps,        \* the graph, fixed when run starts
  state,       \* node.state
  pc,          \* where the scheduler thread is in run's loop
  ready,       \* what the for loop has not dispatched yet
  in_flight,
  tasks,       \* the task queue
  worker,      \* what each worker thread is doing
  outcomes,    \* the outcome channel
  failures,    \* the nodes of the FailureRecords, in order
  timings      \* the nodes of the TaskTimings, in order

vars == <<deps, state, pc, ready, in_flight, tasks, worker, outcomes, failures, timings>>

TaskStatus == {"Executed", "Cached", "Failed"}
Outcome == [id : Node, status : TaskStatus]

Idle == [thread |-> "idle"]
Exited == [thread |-> "exited"]
Thread == [thread : {"idle", "exited"}] \cup [thread : {"busy"}, id : Node]
Busy(w) == worker[w].thread = "busy"

Init ==
  /\ deps \in Graphs
  /\ state = reset_states
  /\ pc = "top"
  /\ ready = << >>
  /\ in_flight = 0
  /\ tasks = << >>
  /\ worker = [w \in Worker |-> Idle]
  /\ outcomes = << >>
  /\ failures = << >>
  /\ timings = << >>

(* The order is by tail length and by a running average of the durations   *)
(* the workers keep measuring, which may put the tasks in any order.       *)
Refresh ==
  /\ pc = "top"
  /\ pc' = "dispatch"
  /\ LET R == ready_nodes(deps, state)
     IN  ready' \in Bijection(1 .. Cardinality(R), R)
  /\ UNCHANGED <<deps, state, in_flight, tasks, worker, outcomes, failures, timings>>

Dispatch ==
  /\ pc = "dispatch"
  /\ ready # << >>
  /\ ready' = Tail(ready)
  /\ state' = set_state(state, Head(ready), "Running")
  /\ tasks' = Append(tasks, Head(ready))
  /\ in_flight' = in_flight + 1
  /\ UNCHANGED <<deps, pc, worker, outcomes, failures, timings>>

\* Slip: the loop ends as soon as nothing new is ready.
AllDone_NothingReady == ready_nodes(deps, state) = {}

AllDone == in_flight = 0

(* if in_flight == 0 { break }, or wait for the next outcome. *)
Leave ==
  /\ pc = "dispatch"
  /\ ready = << >>
  /\ pc' = IF AllDone THEN "join" ELSE "recv"
  /\ UNCHANGED <<deps, state, ready, in_flight, tasks, worker, outcomes, failures, timings>>

StateOf(status) == IF status = "Executed" THEN "Succeeded" ELSE "Cached"

\* Slip: a failure is noted but its dependents are not cancelled.
apply_outcome_NoCascade(o) ==
  IF state[o.id] = "Cancelled"
  THEN UNCHANGED <<state, failures, timings>>
  ELSE /\ timings' = Append(timings, o.id)
       /\ state' = set_state(state, o.id,
                     IF o.status = "Failed" THEN "Failed" ELSE StateOf(o.status))
       /\ failures' = IF o.status = "Failed" THEN Append(failures, o.id) ELSE failures

apply_outcome(o) ==
  IF state[o.id] = "Cancelled"
  THEN UNCHANGED <<state, failures, timings>>
  ELSE /\ timings' = Append(timings, o.id)
       /\ state' = IF o.status = "Failed" THEN mark_failed(deps, state, o.id)
                   ELSE set_state(state, o.id, StateOf(o.status))
       /\ failures' = IF o.status = "Failed" THEN Append(failures, o.id) ELSE failures

(* done_rx.recv(), then one done_rx.try_recv() per step. *)
Receive ==
  /\ pc \in {"recv", "drain"}
  /\ outcomes # << >>
  /\ outcomes' = Tail(outcomes)
  /\ in_flight' = in_flight - 1
  /\ apply_outcome(Head(outcomes))
  /\ pc' = "drain"
  /\ UNCHANGED <<deps, ready, tasks, worker>>

Drained ==
  /\ pc = "drain"
  /\ outcomes = << >>
  /\ pc' = "top"
  /\ UNCHANGED <<deps, state, ready, in_flight, tasks, worker, outcomes, failures, timings>>

(* The queue is closed, every worker is joined, and run returns Ok. *)
Return ==
  /\ pc = "join"
  /\ \A w \in Worker : worker[w].thread = "exited"
  /\ pc' = "done"
  /\ UNCHANGED <<deps, state, ready, in_flight, tasks, worker, outcomes, failures, timings>>

-----------------------------------------------------------------------------
(* What executor.execute can do, and the status the worker reports for it. *)
Execution == {"Executed", "Cached", "Failed", "Error", "Panic"}

Reported(x) == IF x \in {"Error", "Panic"} THEN "Failed" ELSE x

WorkerRecv(w) ==
  /\ worker[w].thread = "idle"
  /\ tasks # << >>
  /\ worker' = [worker EXCEPT ![w] = [thread |-> "busy", id |-> Head(tasks)]]
  /\ tasks' = Tail(tasks)
  /\ UNCHANGED <<deps, state, pc, ready, in_flight, outcomes, failures, timings>>

\* Slip: catch_unwind is gone, and a panic takes the worker down with it.
WorkerExecute_Unwind(w, x) ==
  /\ Busy(w)
  /\ IF x = "Panic"
     THEN worker' = [worker EXCEPT ![w] = Exited] /\ UNCHANGED outcomes
     ELSE /\ outcomes' = Append(outcomes, [id |-> worker[w].id, status |-> Reported(x)])
          /\ worker' = [worker EXCEPT ![w] = Idle]
  /\ UNCHANGED <<deps, state, pc, ready, in_flight, tasks, failures, timings>>

WorkerExecute(w, x) ==
  /\ Busy(w)
  /\ outcomes' = Append(outcomes, [id |-> worker[w].id, status |-> Reported(x)])
  /\ worker' = [worker EXCEPT ![w] = Idle]
  /\ UNCHANGED <<deps, state, pc, ready, in_flight, tasks, failures, timings>>

WorkerExit(w) ==
  /\ worker[w].thread = "idle"
  /\ tasks = << >>
  /\ pc = "join"
  /\ worker' = [worker EXCEPT ![w] = Exited]
  /\ UNCHANGED <<deps, state, pc, ready, in_flight, tasks, outcomes, failures, timings>>

-----------------------------------------------------------------------------
SchedulerStep == Refresh \/ Dispatch \/ Leave \/ Receive \/ Drained \/ Return

WorkerStep(w) ==
  WorkerRecv(w) \/ (\E x \in Execution : WorkerExecute(w, x)) \/ WorkerExit(w)

Returned == pc = "done" /\ UNCHANGED vars

Next == SchedulerStep \/ (\E w \in Worker : WorkerStep(w)) \/ Returned

Spec == Init /\ [][Next]_vars

(* Every thread keeps being scheduled, and executor.execute returns. *)
FairSpec == Spec /\ WF_vars(SchedulerStep) /\ \A w \in Worker : WF_vars(WorkerStep(w))

-----------------------------------------------------------------------------
(* The values the variables of run take. *)
TypeOK ==
  /\ deps \in Graphs
  /\ state \in [Node -> TaskState]
  /\ pc \in {"top", "dispatch", "recv", "drain", "join", "done"}
  /\ ready \in Seq(Node)
  /\ in_flight \in Nat
  /\ tasks \in Seq(Node)
  /\ worker \in [Worker -> Thread]
  /\ outcomes \in Seq(Outcome)
  /\ failures \in Seq(Node)
  /\ timings \in Seq(Node)

Running == {n \in Node : state[n] = "Running"}

(* in_flight counts the tasks that are Running: run takes 0 for the end of *)
(* the build, and would return early or wait for ever were it off by one.  *)
InFlightIsExact == in_flight = Cardinality(Running)

(* A task is in one place: what the for loop still holds is pending and    *)
(* ready, and every job queued, executing or reported is for a task that   *)
(* is Running, a different one each.                                       *)
JobsAreRunning ==
  /\ \A i \in 1 .. Len(ready) : ready[i] \in ready_nodes(deps, state)
  /\ \A i, j \in 1 .. Len(ready) : ready[i] = ready[j] => i = j
  /\ \A i \in 1 .. Len(tasks) : state[tasks[i]] = "Running"
  /\ \A i \in 1 .. Len(outcomes) : state[outcomes[i].id] = "Running"
  /\ \A w \in Worker : Busy(w) => state[worker[w].id] = "Running"

JobsAreDistinct ==
  /\ \A i, j \in 1 .. Len(tasks) : tasks[i] = tasks[j] => i = j
  /\ \A i, j \in 1 .. Len(outcomes) : outcomes[i].id = outcomes[j].id => i = j
  /\ \A v, w \in Worker : Busy(v) /\ Busy(w) /\ worker[v].id = worker[w].id => v = w
  /\ \A i \in 1 .. Len(tasks), j \in 1 .. Len(outcomes) : tasks[i] # outcomes[j].id
  /\ \A i \in 1 .. Len(tasks), w \in Worker : Busy(w) => tasks[i] # worker[w].id
  /\ \A i \in 1 .. Len(outcomes), w \in Worker : Busy(w) => outcomes[i].id # worker[w].id

DependenciesFirst ==
  \A n \in Node : state[n] \notin {"Pending", "Ready", "Cancelled"}
                    => is_ready(deps, state, n)

CascadeIsExact ==
  \A n \in Node : state[n] = "Cancelled"
                    <=> \E d \in deps[n] : is_unsuccessful(state[d])

StatesUsed == \A n \in Node : state[n] \notin {"Ready", "Skipped"}

(* When run has dispatched its list there is no ready task outside it.     *)
NothingLeftReady ==
  pc = "dispatch" =>
    \A n \in ready_nodes(deps, state) : \E i \in 1 .. Len(ready) : ready[i] = n

(* run has no check that every task was given an answer, and returns Ok    *)
(* when nothing is in flight: that is the end of the build all the same.   *)
OkMeansComplete == pc \in {"join", "done"} => \A n \in Node : is_terminal(state[n])

IInv ==
  /\ TypeOK
  /\ InFlightIsExact
  /\ JobsAreRunning
  /\ JobsAreDistinct
  /\ DependenciesFirst
  /\ CascadeIsExact
  /\ StatesUsed
  /\ NothingLeftReady
  /\ OkMeansComplete

(* No work is thrown away: the outcome of every task that was executed is  *)
(* recorded.  The test for Cancelled at the top of apply_outcome, made for *)
(* tasks cancelled while they run, never applies.                          *)
NoOutcomeIsDropped ==
  [][Receive => timings' = Append(timings, Head(outcomes).id)]_vars

(* The two schedulers make the same promise. *)
Abstract == INSTANCE Build WITH MaxParallel <- N, returned <- pc \in {"join", "done"}

ImplementsBuild == Abstract!Spec

(* run returns; no worker is left behind and no outcome is waited for that *)
(* nobody will send.                                                       *)
Terminates == <>(pc = "done")

=============================================================================
