----------------------------- MODULE Scheduler ------------------------------
(***************************************************************************)
(* fish-scheduler/src/lib.rs, Scheduler::run: one dispatcher thread that   *)
(* owns the graph, and a pool of worker threads.  Jobs reach the workers   *)
(* through one unbounded channel and outcomes come back through another.   *)
(* The dispatcher looks for ready tasks only when the list it made last    *)
(* time is used up, so what it dispatches was ready some completions ago.  *)
(***************************************************************************)
EXTENDS BuildGraph, Sequences

CONSTANTS
  Graphs,        \* the graphs a build may be started on
  Worker,        \* the worker threads
  W,             \* self.workers, at least 1
  CriticalPath,  \* self.critical_path
  RamThreshold,  \* whether self.ram_threshold is set
  RamFloor       \* self.ram_floor as the caller gives it

ASSUME GraphsAssumption ==
  \A g \in Graphs : g \in Structure /\ Acyclic(g)

ASSUME WorkersAssumption ==
  /\ W \in Nat \ {0}
  /\ IsFiniteSet(Worker) /\ Cardinality(Worker) = W

ASSUME FlagsAssumption ==
  CriticalPath \in BOOLEAN /\ RamThreshold \in BOOLEAN /\ RamFloor \in Nat

VARIABLES
  deps,          \* the graph, fixed when run starts
  state,         \* node.state
  pc,            \* where the dispatcher is in run's loop
  ready,         \* ready[ready_index..]: what is left of the last list
  ram_limited,
  in_flight,
  free_workers,  \* the stack of display slots not in use
  tasks,         \* the task channel
  worker,        \* what each worker thread is doing
  outcomes,      \* the outcome channel
  failures,      \* the nodes of the FailureRecords, in order
  timings,       \* the nodes that have a TaskTiming, with its slot and status
  result         \* what run returns

graphVars == <<deps, state>>
loopVars  == <<ready, ram_limited, in_flight, free_workers>>
chanVars  == <<tasks, worker, outcomes>>
logVars   == <<failures, timings>>
vars == <<deps, state, pc, ready, ram_limited, in_flight, free_workers, tasks,
          worker, outcomes, failures, timings, result>>

Slot == 0 .. W - 1
Job == [id : Node, slot : Slot]
TaskStatus == {"Executed", "Cached", "Failed"}
Outcome == [id : Node, slot : Slot, status : TaskStatus]

Idle == [thread |-> "idle"]
Exited == [thread |-> "exited"]
Thread == [thread : {"idle", "exited"}] \cup [thread : {"busy"}, id : Node, slot : Slot]
Busy(w) == worker[w].thread = "busy"

-----------------------------------------------------------------------------
(* Longest path, in nodes, from each node to the end of the graph. *)
critical_path_tails(g) ==
  LET tail[n \in Node] ==
        LET below == {tail[m] : m \in dependents(g, n)}
        IN  1 + (IF below = {} THEN 0
                 ELSE CHOOSE t \in below : \A u \in below : u <= t)
  IN  tail

(* ready.sort_by_key is stable and ready_nodes() lists ids in order. *)
Before(g, a, b) ==
  LET tail == critical_path_tails(g)
  IN  IF CriticalPath /\ tail[a] # tail[b] THEN tail[a] > tail[b] ELSE a < b

IsReadyList(g, q, R) ==
  /\ \A n \in R : \E i \in 1 .. Cardinality(R) : q[i] = n
  /\ \A i, j \in 1 .. Cardinality(R) : i < j => Before(g, q[i], q[j])

(* with_ram_backpressure stores floor.max(1); run takes the lower of that *)
(* and the number of workers.                                             *)
ram_floor == IF RamFloor = 0 THEN 1 ELSE RamFloor

\* Slip: the higher of the two is taken.
effective_workers_Max ==
  IF RamThreshold /\ ram_limited /\ ram_floor > W THEN ram_floor ELSE W

effective_workers ==
  IF RamThreshold /\ ram_limited /\ ram_floor < W THEN ram_floor ELSE W

-----------------------------------------------------------------------------
Init ==
  /\ deps \in Graphs
  /\ state = reset_states
  /\ pc = "top"
  /\ ready = << >>
  /\ ram_limited = FALSE
  /\ in_flight = 0
  /\ free_workers = [i \in 1 .. W |-> W - i]
  /\ tasks = << >>
  /\ worker = [w \in Worker |-> Idle]
  /\ outcomes = << >>
  /\ failures = << >>
  /\ timings = {}
  /\ result = "none"

(* Top of the loop: a new list if the last one is used up, and a new       *)
(* memory reading if the last one is 500 ms old (it may or may not be).    *)
Refresh ==
  /\ pc = "top"
  /\ pc' = "dispatch"
  /\ IF ready = << >>
     THEN LET R == ready_nodes(deps, state)
          IN  \E q \in [1 .. Cardinality(R) -> R] :
                IsReadyList(deps, q, R) /\ ready' = q
     ELSE UNCHANGED ready
  /\ IF RamThreshold THEN ram_limited' \in BOOLEAN ELSE UNCHANGED ram_limited
  /\ UNCHANGED <<graphVars, in_flight, free_workers, chanVars, logVars, result>>

\* Slip: one task too many.
CanDispatch_OffByOne == in_flight <= effective_workers /\ ready # << >>

CanDispatch == in_flight < effective_workers /\ ready # << >>

(* free_workers.pop().unwrap_or(0) *)
PoppedSlot == IF free_workers = << >> THEN 0 ELSE free_workers[Len(free_workers)]

\* Slip: the slot is read but stays on the stack.
Popped_Peek == free_workers

Popped == IF free_workers = << >> THEN << >>
          ELSE SubSeq(free_workers, 1, Len(free_workers) - 1)

\* Slip: ready_index is not advanced.
Dispatch_NoAdvance ==
  /\ pc = "dispatch"
  /\ CanDispatch
  /\ state' = set_state(state, Head(ready), "Running")
  /\ in_flight' = in_flight + 1
  /\ free_workers' = Popped
  /\ tasks' = Append(tasks, [id |-> Head(ready), slot |-> PoppedSlot])
  /\ UNCHANGED <<deps, pc, ready, ram_limited, worker, outcomes, logVars, result>>

Dispatch ==
  /\ pc = "dispatch"
  /\ CanDispatch
  /\ ready' = Tail(ready)
  /\ state' = set_state(state, Head(ready), "Running")
  /\ in_flight' = in_flight + 1
  /\ free_workers' = Popped
  /\ tasks' = Append(tasks, [id |-> Head(ready), slot |-> PoppedSlot])
  /\ UNCHANGED <<deps, pc, ram_limited, worker, outcomes, logVars, result>>

\* Slip: a build with nothing left to dispatch is taken for a finished one.
AllTerminal_NonePending == \A n \in Node : state[n] # "Pending"

AllTerminal == \A n \in Node : is_terminal(state[n])

(* The dispatch loop is over: leave when every node is terminal, or with   *)
(* an error when nothing is left to wait for; else block on the channel.   *)
Leave ==
  /\ pc = "dispatch"
  /\ ~CanDispatch
  /\ AllTerminal \/ in_flight = 0
  /\ pc' = "join"
  /\ result' = IF AllTerminal THEN "Ok" ELSE "Stalled"
  /\ UNCHANGED <<graphVars, loopVars, chanVars, logVars>>

Block ==
  /\ pc = "dispatch"
  /\ ~CanDispatch
  /\ ~AllTerminal
  /\ in_flight # 0
  /\ pc' = "recv"
  /\ UNCHANGED <<graphVars, loopVars, chanVars, logVars, result>>

StateOf(status) == IF status = "Executed" THEN "Succeeded" ELSE "Cached"

(* process_completion, with the push on free_workers its callers do first. *)
\* Slip: a second failure replaces the record of the first.
process_completion_OneFailure(o) ==
  /\ free_workers' = Append(free_workers, o.slot)
  /\ in_flight' = in_flight - 1
  /\ timings' = timings \cup {o}
  /\ state' = IF o.status = "Failed" THEN mark_failed(deps, state, o.id)
              ELSE set_state(state, o.id, StateOf(o.status))
  /\ failures' = IF o.status = "Failed" THEN <<o.id>> ELSE failures

process_completion(o) ==
  /\ free_workers' = Append(free_workers, o.slot)
  /\ in_flight' = in_flight - 1
  /\ timings' = timings \cup {o}
  /\ state' = IF o.status = "Failed" THEN mark_failed(deps, state, o.id)
              ELSE set_state(state, o.id, StateOf(o.status))
  /\ failures' = IF o.status = "Failed" THEN Append(failures, o.id) ELSE failures

(* rx.recv(), then one rx.try_recv() per step. *)
Receive ==
  /\ pc \in {"recv", "drain"}
  /\ outcomes # << >>
  /\ outcomes' = Tail(outcomes)
  /\ process_completion(Head(outcomes))
  /\ pc' = "drain"
  /\ UNCHANGED <<deps, ready, ram_limited, tasks, worker, result>>

Drained ==
  /\ pc = "drain"
  /\ outcomes = << >>
  /\ pc' = "top"
  /\ UNCHANGED <<graphVars, loopVars, chanVars, logVars, result>>

(* thread::scope joins the workers before run returns. *)
Return ==
  /\ pc = "join"
  /\ \A w \in Worker : worker[w].thread = "exited"
  /\ pc' = "done"
  /\ UNCHANGED <<graphVars, loopVars, chanVars, logVars, result>>

-----------------------------------------------------------------------------
(* What executor.execute can do, and the status the worker reports for it. *)
Execution == {"Executed", "Cached", "Failed", "Error", "Panic"}

\* Slip: a panic is not turned into a failure.
Reported_Raw(x) == IF x = "Error" THEN "Failed" ELSE x

Reported(x) == IF x \in {"Error", "Panic"} THEN "Failed" ELSE x

WorkerRecv(w) ==
  /\ worker[w].thread = "idle"
  /\ tasks # << >>
  /\ worker' = [worker EXCEPT ![w] = [thread |-> "busy", id |-> Head(tasks).id,
                                          slot |-> Head(tasks).slot]]
  /\ tasks' = Tail(tasks)
  /\ UNCHANGED <<graphVars, pc, loopVars, outcomes, logVars, result>>

\* Slip: a job whose executor returned an error is queued again, for ever.
WorkerExecute_Requeue(w, x) ==
  /\ Busy(w)
  /\ IF x = "Error"
     THEN tasks' = Append(tasks, [id |-> worker[w].id, slot |-> worker[w].slot]) /\ UNCHANGED outcomes
     ELSE /\ outcomes' = Append(outcomes, [id |-> worker[w].id, slot |-> worker[w].slot,
                                           status |-> Reported(x)])
          /\ UNCHANGED tasks
  /\ worker' = [worker EXCEPT ![w] = Idle]
  /\ UNCHANGED <<graphVars, pc, loopVars, logVars, result>>

WorkerExecute(w, x) ==
  /\ Busy(w)
  /\ outcomes' = Append(outcomes, [id |-> worker[w].id, slot |-> worker[w].slot,
                                   status |-> Reported(x)])
  /\ worker' = [worker EXCEPT ![w] = Idle]
  /\ UNCHANGED <<graphVars, pc, loopVars, tasks, logVars, result>>

(* The dispatcher drops task_tx when it leaves the loop. *)
WorkerExit(w) ==
  /\ worker[w].thread = "idle"
  /\ tasks = << >>
  /\ pc = "join"
  /\ worker' = [worker EXCEPT ![w] = Exited]
  /\ UNCHANGED <<graphVars, pc, loopVars, tasks, outcomes, logVars, result>>

-----------------------------------------------------------------------------
Dispatcher ==
  Refresh \/ Dispatch \/ Leave \/ Block \/ Receive \/ Drained \/ Return

WorkerStep(w) ==
  WorkerRecv(w) \/ (\E x \in Execution : WorkerExecute(w, x)) \/ WorkerExit(w)

Returned == pc = "done" /\ UNCHANGED vars

Next == Dispatcher \/ (\E w \in Worker : WorkerStep(w)) \/ Returned

Spec == Init /\ [][Next]_vars

(* Every thread keeps being scheduled, and executor.execute returns. *)
FairSpec == Spec /\ WF_vars(Dispatcher) /\ \A w \in Worker : WF_vars(WorkerStep(w))

-----------------------------------------------------------------------------
(* BuildSummary::from_graph and succeeded() *)
Count(s) == Cardinality({n \in Node : state[n] = s})

from_graph == [total |-> N, executed |-> Count("Succeeded"), cached |-> Count("Cached"),
               failed |-> Count("Failed"), cancelled |-> Count("Cancelled")]

succeeded == from_graph.failed = 0

-----------------------------------------------------------------------------
(* The values the variables of run take. *)
TypeOK ==
  /\ deps \in Graphs
  /\ state \in [Node -> TaskState]
  /\ pc \in {"top", "dispatch", "recv", "drain", "join", "done"}
  /\ ready \in Seq(Node)
  /\ ram_limited \in BOOLEAN
  /\ in_flight \in Nat
  /\ free_workers \in Seq(Slot)
  /\ tasks \in Seq(Job)
  /\ worker \in [Worker -> Thread]
  /\ outcomes \in Seq(Outcome)
  /\ failures \in Seq(Node)
  /\ timings \in SUBSET Outcome
  /\ result \in {"none", "Ok", "Stalled"}

Running == {n \in Node : state[n] = "Running"}

(* A task that was ever handed to an executor had every dependency finish  *)
(* well before it: neither the stale ready list nor a late cascade can get *)
(* between the check in ready_nodes() and the executor.                    *)
DependenciesFirst ==
  \A n \in Node : state[n] \notin {"Pending", "Ready", "Cancelled"}
                    => is_ready(deps, state, n)

(* What is left of the ready list is still ready, once each, however many  *)
(* completions and cascades were processed since it was made; run          *)
(* dispatches from it without looking again.                               *)
ReadyListIsFresh ==
  /\ \A i \in 1 .. Len(ready) : ready[i] \in ready_nodes(deps, state)
  /\ \A i, j \in 1 .. Len(ready) : ready[i] = ready[j] => i = j

(* in_flight counts the running tasks exactly, and never exceeds the pool: *)
(* each running task is in exactly one of the task channel, a worker and   *)
(* the outcome channel.                                                    *)
InFlightIsExact ==
  /\ in_flight = Cardinality(Running)
  /\ in_flight = Len(tasks) + Len(outcomes) + Cardinality({w \in Worker : Busy(w)})
  /\ in_flight <= W

Apart(a, b) == a.id # b.id /\ a.slot # b.slot

JobsApart ==
  /\ \A i, j \in 1 .. Len(tasks) : i # j => Apart(tasks[i], tasks[j])
  /\ \A i, j \in 1 .. Len(outcomes) : i # j => Apart(outcomes[i], outcomes[j])
  /\ \A v, w \in Worker : v # w /\ Busy(v) /\ Busy(w) => Apart(worker[v], worker[w])
  /\ \A i \in 1 .. Len(tasks), j \in 1 .. Len(outcomes) : Apart(tasks[i], outcomes[j])
  /\ \A i \in 1 .. Len(tasks), w \in Worker : Busy(w) => Apart(tasks[i], worker[w])
  /\ \A i \in 1 .. Len(outcomes), w \in Worker : Busy(w) => Apart(outcomes[i], worker[w])

FreeApart ==
  /\ \A i, j \in 1 .. Len(free_workers) : i # j => free_workers[i] # free_workers[j]
  /\ \A i \in 1 .. Len(free_workers) :
       /\ \A j \in 1 .. Len(tasks) : free_workers[i] # tasks[j].slot
       /\ \A j \in 1 .. Len(outcomes) : free_workers[i] # outcomes[j].slot
       /\ \A w \in Worker : Busy(w) => free_workers[i] # worker[w].slot

(* No two jobs in flight are for the same task or hold the same display    *)
(* slot, no slot in use is on the free stack, and together they are the    *)
(* whole pool: two tasks of the trace that overlap are never drawn in one  *)
(* lane, and the unwrap_or(0) of the dispatch loop is never needed.        *)
SlotsAreExclusive ==
  JobsApart /\ FreeApart /\ Len(free_workers) + in_flight = W

(* A task is cancelled exactly when one of its dependencies failed or was  *)
(* cancelled, at every moment and not only at the end of the build.        *)
CascadeIsExact ==
  \A n \in Node : state[n] = "Cancelled"
                    <=> \E d \in deps[n] : is_unsuccessful(state[d])

(* run never reports "scheduler stalled ...; this is a bug". *)
NeverStalls == result # "Stalled"

(* The summary of a finished build accounts for every task once, lists     *)
(* each failure once, times each task that ran, and says the build         *)
(* succeeded (which looks at the failures alone) only if no task was       *)
(* cancelled either.                                                       *)
SummaryAccountsForAll ==
  result = "Ok" =>
    /\ from_graph.executed + from_graph.cached + from_graph.failed
         + from_graph.cancelled = from_graph.total
    /\ Len(failures) = from_graph.failed
    /\ \A i \in 1 .. Len(failures) : state[failures[i]] = "Failed"
    /\ \A i, j \in 1 .. Len(failures) : failures[i] = failures[j] => i = j
    /\ {o.id : o \in timings} = {n \in Node : state[n] # "Cancelled"}
    /\ Cardinality(timings) = from_graph.total - from_graph.cancelled
    /\ succeeded => \A n \in Node : is_successful(state[n])

(* The inductive strengthening of the invariants above.  A job anywhere in *)
(* the pipeline is for a task that is Running; run uses neither Ready nor  *)
(* Skipped; and an empty list in the dispatch loop means, when nothing is  *)
(* in flight, that it was made in this very iteration.                     *)
JobsAreRunning ==
  /\ \A i \in 1 .. Len(tasks) : state[tasks[i].id] = "Running"
  /\ \A i \in 1 .. Len(outcomes) : state[outcomes[i].id] = "Running"
  /\ \A w \in Worker : Busy(w) => state[worker[w].id] = "Running"

StatesUsed == \A n \in Node : state[n] \notin {"Ready", "Skipped"}

ListMadeWhenIdle ==
  pc = "dispatch" /\ ready = << >> /\ in_flight = 0 => ready_nodes(deps, state) = {}

(* The records keep up with the states at every step, not only at the end: *)
(* a failure is recorded with the cascade it sets off, and a task is timed *)
(* once, when its outcome is taken.                                        *)
Timed(n) == state[n] \in {"Succeeded", "Cached", "Failed"}

LogIsExact ==
  /\ Len(failures) = Count("Failed")
  /\ \A i \in 1 .. Len(failures) : state[failures[i]] = "Failed"
  /\ \A i, j \in 1 .. Len(failures) : failures[i] = failures[j] => i = j
  /\ \A o \in timings : Timed(o.id)
  /\ \A n \in Node : Timed(n) => \E o \in timings : o.id = n
  /\ \A o, p \in timings : o.id = p.id => o = p

IInv ==
  /\ TypeOK
  /\ DependenciesFirst
  /\ ReadyListIsFresh
  /\ InFlightIsExact
  /\ SlotsAreExclusive
  /\ CascadeIsExact
  /\ JobsAreRunning
  /\ StatesUsed
  /\ ListMadeWhenIdle
  /\ NeverStalls
  /\ result = "Ok" => AllTerminal

(* A terminal state is never overwritten: a failed task is not downgraded  *)
(* to cancelled by a later cascade, nor a cancelled one revived.           *)
TerminalIsFinal ==
  [][\A n \in Node : is_terminal(state[n]) => state'[n] = state[n]]_vars

(* While memory is low no task is started past the floor, even though the  *)
(* tasks already running are left alone.                                   *)
ThrottleHolds ==
  [][in_flight' > in_flight /\ RamThreshold /\ ram_limited
       => in_flight' <= ram_floor]_vars

(* run is one way to carry out the abstract build. *)
Abstract == INSTANCE Build WITH MaxParallel <- W, returned <- (result = "Ok")

ImplementsBuild == Abstract!Spec

(* run returns, and joins its workers, once every task was given an answer.*)
Terminates == <>(pc = "done" /\ \A n \in Node : is_terminal(state[n]))
=============================================================================
