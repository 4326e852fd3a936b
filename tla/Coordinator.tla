----------------------------- MODULE Coordinator ----------------------------
(***************************************************************************)
(* go/pkg/coordinator: the registry of workers (registry.go) and the queue *)
(* of tasks (task_queue.go), each under one mutex, as concurrent requests  *)
(* use them.  The choice of a worker lists the healthy ones under the lock *)
(* and compares their loads after it, one after the other, while           *)
(* heartbeats and registrations go on.                                     *)
(*                                                                         *)
(* Time is abstracted: a heartbeat may be too old at any moment, and so    *)
(* may a deadline be over.  Toolchains and tags select alike and are one   *)
(* attribute, AnyTool for the one that matches all of them.                *)
(***************************************************************************)
EXTENDS Integers, Sequences, FiniteSets, SequencesExt

CONSTANTS
  Node, NoNode,
  Tool, AnyTool,  \* toolchains; AnyTool is "*" of a task or a worker, "" of a request
  MaxLoad,       \* bound on the jobs a heartbeat reports
  JobId,
  Rank,          \* of each job: <<priority, weight>>
  JobTool,       \* of each job
  MaxRetries,    \* of each job, 0 for no limit
  MaxPushes,     \* bound on the times a job is pushed
  NodeTool,      \* of each worker
  RetryBound     \* bound on the retries of a job without limit

ASSUME CoordinatorAssumption ==
  /\ MaxLoad \in Nat
  /\ MaxRetries \in [JobId -> Nat] /\ Rank \in [JobId -> Int \X Int]

VARIABLES
  workers,    \* the workers registered: the load last heard of each
  fresh,      \* those whose last heartbeat is recent
  spc,        \* where the choice of a worker is
  wanted,     \* the toolchain it looks for
  listed,     \* the workers it listed and has still to look at: is each the one registered?
  best,       \* the best so far: <<worker, is it the one registered?>>
  steady,     \* history: no load has changed since it listed them
  tasks,      \* the queue: <<job, retries>>
  late,       \* the jobs whose deadline is over
  handed,     \* the tasks popped: <<job, retries>>, as a sequence
  retired,    \* history: how many pushes of each job ended: done, given up, cancelled
  pushes

registry == <<workers, fresh, spc, wanted, listed, best, steady>>
jobs == <<tasks, late, handed, retired, pushes>>
coordinatorVars == <<registry, jobs>>

NoBest == <<NoNode, FALSE>>

CoordinatorInit ==
  /\ workers = <<>> /\ fresh = {} /\ spc = "idle" /\ wanted = AnyTool /\ listed = <<>>
  /\ best = NoBest /\ steady = TRUE
  /\ tasks = <<>> /\ late = {} /\ handed = <<>>
  /\ retired = [j \in JobId |-> 0] /\ pushes = [j \in JobId |-> 0]

-----------------------------------------------------------------------------
Put(f, w, v) == [x \in DOMAIN f \cup {w} |-> IF x = w THEN v ELSE f[x]]
Without(f, S) == [x \in DOMAIN f \ S |-> f[x]]
(* The workers of S are no longer registered, or are other objects now.    *)
Replaced(S) ==
  /\ listed' = [x \in DOMAIN listed |-> listed[x] /\ x \notin S]
  /\ best' = IF best[1] \in S THEN <<best[1], FALSE>> ELSE best

(* A worker registers, again as well, with the load it claims. *)
Register(w) ==
  /\ \E load \in 0 .. MaxLoad : workers' = Put(workers, w, load)
  /\ fresh' = fresh \cup {w} /\ steady' = FALSE /\ Replaced({w})
  /\ UNCHANGED <<spc, wanted>>

Deregister(w) ==
  /\ w \in DOMAIN workers
  /\ workers' = Without(workers, {w}) /\ fresh' = fresh \ {w} /\ steady' = FALSE
  /\ Replaced({w})
  /\ UNCHANGED <<spc, wanted>>

Heartbeat(w) ==
  /\ w \in DOMAIN workers
  /\ \E load \in 0 .. MaxLoad : workers' = [workers EXCEPT ![w] = load]
  /\ fresh' = fresh \cup {w} /\ steady' = FALSE
  /\ UNCHANGED <<spc, wanted, listed, best>>

Expire(w) ==
  /\ w \in fresh /\ fresh' = fresh \ {w}
  /\ UNCHANGED <<workers, spc, wanted, listed, best, steady>>

PruneExpired ==
  /\ workers' = Without(workers, DOMAIN workers \ fresh)
  /\ steady' = FALSE /\ Replaced(DOMAIN workers \ fresh)
  /\ UNCHANGED <<fresh, spc, wanted>>

(* SelectWorkerWithTags: no healthy worker is an error at once. *)
ListHealthy ==
  /\ spc = "idle" /\ fresh # {}
  /\ wanted' \in Tool \cup {AnyTool}
  /\ listed' = [w \in fresh |-> TRUE] /\ steady' = TRUE /\ spc' = "compare" /\ best' = NoBest
  /\ UNCHANGED <<workers, fresh>>

Supports(w, tool) == NodeTool[w] \in {tool, AnyTool} \/ tool = AnyTool

(* The loads of an object that is registered change with its heartbeats;   *)
(* one that was removed or replaced meanwhile keeps the load it had: any.  *)
Loads(w, registered) == IF registered THEN {workers[w]} ELSE 0 .. MaxLoad

(* The order of the listed workers is that of a map: any.  The load of the *)
(* best so far is read again.                                              *)
Compare(w) ==
  /\ spc = "compare" /\ w \in DOMAIN listed
  /\ listed' = Without(listed, {w})
  /\ \/ Supports(w, wanted) /\ best = NoBest /\ best' = <<w, listed[w]>>
     \/ /\ Supports(w, wanted) /\ best # NoBest
        /\ \E load \in Loads(w, listed[w]), least \in Loads(best[1], best[2]) :
             best' = IF load < least THEN <<w, listed[w]>> ELSE best
     \/ ~Supports(w, wanted) /\ UNCHANGED best
  /\ UNCHANGED <<workers, fresh, spc, wanted, steady>>

Selected ==
  /\ spc = "compare" /\ listed = <<>>
  /\ spc' = "idle" /\ wanted' = AnyTool /\ best' = NoBest /\ steady' = TRUE
  /\ UNCHANGED <<workers, fresh, listed>>

Registry ==
  /\ \/ \E w \in Node : Register(w) \/ Deregister(w) \/ Heartbeat(w) \/ Expire(w) \/ Compare(w)
     \/ PruneExpired \/ ListHealthy \/ Selected
  /\ UNCHANGED jobs

-----------------------------------------------------------------------------
Higher(s, t) ==
  \/ Rank[s[1]][1] > Rank[t[1]][1]
  \/ Rank[s[1]][1] = Rank[t[1]][1] /\ Rank[s[1]][2] > Rank[t[1]][2]

(* sortInternal leaves the order of equals open. *)
Sorted(s) ==
  {t \in {[i \in DOMAIN s |-> s[p[i]]] : p \in {q \in [DOMAIN s -> DOMAIN s] : IsInjective(q)}} :
     \A i, j \in DOMAIN t : i < j => ~Higher(t[j], t[i])}

\* Slip: the queue is not sorted.
push_Unsorted(t) == tasks' = Append(tasks, t)

push(t) == tasks' \in Sorted(Append(tasks, t))

Push(j) ==
  /\ pushes[j] < MaxPushes
  /\ push(<<j, 0>>)
  /\ pushes' = [pushes EXCEPT ![j] = @ + 1]
  /\ UNCHANGED <<late, handed, retired>>

DeadlineOver(j) ==
  /\ j \notin late /\ late' = late \cup {j}
  /\ UNCHANGED <<tasks, handed, retired, pushes>>

Eligible(t, tool) == t[1] \notin late /\ (tool = AnyTool \/ JobTool[t[1]] \in {tool, AnyTool})

(* The first that matches; one that is late is passed over and stays. *)
PopForToolchain ==
  /\ \E tool \in Tool \cup {AnyTool}, i \in DOMAIN tasks :
       /\ Eligible(tasks[i], tool)
       /\ \A k \in 1 .. i - 1 : ~Eligible(tasks[k], tool)
       /\ handed' = Append(handed, tasks[i])
       /\ tasks' = RemoveAt(tasks, i)
  /\ UNCHANGED <<late, retired, pushes>>

Retire(j) == retired' = [retired EXCEPT ![j] = @ + 1]

(* The first of that name. *)
Cancel(j) ==
  /\ \E i \in DOMAIN tasks :
       /\ tasks[i][1] = j /\ \A k \in 1 .. i - 1 : tasks[k][1] # j
       /\ tasks' = RemoveAt(tasks, i)
  /\ Retire(j)
  /\ UNCHANGED <<late, handed, pushes>>

(* A worker that has a task is done with it, or asks for it to be queued   *)
(* again, which is refused after MaxRetries.                               *)
Done ==
  /\ \E i \in DOMAIN handed : handed' = RemoveAt(handed, i) /\ Retire(handed[i][1])
  /\ UNCHANGED <<tasks, late, pushes>>

\* Slip: one retry too many.
GivenUp_Late(j, retries) == retries > MaxRetries[j] /\ MaxRetries[j] > 0

GivenUp(j, retries) == retries >= MaxRetries[j] /\ MaxRetries[j] > 0

RequeueWithBackoff ==
  /\ \E i \in DOMAIN handed :
       LET j == handed[i][1]
           retries == handed[i][2]
       IN  /\ handed' = RemoveAt(handed, i)
           /\ IF GivenUp(j, retries)
              THEN Retire(j) /\ UNCHANGED tasks
              ELSE /\ MaxRetries[j] > 0 \/ retries < RetryBound
                   /\ push(<<j, retries + 1>>) /\ UNCHANGED retired
  /\ UNCHANGED <<late, pushes>>

Copies(s, j) == Cardinality({i \in DOMAIN s : s[i][1] = j})

Clear ==
  /\ tasks' = <<>>
  /\ retired' = [j \in JobId |-> retired[j] + Copies(tasks, j)]
  /\ UNCHANGED <<late, handed, pushes>>

TaskQueue ==
  /\ \/ \E j \in JobId : Push(j) \/ DeadlineOver(j) \/ Cancel(j)
     \/ PopForToolchain \/ Done \/ RequeueWithBackoff \/ Clear
  /\ UNCHANGED registry

CoordinatorNext == Registry \/ TaskQueue

CoordinatorSpec == CoordinatorInit /\ [][CoordinatorNext]_coordinatorVars

-----------------------------------------------------------------------------
(* While no load changes between the listing and the answer, no suitable   *)
(* worker listed has a smaller load than the one chosen, and one is chosen *)
(* if there is one.                                                        *)
ChoiceIsLeastLoaded ==
  spc = "compare" /\ spc' = "idle" /\ steady =>
    \A w \in fresh : Supports(w, wanted) =>
      best # NoBest /\ (best[2] => workers[best[1]] <= workers[w])

(* A task is handed out only if no better one of its toolchain, or of all, *)
(* was there in time: whatever was pushed, queued again, cancelled and     *)
(* passed over before.                                                     *)
PopsTheBest ==
  Len(handed') > Len(handed) =>
    \A i \in DOMAIN tasks :
      tasks[i][1] \notin late /\ JobTool[tasks[i][1]] \in {JobTool[Last(handed')[1]], AnyTool}
      => ~Higher(tasks[i], Last(handed'))

(* What SelectWorkerWithTags and PopForToolchain answer.                   *)
AnswersAreBest == [][ChoiceIsLeastLoaded /\ PopsTheBest]_coordinatorVars

(* Inductive: what is healthy is registered; and while no load changes, of *)
(* the workers looked at so far none that suits is less loaded than the    *)
(* best, which is still registered.                                        *)
HealthyAreRegistered == fresh \subseteq DOMAIN workers
BestSoFar ==
  spc = "compare" /\ steady =>
    /\ DOMAIN listed \subseteq DOMAIN workers
    /\ \A w \in DOMAIN listed : listed[w]
    /\ best # NoBest => best[1] \in DOMAIN workers /\ best[2]
    /\ \A w \in fresh \ DOMAIN listed : Supports(w, wanted) =>
         best # NoBest /\ workers[best[1]] <= workers[w]

(* And the queue is sorted after every operation.                          *)
QueueIsSorted == \A i, j \in DOMAIN tasks : i < j => ~Higher(tasks[j], tasks[i])

(* No task is lost or doubled: each push is in the queue, handed out or    *)
(* ended, and none was handed out more often than it may be tried.         *)
TasksAreConserved ==
  /\ \A j \in JobId : pushes[j] = Copies(tasks, j) + Copies(handed, j) + retired[j]
  /\ \A t \in ToSet(tasks) \cup ToSet(handed) : MaxRetries[t[1]] > 0 => t[2] <= MaxRetries[t[1]]
=============================================================================
