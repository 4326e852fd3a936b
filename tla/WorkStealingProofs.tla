------------------------- MODULE WorkStealingProofs -------------------------
(***************************************************************************)
(* Theorems about WorkStealing for every graph and number of workers: the  *)
(* inductive invariant IInv, completeness of what run returns Ok for, that *)
(* no outcome is dropped, and the implementation of the abstract build.    *)
(***************************************************************************)
EXTENDS WorkStealing, BuildGraphProofs, SequenceTheorems

(* The list made at the top of the loop is a sequence of the ready nodes,  *)
(* each once.                                                              *)
LEMMA ReadyList ==
  ASSUME NEW R \in SUBSET Node, NEW q \in Bijection(1 .. Cardinality(R), R)
  PROVE  /\ q \in Seq(Node)
         /\ \A i \in 1 .. Len(q) : q[i] \in R
         /\ \A i, j \in 1 .. Len(q) : q[i] = q[j] => i = j
         /\ \A n \in R : \E i \in 1 .. Len(q) : q[i] = n
<1>1. Cardinality(R) \in Nat
  BY NodesFinite
<1>2. q \in [1 .. Cardinality(R) -> R]
  BY DEF Bijection, Injection
<1>3. q \in Seq(R) /\ Len(q) = Cardinality(R)
  BY <1>1, <1>2
<1>4. q \in Seq(Node) /\ \A i \in 1 .. Len(q) : q[i] \in R
  BY <1>1, <1>2, <1>3
<1>5. \A i, j \in 1 .. Len(q) : q[i] = q[j] => i = j
  BY <1>2, <1>3 DEF Bijection, Injection, IsInjective
<1>6. \A n \in R : \E i \in 1 .. Len(q) : q[i] = n
  BY <1>3 DEF Bijection, Surjection
<1>7. QED
  BY <1>4, <1>5, <1>6

(* One step keeps the types, given that an outcome is queued only when     *)
(* something is in flight.                                                 *)
LEMMA TypeStep ==
  ASSUME TypeOK, outcomes # << >> => in_flight >= 1, [Next]_vars
  PROVE  TypeOK'
<1> USE DEF TypeOK
<1>1. CASE Refresh
  <2>1. ready' \in Bijection(1 .. Cardinality(ready_nodes(deps, state)), ready_nodes(deps, state))
    BY <1>1 DEF Refresh
  <2>2. ready_nodes(deps, state) \in SUBSET Node
    BY DEF ready_nodes
  <2>3. ready' \in Seq(Node)
    BY <2>1, <2>2, ReadyList
  <2>4. QED
    BY <2>3, <1>1 DEF Refresh
<1>2. CASE Dispatch
  <2>1. Head(ready) \in Node /\ ready' \in Seq(Node)
    BY <1>2 DEF Dispatch
  <2>2. tasks' \in Seq(Node)
    BY <2>1, <1>2 DEF Dispatch
  <2>3. state' \in [Node -> TaskState]
    BY <2>1, <1>2 DEF Dispatch, set_state, TaskState
  <2>4. QED
    BY <2>1, <2>2, <2>3, <1>2 DEF Dispatch
<1>3. CASE Leave
  BY <1>3 DEF Leave
<1>4. CASE Receive
  <2>1. Head(outcomes) \in Outcome /\ outcomes' \in Seq(Outcome)
    BY <1>4 DEF Receive
  <2>2. Head(outcomes).id \in Node
    BY <2>1 DEF Outcome
  <2>3. state' \in [Node -> TaskState]
    BY <2>2, <1>4 DEF Receive, apply_outcome, mark_failed, set_state, StateOf, TaskState
  <2>4. in_flight' \in Nat
    BY <1>4 DEF Receive
  <2>5. failures' \in Seq(Node) /\ timings' \in Seq(Node)
    <3>1. /\ failures' \in {failures, Append(failures, Head(outcomes).id)}
          /\ timings' \in {timings, Append(timings, Head(outcomes).id)}
      BY <1>4 DEF Receive, apply_outcome
    <3>2. /\ Append(failures, Head(outcomes).id) \in Seq(Node)
          /\ Append(timings, Head(outcomes).id) \in Seq(Node)
      BY <2>2, AppendProperties
    <3>3. QED
      BY <3>1, <3>2
  <2>6. QED
    BY <2>1, <2>3, <2>4, <2>5, <1>4 DEF Receive
<1>5. CASE Drained
  BY <1>5 DEF Drained
<1>6. CASE Return
  BY <1>6 DEF Return
<1>7. ASSUME NEW w \in Worker, WorkerRecv(w) PROVE TypeOK'
  <2>1. Head(tasks) \in Node /\ Tail(tasks) \in Seq(Node)
    BY <1>7 DEF WorkerRecv
  <2>2. worker' \in [Worker -> Thread]
    BY <2>1, <1>7 DEF WorkerRecv, Thread
  <2>3. QED
    BY <2>1, <2>2, <1>7 DEF WorkerRecv
<1>8. ASSUME NEW w \in Worker, NEW x \in Execution, WorkerExecute(w, x) PROVE TypeOK'
  <2>1. worker[w].id \in Node
    BY <1>8 DEF WorkerExecute, Busy, Thread
  <2>2. Reported(x) \in TaskStatus
    BY <1>8 DEF Reported, Execution, TaskStatus
  <2>3. outcomes' \in Seq(Outcome)
    BY <2>1, <2>2, <1>8 DEF WorkerExecute, Outcome
  <2>4. worker' \in [Worker -> Thread]
    BY <1>8 DEF WorkerExecute, Thread, Idle
  <2>5. QED
    BY <2>3, <2>4, <1>8 DEF WorkerExecute
<1>9. ASSUME NEW w \in Worker, WorkerExit(w) PROVE TypeOK'
  BY <1>9 DEF WorkerExit, Thread, Exited
<1>10. CASE UNCHANGED vars
  BY <1>10 DEF vars
<1>11. QED
  BY <1>1, <1>2, <1>3, <1>4, <1>5, <1>6, <1>7, <1>8, <1>9, <1>10
     DEF Next, SchedulerStep, WorkerStep, Returned

-----------------------------------------------------------------------------
(* What the invariant says of the graph and of the jobs' names. *)
LEMMA Facts ==
  ASSUME IInv
  PROVE  /\ deps \in Structure /\ Acyclic(deps)
         /\ Settled(deps, state)
         /\ IsFiniteSet(Running) /\ Cardinality(Running) \in Nat
         /\ outcomes # << >> => in_flight >= 1
         /\ \A i \in 1 .. Len(tasks) : tasks[i] \in Node
         /\ \A i \in 1 .. Len(outcomes) : outcomes[i] \in Outcome /\ outcomes[i].id \in Node
         /\ \A w \in Worker : Busy(w) => worker[w].id \in Node
<1>1. deps \in Structure /\ Acyclic(deps)
  BY GraphsAssumption DEF IInv, TypeOK
<1>2. Settled(deps, state)
  BY DEF IInv, TypeOK, Settled, StatesUsed, DependenciesFirst, CascadeIsExact
<1>3. IsFiniteSet(Running) /\ Cardinality(Running) \in Nat
  BY NodesFinite DEF Running
<1>4. \A i \in 1 .. Len(tasks) : tasks[i] \in Node
  BY LenProperties DEF IInv, TypeOK
<1>5. \A i \in 1 .. Len(outcomes) : outcomes[i] \in Outcome /\ outcomes[i].id \in Node
  <2>1. \A i \in 1 .. Len(outcomes) : outcomes[i] \in Outcome
    BY LenProperties DEF IInv, TypeOK
  <2>2. QED
    BY <2>1 DEF Outcome
<1>6. \A w \in Worker : Busy(w) => worker[w].id \in Node
  BY DEF IInv, TypeOK, Thread, Busy
<1>7. outcomes # << >> => in_flight >= 1
  <2> SUFFICES ASSUME outcomes # << >> PROVE in_flight >= 1
    OBVIOUS
  <2>1. 1 \in 1 .. Len(outcomes)
    BY EmptySeq, LenProperties DEF IInv, TypeOK
  <2>2. outcomes[1].id \in Running
    BY <2>1, <1>5 DEF IInv, JobsAreRunning, Running
  <2>3. Cardinality(Running) # 0
    BY <2>2, <1>3, FS_EmptySet
  <2>4. QED
    BY <2>3, <1>3 DEF IInv, InFlightIsExact
<1>8. QED
  BY <1>1, <1>2, <1>3, <1>4, <1>5, <1>6, <1>7

(* A worker takes a job: it leaves the queue as the worker gets it. *)
LEMMA RecvStep ==
  ASSUME IInv, [Next]_vars, NEW w \in Worker, WorkerRecv(w)
  PROVE  IInv'
<1>1. TypeOK /\ TypeOK'
  BY Facts, TypeStep DEF IInv
<1>2. UNCHANGED <<deps, state, pc, ready, in_flight, outcomes, failures, timings>>
  BY DEF WorkerRecv
<1>3. /\ Head(tasks) = tasks[1] /\ 1 \in 1 .. Len(tasks)
      /\ \A i \in 1 .. Len(tasks') : /\ tasks'[i] = tasks[i + 1]
                                     /\ i + 1 \in 1 .. Len(tasks) /\ i + 1 # 1
                                     /\ i \in Int
  BY <1>1 DEF WorkerRecv, TypeOK
<1>4. /\ Busy(w)' /\ ~Busy(w) /\ worker'[w].id = tasks[1]
      /\ \A v \in Worker : v # w => worker'[v] = worker[v] /\ (Busy(v)' <=> Busy(v))
  BY <1>1, <1>3 DEF WorkerRecv, TypeOK, Busy
<1>5. JobsAreDistinct'
  <2>1. \A i, j \in 1 .. Len(tasks') : tasks'[i] = tasks'[j] => i = j
    <3> SUFFICES ASSUME NEW i \in 1 .. Len(tasks'), NEW j \in 1 .. Len(tasks'),
                        tasks'[i] = tasks'[j]
                 PROVE  i = j
      OBVIOUS
    <3>1. tasks[i + 1] = tasks[j + 1]
      BY <1>3
    <3>2. i + 1 = j + 1
      BY <3>1, <1>3 DEF IInv, JobsAreDistinct
    <3>3. QED
      BY <3>2, <1>3
  <2>2. \A i \in 1 .. Len(tasks') : tasks'[i] # tasks[1]
    <3> SUFFICES ASSUME NEW i \in 1 .. Len(tasks'), tasks'[i] = tasks[1] PROVE FALSE
      OBVIOUS
    <3>1. tasks[i + 1] = tasks[1] /\ i + 1 \in 1 .. Len(tasks) /\ i + 1 # 1
      BY <1>3
    <3>2. QED
      BY <3>1, <1>3 DEF IInv, JobsAreDistinct
  <2>3. \A u, v \in Worker : Busy(u)' /\ Busy(v)' /\ worker'[u].id = worker'[v].id => u = v
    BY <1>3, <1>4 DEF IInv, JobsAreDistinct
  <2>4. \A i \in 1 .. Len(tasks'), j \in 1 .. Len(outcomes') : tasks'[i] # outcomes'[j].id
    BY <1>2, <1>3 DEF IInv, JobsAreDistinct
  <2>5. \A i \in 1 .. Len(tasks'), v \in Worker : Busy(v)' => tasks'[i] # worker'[v].id
    <3> SUFFICES ASSUME NEW i \in 1 .. Len(tasks'), NEW v \in Worker, Busy(v)'
                 PROVE  tasks'[i] # worker'[v].id
      OBVIOUS
    <3>1. CASE v = w
      BY <3>1, <2>2, <1>4
    <3>2. CASE v # w
      BY <3>2, <1>3, <1>4 DEF IInv, JobsAreDistinct
    <3>3. QED
      BY <3>1, <3>2
  <2>6. \A i \in 1 .. Len(outcomes'), v \in Worker : Busy(v)' => outcomes'[i].id # worker'[v].id
    BY <1>2, <1>3, <1>4 DEF IInv, JobsAreDistinct
  <2>7. QED
    BY <2>1, <2>3, <2>4, <2>5, <2>6, <1>2 DEF IInv, JobsAreDistinct
<1>6. JobsAreRunning'
  BY <1>2, <1>3, <1>4 DEF IInv, JobsAreRunning
<1>7. QED
  BY <1>1, <1>2, <1>5, <1>6
     DEF IInv, InFlightIsExact, Running, DependenciesFirst, CascadeIsExact, StatesUsed,
         NothingLeftReady, OkMeansComplete

(* A worker reports: its job becomes the last outcome. *)
LEMMA ExecuteStep ==
  ASSUME IInv, [Next]_vars, NEW w \in Worker, NEW x \in Execution, WorkerExecute(w, x)
  PROVE  IInv'
<1>1. TypeOK /\ TypeOK'
  BY Facts, TypeStep DEF IInv
<1>2. UNCHANGED <<deps, state, pc, ready, in_flight, tasks, failures, timings>>
  BY DEF WorkerExecute
<1>3. /\ Len(outcomes) \in Nat
      /\ \A i \in 1 .. Len(outcomes') :
           \/ i \in 1 .. Len(outcomes) /\ outcomes'[i] = outcomes[i]
           \/ i = Len(outcomes) + 1 /\ outcomes'[i].id = worker[w].id
  BY <1>1 DEF WorkerExecute, TypeOK
<1>4. /\ Busy(w) /\ ~Busy(w)'
      /\ \A v \in Worker : v # w => worker'[v] = worker[v] /\ (Busy(v)' <=> Busy(v))
  BY <1>1 DEF WorkerExecute, TypeOK, Busy, Idle
<1>5. JobsAreDistinct'
  <2>1. /\ \A i \in 1 .. Len(tasks) : tasks[i] # worker[w].id
        /\ \A i \in 1 .. Len(outcomes) : outcomes[i].id # worker[w].id
        /\ \A v \in Worker : v # w /\ Busy(v) => worker[v].id # worker[w].id
    BY <1>4 DEF IInv, JobsAreDistinct
  <2>2. \A i, j \in 1 .. Len(outcomes') : outcomes'[i].id = outcomes'[j].id => i = j
    BY <2>1, <1>3 DEF IInv, JobsAreDistinct
  <2>3. \A i \in 1 .. Len(tasks'), j \in 1 .. Len(outcomes') : tasks'[i] # outcomes'[j].id
    BY <2>1, <1>2, <1>3 DEF IInv, JobsAreDistinct
  <2>4. \A i \in 1 .. Len(outcomes'), v \in Worker : Busy(v)' => outcomes'[i].id # worker'[v].id
    <3> SUFFICES ASSUME NEW i \in 1 .. Len(outcomes'), NEW v \in Worker, Busy(v)'
                 PROVE  outcomes'[i].id # worker'[v].id
      OBVIOUS
    <3>1. v # w /\ worker'[v] = worker[v] /\ Busy(v)
      BY <1>4
    <3>2. QED
      BY <3>1, <2>1, <1>3 DEF IInv, JobsAreDistinct
  <2>5. /\ \A u, v \in Worker : Busy(u)' /\ Busy(v)' /\ worker'[u].id = worker'[v].id => u = v
        /\ \A i \in 1 .. Len(tasks'), v \in Worker : Busy(v)' => tasks'[i] # worker'[v].id
        /\ \A i, j \in 1 .. Len(tasks') : tasks'[i] = tasks'[j] => i = j
    BY <1>2, <1>4 DEF IInv, JobsAreDistinct
  <2>6. QED
    BY <2>2, <2>3, <2>4, <2>5 DEF JobsAreDistinct
<1>6. JobsAreRunning'
  BY <1>2, <1>3, <1>4 DEF IInv, JobsAreRunning
<1>7. QED
  BY <1>1, <1>2, <1>5, <1>6
     DEF IInv, InFlightIsExact, Running, DependenciesFirst, CascadeIsExact, StatesUsed,
         NothingLeftReady, OkMeansComplete

(* The top of the loop lists every task that is ready. *)
LEMMA RefreshStep ==
  ASSUME IInv, [Next]_vars, Refresh
  PROVE  IInv'
<1> DEFINE R == ready_nodes(deps, state)
<1>1. TypeOK'
  BY Facts, TypeStep DEF IInv
<1>2. UNCHANGED <<deps, state, in_flight, tasks, worker, outcomes, failures, timings>>
      /\ pc' = "dispatch"
  BY DEF Refresh
<1>3. ready' \in Bijection(1 .. Cardinality(R), R) /\ R \in SUBSET Node
  BY DEF Refresh, ready_nodes
<1>4. R' = R
  BY <1>2
<1> HIDE DEF R
<1>5. /\ \A i \in 1 .. Len(ready') : ready'[i] \in R
      /\ \A i, j \in 1 .. Len(ready') : ready'[i] = ready'[j] => i = j
      /\ \A n \in R : \E i \in 1 .. Len(ready') : ready'[i] = n
  BY <1>3, ReadyList
<1>6. NothingLeftReady'
  BY <1>4, <1>5 DEF NothingLeftReady, R
<1>7. JobsAreRunning'
  BY <1>2, <1>4, <1>5 DEF IInv, JobsAreRunning, Busy, R
<1>8. QED
  BY <1>1, <1>2, <1>6, <1>7
     DEF IInv, InFlightIsExact, Running, JobsAreDistinct, Busy, DependenciesFirst,
         CascadeIsExact, StatesUsed, OkMeansComplete

(* The first task of the list is marked as running and queued. *)
LEMMA DispatchStep ==
  ASSUME IInv, [Next]_vars, Dispatch
  PROVE  IInv'
<1> DEFINE h == ready[1]
<1>1. TypeOK /\ TypeOK'
  BY Facts, TypeStep DEF IInv
<1>2. UNCHANGED <<deps, pc, worker, outcomes, failures, timings>> /\ pc = "dispatch"
  BY DEF Dispatch
<1>3. /\ Head(ready) = h /\ 1 \in 1 .. Len(ready)
      /\ \A i \in 1 .. Len(ready') : /\ ready'[i] = ready[i + 1]
                                     /\ i + 1 \in 1 .. Len(ready) /\ i + 1 # 1
                                     /\ i \in Int
      /\ \A i \in 1 .. Len(ready) : i # 1 => i - 1 \in 1 .. Len(ready') /\ ready'[i - 1] = ready[i]
  BY <1>1 DEF Dispatch, TypeOK
<1>4. h \in ready_nodes(deps, state) /\ h \in Node /\ state[h] = "Pending"
  <2>1. h \in ready_nodes(deps, state)
    BY <1>3 DEF IInv, JobsAreRunning
  <2>2. QED
    BY <2>1 DEF ready_nodes
<1>5. state' = set_state(state, h, "Running") /\ in_flight' = in_flight + 1
  BY <1>3 DEF Dispatch
<1>6. /\ Settled(deps, state') /\ state'[h] = "Running"
      /\ \A n \in Node \ {h} : state'[n] = state[n]
      /\ \A n \in Node : is_ready(deps, state, n) => is_ready(deps, state', n)
  BY <1>4, <1>5, Facts, StartOrFinish DEF TaskState
<1>7. /\ Len(tasks) \in Nat
      /\ \A i \in 1 .. Len(tasks') : \/ i \in 1 .. Len(tasks) /\ tasks'[i] = tasks[i]
                                     \/ i = Len(tasks) + 1 /\ tasks'[i] = h
  <2>1. tasks' = Append(tasks, h) /\ Len(tasks) \in Nat
    BY <1>1, <1>3 DEF Dispatch, TypeOK
  <2>2. QED
    BY <2>1, <1>1 DEF TypeOK
<1> HIDE DEF h
<1>8. /\ \A i \in 1 .. Len(tasks) : tasks[i] # h
      /\ \A i \in 1 .. Len(outcomes) : outcomes[i].id # h
      /\ \A w \in Worker : Busy(w) => worker[w].id # h
  BY <1>4 DEF IInv, JobsAreRunning
<1>9. \A i \in 1 .. Len(ready') : ready'[i] # h
  <2> SUFFICES ASSUME NEW i \in 1 .. Len(ready'), ready'[i] = h PROVE FALSE
    OBVIOUS
  <2>1. ready[i + 1] = ready[1]
    BY <1>3 DEF h
  <2>2. QED
    BY <2>1, <1>3 DEF IInv, JobsAreRunning
<1>10. JobsAreRunning'
  <2>1. \A i \in 1 .. Len(ready') : ready'[i] \in ready_nodes(deps', state')
    <3> SUFFICES ASSUME NEW i \in 1 .. Len(ready')
                 PROVE  ready'[i] \in ready_nodes(deps', state')
      OBVIOUS
    <3>1. ready'[i] \in ready_nodes(deps, state)
      BY <1>3 DEF IInv, JobsAreRunning
    <3>2. QED
      BY <3>1, <1>2, <1>6, <1>9 DEF ready_nodes
  <2>2. \A i, j \in 1 .. Len(ready') : ready'[i] = ready'[j] => i = j
    <3> SUFFICES ASSUME NEW i \in 1 .. Len(ready'), NEW j \in 1 .. Len(ready'),
                        ready'[i] = ready'[j]
                 PROVE  i = j
      OBVIOUS
    <3>1. ready[i + 1] = ready[j + 1]
      BY <1>3
    <3>2. i + 1 = j + 1
      BY <3>1, <1>3 DEF IInv, JobsAreRunning
    <3>3. QED
      BY <3>2, <1>3
  <2>3. \A n \in Node : state[n] = "Running" => state'[n] = "Running"
    BY <1>4, <1>6
  <2>4. QED
    BY <2>1, <2>2, <2>3, <1>2, <1>6, <1>7, Facts DEF IInv, JobsAreRunning, Busy
<1>11. JobsAreDistinct'
  <2>1. \A i, j \in 1 .. Len(tasks') : tasks'[i] = tasks'[j] => i = j
    BY <1>7, <1>8 DEF IInv, JobsAreDistinct
  <2>2. /\ \A i \in 1 .. Len(tasks'), j \in 1 .. Len(outcomes') : tasks'[i] # outcomes'[j].id
        /\ \A i \in 1 .. Len(tasks'), w \in Worker : Busy(w)' => tasks'[i] # worker'[w].id
    BY <1>2, <1>7, <1>8 DEF IInv, JobsAreDistinct, Busy
  <2>3. QED
    BY <2>1, <2>2, <1>2 DEF IInv, JobsAreDistinct, Busy
<1>12. InFlightIsExact'
  <2>1. Running' = Running \cup {h} /\ h \notin Running
    BY <1>4, <1>6 DEF Running
  <2>2. Cardinality(Running') = Cardinality(Running) + 1
    BY <2>1, Facts, FS_AddElement
  <2>3. QED
    BY <2>2, <1>5 DEF IInv, InFlightIsExact
<1>13. NothingLeftReady'
  <2> SUFFICES ASSUME NEW n \in ready_nodes(deps', state')
               PROVE  \E i \in 1 .. Len(ready') : ready'[i] = n
    BY DEF NothingLeftReady
  <2>1. n \in Node /\ n # h /\ state[n] = "Pending" /\ is_ready(deps, state', n)
    BY <1>2, <1>6 DEF ready_nodes
  <2>2. deps[n] \subseteq Node
    BY <2>1, Facts DEF Structure
  <2>3. is_ready(deps, state, n)
    BY <2>1, <2>2, <1>6 DEF is_ready, is_successful
  <2>4. n \in ready_nodes(deps, state)
    BY <2>1, <2>3 DEF ready_nodes
  <2>5. PICK i \in 1 .. Len(ready) : ready[i] = n
    BY <2>4, <1>2 DEF IInv, NothingLeftReady
  <2>6. i # 1
    BY <2>1, <2>5 DEF h
  <2>7. QED
    BY <2>5, <2>6, <1>3
<1>14. DependenciesFirst' /\ CascadeIsExact' /\ StatesUsed'
  BY <1>2, <1>6 DEF Settled, DependenciesFirst, CascadeIsExact, StatesUsed
<1>15. OkMeansComplete'
  BY <1>2 DEF OkMeansComplete
<1>16. QED
  BY <1>1, <1>10, <1>11, <1>12, <1>13, <1>14, <1>15 DEF IInv

(* When run leaves the loop every task is terminal: with nothing in flight *)
(* and none ready, an unfinished task would contradict the graph being     *)
(* acyclic.                                                                *)
LEMMA LeaveStep ==
  ASSUME IInv, [Next]_vars, Leave
  PROVE  IInv'
<1>1. TypeOK'
  BY Facts, TypeStep DEF IInv
<1>2. UNCHANGED <<deps, state, ready, in_flight, tasks, worker, outcomes, failures, timings>>
      /\ pc = "dispatch" /\ ready = << >> /\ pc' = IF AllDone THEN "join" ELSE "recv"
  BY DEF Leave
<1>3. AllDone => \A n \in Node : is_terminal(state[n])
  <2> SUFFICES ASSUME AllDone, NEW left \in Node, ~is_terminal(state[left]) PROVE FALSE
    OBVIOUS
  <2>1. ready_nodes(deps, state) = {}
    BY <1>2 DEF IInv, NothingLeftReady
  <2>2. Running = {}
    BY Facts, FS_EmptySet DEF IInv, InFlightIsExact, AllDone
  <2>3. \A n \in Node : state[n] # "Running"
    BY <2>2 DEF Running
  <2>4. QED
    BY <2>1, <2>3, Facts, SomethingIsReady
<1>4. OkMeansComplete'
  BY <1>2, <1>3 DEF OkMeansComplete
<1>5. QED
  BY <1>1, <1>2, <1>4
     DEF IInv, InFlightIsExact, Running, JobsAreRunning, JobsAreDistinct, Busy,
         DependenciesFirst, CascadeIsExact, StatesUsed, NothingLeftReady

(* What apply_outcome does: the task was running, so it is given its final *)
(* state, and what is cancelled was pending behind it.                     *)
LEMMA Outcomes ==
  ASSUME IInv, Receive
  PROVE  LET o == outcomes[1] IN
         /\ Head(outcomes) = o /\ 1 \in 1 .. Len(outcomes)
         /\ o.id \in Node /\ state[o.id] = "Running"
         /\ timings' = Append(timings, o.id)
         /\ state' = IF o.status = "Failed" THEN mark_failed(deps, state, o.id)
                     ELSE set_state(state, o.id, StateOf(o.status))
         /\ StateOf(o.status) \in {"Succeeded", "Cached"}
         /\ Settled(deps, state')
         /\ state'[o.id] # "Running"
         /\ \A n \in Node \ {o.id} :
              \/ state'[n] = state[n]
              \/ state[n] = "Pending" /\ state'[n] = "Cancelled" /\ ~is_ready(deps, state, n)
<1> DEFINE o == outcomes[1]
<1>1. Head(outcomes) = o /\ 1 \in 1 .. Len(outcomes)
  BY DEF Receive, IInv, TypeOK
<1>2. o.id \in Node /\ state[o.id] = "Running"
  BY <1>1, Facts DEF IInv, JobsAreRunning
<1>3. /\ timings' = Append(timings, o.id)
      /\ state' = IF o.status = "Failed" THEN mark_failed(deps, state, o.id)
                  ELSE set_state(state, o.id, StateOf(o.status))
  BY <1>1, <1>2 DEF Receive, apply_outcome
<1>4. StateOf(o.status) \in {"Succeeded", "Cached"} /\ StateOf(o.status) \in TaskState
  BY DEF StateOf, TaskState
<1>5. /\ Settled(deps, state') /\ state'[o.id] # "Running"
      /\ \A n \in Node \ {o.id} :
           \/ state'[n] = state[n]
           \/ state[n] = "Pending" /\ state'[n] = "Cancelled" /\ ~is_ready(deps, state, n)
  <2>1. CASE o.status = "Failed"
    BY <2>1, <1>2, <1>3, Facts, MarkFailed
  <2>2. CASE o.status # "Failed"
    BY <2>2, <1>2, <1>3, <1>4, Facts, StartOrFinish
  <2>3. QED
    BY <2>1, <2>2
<1>6. QED
  BY <1>1, <1>2, <1>3, <1>4, <1>5

(* The scheduler applies the first outcome. *)
LEMMA ReceiveStep ==
  ASSUME IInv, [Next]_vars, Receive
  PROVE  IInv'
<1> DEFINE o == outcomes[1]
<1>1. TypeOK /\ TypeOK'
  BY Facts, TypeStep DEF IInv
<1>2. UNCHANGED <<deps, ready, tasks, worker>> /\ pc' = "drain" /\ in_flight' = in_flight - 1
  BY DEF Receive
<1>3. /\ 1 \in 1 .. Len(outcomes)
      /\ \A i \in 1 .. Len(outcomes') : /\ outcomes'[i] = outcomes[i + 1]
                                        /\ i + 1 \in 1 .. Len(outcomes) /\ i + 1 # 1
                                        /\ i \in Int
  BY <1>1 DEF Receive, TypeOK
<1>4. /\ o.id \in Node /\ state[o.id] = "Running"
      /\ Settled(deps, state') /\ state'[o.id] # "Running"
      /\ \A n \in Node \ {o.id} :
           \/ state'[n] = state[n]
           \/ state[n] = "Pending" /\ state'[n] = "Cancelled" /\ ~is_ready(deps, state, n)
  BY Outcomes
<1>5. /\ \A i \in 1 .. Len(outcomes') : outcomes'[i].id # o.id
      /\ \A i \in 1 .. Len(tasks) : tasks[i] # o.id
      /\ \A w \in Worker : Busy(w) => worker[w].id # o.id
  <2>1. ASSUME NEW i \in 1 .. Len(outcomes'), outcomes'[i].id = o.id PROVE FALSE
    <3>1. outcomes[i + 1].id = outcomes[1].id
      BY <2>1, <1>3
    <3>2. QED
      BY <3>1, <1>3 DEF IInv, JobsAreDistinct
  <2>2. QED
    BY <2>1, <1>3 DEF IInv, JobsAreDistinct
<1> HIDE DEF o
<1>6. JobsAreRunning'
  <2>1. \A n \in Node : n # o.id /\ state[n] = "Running" => state'[n] = "Running"
    BY <1>4
  <2>2. \A n \in ready_nodes(deps, state) : n \in ready_nodes(deps, state')
    <3>1. \A n \in Node : is_successful(state[n]) => is_successful(state'[n])
      BY <1>4 DEF is_successful
    <3>2. \A n \in Node : is_ready(deps, state, n) => is_ready(deps, state', n)
      BY <3>1, Facts DEF is_ready, Structure
    <3>3. QED
      BY <3>2, <1>4 DEF ready_nodes
  <2>3. \A i \in 1 .. Len(outcomes') : state'[outcomes'[i].id] = "Running"
    <3> SUFFICES ASSUME NEW i \in 1 .. Len(outcomes')
                 PROVE  state'[outcomes'[i].id] = "Running"
      OBVIOUS
    <3>1. i + 1 \in 1 .. Len(outcomes) /\ outcomes'[i] = outcomes[i + 1]
      BY <1>3
    <3>2. QED
      BY <3>1, <2>1, <1>5, Facts DEF IInv, JobsAreRunning
  <2>4. QED
    BY <2>1, <2>2, <2>3, <1>2, <1>5, Facts DEF IInv, JobsAreRunning, Busy
<1>7. JobsAreDistinct'
  <2>1. \A i, j \in 1 .. Len(outcomes') : outcomes'[i].id = outcomes'[j].id => i = j
    <3> SUFFICES ASSUME NEW i \in 1 .. Len(outcomes'), NEW j \in 1 .. Len(outcomes'),
                        outcomes'[i].id = outcomes'[j].id
                 PROVE  i = j
      OBVIOUS
    <3>1. outcomes[i + 1].id = outcomes[j + 1].id
      BY <1>3
    <3>2. i + 1 = j + 1
      BY <3>1, <1>3 DEF IInv, JobsAreDistinct
    <3>3. QED
      BY <3>2, <1>3
  <2>2. \A i \in 1 .. Len(tasks'), j \in 1 .. Len(outcomes') : tasks'[i] # outcomes'[j].id
    BY <1>2, <1>3 DEF IInv, JobsAreDistinct
  <2>3. \A i \in 1 .. Len(outcomes'), w \in Worker : Busy(w)' => outcomes'[i].id # worker'[w].id
    BY <1>2, <1>3 DEF IInv, JobsAreDistinct, Busy
  <2>4. QED
    BY <2>1, <2>2, <2>3, <1>2 DEF IInv, JobsAreDistinct, Busy
<1>8. InFlightIsExact'
  <2>1. Running' = Running \ {o.id} /\ o.id \in Running
    BY <1>4 DEF Running
  <2>2. Cardinality(Running') = Cardinality(Running) - 1
    BY <2>1, Facts, FS_RemoveElement
  <2>3. QED
    BY <2>2, <1>2 DEF IInv, InFlightIsExact
<1>9. DependenciesFirst' /\ CascadeIsExact' /\ StatesUsed'
  BY <1>2, <1>4 DEF Settled, DependenciesFirst, CascadeIsExact, StatesUsed
<1>10. QED
  BY <1>1, <1>2, <1>6, <1>7, <1>8, <1>9 DEF IInv, NothingLeftReady, OkMeansComplete

(* The steps that only move the scheduler, or stop an idle worker. *)
LEMMA QuietStep ==
  ASSUME IInv, [Next]_vars,
         Drained \/ Return \/ (\E w \in Worker : WorkerExit(w)) \/ UNCHANGED vars
  PROVE  IInv'
<1>1. TypeOK /\ TypeOK'
  BY Facts, TypeStep DEF IInv
<1>2. UNCHANGED <<deps, state, ready, in_flight, tasks, outcomes, failures, timings>>
  BY DEF Drained, Return, WorkerExit, vars
<1>3. /\ pc' = "dispatch" => pc = "dispatch"
      /\ pc' \in {"join", "done"} => pc \in {"join", "done"}
  BY DEF Drained, Return, WorkerExit, vars
<1>4. \A v \in Worker : (Busy(v)' <=> Busy(v)) /\ (Busy(v) => worker'[v] = worker[v])
  <2>1. CASE UNCHANGED worker
    BY <2>1 DEF Busy
  <2>2. ASSUME NEW w \in Worker, WorkerExit(w)
        PROVE  \A v \in Worker : (Busy(v)' <=> Busy(v)) /\ (Busy(v) => worker'[v] = worker[v])
    BY <2>2, <1>1 DEF WorkerExit, Busy, Exited, TypeOK
  <2>3. QED
    BY <2>1, <2>2 DEF Drained, Return, vars
<1>5. JobsAreRunning' /\ JobsAreDistinct'
  BY <1>2, <1>4 DEF IInv, JobsAreRunning, JobsAreDistinct
<1>6. QED
  BY <1>1, <1>2, <1>3, <1>5
     DEF IInv, InFlightIsExact, Running, DependenciesFirst, CascadeIsExact, StatesUsed,
         NothingLeftReady, OkMeansComplete

(* A build starts with nothing queued and nothing running. *)
LEMMA InitInv == Init => IInv
<1> SUFFICES ASSUME Init PROVE IInv
  OBVIOUS
<1>1. state \in [Node -> TaskState] /\ \A n \in Node : state[n] = "Pending"
  BY DEF Init, reset_states, TaskState
<1>2. worker \in [Worker -> Thread] /\ \A w \in Worker : ~Busy(w)
  BY DEF Init, Idle, Thread, Busy
<1>3. TypeOK
  <2>1. /\ deps \in Graphs /\ pc = "top" /\ ready = << >> /\ in_flight = 0
        /\ tasks = << >> /\ outcomes = << >> /\ failures = << >> /\ timings = << >>
    BY DEF Init
  <2>2. QED
    BY <2>1, <1>1, <1>2, EmptySeq DEF TypeOK
<1>4. Len(tasks) = 0 /\ Len(outcomes) = 0 /\ Len(ready) = 0 /\ in_flight = 0 /\ pc = "top"
  BY DEF Init
<1>5. InFlightIsExact
  <2>1. Running = {}
    BY <1>1 DEF Running
  <2>2. QED
    BY <2>1, <1>4, FS_EmptySet DEF InFlightIsExact
<1>6. CascadeIsExact
  BY <1>1, <1>3, GraphsAssumption DEF CascadeIsExact, is_unsuccessful, TypeOK, Structure
<1>7. JobsAreRunning /\ JobsAreDistinct
  BY <1>2, <1>4 DEF JobsAreRunning, JobsAreDistinct
<1>8. QED
  BY <1>1, <1>3, <1>4, <1>5, <1>6, <1>7
     DEF IInv, DependenciesFirst, StatesUsed, NothingLeftReady, OkMeansComplete

(* Every step of every thread keeps the invariant. *)
LEMMA NextInv == IInv /\ [Next]_vars => IInv'
<1> SUFFICES ASSUME IInv, [Next]_vars PROVE IInv'
  OBVIOUS
<1>1. CASE SchedulerStep
  BY <1>1, RefreshStep, DispatchStep, LeaveStep, ReceiveStep, QuietStep DEF SchedulerStep
<1>2. ASSUME NEW w \in Worker, WorkerStep(w) PROVE IInv'
  BY <1>2, RecvStep, ExecuteStep, QuietStep DEF WorkerStep
<1>3. CASE UNCHANGED vars
  BY <1>3, QuietStep
<1>4. QED
  BY <1>1, <1>2, <1>3 DEF Next, Returned

-----------------------------------------------------------------------------
(* The inductive invariant of run holds for every graph and pool. *)
THEOREM Invariant == Spec => []IInv
BY InitInv, NextInv, PTL DEF Spec

(* Every variable of run keeps its type; in_flight is never decremented at *)
(* zero.                                                                   *)
THEOREM TypeCorrect == Spec => []TypeOK
<1>1. IInv => TypeOK
  BY DEF IInv
<1>2. QED
  BY <1>1, Invariant, PTL

(* in_flight, which decides when the loop ends, counts the running tasks.  *)
THEOREM CountIsExact == Spec => []InFlightIsExact
<1>1. IInv => InFlightIsExact
  BY DEF IInv
<1>2. QED
  BY <1>1, Invariant, PTL

(* run returns Ok only when every task of the graph is terminal, though it *)
(* tests no more than that nothing is in flight.                           *)
THEOREM Complete == Spec => []OkMeansComplete
<1>1. IInv => OkMeansComplete
  BY DEF IInv
<1>2. QED
  BY <1>1, Invariant, PTL

(* No outcome meets a task that is cancelled: each one is recorded. *)
THEOREM NothingDropped == Spec => NoOutcomeIsDropped
<1>1. IInv /\ [Next]_vars => [Receive => timings' = Append(timings, Head(outcomes).id)]_vars
  BY Outcomes
<1>2. QED
  BY <1>1, Invariant, PTL DEF Spec, NoOutcomeIsDropped

-----------------------------------------------------------------------------
(* The graph operators of the abstract build are those of run. *)
LEMMA SameGraph ==
  /\ Abstract!reset_states = reset_states
  /\ \A n \in Node : Abstract!is_terminal(state[n]) <=> is_terminal(state[n])
  /\ Abstract!ready_nodes(deps, state) = ready_nodes(deps, state)
  /\ \A n \in Node, s \in TaskState : Abstract!set_state(state, n, s) = set_state(state, n, s)
  /\ \A n \in Node : Abstract!mark_failed(deps, state, n) = mark_failed(deps, state, n)
  /\ Abstract!Node = Node /\ Abstract!Running = Running
BY DEF Abstract!reset_states, reset_states, Abstract!is_terminal, is_terminal,
       Abstract!ready_nodes, ready_nodes, Abstract!is_ready, is_ready,
       Abstract!is_successful, is_successful, Abstract!set_state, set_state,
       Abstract!mark_failed, mark_failed, Abstract!Cascade, Cascade,
       Abstract!CancelClosed, CancelClosed, Abstract!Node, Node, Abstract!Running, Running

(* So is its notion of cardinality. *)
LEMMA SameCardinality == Abstract!Cardinality(Running) = Cardinality(Running)
BY DEF Abstract!Cardinality, Cardinality, Abstract!IsFiniteSet, IsFiniteSet

(* A task that is not running leaves room for itself: there is no limit to *)
(* what is in flight but the size of the graph.                            *)
LEMMA RoomForOne ==
  ASSUME NEW n \in Node, n \notin Running
  PROVE  Cardinality(Running) < N
<1>1. IsFiniteSet(Node) /\ Cardinality(Node) = N
  <2>1. Cardinality(Node) = IF 0 > N - 1 THEN 0 ELSE N - 1 - 0 + 1
    BY NAssumption, FS_Interval DEF Node
  <2>2. QED
    BY <2>1, NAssumption, NodesFinite DEF Node
<1>2. Running \subseteq Node /\ Running # Node
  BY DEF Running
<1>3. Cardinality(Running) \in Nat /\ Cardinality(Running) <= Cardinality(Node)
      /\ Cardinality(Running) # Cardinality(Node)
  BY <1>1, <1>2, NodesFinite, FS_Subset
<1>4. QED
  BY <1>1, <1>3, NAssumption

(* run implements the abstract build, with no limit on what runs at once:  *)
(* it starts ready tasks only, cascades in the step in which a task fails, *)
(* and returns when no task is left.                                       *)
THEOREM Implementation == Spec => ImplementsBuild
<1> DEFINE returned == pc \in {"join", "done"}
<1>1. Init => Abstract!Init
  BY SameGraph DEF Init, Abstract!Init
<1>2. IInv /\ [Next]_vars => [Abstract!Next]_(Abstract!buildVars)
  <2> SUFFICES ASSUME IInv, [Next]_vars
               PROVE  Abstract!Next \/ UNCHANGED Abstract!buildVars
    OBVIOUS
  <2>1. CASE Dispatch
    <3>1. Head(ready) = ready[1] /\ 1 \in 1 .. Len(ready)
      BY <2>1 DEF Dispatch, IInv, TypeOK
    <3>2. PICK n \in ready_nodes(deps, state) : n = Head(ready)
      BY <3>1 DEF IInv, JobsAreRunning
    <3>3. n \in Node /\ n \notin Running /\ "Running" \in TaskState
      BY DEF ready_nodes, Running, TaskState
    <3>4. /\ n \in Abstract!ready_nodes(deps, state)
          /\ state' = Abstract!set_state(state, n, "Running")
          /\ Abstract!Cardinality(Abstract!Running) < N
      BY <2>1, <3>2, <3>3, RoomForOne, SameGraph, SameCardinality DEF Dispatch
    <3>5. Abstract!Start(n)
      BY <2>1, <3>4 DEF Abstract!Start, Dispatch
    <3>6. QED
      BY <3>3, <3>5, SameGraph DEF Abstract!Next
  <2>2. CASE Receive
    <3> DEFINE o == outcomes[1]
    <3>1. /\ o.id \in Node /\ state[o.id] = "Running"
          /\ state' = IF o.status = "Failed" THEN mark_failed(deps, state, o.id)
                      ELSE set_state(state, o.id, StateOf(o.status))
          /\ StateOf(o.status) \in {"Succeeded", "Cached"}
      BY <2>2, Outcomes
    <3>2. deps' = deps /\ returned' = returned
      BY <2>2 DEF Receive
    <3> HIDE DEF o
    <3>3. CASE o.status = "Failed"
      <4>1. Abstract!Fail(o.id)
        BY <3>1, <3>2, <3>3, SameGraph DEF Abstract!Fail
      <4>2. QED
        BY <4>1, <3>1, SameGraph DEF Abstract!Next
    <3>4. CASE o.status # "Failed"
      <4>1. StateOf(o.status) \in TaskState
        BY <3>1 DEF TaskState
      <4>2. Abstract!Succeed(o.id, StateOf(o.status))
        BY <4>1, <3>1, <3>2, <3>4, SameGraph DEF Abstract!Succeed
      <4>3. QED
        BY <4>2, <3>1, SameGraph DEF Abstract!Next
    <3>5. QED
      BY <3>3, <3>4
  <2>3. CASE Leave
    <3>1. CASE AllDone
      <4>1. \A n \in Node : is_terminal(state[n])
        BY <2>3, <3>1, LeaveStep DEF IInv, OkMeansComplete, Leave
      <4>2. Abstract!Return
        BY <2>3, <3>1, <4>1, SameGraph DEF Abstract!Return, Leave
      <4>3. QED
        BY <4>2 DEF Abstract!Next
    <3>2. CASE ~AllDone
      BY <2>3, <3>2 DEF Leave, Abstract!buildVars
    <3>3. QED
      BY <3>1, <3>2
  <2>4. CASE Refresh \/ Drained \/ Return \/ Returned \/ UNCHANGED vars
    <3>1. deps' = deps /\ state' = state /\ (returned' <=> returned)
      BY <2>4 DEF Refresh, Drained, Return, Returned, vars
    <3>2. QED
      BY <3>1 DEF Abstract!buildVars
  <2>5. ASSUME NEW w \in Worker, WorkerStep(w)
        PROVE  UNCHANGED Abstract!buildVars
    BY <2>5 DEF WorkerStep, WorkerRecv, WorkerExecute, WorkerExit, Abstract!buildVars
  <2>6. QED
    BY <2>1, <2>2, <2>3, <2>4, <2>5 DEF Next, SchedulerStep
<1>3. QED
  BY <1>1, <1>2, Invariant, PTL DEF Spec, ImplementsBuild, Abstract!Spec

=============================================================================
