-------------------------- MODULE SchedulerProofs ---------------------------
(***************************************************************************)
(* Theorems about Scheduler for every graph, pool size and setting: type   *)
(* correctness, the inductive invariant IInv with the safety invariants it *)
(* contains, the finality of terminal states, and the implementation of    *)
(* the abstract build.                                                     *)
(***************************************************************************)
EXTENDS Scheduler, BuildGraphProofs, SequenceTheorems

(* The constants as the proofs use them. *)
LEMMA Constants ==
  /\ W \in Nat /\ W >= 1 /\ Slot = 0 .. W - 1
  /\ ram_floor \in Nat /\ ram_floor >= 1
  /\ IsFiniteSet(Worker) /\ Cardinality(Worker) = W
  /\ \A g \in Graphs : g \in Structure /\ Acyclic(g)
BY WorkersAssumption, FlagsAssumption, GraphsAssumption DEF ram_floor, Slot

(* The throttle leaves at least one worker and at most all of them. *)
LEMMA EffectiveWorkers ==
  effective_workers \in Nat /\ effective_workers >= 1 /\ effective_workers <= W
BY Constants DEF effective_workers

(* The list made at the top of the loop is a sequence of the ready nodes,  *)
(* each once, and is empty only if no node is ready.                       *)
LEMMA ReadyList ==
  ASSUME NEW g, NEW R \in SUBSET Node, NEW q \in [1 .. Cardinality(R) -> R],
         IsReadyList(g, q, R)
  PROVE  /\ q \in Seq(Node)
         /\ \A i \in 1 .. Len(q) : q[i] \in R
         /\ \A i, j \in 1 .. Len(q) : q[i] = q[j] => i = j
         /\ q = << >> => R = {}
<1>1. Cardinality(R) \in Nat
  BY NodesFinite
<1>2. q \in Seq(R) /\ Len(q) = Cardinality(R)
  BY <1>1
<1>3. q \in Seq(Node)
  BY <1>1, <1>2
<1>4. ASSUME NEW i \in 1 .. Len(q), NEW j \in 1 .. Len(q), q[i] = q[j], i < j
      PROVE  FALSE
  <2>1. Before(g, q[i], q[j])
    BY <1>2, <1>4 DEF IsReadyList
  <2>2. q[i] \in Node
    BY <1>2
  <2>3. QED
    BY <2>1, <2>2, <1>4 DEF Before, Node
<1>5. \A i, j \in 1 .. Len(q) : q[i] = q[j] => i = j
  <2> SUFFICES ASSUME NEW i \in 1 .. Len(q), NEW j \in 1 .. Len(q), q[i] = q[j], i # j
               PROVE  FALSE
    OBVIOUS
  <2>1. i \in Int /\ j \in Int
    BY <1>1, <1>2
  <2>2. i < j \/ j < i
    BY <2>1
  <2>3. QED
    BY <2>2, <1>4
<1>6. q = << >> => R = {}
  BY <1>2 DEF IsReadyList
<1>7. QED
  BY <1>2, <1>3, <1>5, <1>6

-----------------------------------------------------------------------------
(* A stack popped of its last element. *)
LEMMA Pop ==
  ASSUME free_workers \in Seq(Slot), free_workers # << >>
  PROVE  /\ PoppedSlot = free_workers[Len(free_workers)] /\ PoppedSlot \in Slot
         /\ Popped \in Seq(Slot) /\ Len(Popped) = Len(free_workers) - 1
         /\ \A i \in 1 .. Len(Popped) : Popped[i] = free_workers[i]
<1>1. Len(free_workers) \in Nat /\ Len(free_workers) >= 1
  BY EmptySeq, LenProperties
<1>2. \A i \in 1 .. Len(free_workers) : free_workers[i] \in Slot
  BY LenProperties
<1>3. Popped = SubSeq(free_workers, 1, Len(free_workers) - 1)
  BY DEF Popped
<1>4. PICK m \in Nat : m = Len(free_workers) - 1
  BY <1>1
<1>5. /\ Popped \in Seq(Slot)
      /\ Len(Popped) = IF 1 <= m THEN m - 1 + 1 ELSE 0
      /\ \A i \in 1 .. m - 1 + 1 : Popped[i] = free_workers[1 + i - 1]
  <2>1. \A i \in 1 .. m : free_workers[i] \in Slot
    BY <1>1, <1>2, <1>4
  <2>2. Popped = SubSeq(free_workers, 1, m)
    BY <1>3, <1>4
  <2>3. QED
    BY <2>1, <2>2, SubSeqProperties
<1>6. PoppedSlot = free_workers[Len(free_workers)]
  BY DEF PoppedSlot
<1>7. Len(Popped) = m
  BY <1>5
<1>8. \A i \in 1 .. Len(Popped) : Popped[i] = free_workers[i]
  <2> SUFFICES ASSUME NEW i \in 1 .. Len(Popped) PROVE Popped[i] = free_workers[i]
    OBVIOUS
  <2>1. i \in 1 .. m - 1 + 1 /\ 1 + i - 1 = i
    BY <1>7
  <2>2. QED
    BY <1>5, <2>1
<1>9. QED
  BY <1>1, <1>2, <1>4, <1>5, <1>6, <1>7, <1>8

(* One step keeps the types, given that no outcome is queued when nothing  *)
(* is in flight: in_flight is unsigned and must not go below zero.         *)
LEMMA TypeStep ==
  ASSUME TypeOK, outcomes # << >> => in_flight >= 1, [Next]_vars
  PROVE  TypeOK'
<1> USE DEF TypeOK
<1>1. CASE Refresh
  <2>1. ready' \in Seq(Node)
    <3>1. CASE ready = << >>
      <4>1. ready_nodes(deps, state) \in SUBSET Node
        BY DEF ready_nodes
      <4>2. PICK q \in [1 .. Cardinality(ready_nodes(deps, state)) -> ready_nodes(deps, state)] :
               IsReadyList(deps, q, ready_nodes(deps, state)) /\ ready' = q
        BY <3>1, <1>1 DEF Refresh
      <4>3. QED
        BY <4>1, <4>2, ReadyList
    <3>2. CASE ready # << >>
      BY <3>2, <1>1 DEF Refresh
    <3>3. QED
      BY <3>1, <3>2
  <2>2. QED
    BY <2>1, <1>1 DEF Refresh, graphVars, chanVars, logVars
<1>2. CASE Dispatch
  <2>1. Head(ready) \in Node /\ ready' \in Seq(Node)
    BY <1>2 DEF Dispatch, CanDispatch
  <2>2. PoppedSlot \in Slot /\ Popped \in Seq(Slot)
    BY Constants, Pop DEF PoppedSlot, Popped
  <2>3. tasks' \in Seq(Job)
    BY <2>1, <2>2, <1>2 DEF Dispatch, Job
  <2>4. state' \in [Node -> TaskState]
    BY <2>1, <1>2 DEF Dispatch, set_state, TaskState
  <2>5. QED
    BY <2>1, <2>2, <2>3, <2>4, <1>2 DEF Dispatch, logVars
<1>3. CASE Leave
  BY <1>3 DEF Leave, graphVars, loopVars, chanVars, logVars
<1>4. CASE Block
  BY <1>4 DEF Block, graphVars, loopVars, chanVars, logVars
<1>5. CASE Receive
  <2>1. Head(outcomes) \in Outcome /\ outcomes' \in Seq(Outcome)
    BY <1>5 DEF Receive
  <2>2. Head(outcomes).id \in Node /\ Head(outcomes).slot \in Slot
    BY <2>1 DEF Outcome
  <2>3. state' \in [Node -> TaskState]
    BY <2>2, <1>5 DEF Receive, process_completion, mark_failed, set_state, StateOf, TaskState
  <2>4. in_flight' \in Nat
    BY <1>5 DEF Receive, process_completion
  <2>5. free_workers' \in Seq(Slot) /\ failures' \in Seq(Node) /\ timings' \in SUBSET Outcome
    BY <2>1, <2>2, <1>5 DEF Receive, process_completion
  <2>6. QED
    BY <2>1, <2>3, <2>4, <2>5, <1>5 DEF Receive
<1>6. CASE Drained
  BY <1>6 DEF Drained, graphVars, loopVars, chanVars, logVars
<1>7. CASE Return
  BY <1>7 DEF Return, graphVars, loopVars, chanVars, logVars
<1>8. ASSUME NEW w \in Worker, WorkerRecv(w) PROVE TypeOK'
  <2>1. Head(tasks) \in Job /\ Tail(tasks) \in Seq(Job)
    BY <1>8 DEF WorkerRecv
  <2>2. worker' \in [Worker -> Thread]
    BY <2>1, <1>8 DEF WorkerRecv, Thread, Job
  <2>3. QED
    BY <2>1, <2>2, <1>8 DEF WorkerRecv, graphVars, loopVars, logVars
<1>9. ASSUME NEW w \in Worker, NEW x \in Execution, WorkerExecute(w, x) PROVE TypeOK'
  <2>1. worker[w].id \in Node /\ worker[w].slot \in Slot
    BY <1>9 DEF WorkerExecute, Busy, Thread
  <2>2. Reported(x) \in TaskStatus
    BY <1>9 DEF Reported, Execution, TaskStatus
  <2>3. outcomes' \in Seq(Outcome)
    BY <2>1, <2>2, <1>9 DEF WorkerExecute, Outcome
  <2>4. worker' \in [Worker -> Thread]
    BY <1>9 DEF WorkerExecute, Thread, Idle
  <2>5. QED
    BY <2>3, <2>4, <1>9 DEF WorkerExecute, graphVars, loopVars, logVars
<1>10. ASSUME NEW w \in Worker, WorkerExit(w) PROVE TypeOK'
  BY <1>10 DEF WorkerExit, graphVars, loopVars, logVars, Thread, Exited
<1>11. CASE UNCHANGED vars
  BY <1>11 DEF vars
<1>12. QED
  BY <1>1, <1>2, <1>3, <1>4, <1>5, <1>6, <1>7, <1>8, <1>9, <1>10, <1>11
     DEF Next, Dispatcher, WorkerStep, Returned

-----------------------------------------------------------------------------
(* What the invariant says of the graph. *)
LEMMA Facts ==
  ASSUME IInv
  PROVE  /\ deps \in Structure /\ Acyclic(deps)
         /\ Settled(deps, state)
         /\ outcomes # << >> => in_flight >= 1
         /\ IsFiniteSet(Running) /\ Cardinality(Running) \in Nat
         /\ IsFiniteSet({w \in Worker : Busy(w)})
         /\ Cardinality({w \in Worker : Busy(w)}) \in Nat
<1>1. deps \in Structure /\ Acyclic(deps)
  BY Constants DEF IInv, TypeOK
<1>2. Settled(deps, state)
  BY DEF IInv, TypeOK, Settled, StatesUsed, DependenciesFirst, CascadeIsExact
<1>3. IsFiniteSet(Running) /\ Cardinality(Running) \in Nat
  BY NodesFinite DEF Running
<1>4. IsFiniteSet({w \in Worker : Busy(w)})
  BY Constants, FS_Subset
<1>5. Cardinality({w \in Worker : Busy(w)}) \in Nat
  BY <1>4, FS_CardinalityType
<1>6. outcomes # << >> => in_flight >= 1
  <2> SUFFICES ASSUME outcomes # << >> PROVE in_flight >= 1
    OBVIOUS
  <2>1. Len(outcomes) \in Nat /\ Len(outcomes) >= 1 /\ Len(tasks) \in Nat
    BY EmptySeq, LenProperties DEF IInv, TypeOK
  <2>2. QED
    BY <2>1, <1>5 DEF IInv, InFlightIsExact
<1>7. QED
  BY <1>1, <1>2, <1>3, <1>4, <1>5, <1>6

(* Every job names a node of the graph. *)
LEMMA JobIds ==
  ASSUME TypeOK
  PROVE  /\ \A i \in 1 .. Len(tasks) : tasks[i].id \in Node
         /\ \A i \in 1 .. Len(outcomes) : outcomes[i].id \in Node
         /\ \A w \in Worker : Busy(w) => worker[w].id \in Node
<1>1. \A i \in 1 .. Len(tasks) : tasks[i].id \in Node
  <2>1. \A i \in 1 .. Len(tasks) : tasks[i] \in Job
    BY LenProperties DEF TypeOK
  <2>2. QED
    BY <2>1 DEF Job
<1>2. \A i \in 1 .. Len(outcomes) : outcomes[i].id \in Node
  <2>1. \A i \in 1 .. Len(outcomes) : outcomes[i] \in Outcome
    BY LenProperties DEF TypeOK
  <2>2. QED
    BY <2>1 DEF Outcome
<1>3. \A w \in Worker : Busy(w) => worker[w].id \in Node
  BY DEF TypeOK, Thread, Busy
<1>4. QED
  BY <1>1, <1>2, <1>3

(* A worker takes a job: it leaves the channel as the worker gets it. *)
LEMMA RecvStep ==
  ASSUME IInv, [Next]_vars, NEW w \in Worker, WorkerRecv(w)
  PROVE  IInv'
<1>1. TypeOK /\ TypeOK'
  BY Facts, TypeStep DEF IInv
<1>2. UNCHANGED <<deps, state, pc, ready, ram_limited, in_flight, free_workers,
                  outcomes, failures, timings, result>>
  BY DEF WorkerRecv, graphVars, loopVars, logVars
<1>3. /\ 1 \in 1 .. Len(tasks)
      /\ Len(tasks) \in Nat /\ Len(tasks') = Len(tasks) - 1
      /\ \A i \in 1 .. Len(tasks') : /\ tasks'[i] = tasks[i + 1]
                                     /\ i + 1 \in 1 .. Len(tasks) /\ i + 1 # 1
                                     /\ i \in Int
  BY <1>1 DEF WorkerRecv, TypeOK
<1>4. /\ worker' = [worker EXCEPT ![w] = [thread |-> "busy", id |-> tasks[1].id,
                                          slot |-> tasks[1].slot]]
      /\ worker[w].thread = "idle"
  <2>1. Head(tasks) = tasks[1]
    BY <1>1, HeadTailProperties DEF WorkerRecv, TypeOK
  <2>2. QED
    BY <2>1 DEF WorkerRecv
<1>5. /\ Busy(w)' /\ ~Busy(w)
      /\ worker'[w].id = tasks[1].id /\ worker'[w].slot = tasks[1].slot
      /\ \A v \in Worker : v # w => worker'[v] = worker[v] /\ (Busy(v)' <=> Busy(v))
  BY <1>1, <1>4 DEF TypeOK, Busy
<1>6. InFlightIsExact'
  <2>1. {v \in Worker : Busy(v)}' = {v \in Worker : Busy(v)} \cup {w}
    BY <1>5
  <2>2. Cardinality({v \in Worker : Busy(v)}') = Cardinality({v \in Worker : Busy(v)}) + 1
    BY <2>1, <1>5, Facts, FS_AddElement
  <2>3. Len(outcomes) \in Nat
    BY <1>1, LenProperties DEF TypeOK
  <2>4. in_flight' = Len(tasks') + Len(outcomes') + Cardinality({v \in Worker : Busy(v)}')
    BY <2>2, <2>3, <1>2, <1>3, Facts DEF IInv, InFlightIsExact
  <2>5. QED
    BY <2>4, <1>2 DEF IInv, InFlightIsExact, Running
<1>7. SlotsAreExclusive'
  <2> USE DEF Apart
  <2>1. \A i, j \in 1 .. Len(tasks') : i # j => Apart(tasks'[i], tasks'[j])
    <3> SUFFICES ASSUME NEW i \in 1 .. Len(tasks'), NEW j \in 1 .. Len(tasks'), i # j
                 PROVE  Apart(tasks'[i], tasks'[j])
      OBVIOUS
    <3>1. i + 1 # j + 1
      BY <1>3
    <3>2. Apart(tasks[i + 1], tasks[j + 1])
      BY <3>1, <1>3 DEF IInv, SlotsAreExclusive, JobsApart
    <3>3. QED
      BY <3>2, <1>3
  <2>2. \A u, v \in Worker : u # v /\ Busy(u)' /\ Busy(v)' => Apart(worker'[u], worker'[v])
    BY <1>3, <1>5 DEF IInv, SlotsAreExclusive, JobsApart
  <2>3. \A i \in 1 .. Len(tasks'), j \in 1 .. Len(outcomes') : Apart(tasks'[i], outcomes'[j])
    <3> SUFFICES ASSUME NEW i \in 1 .. Len(tasks'), NEW j \in 1 .. Len(outcomes')
                 PROVE  Apart(tasks'[i], outcomes'[j])
      OBVIOUS
    <3>1. Apart(tasks[i + 1], outcomes[j])
      BY <1>2, <1>3 DEF IInv, SlotsAreExclusive, JobsApart
    <3>2. QED
      BY <3>1, <1>2, <1>3
  <2>4. \A i \in 1 .. Len(tasks'), v \in Worker : Busy(v)' => Apart(tasks'[i], worker'[v])
    <3> SUFFICES ASSUME NEW i \in 1 .. Len(tasks'), NEW v \in Worker, Busy(v)'
                 PROVE  Apart(tasks'[i], worker'[v])
      OBVIOUS
    <3>1. CASE v = w
      <4>1. Apart(tasks[i + 1], tasks[1])
        BY <1>3 DEF IInv, SlotsAreExclusive, JobsApart
      <4>2. QED
        BY <4>1, <3>1, <1>3, <1>5
    <3>2. CASE v # w
      <4>1. Apart(tasks[i + 1], worker[v])
        BY <3>2, <1>3, <1>5 DEF IInv, SlotsAreExclusive, JobsApart
      <4>2. QED
        BY <4>1, <3>2, <1>3, <1>5
    <3>3. QED
      BY <3>1, <3>2
  <2>5. \A i \in 1 .. Len(outcomes'), v \in Worker : Busy(v)' => Apart(outcomes'[i], worker'[v])
    BY <1>2, <1>3, <1>5 DEF IInv, SlotsAreExclusive, JobsApart
  <2>6. JobsApart'
    BY <2>1, <2>2, <2>3, <2>4, <2>5, <1>2 DEF IInv, SlotsAreExclusive, JobsApart
  <2>7. FreeApart'
    BY <1>2, <1>3, <1>5 DEF IInv, SlotsAreExclusive, FreeApart
  <2>8. QED
    BY <2>6, <2>7, <1>2 DEF IInv, SlotsAreExclusive
<1>8. JobsAreRunning'
  BY <1>2, <1>3, <1>5 DEF IInv, JobsAreRunning
<1>9. QED
  BY <1>1, <1>2, <1>6, <1>7, <1>8
     DEF IInv, DependenciesFirst, ReadyListIsFresh, CascadeIsExact, StatesUsed,
         ListMadeWhenIdle, NeverStalls, AllTerminal

(* A worker reports: its job becomes the last outcome. *)
LEMMA ExecuteStep ==
  ASSUME IInv, [Next]_vars, NEW w \in Worker, NEW x \in Execution, WorkerExecute(w, x)
  PROVE  IInv'
<1>1. TypeOK /\ TypeOK'
  BY Facts, TypeStep DEF IInv
<1>2. UNCHANGED <<deps, state, pc, ready, ram_limited, in_flight, free_workers,
                  tasks, failures, timings, result>>
  BY DEF WorkerExecute, graphVars, loopVars, logVars
<1>3. /\ Len(outcomes) \in Nat /\ Len(outcomes') = Len(outcomes) + 1
      /\ \A i \in 1 .. Len(outcomes') :
           \/ i \in 1 .. Len(outcomes) /\ outcomes'[i] = outcomes[i]
           \/ /\ i = Len(outcomes) + 1
              /\ outcomes'[i].id = worker[w].id /\ outcomes'[i].slot = worker[w].slot
  BY <1>1 DEF WorkerExecute, TypeOK
<1>4. /\ Busy(w) /\ ~Busy(w)'
      /\ \A v \in Worker : v # w => worker'[v] = worker[v] /\ (Busy(v)' <=> Busy(v))
  BY <1>1 DEF WorkerExecute, TypeOK, Busy, Idle
<1>5. InFlightIsExact'
  <2>1. {v \in Worker : Busy(v)}' = {v \in Worker : Busy(v)} \ {w}
    BY <1>4
  <2>2. Cardinality({v \in Worker : Busy(v)}') = Cardinality({v \in Worker : Busy(v)}) - 1
    BY <2>1, <1>4, Facts, FS_RemoveElement
  <2>3. Len(tasks) \in Nat
    BY <1>1, LenProperties DEF TypeOK
  <2>4. in_flight' = Len(tasks') + Len(outcomes') + Cardinality({v \in Worker : Busy(v)}')
    BY <2>2, <2>3, <1>2, <1>3, Facts DEF IInv, InFlightIsExact
  <2>5. QED
    BY <2>4, <1>2 DEF IInv, InFlightIsExact, Running
<1>6. SlotsAreExclusive'
  <2> USE DEF Apart
  <2>1. \A i, j \in 1 .. Len(outcomes') : i # j => Apart(outcomes'[i], outcomes'[j])
    BY <1>3, <1>4 DEF IInv, SlotsAreExclusive, JobsApart
  <2>2. \A u, v \in Worker : u # v /\ Busy(u)' /\ Busy(v)' => Apart(worker'[u], worker'[v])
    BY <1>4 DEF IInv, SlotsAreExclusive, JobsApart
  <2>3. \A i \in 1 .. Len(tasks'), j \in 1 .. Len(outcomes') : Apart(tasks'[i], outcomes'[j])
    BY <1>2, <1>3, <1>4 DEF IInv, SlotsAreExclusive, JobsApart
  <2>4. \A i \in 1 .. Len(tasks'), v \in Worker : Busy(v)' => Apart(tasks'[i], worker'[v])
    BY <1>2, <1>4 DEF IInv, SlotsAreExclusive, JobsApart
  <2>5. \A i \in 1 .. Len(outcomes'), v \in Worker : Busy(v)' => Apart(outcomes'[i], worker'[v])
    BY <1>3, <1>4 DEF IInv, SlotsAreExclusive, JobsApart
  <2>6. JobsApart'
    BY <2>1, <2>2, <2>3, <2>4, <2>5, <1>2 DEF IInv, SlotsAreExclusive, JobsApart
  <2>7. FreeApart'
    BY <1>2, <1>3, <1>4 DEF IInv, SlotsAreExclusive, FreeApart
  <2>8. QED
    BY <2>6, <2>7, <1>2 DEF IInv, SlotsAreExclusive
<1>7. JobsAreRunning'
  BY <1>2, <1>3, <1>4 DEF IInv, JobsAreRunning
<1>8. QED
  BY <1>1, <1>2, <1>5, <1>6, <1>7
     DEF IInv, DependenciesFirst, ReadyListIsFresh, CascadeIsExact, StatesUsed,
         ListMadeWhenIdle, NeverStalls, AllTerminal

(* The dispatcher hands the first task of its list to the workers: it is   *)
(* still ready, no other job is for it, and there is a free slot for it.   *)
LEMMA DispatchStep ==
  ASSUME IInv, [Next]_vars, Dispatch
  PROVE  IInv'
<1> DEFINE h == ready[1]
<1>1. TypeOK /\ TypeOK'
  BY Facts, TypeStep DEF IInv
<1>2. UNCHANGED <<deps, pc, ram_limited, worker, outcomes, failures, timings, result>>
  BY DEF Dispatch, logVars
<1>3. /\ Head(ready) = h /\ 1 \in 1 .. Len(ready) /\ Len(ready) \in Nat
      /\ Len(ready') = Len(ready) - 1
      /\ \A i \in 1 .. Len(ready') : /\ ready'[i] = ready[i + 1]
                                     /\ i + 1 \in 1 .. Len(ready) /\ i + 1 # 1
                                     /\ i \in Int
  BY <1>1 DEF Dispatch, CanDispatch, TypeOK
<1>4. h \in ready_nodes(deps, state) /\ h \in Node /\ state[h] = "Pending"
  BY <1>3 DEF IInv, ReadyListIsFresh, ready_nodes
<1>5. /\ Settled(deps, state') /\ state'[h] = "Running"
      /\ \A n \in Node \ {h} : state'[n] = state[n]
      /\ \A n \in Node : is_ready(deps, state, n) => is_ready(deps, state', n)
  <2>1. state' = set_state(state, h, "Running") /\ "Running" \in TaskState
    BY <1>3 DEF Dispatch, TaskState
  <2>2. QED
    BY <2>1, <1>4, Facts, StartOrFinish
<1> HIDE DEF h
<1>6. /\ in_flight \in Nat /\ in_flight < W /\ in_flight' = in_flight + 1
      /\ free_workers # << >>
  <2>1. in_flight \in Nat /\ in_flight < W /\ in_flight' = in_flight + 1
    BY <1>1, EffectiveWorkers, Constants DEF Dispatch, CanDispatch, TypeOK
  <2>2. Len(free_workers) + in_flight = W /\ Len(free_workers) \in Nat
    BY <1>1, LenProperties DEF TypeOK, IInv, SlotsAreExclusive
  <2>3. QED
    BY <2>1, <2>2, Constants, EmptySeq
<1>7. /\ free_workers' = Popped
      /\ PoppedSlot = free_workers[Len(free_workers)]
      /\ Len(free_workers) \in 1 .. Len(free_workers)
      /\ Len(free_workers') = Len(free_workers) - 1
      /\ \A i \in 1 .. Len(free_workers') : /\ free_workers'[i] = free_workers[i]
                                            /\ i \in 1 .. Len(free_workers)
                                            /\ i # Len(free_workers)
  <2>1. free_workers' = Popped
    BY DEF Dispatch
  <2>2. Len(free_workers) \in Nat /\ Len(free_workers) >= 1
    BY <1>1, <1>6, EmptySeq DEF TypeOK
  <2>3. QED
    BY <2>1, <2>2, <1>1, <1>6, Pop DEF TypeOK
<1>8. /\ Len(tasks) \in Nat /\ Len(tasks') = Len(tasks) + 1
      /\ \A i \in 1 .. Len(tasks') :
           \/ i \in 1 .. Len(tasks) /\ tasks'[i] = tasks[i]
           \/ /\ i = Len(tasks) + 1
              /\ tasks'[i].id = h /\ tasks'[i].slot = PoppedSlot
  <2>1. [id |-> h, slot |-> PoppedSlot] \in Job
    BY <1>1, <1>4, <1>6, Pop DEF Job, TypeOK
  <2>2. tasks' = Append(tasks, [id |-> h, slot |-> PoppedSlot])
    BY <1>3 DEF Dispatch
  <2>3. QED
    BY <2>1, <2>2, <1>1 DEF TypeOK
<1>9. /\ \A i \in 1 .. Len(tasks) : tasks[i].id # h /\ tasks[i].slot # PoppedSlot
      /\ \A i \in 1 .. Len(outcomes) : outcomes[i].id # h /\ outcomes[i].slot # PoppedSlot
      /\ \A w \in Worker : Busy(w) => worker[w].id # h /\ worker[w].slot # PoppedSlot
  BY <1>4, <1>7 DEF IInv, JobsAreRunning, SlotsAreExclusive, FreeApart
<1>10. ReadyListIsFresh'
  <2>1. \A i \in 1 .. Len(ready') : ready'[i] \in ready_nodes(deps', state')
    <3> SUFFICES ASSUME NEW i \in 1 .. Len(ready')
                 PROVE  ready'[i] \in ready_nodes(deps', state')
      OBVIOUS
    <3>1. ready[i + 1] \in ready_nodes(deps, state) /\ ready[i + 1] # h
      BY <1>3 DEF IInv, ReadyListIsFresh, h
    <3>2. QED
      BY <3>1, <1>2, <1>3, <1>5 DEF ready_nodes
  <2>2. \A i, j \in 1 .. Len(ready') : ready'[i] = ready'[j] => i = j
    <3> SUFFICES ASSUME NEW i \in 1 .. Len(ready'), NEW j \in 1 .. Len(ready'),
                        ready'[i] = ready'[j]
                 PROVE  i = j
      OBVIOUS
    <3>1. ready[i + 1] = ready[j + 1]
      BY <1>3
    <3>2. i + 1 = j + 1
      BY <3>1, <1>3 DEF IInv, ReadyListIsFresh
    <3>3. QED
      BY <3>2, <1>3
  <2>3. QED
    BY <2>1, <2>2 DEF ReadyListIsFresh
<1>11. InFlightIsExact'
  <2>1. Running' = Running \cup {h} /\ h \notin Running
    BY <1>4, <1>5 DEF Running
  <2>2. Cardinality(Running') = Cardinality(Running) + 1
    BY <2>1, Facts, FS_AddElement
  <2>3. {w \in Worker : Busy(w)}' = {w \in Worker : Busy(w)}
    BY <1>2 DEF Busy
  <2>4. Len(outcomes) \in Nat
    BY <1>1, LenProperties DEF TypeOK
  <2>5. in_flight' = Len(tasks') + Len(outcomes') + Cardinality({w \in Worker : Busy(w)}')
    <3>1. PICK b \in Nat : b = Cardinality({w \in Worker : Busy(w)})
      BY Facts
    <3>2. in_flight = Len(tasks) + Len(outcomes) + b
      BY <3>1 DEF IInv, InFlightIsExact
    <3>3. in_flight' = Len(tasks') + Len(outcomes') + b
      BY <3>2, <2>4, <1>2, <1>6, <1>8
    <3>4. QED
      BY <3>1, <3>3, <2>3
  <2>6. in_flight' = Cardinality(Running') /\ in_flight' <= W
    <3>1. in_flight = Cardinality(Running)
      BY DEF IInv, InFlightIsExact
    <3>2. QED
      BY <3>1, <2>2, <1>6, Constants
  <2>7. QED
    BY <2>5, <2>6 DEF InFlightIsExact
<1>12. SlotsAreExclusive'
  <2> USE DEF Apart
  <2>1. \A i, j \in 1 .. Len(tasks') : i # j => Apart(tasks'[i], tasks'[j])
    BY <1>8, <1>9 DEF IInv, SlotsAreExclusive, JobsApart
  <2>2. \A i \in 1 .. Len(tasks'), j \in 1 .. Len(outcomes') : Apart(tasks'[i], outcomes'[j])
    BY <1>2, <1>8, <1>9 DEF IInv, SlotsAreExclusive, JobsApart
  <2>3. \A i \in 1 .. Len(tasks'), w \in Worker : Busy(w)' => Apart(tasks'[i], worker'[w])
    BY <1>2, <1>8, <1>9 DEF IInv, SlotsAreExclusive, JobsApart, Busy
  <2>4. JobsApart'
    BY <2>1, <2>2, <2>3, <1>2 DEF IInv, SlotsAreExclusive, JobsApart, Busy
  <2>5. \A i, j \in 1 .. Len(free_workers') : i # j => free_workers'[i] # free_workers'[j]
    <3>1. \A i, j \in 1 .. Len(free_workers) : i # j => free_workers[i] # free_workers[j]
      BY DEF IInv, SlotsAreExclusive, FreeApart
    <3>2. QED
      BY <3>1, <1>7
  <2>6. ASSUME NEW i \in 1 .. Len(free_workers')
        PROVE  /\ \A j \in 1 .. Len(tasks') : free_workers'[i] # tasks'[j].slot
               /\ \A j \in 1 .. Len(outcomes') : free_workers'[i] # outcomes'[j].slot
               /\ \A w \in Worker : Busy(w)' => free_workers'[i] # worker'[w].slot
    <3>1. free_workers'[i] # PoppedSlot
      BY <1>7 DEF IInv, SlotsAreExclusive, FreeApart
    <3>2. QED
      BY <3>1, <1>2, <1>7, <1>8 DEF IInv, SlotsAreExclusive, FreeApart, Busy
  <2>7. FreeApart'
    BY <2>5, <2>6 DEF FreeApart
  <2>8. Len(free_workers') + in_flight' = W
    BY <1>6, <1>7, Constants DEF IInv, SlotsAreExclusive
  <2>9. QED
    BY <2>4, <2>7, <2>8 DEF SlotsAreExclusive
<1>13. JobsAreRunning'
  <2>1. \A n \in Node : state[n] = "Running" => state'[n] = "Running"
    BY <1>4, <1>5
  <2>2. /\ \A i \in 1 .. Len(tasks) : tasks[i].id \in Node
        /\ \A i \in 1 .. Len(outcomes) : outcomes[i].id \in Node
        /\ \A w \in Worker : Busy(w) => worker[w].id \in Node
    BY <1>1, JobIds
  <2>3. QED
    BY <2>1, <2>2, <1>2, <1>5, <1>8 DEF IInv, JobsAreRunning, Busy
<1>14. result # "Ok"
  BY <1>4 DEF IInv, AllTerminal, is_terminal
<1>15. DependenciesFirst' /\ CascadeIsExact' /\ StatesUsed'
  BY <1>2, <1>5 DEF Settled, DependenciesFirst, CascadeIsExact, StatesUsed
<1>16. ListMadeWhenIdle'
  BY <1>6 DEF ListMadeWhenIdle
<1>17. QED
  BY <1>1, <1>2, <1>10, <1>11, <1>12, <1>13, <1>14, <1>15, <1>16 DEF IInv, NeverStalls

(* The dispatcher processes the first outcome: its task was running, its   *)
(* slot is free again, and what is left of the ready list stays ready      *)
(* whether the task succeeded or took others down with it.                 *)
LEMMA ReceiveStep ==
  ASSUME IInv, [Next]_vars, Receive
  PROVE  IInv'
<1> DEFINE o == outcomes[1]
<1>1. TypeOK /\ TypeOK'
  BY Facts, TypeStep DEF IInv
<1>2. UNCHANGED <<deps, ready, ram_limited, tasks, worker, result>> /\ pc' = "drain"
  BY DEF Receive
<1>3. /\ Head(outcomes) = o /\ 1 \in 1 .. Len(outcomes) /\ Len(outcomes) \in Nat
      /\ Len(outcomes') = Len(outcomes) - 1
      /\ \A i \in 1 .. Len(outcomes') : /\ outcomes'[i] = outcomes[i + 1]
                                        /\ i + 1 \in 1 .. Len(outcomes) /\ i + 1 # 1
                                        /\ i \in Int
  BY <1>1 DEF Receive, TypeOK
<1>4. o \in Outcome /\ o.id \in Node /\ o.slot \in Slot /\ state[o.id] = "Running"
  <2>1. o \in Outcome
    BY <1>1, <1>3, LenProperties DEF TypeOK
  <2>2. state[o.id] = "Running"
    BY <1>3 DEF IInv, JobsAreRunning
  <2>3. QED
    BY <2>1, <2>2 DEF Outcome
<1>5. /\ free_workers' = Append(free_workers, o.slot)
      /\ in_flight' = in_flight - 1
      /\ state' = IF o.status = "Failed" THEN mark_failed(deps, state, o.id)
                  ELSE set_state(state, o.id, StateOf(o.status))
  BY <1>3 DEF Receive, process_completion
<1>6. /\ Settled(deps, state')
      /\ state'[o.id] \in {"Succeeded", "Cached", "Failed"}
      /\ \A n \in Node \ {o.id} :
           \/ state'[n] = state[n]
           \/ state[n] = "Pending" /\ state'[n] = "Cancelled" /\ ~is_ready(deps, state, n)
  <2>1. CASE o.status = "Failed"
    BY <2>1, <1>4, <1>5, Facts, MarkFailed
  <2>2. CASE o.status # "Failed"
    <3>1. StateOf(o.status) \in {"Succeeded", "Cached"} /\ StateOf(o.status) \in TaskState
      BY DEF StateOf, TaskState
    <3>2. QED
      BY <3>1, <2>2, <1>4, <1>5, Facts, StartOrFinish
  <2>3. QED
    BY <2>1, <2>2
<1> HIDE DEF o
<1>7. /\ \A n \in Node : is_ready(deps, state, n) => is_ready(deps, state', n)
      /\ \A n \in Node \ {o.id} : state[n] = "Running" <=> state'[n] = "Running"
  <2>1. \A n \in Node : is_successful(state[n]) => is_successful(state'[n])
    BY <1>4, <1>6 DEF is_successful
  <2>2. \A n \in Node : deps[n] \subseteq Node
    BY Facts DEF Structure
  <2>3. \A n \in Node : is_ready(deps, state, n) => is_ready(deps, state', n)
    BY <2>1, <2>2 DEF is_ready
  <2>4. QED
    BY <2>3, <1>6
<1>8. ReadyListIsFresh'
  <2>1. \A n \in ready_nodes(deps, state) : n \in ready_nodes(deps, state')
    BY <1>4, <1>6, <1>7 DEF ready_nodes
  <2>2. QED
    BY <2>1, <1>2 DEF IInv, ReadyListIsFresh
<1>9. InFlightIsExact'
  <2>1. Running' = Running \ {o.id} /\ o.id \in Running
    BY <1>4, <1>6, <1>7 DEF Running
  <2>2. Cardinality(Running') = Cardinality(Running) - 1
    BY <2>1, Facts, FS_RemoveElement
  <2>3. {w \in Worker : Busy(w)}' = {w \in Worker : Busy(w)}
    BY <1>2 DEF Busy
  <2>4. Len(tasks) \in Nat
    BY <1>1, LenProperties DEF TypeOK
  <2>5. in_flight' = Len(tasks') + Len(outcomes') + Cardinality({w \in Worker : Busy(w)}')
    <3>1. PICK b \in Nat : b = Cardinality({w \in Worker : Busy(w)})
      BY Facts
    <3>2. in_flight = Len(tasks) + Len(outcomes) + b
      BY <3>1 DEF IInv, InFlightIsExact
    <3>3. in_flight' = Len(tasks') + Len(outcomes') + b
      BY <3>2, <2>4, <1>2, <1>3, <1>5
    <3>4. QED
      BY <3>1, <3>3, <2>3
  <2>6. in_flight' = Cardinality(Running') /\ in_flight' <= W
    <3>1. in_flight = Cardinality(Running) /\ in_flight <= W /\ in_flight \in Nat
      BY DEF IInv, InFlightIsExact, TypeOK
    <3>2. QED
      BY <3>1, <2>2, <1>5, Constants
  <2>7. QED
    BY <2>5, <2>6 DEF InFlightIsExact
<1>10. /\ \A i \in 1 .. Len(outcomes') : outcomes'[i].id # o.id /\ outcomes'[i].slot # o.slot
       /\ \A i \in 1 .. Len(tasks) : tasks[i].id # o.id /\ tasks[i].slot # o.slot
       /\ \A w \in Worker : Busy(w) => worker[w].id # o.id /\ worker[w].slot # o.slot
       /\ \A i \in 1 .. Len(free_workers) : free_workers[i] # o.slot
  <2>1. ASSUME NEW i \in 1 .. Len(outcomes')
        PROVE  outcomes'[i].id # o.id /\ outcomes'[i].slot # o.slot
    <3>1. Apart(outcomes[i + 1], outcomes[1])
      BY <1>3 DEF IInv, SlotsAreExclusive, JobsApart
    <3>2. QED
      BY <3>1, <1>3 DEF Apart, o
  <2>2. QED
    BY <2>1, <1>3 DEF IInv, SlotsAreExclusive, JobsApart, FreeApart, Apart, o
<1>11. /\ Len(free_workers) \in Nat /\ Len(free_workers') = Len(free_workers) + 1
       /\ \A i \in 1 .. Len(free_workers') :
            \/ i \in 1 .. Len(free_workers) /\ free_workers'[i] = free_workers[i]
            \/ i = Len(free_workers) + 1 /\ free_workers'[i] = o.slot
  BY <1>1, <1>4, <1>5 DEF TypeOK
<1>12. SlotsAreExclusive'
  <2>1. \A i, j \in 1 .. Len(outcomes') : i # j => Apart(outcomes'[i], outcomes'[j])
    <3> SUFFICES ASSUME NEW i \in 1 .. Len(outcomes'), NEW j \in 1 .. Len(outcomes'), i # j
                 PROVE  Apart(outcomes'[i], outcomes'[j])
      OBVIOUS
    <3>1. i + 1 # j + 1
      BY <1>3
    <3>2. Apart(outcomes[i + 1], outcomes[j + 1])
      BY <3>1, <1>3 DEF IInv, SlotsAreExclusive, JobsApart
    <3>3. QED
      BY <3>2, <1>3
  <2>2. ASSUME NEW j \in 1 .. Len(outcomes')
        PROVE  /\ \A i \in 1 .. Len(tasks') : Apart(tasks'[i], outcomes'[j])
               /\ \A w \in Worker : Busy(w)' => Apart(outcomes'[j], worker'[w])
               /\ \A i \in 1 .. Len(free_workers) : free_workers[i] # outcomes'[j].slot
    <3>1. j + 1 \in 1 .. Len(outcomes) /\ outcomes'[j] = outcomes[j + 1]
      BY <1>3
    <3>2. QED
      BY <3>1, <1>2 DEF IInv, SlotsAreExclusive, JobsApart, FreeApart, Busy
  <2>3. JobsApart'
    BY <2>1, <2>2, <1>2 DEF IInv, SlotsAreExclusive, JobsApart, Busy
  <2>4. \A i, j \in 1 .. Len(free_workers') : i # j => free_workers'[i] # free_workers'[j]
    <3>1. \A i, j \in 1 .. Len(free_workers) : i # j => free_workers[i] # free_workers[j]
      BY DEF IInv, SlotsAreExclusive, FreeApart
    <3>2. QED
      BY <3>1, <1>10, <1>11
  <2>5. ASSUME NEW i \in 1 .. Len(free_workers')
        PROVE  /\ \A j \in 1 .. Len(tasks') : free_workers'[i] # tasks'[j].slot
               /\ \A j \in 1 .. Len(outcomes') : free_workers'[i] # outcomes'[j].slot
               /\ \A w \in Worker : Busy(w)' => free_workers'[i] # worker'[w].slot
    <3>1. CASE i \in 1 .. Len(free_workers) /\ free_workers'[i] = free_workers[i]
      BY <3>1, <2>2, <1>2 DEF IInv, SlotsAreExclusive, FreeApart, Busy
    <3>2. CASE free_workers'[i] = o.slot
      BY <3>2, <1>2, <1>10 DEF Busy
    <3>3. QED
      BY <3>1, <3>2, <1>11
  <2>6. FreeApart'
    BY <2>4, <2>5 DEF FreeApart
  <2>7. Len(free_workers') + in_flight' = W
    <3>1. Len(free_workers) + in_flight = W /\ in_flight \in Nat
      BY DEF IInv, SlotsAreExclusive, TypeOK
    <3>2. QED
      BY <3>1, <1>5, <1>11, Constants
  <2>8. QED
    BY <2>3, <2>6, <2>7 DEF SlotsAreExclusive
<1>13. JobsAreRunning'
  <2>1. \A n \in Node : n # o.id /\ state[n] = "Running" => state'[n] = "Running"
    BY <1>7
  <2>2. /\ \A i \in 1 .. Len(tasks) : tasks[i].id \in Node
        /\ \A i \in 1 .. Len(outcomes) : outcomes[i].id \in Node
        /\ \A w \in Worker : Busy(w) => worker[w].id \in Node
    BY <1>1, JobIds
  <2>3. \A i \in 1 .. Len(outcomes') : state'[outcomes'[i].id] = "Running"
    <3> SUFFICES ASSUME NEW i \in 1 .. Len(outcomes')
                 PROVE  state'[outcomes'[i].id] = "Running"
      OBVIOUS
    <3>1. i + 1 \in 1 .. Len(outcomes) /\ outcomes'[i] = outcomes[i + 1]
      BY <1>3
    <3>2. QED
      BY <3>1, <2>1, <2>2, <1>10 DEF IInv, JobsAreRunning
  <2>4. QED
    BY <2>1, <2>2, <2>3, <1>2, <1>10 DEF IInv, JobsAreRunning, Busy
<1>14. result # "Ok"
  BY <1>4 DEF IInv, AllTerminal, is_terminal
<1>15. DependenciesFirst' /\ CascadeIsExact' /\ StatesUsed'
  BY <1>2, <1>6 DEF Settled, DependenciesFirst, CascadeIsExact, StatesUsed
<1>16. ListMadeWhenIdle'
  BY <1>2 DEF ListMadeWhenIdle
<1>17. QED
  BY <1>1, <1>2, <1>8, <1>9, <1>12, <1>13, <1>14, <1>15, <1>16 DEF IInv, NeverStalls

(* The top of the loop: a list that is used up is replaced by all the      *)
(* tasks that are ready now.                                               *)
LEMMA RefreshStep ==
  ASSUME IInv, [Next]_vars, Refresh
  PROVE  IInv'
<1> DEFINE R == ready_nodes(deps, state)
<1>1. TypeOK'
  BY Facts, TypeStep DEF IInv
<1>2. UNCHANGED <<deps, state, in_flight, free_workers, tasks, worker, outcomes,
                  failures, timings, result>>
  BY DEF Refresh, graphVars, chanVars, logVars
<1>3. ReadyListIsFresh' /\ ListMadeWhenIdle'
  <2>1. CASE ready = << >>
    <3>1. PICK q \in [1 .. Cardinality(R) -> R] : IsReadyList(deps, q, R) /\ ready' = q
      BY <2>1 DEF Refresh
    <3>2. R \in SUBSET Node
      BY DEF ready_nodes
    <3> HIDE DEF R
    <3>3. /\ \A i \in 1 .. Len(q) : q[i] \in R
          /\ \A i, j \in 1 .. Len(q) : q[i] = q[j] => i = j
          /\ q = << >> => R = {}
      BY <3>1, <3>2, ReadyList
    <3>4. QED
      BY <3>1, <3>3, <1>2 DEF ReadyListIsFresh, ListMadeWhenIdle, R
  <2>2. CASE ready # << >>
    <3>1. ready' = ready
      BY <2>2 DEF Refresh
    <3>2. QED
      BY <3>1, <2>2, <1>2 DEF IInv, ReadyListIsFresh, ListMadeWhenIdle
  <2>3. QED
    BY <2>1, <2>2
<1>4. QED
  BY <1>1, <1>2, <1>3
     DEF IInv, DependenciesFirst, CascadeIsExact, StatesUsed, NeverStalls, AllTerminal,
         InFlightIsExact, Running, SlotsAreExclusive, JobsApart, FreeApart, JobsAreRunning,
         Busy

(* When the dispatcher leaves the loop every task is terminal: with        *)
(* nothing in flight and none ready, an unfinished task would contradict   *)
(* the graph being acyclic.                                                *)
LEMMA LeaveStep ==
  ASSUME IInv, [Next]_vars, Leave
  PROVE  IInv'
<1>1. TypeOK'
  BY Facts, TypeStep DEF IInv
<1>2. UNCHANGED <<deps, state, ready, ram_limited, in_flight, free_workers, tasks, worker,
                  outcomes, failures, timings>> /\ pc' = "join"
  BY DEF Leave, graphVars, loopVars, chanVars, logVars
<1>3. AllTerminal
  <2> SUFFICES ASSUME ~AllTerminal PROVE FALSE
    OBVIOUS
  <2>1. in_flight = 0 /\ pc = "dispatch" /\ ready = << >>
    BY EffectiveWorkers DEF Leave, CanDispatch
  <2>2. ready_nodes(deps, state) = {}
    BY <2>1 DEF IInv, ListMadeWhenIdle
  <2>3. Running = {}
    BY <2>1, Facts, FS_EmptySet DEF IInv, InFlightIsExact
  <2>4. \A n \in Node : state[n] # "Running"
    BY <2>3 DEF Running
  <2>5. PICK left \in Node : ~is_terminal(state[left])
    BY DEF AllTerminal
  <2>6. QED
    BY <2>2, <2>4, <2>5, Facts, SomethingIsReady
<1>4. result' = "Ok" /\ AllTerminal'
  BY <1>2, <1>3 DEF Leave, AllTerminal
<1>5. QED
  BY <1>1, <1>2, <1>4
     DEF IInv, DependenciesFirst, ReadyListIsFresh, CascadeIsExact, StatesUsed, NeverStalls,
         ListMadeWhenIdle, InFlightIsExact, Running, SlotsAreExclusive, JobsApart, FreeApart,
         JobsAreRunning, Busy

(* The steps that only move the dispatcher, or stop an idle worker. *)
LEMMA QuietStep ==
  ASSUME IInv, [Next]_vars,
         Block \/ Drained \/ Return \/ (\E w \in Worker : WorkerExit(w)) \/ UNCHANGED vars
  PROVE  IInv'
<1>1. TypeOK /\ TypeOK'
  BY Facts, TypeStep DEF IInv
<1>2. UNCHANGED <<deps, state, ready, ram_limited, in_flight, free_workers, tasks,
                  outcomes, failures, timings, result>>
  BY DEF Block, Drained, Return, WorkerExit, vars, graphVars, loopVars, chanVars, logVars
<1>3. pc' = "dispatch" => pc = "dispatch"
  BY DEF Block, Drained, Return, WorkerExit, vars
<1>4. \A v \in Worker : (Busy(v)' <=> Busy(v)) /\ (Busy(v) => worker'[v] = worker[v])
  <2>1. CASE UNCHANGED worker
    BY <2>1 DEF Busy
  <2>2. ASSUME NEW w \in Worker, WorkerExit(w)
        PROVE  \A v \in Worker : (Busy(v)' <=> Busy(v)) /\ (Busy(v) => worker'[v] = worker[v])
    BY <2>2, <1>1 DEF WorkerExit, Busy, Exited, TypeOK
  <2>3. QED
    BY <2>1, <2>2 DEF Block, Drained, Return, vars, chanVars
<1>5. {v \in Worker : Busy(v)}' = {v \in Worker : Busy(v)}
  BY <1>4
<1>6. InFlightIsExact'
  BY <1>2, <1>5 DEF IInv, InFlightIsExact, Running
<1>7. SlotsAreExclusive'
  BY <1>2, <1>4 DEF IInv, SlotsAreExclusive, JobsApart, FreeApart
<1>8. JobsAreRunning'
  BY <1>2, <1>4 DEF IInv, JobsAreRunning
<1>9. QED
  BY <1>1, <1>2, <1>3, <1>6, <1>7, <1>8
     DEF IInv, DependenciesFirst, ReadyListIsFresh, CascadeIsExact, StatesUsed, NeverStalls,
         ListMadeWhenIdle, AllTerminal

(* A build starts with nothing running and all slots free. *)
LEMMA InitInv == Init => IInv
<1> SUFFICES ASSUME Init PROVE IInv
  OBVIOUS
<1>1. /\ Len(free_workers) = W
      /\ free_workers \in Seq(Slot)
      /\ \A i \in 1 .. W : free_workers[i] = W - i
  <2>1. free_workers \in [1 .. W -> Slot]
    BY Constants DEF Init
  <2>2. QED
    BY <2>1, Constants DEF Init
<1>2. state \in [Node -> TaskState] /\ \A n \in Node : state[n] = "Pending"
  BY DEF Init, reset_states, TaskState
<1>3. worker \in [Worker -> Thread] /\ \A w \in Worker : ~Busy(w)
  BY DEF Init, Idle, Thread, Busy
<1>4. TypeOK
  <2>1. free_workers \in Seq(Slot)
    BY <1>1
  <2>2. state \in [Node -> TaskState] /\ worker \in [Worker -> Thread]
    BY <1>2, <1>3
  <2>3. /\ deps \in Graphs /\ pc = "top" /\ ready = << >> /\ ram_limited \in BOOLEAN
        /\ in_flight = 0 /\ tasks = << >> /\ outcomes = << >> /\ failures = << >>
        /\ timings = {} /\ result = "none"
    BY DEF Init
  <2>4. /\ ready \in Seq(Node) /\ tasks \in Seq(Job) /\ outcomes \in Seq(Outcome)
        /\ failures \in Seq(Node)
    BY <2>3, EmptySeq
  <2>5. QED
    BY <2>1, <2>2, <2>3, <2>4 DEF TypeOK
<1>5. /\ Len(tasks) = 0 /\ Len(outcomes) = 0 /\ Len(ready) = 0
      /\ in_flight = 0 /\ pc = "top" /\ result = "none"
  BY DEF Init
<1>6. InFlightIsExact
  <2>1. Running = {} /\ {w \in Worker : Busy(w)} = {}
    BY <1>2, <1>3 DEF Running
  <2>2. QED
    BY <2>1, <1>5, FS_EmptySet, Constants DEF InFlightIsExact
<1>7. SlotsAreExclusive
  <2>1. \A i, j \in 1 .. Len(free_workers) : i # j => free_workers[i] # free_workers[j]
    BY <1>1, Constants
  <2>2. JobsApart /\ FreeApart
    BY <2>1, <1>3, <1>5 DEF JobsApart, FreeApart
  <2>3. QED
    BY <2>2, <1>1, <1>5, Constants DEF SlotsAreExclusive
<1>8. CascadeIsExact
  BY <1>2, <1>4, Constants DEF CascadeIsExact, is_unsuccessful, TypeOK, Structure
<1>9. QED
  BY <1>2, <1>3, <1>4, <1>5, <1>6, <1>7, <1>8
     DEF IInv, DependenciesFirst, ReadyListIsFresh, StatesUsed, NeverStalls,
         ListMadeWhenIdle, JobsAreRunning

(* Every step of every thread keeps the invariant. *)
LEMMA NextInv == IInv /\ [Next]_vars => IInv'
<1> SUFFICES ASSUME IInv, [Next]_vars PROVE IInv'
  OBVIOUS
<1>1. CASE Dispatcher
  BY <1>1, RefreshStep, DispatchStep, LeaveStep, ReceiveStep, QuietStep DEF Dispatcher
<1>2. ASSUME NEW w \in Worker, WorkerStep(w) PROVE IInv'
  BY <1>2, RecvStep, ExecuteStep, QuietStep DEF WorkerStep
<1>3. CASE UNCHANGED vars
  BY <1>3, QuietStep
<1>4. QED
  BY <1>1, <1>2, <1>3 DEF Next, Returned

-----------------------------------------------------------------------------
(* The inductive invariant of run holds for every graph and pool. *)
THEOREM Invariant == Spec => []IInv
BY InitInv, NextInv, PTL DEF Spec

(* Every variable of run keeps its type; in_flight, which is unsigned, is  *)
(* never decremented at zero.                                              *)
THEOREM TypeCorrect == Spec => []TypeOK
<1>1. IInv => TypeOK
  BY DEF IInv
<1>2. QED
  BY <1>1, Invariant, PTL

(* No task reaches an executor before all its dependencies finished well,  *)
(* for all that the dispatcher works from a list made completions ago.     *)
THEOREM TasksRunInOrder == Spec => []DependenciesFirst
<1>1. IInv => DependenciesFirst
  BY DEF IInv
<1>2. QED
  BY <1>1, Invariant, PTL

(* What is left of that list is ready, once each, whatever was processed   *)
(* since it was made.                                                      *)
THEOREM ListStaysFresh == Spec => []ReadyListIsFresh
<1>1. IInv => ReadyListIsFresh
  BY DEF IInv
<1>2. QED
  BY <1>1, Invariant, PTL

(* in_flight is the number of running tasks, and of jobs in the pipeline.  *)
THEOREM PipelineIsExact == Spec => []InFlightIsExact
<1>1. IInv => InFlightIsExact
  BY DEF IInv
<1>2. QED
  BY <1>1, Invariant, PTL

(* No two of these jobs share a task or a display slot, and the slots in   *)
(* use and the free ones are the whole pool.                               *)
THEOREM SlotsNeverShared == Spec => []SlotsAreExclusive
<1>1. IInv => SlotsAreExclusive
  BY DEF IInv
<1>2. QED
  BY <1>1, Invariant, PTL

(* Exactly the tasks behind a failure are cancelled. *)
THEOREM CascadeCorrect == Spec => []CascadeIsExact
<1>1. IInv => CascadeIsExact
  BY DEF IInv
<1>2. QED
  BY <1>1, Invariant, PTL

(* run never returns SchedulerError::Stalled. *)
THEOREM NoStall == Spec => []NeverStalls
<1>1. IInv => NeverStalls
  BY DEF IInv
<1>2. QED
  BY <1>1, Invariant, PTL

-----------------------------------------------------------------------------
(* The failed tasks, the tasks that ran, as sets of nodes.                 *)
NodesIn(s) == {n \in Node : state[n] = s}

LEMMA NodesInFinite ==
  ASSUME NEW s
  PROVE  IsFiniteSet(NodesIn(s)) /\ Count(s) = Cardinality(NodesIn(s)) /\ Count(s) \in Nat
<1>1. IsFiniteSet(NodesIn(s)) /\ Cardinality(NodesIn(s)) \in Nat
  BY NodesFinite DEF NodesIn
<1>2. QED
  BY <1>1 DEF NodesIn, Count

(* Two counts add up to that of the union when nothing is counted twice.   *)
LEMMA DisjointCount ==
  ASSUME NEW S, NEW T, IsFiniteSet(S), IsFiniteSet(T), S \cap T = {}
  PROVE  /\ IsFiniteSet(S \cup T)
         /\ Cardinality(S \cup T) = Cardinality(S) + Cardinality(T)
<1>1. IsFiniteSet(S \cap T) /\ Cardinality(S \cap T) = 0
  BY FS_EmptySet
<1>2. IsFiniteSet(S \cup T)
      /\ Cardinality(S \cup T) = Cardinality(S) + Cardinality(T) - Cardinality(S \cap T)
  BY FS_Union
<1>3. Cardinality(S) \in Nat /\ Cardinality(T) \in Nat
  BY FS_CardinalityType
<1>4. QED
  BY <1>1, <1>2, <1>3

LEMMA InitLog == Init => LogIsExact
<1> SUFFICES ASSUME Init PROVE LogIsExact
  OBVIOUS
<1>1. \A n \in Node : state[n] = "Pending"
  BY DEF Init, reset_states
<1>2. NodesIn("Failed") = {}
  BY <1>1 DEF NodesIn
<1>3. Count("Failed") = 0
  BY <1>2, NodesInFinite, FS_EmptySet
<1>4. failures = << >> /\ timings = {}
  BY DEF Init
<1>5. QED
  BY <1>1, <1>3, <1>4 DEF LogIsExact, Timed

(* Taking an outcome: the task was running, so it was neither recorded as  *)
(* failed nor timed, and a cascade fails and times nothing.                *)
LEMMA ReceiveLog ==
  ASSUME IInv, [Next]_vars, LogIsExact, Receive
  PROVE  LogIsExact'
<1> PICK o : o = outcomes[1]
  OBVIOUS
<1>1. TypeOK
  BY DEF IInv
<1>2. /\ Head(outcomes) = o /\ 1 \in 1 .. Len(outcomes)
      /\ timings' = timings \cup {o}
      /\ failures' = IF o.status = "Failed" THEN Append(failures, o.id) ELSE failures
      /\ state' = IF o.status = "Failed" THEN mark_failed(deps, state, o.id)
                  ELSE set_state(state, o.id, StateOf(o.status))
  BY <1>1 DEF Receive, process_completion, TypeOK
<1>3. o.id \in Node /\ state[o.id] = "Running"
  BY <1>1, <1>2, JobIds DEF IInv, JobsAreRunning
<1>4. /\ state'[o.id] = IF o.status = "Failed" THEN "Failed" ELSE StateOf(o.status)
      /\ \A n \in Node \ {o.id} :
           state'[n] = state[n] \/ (state[n] = "Pending" /\ state'[n] = "Cancelled")
  <2>1. CASE o.status = "Failed"
    BY <2>1, <1>2, <1>3, Facts, MarkFailed DEF mark_failed
  <2>2. CASE o.status # "Failed"
    BY <2>2, <1>1, <1>2, <1>3 DEF set_state, TypeOK
  <2>3. QED
    BY <2>1, <2>2
<1>5. /\ ~Timed(o.id) /\ Timed(o.id)'
      /\ \A n \in Node \ {o.id} : Timed(n)' <=> Timed(n)
      /\ \A n \in Node \ {o.id} : state'[n] = "Failed" <=> state[n] = "Failed"
  BY <1>3, <1>4 DEF Timed, StateOf
<1>6. \A p \in timings : p.id \in Node /\ p.id # o.id
  BY <1>1, <1>5 DEF LogIsExact, TypeOK, Outcome
<1>7. \A p \in timings' : Timed(p.id)'
  BY <1>2, <1>3, <1>5, <1>6 DEF LogIsExact
<1>8. \A n \in Node : Timed(n)' => \E p \in timings' : p.id = n
  <2> SUFFICES ASSUME NEW n \in Node, Timed(n)' PROVE \E p \in timings' : p.id = n
    OBVIOUS
  <2>1. CASE n = o.id
    BY <2>1, <1>2
  <2>2. CASE n # o.id
    <3>1. Timed(n)
      BY <2>2, <1>5
    <3>2. PICK p \in timings : p.id = n
      BY <3>1 DEF LogIsExact
    <3>3. QED
      BY <3>2, <1>2
  <2>3. QED
    BY <2>1, <2>2
<1>9. \A p, q \in timings' : p.id = q.id => p = q
  BY <1>2, <1>6 DEF LogIsExact
<1>10. failures \in Seq(Node) /\ Len(failures) \in Nat
  BY <1>1 DEF TypeOK
<1>11. \A i \in 1 .. Len(failures) : failures[i] \in Node /\ failures[i] # o.id
  BY <1>3, <1>10 DEF LogIsExact
<1>12. CASE o.status = "Failed"
  <2>1. failures' = Append(failures, o.id) /\ state'[o.id] = "Failed"
    BY <1>2, <1>4, <1>12
  <2>2. /\ Len(failures') = Len(failures) + 1
        /\ \A i \in 1 .. Len(failures') :
             \/ i \in 1 .. Len(failures) /\ failures'[i] = failures[i]
             \/ i = Len(failures) + 1 /\ failures'[i] = o.id
    BY <1>3, <1>10, <2>1
  <2>3. NodesIn("Failed")' = NodesIn("Failed") \cup {o.id} /\ o.id \notin NodesIn("Failed")
    BY <1>3, <1>5, <2>1 DEF NodesIn
  <2>4. Count("Failed")' = Cardinality(NodesIn("Failed")')
    BY DEF Count, NodesIn
  <2>5. Count("Failed")' = Count("Failed") + 1
    BY <2>3, <2>4, NodesInFinite, FS_AddElement
  <2>6. Len(failures') = Count("Failed")'
    BY <2>2, <2>5 DEF LogIsExact
  <2>7. \A i \in 1 .. Len(failures') : state'[failures'[i]] = "Failed"
    BY <2>1, <2>2, <1>5, <1>11 DEF LogIsExact
  <2>8. \A i, j \in 1 .. Len(failures') : failures'[i] = failures'[j] => i = j
    BY <2>2, <1>11 DEF LogIsExact
  <2>9. QED
    BY <2>6, <2>7, <2>8, <1>7, <1>8, <1>9 DEF LogIsExact
<1>13. CASE o.status # "Failed"
  <2>1. failures' = failures /\ state'[o.id] # "Failed"
    BY <1>2, <1>4, <1>13 DEF StateOf
  <2>2. NodesIn("Failed")' = NodesIn("Failed")
    BY <1>3, <1>5, <2>1 DEF NodesIn
  <2>3. Count("Failed")' = Count("Failed")
    BY <2>2 DEF Count, NodesIn
  <2>4. QED
    BY <2>1, <2>3, <1>5, <1>7, <1>8, <1>9, <1>11 DEF LogIsExact
<1>14. QED
  BY <1>12, <1>13

(* Starting a task fails and times nothing.                                *)
LEMMA DispatchLog ==
  ASSUME IInv, LogIsExact, Dispatch
  PROVE  LogIsExact'
<1>1. TypeOK /\ failures' = failures /\ timings' = timings
  BY DEF IInv, Dispatch, logVars
<1>2. PICK h \in Node : state[h] = "Pending" /\ state' = set_state(state, h, "Running")
  <2>1. Head(ready) = ready[1] /\ 1 \in 1 .. Len(ready)
    BY <1>1 DEF Dispatch, CanDispatch, TypeOK
  <2>2. QED
    BY <2>1 DEF Dispatch, IInv, ReadyListIsFresh, ready_nodes
<1>3. /\ \A n \in Node : state'[n] = "Failed" <=> state[n] = "Failed"
      /\ \A n \in Node : Timed(n)' <=> Timed(n)
  BY <1>1, <1>2 DEF set_state, Timed, TypeOK
<1>4. NodesIn("Failed")' = NodesIn("Failed")
  BY <1>3 DEF NodesIn
<1>5. Count("Failed")' = Count("Failed")
  BY <1>4 DEF Count, NodesIn
<1>6. /\ \A i \in 1 .. Len(failures) : failures[i] \in Node
      /\ \A o \in timings : o.id \in Node
  BY <1>1 DEF TypeOK, Outcome
<1>7. QED
  BY <1>1, <1>3, <1>5, <1>6 DEF LogIsExact

LEMMA NextLog == IInv /\ LogIsExact /\ [Next]_vars => LogIsExact'
<1> SUFFICES ASSUME IInv, LogIsExact, [Next]_vars PROVE LogIsExact'
  OBVIOUS
<1>1. CASE Dispatch
  BY <1>1, DispatchLog
<1>2. CASE Receive
  BY <1>2, ReceiveLog
<1>3. CASE ~Dispatch /\ ~Receive
  <2>1. UNCHANGED <<state, failures, timings>>
    BY <1>3 DEF Next, Dispatcher, Refresh, Leave, Block, Drained, Return, Returned, WorkerStep,
                WorkerRecv, WorkerExecute, WorkerExit, vars, graphVars, logVars
  <2>2. Count("Failed")' = Count("Failed")
    BY <2>1 DEF Count
  <2>3. QED
    BY <2>1, <2>2 DEF LogIsExact, Timed
<1>4. QED
  BY <1>1, <1>2, <1>3

(* Of a finished build: the four states are all the tasks, the timings are *)
(* one to one with the tasks that were not cancelled, and with no failure  *)
(* nothing was cancelled either, or the first cancelled task of the order  *)
(* would have a dependency that failed.                                    *)
LEMMA SummaryFollows == IInv /\ LogIsExact => SummaryAccountsForAll
<1> SUFFICES ASSUME IInv, LogIsExact, result = "Ok"
             PROVE  /\ from_graph.executed + from_graph.cached + from_graph.failed
                         + from_graph.cancelled = from_graph.total
                    /\ Len(failures) = from_graph.failed
                    /\ \A i \in 1 .. Len(failures) : state[failures[i]] = "Failed"
                    /\ \A i, j \in 1 .. Len(failures) : failures[i] = failures[j] => i = j
                    /\ {o.id : o \in timings} = {n \in Node : state[n] # "Cancelled"}
                    /\ Cardinality(timings) = from_graph.total - from_graph.cancelled
                    /\ succeeded => \A n \in Node : is_successful(state[n])
  BY DEF SummaryAccountsForAll
<1> DEFINE A == NodesIn("Succeeded")
           B == NodesIn("Cached")
           C == NodesIn("Failed")
           D == NodesIn("Cancelled")
           E == {n \in Node : state[n] # "Cancelled"}
<1>1. \A n \in Node : state[n] \in {"Succeeded", "Cached", "Failed", "Cancelled"}
  BY DEF IInv, AllTerminal, is_terminal, StatesUsed
<1>2. /\ from_graph.executed = Count("Succeeded") /\ from_graph.cached = Count("Cached")
      /\ from_graph.failed = Count("Failed") /\ from_graph.cancelled = Count("Cancelled")
      /\ from_graph.total = N
  BY DEF from_graph
<1>3. /\ IsFiniteSet(A) /\ IsFiniteSet(B) /\ IsFiniteSet(C) /\ IsFiniteSet(D)
      /\ Cardinality(A) = Count("Succeeded") /\ Cardinality(B) = Count("Cached")
      /\ Cardinality(C) = Count("Failed") /\ Cardinality(D) = Count("Cancelled")
      /\ Count("Succeeded") \in Nat /\ Count("Cached") \in Nat /\ Count("Failed") \in Nat
      /\ Count("Cancelled") \in Nat
  BY NodesInFinite
<1>4. /\ A \cap B = {} /\ (A \cup B) \cap C = {} /\ (A \cup B \cup C) \cap D = {}
      /\ E = A \cup B \cup C /\ Node = A \cup B \cup C \cup D
  BY <1>1 DEF NodesIn
<1> HIDE DEF A, B, C, D, E
<1>5. IsFiniteSet(A \cup B) /\ Cardinality(A \cup B) = Cardinality(A) + Cardinality(B)
  BY <1>3, <1>4, DisjointCount
<1>6. /\ IsFiniteSet(E) /\ Cardinality(E) = Cardinality(A \cup B) + Cardinality(C)
  BY <1>3, <1>4, <1>5, DisjointCount
<1>7. Cardinality(Node) = Cardinality(E) + Cardinality(D)
  BY <1>3, <1>4, <1>6, DisjointCount
<1>8. Cardinality(Node) = N
  <2>1. N \in Nat /\ Cardinality(0 .. N - 1) = IF 0 <= N - 1 THEN N - 1 - 0 + 1 ELSE 0
    BY NAssumption, FS_Interval
  <2>2. QED
    BY <2>1 DEF Node
<1>9. /\ from_graph.executed + from_graph.cached + from_graph.failed
           + from_graph.cancelled = from_graph.total
      /\ Cardinality(E) = from_graph.total - from_graph.cancelled
  BY <1>2, <1>3, <1>5, <1>6, <1>7, <1>8
<1>10. \A o \in timings : o.id \in E
  <2>1. \A o \in timings : o.id \in Node /\ Timed(o.id)
    BY DEF IInv, TypeOK, Outcome, LogIsExact
  <2>2. QED
    BY <2>1 DEF Timed, E
<1>11. \A n \in E : \E o \in timings : o.id = n
  BY <1>1 DEF LogIsExact, Timed, E
<1>12. {o.id : o \in timings} = E
  BY <1>10, <1>11
<1>13. Cardinality(timings) = Cardinality(E)
  <2> DEFINE f == [n \in E |-> CHOOSE o \in timings : o.id = n]
  <2>1. \A n \in E : f[n] \in timings /\ f[n].id = n
    BY <1>11
  <2>2. \A o \in timings : f[o.id] = o
    BY <2>1, <1>10 DEF LogIsExact
  <2> HIDE DEF f
  <2>3. f \in [E -> timings]
    BY <2>1 DEF f
  <2>4. f \in Bijection(E, timings)
    BY <2>1, <2>2, <2>3, <1>10 DEF Bijection, Injection, Surjection, IsInjective
  <2>5. ExistsBijection(E, timings)
    BY <2>4 DEF ExistsBijection
  <2>6. QED
    BY <2>5, <1>6, FS_Bijection
<1>14. succeeded => \A n \in Node : is_successful(state[n])
  <2> SUFFICES ASSUME succeeded PROVE \A n \in Node : is_successful(state[n])
    OBVIOUS
  <2>1. Cardinality(C) = 0
    BY <1>2, <1>3 DEF succeeded
  <2>2. C = {}
    BY <2>1, <1>3, FS_EmptySet
  <2>3. D = {}
    <3>1. SUFFICES ASSUME D # {} PROVE FALSE
      OBVIOUS
    <3>2. D \in SUBSET Node
      BY <1>4
    <3>3. PICK n \in D : deps[n] \cap D = {}
      BY <3>1, <3>2, Facts DEF Acyclic
    <3>4. n \in Node /\ state[n] = "Cancelled" /\ deps[n] \subseteq Node
      BY Facts DEF D, NodesIn, Structure
    <3>5. PICK d \in deps[n] : is_unsuccessful(state[d])
      BY <3>4 DEF IInv, CascadeIsExact
    <3>6. d \in C \/ d \in D
      BY <3>4, <3>5 DEF is_unsuccessful, C, D, NodesIn
    <3>7. QED
      BY <3>3, <3>5, <3>6, <2>2
  <2>4. QED
    BY <2>2, <2>3, <1>1 DEF C, D, NodesIn, is_successful
<1>15. /\ Len(failures) = from_graph.failed
       /\ \A i \in 1 .. Len(failures) : state[failures[i]] = "Failed"
       /\ \A i, j \in 1 .. Len(failures) : failures[i] = failures[j] => i = j
  BY <1>2 DEF LogIsExact
<1>16. QED
  BY <1>9, <1>12, <1>13, <1>14, <1>15 DEF E

(* The failure records and the timings keep up with the states.            *)
THEOREM LogCorrect == Spec => []LogIsExact
<1>1. Init => LogIsExact
  BY InitLog
<1>2. IInv /\ LogIsExact /\ [Next]_vars => LogIsExact'
  BY NextLog
<1>3. QED
  BY <1>1, <1>2, Invariant, PTL DEF Spec

(* The summary that run returns accounts for every task once, lists each   *)
(* failure once, times each task that ran once, and calls the build a      *)
(* success only if every task was successful.                              *)
THEOREM SummaryIsComplete == Spec => []SummaryAccountsForAll
BY LogCorrect, Invariant, SummaryFollows, PTL

-----------------------------------------------------------------------------
(* What a step can do to the states of the tasks and to the answer.        *)
Silent == state' = state /\ (result' = result \/ (result' = "Ok" /\ AllTerminal))

Starts ==
  /\ result' = result
  /\ \E n \in ready_nodes(deps, state) :
       in_flight < W /\ state' = set_state(state, n, "Running")

Succeeds ==
  /\ result' = result
  /\ \E n \in Node, s \in {"Succeeded", "Cached"} :
       state[n] = "Running" /\ state' = set_state(state, n, s)

Fails ==
  /\ result' = result
  /\ \E n \in Node : state[n] = "Running" /\ state' = mark_failed(deps, state, n)

(* Every step is one of these, and none changes the graph. *)
LEMMA VisibleStep ==
  ASSUME IInv, [Next]_vars
  PROVE  deps' = deps /\ (Silent \/ Starts \/ Succeeds \/ Fails)
<1>1. CASE Dispatch
  <2>1. Head(ready) = ready[1] /\ 1 \in 1 .. Len(ready)
    BY <1>1 DEF Dispatch, CanDispatch, IInv, TypeOK
  <2>2. Head(ready) \in ready_nodes(deps, state)
    BY <2>1 DEF IInv, ReadyListIsFresh
  <2>3. in_flight < W
    BY <1>1, EffectiveWorkers, Constants DEF Dispatch, CanDispatch, IInv, TypeOK
  <2>4. QED
    BY <2>2, <2>3, <1>1 DEF Dispatch, Starts
<1>2. CASE Receive
  <2>1. Head(outcomes) = outcomes[1] /\ 1 \in 1 .. Len(outcomes)
    BY <1>2 DEF Receive, IInv, TypeOK
  <2>2. Head(outcomes).id \in Node /\ state[Head(outcomes).id] = "Running"
    BY <2>1, JobIds DEF IInv, JobsAreRunning
  <2>3. StateOf(Head(outcomes).status) \in {"Succeeded", "Cached"}
    BY DEF StateOf
  <2>4. CASE Head(outcomes).status = "Failed"
    BY <2>2, <2>4, <1>2 DEF Receive, process_completion, Fails
  <2>5. CASE Head(outcomes).status # "Failed"
    BY <2>2, <2>3, <2>5, <1>2 DEF Receive, process_completion, Succeeds
  <2>6. deps' = deps
    BY <1>2 DEF Receive
  <2>7. QED
    BY <2>4, <2>5, <2>6
<1>3. CASE Leave
  <2>2. UNCHANGED <<deps, state>>
    BY <1>3 DEF Leave, graphVars
  <2>3. AllTerminal \/ result' = "Stalled"
    BY <1>3 DEF Leave
  <2>4. result' # "Stalled"
    BY <1>3, LeaveStep DEF IInv, NeverStalls
  <2>5. AllTerminal /\ result' = "Ok"
    BY <2>3, <2>4, <1>3 DEF Leave
  <2>6. QED
    BY <2>2, <2>5 DEF Silent
<1>4. CASE Refresh \/ Block \/ Drained \/ Return \/ Returned \/ UNCHANGED vars
  <2>1. deps' = deps /\ state' = state /\ result' = result
    BY <1>4 DEF Refresh, Block, Drained, Return, Returned, vars, graphVars
  <2>2. QED
    BY <2>1 DEF Silent
<1>5. ASSUME NEW w \in Worker, WorkerStep(w)
      PROVE  deps' = deps /\ state' = state /\ result' = result
  BY <1>5 DEF WorkerStep, WorkerRecv, WorkerExecute, WorkerExit, graphVars
<1>6. QED
  BY <1>1, <1>2, <1>3, <1>4, <1>5 DEF Next, Dispatcher, Silent

(* Terminal states are final: no late outcome and no cascade rewrites one. *)
THEOREM Finality == Spec => TerminalIsFinal
<1>1. ASSUME IInv, [Next]_vars
      PROVE  \A n \in Node : is_terminal(state[n]) => state'[n] = state[n]
  <2> SUFFICES ASSUME NEW n \in Node, is_terminal(state[n]), state' # state
               PROVE  state'[n] = state[n]
    OBVIOUS
  <2>1. state[n] \notin {"Pending", "Running"} /\ state \in [Node -> TaskState]
    BY <1>1 DEF is_terminal, IInv, TypeOK
  <2>2. CASE Starts
    BY <2>1, <2>2 DEF Starts, ready_nodes, set_state
  <2>3. CASE Succeeds
    BY <2>1, <2>3 DEF Succeeds, set_state
  <2>4. CASE Fails
    <3>1. PICK m \in Node : state[m] = "Running" /\ state' = mark_failed(deps, state, m)
      BY <2>4 DEF Fails
    <3>2. QED
      BY <3>1, <2>1, <1>1, Facts, MarkFailed
  <2>5. QED
    BY <1>1, <2>2, <2>3, <2>4, VisibleStep DEF Silent
<1>2. IInv /\ [Next]_vars
      => [\A n \in Node : is_terminal(state[n]) => state'[n] = state[n]]_vars
  BY <1>1
<1>3. QED
  BY <1>2, Invariant, PTL DEF Spec, TerminalIsFinal

(* While memory is low no task is started past the floor. *)
THEOREM Throttled == Spec => ThrottleHolds
<1>1. ASSUME IInv, [Next]_vars, in_flight' > in_flight, RamThreshold, ram_limited
      PROVE  in_flight' <= ram_floor
  <2>1. in_flight \in Nat /\ in_flight' # in_flight
    BY <1>1 DEF IInv, TypeOK
  <2>2. CASE Dispatch
    <3>1. in_flight < effective_workers /\ in_flight' = in_flight + 1
      BY <2>2 DEF Dispatch, CanDispatch
    <3>2. effective_workers <= ram_floor
      BY <1>1, Constants DEF effective_workers
    <3>3. QED
      BY <3>1, <3>2, <2>1, EffectiveWorkers, Constants
  <2>3. CASE Receive
    BY <2>3, <2>1, <1>1 DEF Receive, process_completion
  <2>4. CASE ~Dispatch /\ ~Receive
    BY <2>4, <2>1, <1>1
       DEF Next, Dispatcher, Refresh, Leave, Block, Drained, Return, Returned, WorkerStep,
           WorkerRecv, WorkerExecute, WorkerExit, vars, loopVars
  <2>5. QED
    BY <2>2, <2>3, <2>4
<1>2. IInv /\ [Next]_vars
      => [in_flight' > in_flight /\ RamThreshold /\ ram_limited => in_flight' <= ram_floor]_vars
  BY <1>1
<1>3. QED
  BY <1>2, Invariant, PTL DEF Spec, ThrottleHolds

-----------------------------------------------------------------------------
(* The graph operators of the abstract build are those of run. *)
LEMMA SameGraph ==
  /\ Abstract!reset_states = reset_states
  /\ \A n \in Node : Abstract!is_terminal(state[n]) <=> is_terminal(state[n])
  /\ Abstract!ready_nodes(deps, state) = ready_nodes(deps, state)
  /\ \A n \in Node, s \in TaskState : Abstract!set_state(state, n, s) = set_state(state, n, s)
  /\ \A n \in Node : Abstract!mark_failed(deps, state, n) = mark_failed(deps, state, n)
  /\ Abstract!Node = Node /\ Abstract!Running = Running
BY DEF Abstract!reset_states, reset_states, Abstract!is_terminal, is_terminal,
       Abstract!ready_nodes, ready_nodes, Abstract!is_ready, is_ready,
       Abstract!is_successful, is_successful, Abstract!set_state, set_state,
       Abstract!mark_failed, mark_failed, Abstract!Cascade, Cascade,
       Abstract!CancelClosed, CancelClosed, Abstract!Node, Node, Abstract!Running, Running

(* So is its notion of cardinality. *)
LEMMA SameCardinality == Abstract!Cardinality(Running) = Cardinality(Running)
BY DEF Abstract!Cardinality, Cardinality, Abstract!IsFiniteSet, IsFiniteSet

(* run implements the abstract build: each of its steps starts a ready     *)
(* task within the limit, ends a running one, or changes nothing the       *)
(* caller sees, and it returns when no task is left.                       *)
THEOREM Implementation == Spec => ImplementsBuild
<1>1. Init => Abstract!Init
  BY SameGraph DEF Init, Abstract!Init
<1>2. IInv /\ [Next]_vars => [Abstract!Next]_(Abstract!buildVars)
  <2> SUFFICES ASSUME IInv, [Next]_vars
               PROVE  Abstract!Next \/ UNCHANGED Abstract!buildVars
    OBVIOUS
  <2>1. CASE state' = state /\ result' = result
    BY <2>1, VisibleStep DEF Abstract!buildVars
  <2>2. CASE state' = state /\ result' = "Ok" /\ AllTerminal
    <3>1. CASE result = "Ok"
      BY <3>1, <2>2, VisibleStep DEF Abstract!buildVars
    <3>2. CASE result # "Ok"
      <4>1. Abstract!Return
        BY <3>2, <2>2, VisibleStep, SameGraph DEF Abstract!Return, AllTerminal
      <4>2. QED
        BY <4>1 DEF Abstract!Next
    <3>3. QED
      BY <3>1, <3>2
  <2>3. ASSUME result' = result, NEW n \in ready_nodes(deps, state), in_flight < W,
               state' = set_state(state, n, "Running")
        PROVE  Abstract!Next
    <3>1. n \in Node /\ "Running" \in TaskState
      BY DEF ready_nodes, TaskState
    <3>2. Cardinality(Running) < W
      BY <2>3 DEF IInv, InFlightIsExact
    <3>3. /\ n \in Abstract!ready_nodes(deps, state)
          /\ state' = Abstract!set_state(state, n, "Running")
      BY <2>3, <3>1, SameGraph
    <3>4. Abstract!Cardinality(Abstract!Running) < W
      BY <3>2, SameGraph, SameCardinality
    <3>5. Abstract!Start(n)
      BY <2>3, <3>3, <3>4, VisibleStep DEF Abstract!Start
    <3>6. QED
      BY <3>1, <3>5, SameGraph DEF Abstract!Next
  <2>4. ASSUME result' = result, NEW n \in Node, NEW s \in {"Succeeded", "Cached"},
               state[n] = "Running", state' = set_state(state, n, s)
        PROVE  Abstract!Next
    <3>1. s \in TaskState
      BY DEF TaskState
    <3>2. Abstract!Succeed(n, s)
      BY <2>4, <3>1, VisibleStep, SameGraph DEF Abstract!Succeed
    <3>3. QED
      BY <3>2, SameGraph DEF Abstract!Next
  <2>5. ASSUME result' = result, NEW n \in Node, state[n] = "Running",
               state' = mark_failed(deps, state, n)
        PROVE  Abstract!Next
    <3>1. Abstract!Fail(n)
      BY <2>5, VisibleStep, SameGraph DEF Abstract!Fail
    <3>2. QED
      BY <3>1, SameGraph DEF Abstract!Next
  <2>6. QED
    BY <2>1, <2>2, <2>3, <2>4, <2>5, VisibleStep DEF Silent, Starts, Succeeds, Fails
<1>3. QED
  BY <1>1, <1>2, Invariant, PTL DEF Spec, ImplementsBuild, Abstract!Spec

=============================================================================
