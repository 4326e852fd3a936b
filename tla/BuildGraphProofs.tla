-------------------------- MODULE BuildGraphProofs --------------------------
(***************************************************************************)
(* What mark_failed does to the states of a graph, for every graph and     *)
(* every number of nodes.  Both schedulers' proofs cite these lemmas.      *)
(***************************************************************************)
EXTENDS BuildGraph, FiniteSetTheorems, TLAPS

(* A scheduler's states: every task that ran had its dependencies first,   *)
(* a task is cancelled exactly when a dependency is unsuccessful, and the  *)
(* states Ready and Skipped are not used.                                  *)
Settled(g, st) ==
  /\ st \in [Node -> TaskState]
  /\ \A n \in Node : st[n] \notin {"Ready", "Skipped"}
  /\ \A n \in Node : st[n] \notin {"Pending", "Ready", "Cancelled"} => is_ready(g, st, n)
  /\ \A n \in Node : st[n] = "Cancelled" <=> \E d \in g[n] : is_unsuccessful(st[d])

(* The nodes of a graph, and any part of them, are finite sets. *)
LEMMA NodesFinite ==
  /\ IsFiniteSet(Node)
  /\ \A S \in SUBSET Node : IsFiniteSet(S) /\ Cardinality(S) \in Nat
<1>1. IsFiniteSet(Node)
  BY NAssumption, FS_Interval DEF Node
<1>2. QED
  BY <1>1, FS_Subset, FS_CardinalityType

(* The search of mark_failed stops only when it cannot go on, and reaches  *)
(* nothing it need not reach.                                              *)
LEMMA CascadeIsLeast ==
  ASSUME NEW g \in Structure, NEW st, NEW id \in Node
  PROVE  /\ Cascade(g, st, id) \in SUBSET Node
         /\ CancelClosed(g, st, id, Cascade(g, st, id))
         /\ \A S \in SUBSET Node : CancelClosed(g, st, id, S) => Cascade(g, st, id) \subseteq S
<1>1. Cascade(g, st, id) \in SUBSET Node
  BY DEF Cascade
<1>2. \A S \in SUBSET Node : CancelClosed(g, st, id, S) => Cascade(g, st, id) \subseteq S
  BY DEF Cascade
<1>3. CancelClosed(g, st, id, Cascade(g, st, id))
  <2> SUFFICES ASSUME NEW m \in Node, m # id, ~is_terminal(st[m]),
                      NEW d \in g[m], d = id \/ d \in Cascade(g, st, id)
               PROVE  m \in Cascade(g, st, id)
    BY DEF CancelClosed
  <2> SUFFICES ASSUME NEW S \in SUBSET Node, CancelClosed(g, st, id, S)
               PROVE  m \in S
    BY DEF Cascade
  <2>1. d = id \/ d \in S
    BY <1>2
  <2>2. QED
    BY <2>1 DEF CancelClosed
<1>4. QED
  BY <1>1, <1>2, <1>3

(* A node the search reaches was neither the failed node nor terminal, and *)
(* waits for one it reached before.                                        *)
LEMMA CascadeMembers ==
  ASSUME NEW g \in Structure, NEW st, NEW id \in Node,
         NEW m \in Cascade(g, st, id)
  PROVE  /\ m \in Node /\ m # id /\ ~is_terminal(st[m])
         /\ \E d \in g[m] : d = id \/ d \in Cascade(g, st, id)
<1> DEFINE C == Cascade(g, st, id)
           S == {n \in C : n # id /\ ~is_terminal(st[n]) /\ \E d \in g[n] : d = id \/ d \in C}
<1>1. C \in SUBSET Node /\ CancelClosed(g, st, id, C)
  BY CascadeIsLeast
<1>2. S \in SUBSET Node
  BY <1>1
<1>3. CancelClosed(g, st, id, S)
  BY <1>1 DEF CancelClosed
<1> HIDE DEF S
<1>4. m \in S
  BY <1>2, <1>3, CascadeIsLeast
<1>5. QED
  BY <1>4, <1>1 DEF S

(* What mark_failed does to the states of a build when a running task      *)
(* fails: it leaves terminal and running tasks alone, cancels only tasks   *)
(* that were pending behind an unfinished dependency, and restores the     *)
(* rule that exactly the tasks behind a failure are cancelled.             *)
LEMMA MarkFailed ==
  ASSUME NEW g \in Structure, NEW st, NEW id \in Node,
         Settled(g, st), st[id] = "Running"
  PROVE  LET new == mark_failed(g, st, id) IN
         /\ Settled(g, new)
         /\ new[id] = "Failed"
         /\ \A n \in Node \ {id} :
              \/ new[n] = st[n]
              \/ /\ st[n] = "Pending" /\ new[n] = "Cancelled"
                 /\ ~is_ready(g, st, n)
<1> DEFINE C == Cascade(g, st, id)
           new == mark_failed(g, st, id)
<1>1. \A n \in Node : new[n] = IF n = id THEN "Failed" ELSE IF n \in C THEN "Cancelled" ELSE st[n]
  BY DEF mark_failed
<1>2. new \in [Node -> TaskState]
  BY DEF mark_failed, Settled, TaskState
<1>3. \A n \in C : n \in Node /\ n # id /\ ~is_terminal(st[n])
                   /\ \E d \in g[n] : d = id \/ d \in C
  BY CascadeMembers
<1>4. CancelClosed(g, st, id, C)
  BY CascadeIsLeast
<1> HIDE DEF C, new
<1>5. \A n \in C \cup {id} : ~is_successful(st[n])
  BY <1>3, st[id] = "Running" DEF is_terminal, is_successful
<1>6. \A n \in C : st[n] = "Pending" /\ ~is_ready(g, st, n)
  <2> SUFFICES ASSUME NEW n \in C PROVE st[n] = "Pending" /\ ~is_ready(g, st, n)
    OBVIOUS
  <2>1. ~is_ready(g, st, n)
    BY <1>3, <1>5 DEF is_ready
  <2>2. n \in Node /\ st[n] \in TaskState /\ ~is_terminal(st[n])
    BY <1>3 DEF Settled
  <2>3. QED
    BY <2>1, <2>2 DEF Settled, TaskState, is_terminal
<1>7. \A n \in Node : is_successful(st[n]) <=> is_successful(new[n])
  BY <1>1, <1>5 DEF is_successful
<1>8. \A n \in Node : is_ready(g, st, n) <=> is_ready(g, new, n)
  BY <1>7 DEF is_ready, Structure
<1>9. \A n \in Node : new[n] \notin {"Ready", "Skipped"}
  BY <1>1 DEF Settled
<1>10. \A n \in Node : new[n] \notin {"Pending", "Ready", "Cancelled"} => is_ready(g, new, n)
  <2> SUFFICES ASSUME NEW n \in Node, new[n] \notin {"Pending", "Ready", "Cancelled"}
               PROVE  is_ready(g, st, n)
    BY <1>8
  <2>1. n \notin C
    BY <1>1, <1>3
  <2>2. QED
    BY <1>1, <2>1, st[id] = "Running" DEF Settled
<1>11. ASSUME NEW n \in Node
       PROVE  new[n] = "Cancelled" <=> \E d \in g[n] : is_unsuccessful(new[d])
  <2>0. g[n] \subseteq Node
    BY DEF Structure
  <2>1. ASSUME new[n] = "Cancelled" PROVE \E d \in g[n] : is_unsuccessful(new[d])
    <3>1. CASE n \in C
      <4>1. PICK d \in g[n] : d = id \/ d \in C
        BY <3>1, <1>3
      <4>2. QED
        BY <4>1, <1>1, <2>0 DEF is_unsuccessful
    <3>2. CASE n \notin C
      <4>1. st[n] = "Cancelled"
        BY <3>2, <2>1, <1>1
      <4>2. PICK d \in g[n] : is_unsuccessful(st[d])
        BY <4>1 DEF Settled
      <4>3. d \notin C /\ d # id
        BY <4>2, <1>3, st[id] = "Running" DEF is_unsuccessful, is_terminal
      <4>4. QED
        BY <4>2, <4>3, <1>1, <2>0
    <3>3. QED
      BY <3>1, <3>2
  <2>2. ASSUME NEW d \in g[n], is_unsuccessful(new[d]) PROVE new[n] = "Cancelled"
    <3>1. CASE d = id \/ d \in C
      <4>1. ~is_ready(g, st, n)
        BY <3>1, <1>5 DEF is_ready
      <4>2. n # id
        BY <4>1, st[id] = "Running" DEF Settled
      <4>3. st[n] \in {"Pending", "Cancelled"}
        BY <4>1 DEF Settled
      <4>4. CASE st[n] = "Pending"
        <5>1. n \in C
          BY <4>4, <4>2, <3>1, <1>4 DEF CancelClosed, is_terminal
        <5>2. QED
          BY <5>1, <1>1, <4>2
      <4>5. CASE st[n] = "Cancelled"
        BY <4>5, <4>2, <1>1
      <4>6. QED
        BY <4>3, <4>4, <4>5
    <3>2. CASE d # id /\ d \notin C
      <4>1. st[n] = "Cancelled"
        BY <3>2, <2>2, <1>1, <2>0 DEF Settled
      <4>2. QED
        BY <4>1, <1>1, st[id] = "Running"
    <3>3. QED
      BY <3>1, <3>2
  <2>3. QED
    BY <2>1, <2>2
<1>12. Settled(g, new)
  BY <1>2, <1>9, <1>10, <1>11 DEF Settled
<1>13. \A n \in Node \ {id} : \/ new[n] = st[n]
                              \/ /\ st[n] = "Pending" /\ new[n] = "Cancelled"
                                 /\ ~is_ready(g, st, n)
  BY <1>1, <1>6
<1>14. new[id] = "Failed"
  BY <1>1
<1>15. QED
  BY <1>12, <1>13, <1>14 DEF new

(* Starting a ready task, or finishing a running one well, keeps the       *)
(* states settled and changes no other task.                               *)
LEMMA StartOrFinish ==
  ASSUME NEW g \in Structure, NEW st, NEW id \in Node, NEW s \in TaskState,
         Settled(g, st),
         \/ id \in ready_nodes(g, st) /\ s = "Running"
         \/ st[id] = "Running" /\ s \in {"Succeeded", "Cached"}
  PROVE  LET new == set_state(st, id, s) IN
         /\ Settled(g, new)
         /\ new[id] = s
         /\ \A n \in Node \ {id} : new[n] = st[n]
         /\ \A n \in Node : is_ready(g, st, n) => is_ready(g, new, n)
<1> DEFINE new == set_state(st, id, s)
<1>1. new \in [Node -> TaskState] /\ \A n \in Node : new[n] = IF n = id THEN s ELSE st[n]
  BY DEF set_state, Settled
<1> HIDE DEF new
<1>2. st[id] \in {"Pending", "Running"}
  BY DEF ready_nodes
<1>3. \A n \in Node : is_unsuccessful(st[n]) <=> is_unsuccessful(new[n])
  BY <1>1, <1>2 DEF is_unsuccessful
<1>4. \A n \in Node : is_successful(st[n]) => is_successful(new[n])
  BY <1>1, <1>2 DEF is_successful
<1>5. \A n \in Node : is_ready(g, st, n) => is_ready(g, new, n)
  BY <1>4 DEF is_ready, Structure
<1>6. \A n \in Node : new[n] \notin {"Ready", "Skipped"}
  BY <1>1 DEF Settled
<1>7. is_ready(g, st, id)
  BY DEF ready_nodes, Settled
<1>8. \A n \in Node : new[n] \notin {"Pending", "Ready", "Cancelled"} => is_ready(g, new, n)
  BY <1>1, <1>5, <1>7 DEF Settled
<1>9. \A n \in Node : new[n] = "Cancelled" <=> st[n] = "Cancelled"
  BY <1>1, <1>2
<1>10. \A n \in Node : new[n] = "Cancelled" <=> \E d \in g[n] : is_unsuccessful(new[d])
  BY <1>3, <1>9 DEF Settled, Structure
<1>11. QED
  BY <1>1, <1>5, <1>6, <1>8, <1>10 DEF Settled, new

(* A build that has a task left, none of them running, has one to start:   *)
(* the acyclic graph has a first unfinished task.                          *)
LEMMA SomethingIsReady ==
  ASSUME NEW g \in Structure, Acyclic(g), NEW st, Settled(g, st),
         \A n \in Node : st[n] # "Running",
         NEW left \in Node, ~is_terminal(st[left])
  PROVE  ready_nodes(g, st) # {}
<1> DEFINE S == {n \in Node : st[n] = "Pending"}
<1>1. \A n \in Node : ~is_terminal(st[n]) => st[n] = "Pending"
  BY DEF Settled, TaskState, is_terminal
<1>2. S \in SUBSET Node /\ S # {}
  BY <1>1
<1>3. PICK n \in S : g[n] \cap S = {}
  BY <1>2 DEF Acyclic
<1>4. ASSUME NEW d \in g[n] PROVE is_successful(st[d])
  <2>1. d \in Node /\ st[d] \in TaskState /\ st[d] # "Pending"
    BY <1>3 DEF Structure, Settled
  <2>2. ~is_unsuccessful(st[d])
    BY <1>3 DEF Settled
  <2>3. QED
    BY <2>1, <2>2 DEF Settled, TaskState, is_successful, is_unsuccessful
<1>5. QED
  BY <1>3, <1>4 DEF ready_nodes, is_ready

=============================================================================
