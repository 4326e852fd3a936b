------------------------- MODULE GraphConstruction --------------------------
(***************************************************************************)
(* fish-graph: the calls that build a BuildGraph (graph.rs, dynamic.rs).   *)
(* Both directions of an edge are kept, in the lists of its two ends, and  *)
(* an edge may be there more than once.  Nodes are numbered from 1.        *)
(*                                                                         *)
(* merge_subgraph, expand_node, subgraph and map_nodes add their nodes and *)
(* then their edges one at a time by add_dependency: `todo` is what is     *)
(* left to add, and no other call runs meanwhile (they hold the graph by   *)
(* &mut).  A subgraph takes the place of the graph it was made from.       *)
(***************************************************************************)
EXTENDS Integers, Sequences, FiniteSets

CONSTANTS
  MaxNodes,   \* bound on the nodes of the graph
  MaxEdges,   \* bound on the edges of the graph
  MaxKeep,    \* bound on the length of the list a subgraph is taken of
  Others      \* the graphs that are merged: a list of dependencies for each node

Elems(s) == {s[i] : i \in DOMAIN s}

(* Every set of nodes has one with no dependency in the set.               *)
Acyclic(g) ==
  \A S \in SUBSET (DOMAIN g) : S # {} => \E n \in S : \A d \in Elems(g[n]) : d \notin S

\* A graph that is merged was built by the same calls.
ASSUME OthersAssumption ==
  \A other \in Others :
    /\ other \in Seq(Seq(Nat)) /\ Acyclic(other)
    /\ \A n \in DOMAIN other : Elems(other[n]) \subseteq DOMAIN other

VARIABLES
  deps,        \* the dependencies of each node
  dependents,  \* the dependents of each node
  todo,        \* the edges <<dependency, dependent>> still to add
  call,        \* the call under way
  result       \* what the last add_dependency of the call returned

graphVars == <<deps, dependents, todo, call, result>>

Nodes == 1 .. Len(deps)
EdgeTo(m, n) == m \in Elems(deps[n])
EdgeCount == Cardinality({e \in Nodes \X (1 .. MaxEdges) : e[2] <= Len(deps[e[1]])})

GraphInit ==
  /\ deps = <<>> /\ dependents = <<>>
  /\ todo = <<>> /\ call = "none" /\ result = "Ok"

\* Slip: only the direct dependents are looked at.
reaches_Direct(from, to) == to \in Elems(dependents[from])

(* reaches: `to` is in every set that has `from` and is closed under       *)
(* dependents, which is what the breadth-first walk finds.                 *)
reaches(from, to) ==
  \A S \in SUBSET Nodes :
    from \in S /\ (\A n \in S : Elems(dependents[n]) \subseteq S) => to \in S

add_dependency(d, n) ==
  IF d \notin Nodes \/ n \notin Nodes
  THEN result' = "MissingNode" /\ UNCHANGED <<deps, dependents>>
  ELSE IF d = n
  THEN result' = "SelfDependency" /\ UNCHANGED <<deps, dependents>>
  ELSE IF reaches(n, d)
  THEN result' = "Cycle" /\ UNCHANGED <<deps, dependents>>
  ELSE /\ result' = "Ok"
       /\ deps' = [deps EXCEPT ![n] = Append(@, d)]
       /\ dependents' = [dependents EXCEPT ![d] = Append(@, n)]

add_nodes(k) ==
  /\ deps' = deps \o [i \in 1 .. k |-> <<>>]
  /\ dependents' = dependents \o [i \in 1 .. k |-> <<>>]

AddNode ==
  /\ call = "none" /\ Len(deps) < MaxNodes
  /\ add_nodes(1)
  /\ UNCHANGED <<todo, call, result>>

(* The caller may name a node that does not exist. *)
AddDependency ==
  /\ call = "none" /\ EdgeCount < MaxEdges
  /\ \E d, n \in 1 .. MaxNodes : add_dependency(d, n)
  /\ UNCHANGED <<todo, call>>

-----------------------------------------------------------------------------
(* The members of s that are in S, in their order. *)
Kept(s, S) ==
  LET kept[i \in 0 .. Len(s)] ==
        IF i = 0 THEN <<>> ELSE IF s[i] \in S THEN Append(kept[i - 1], s[i]) ELSE kept[i - 1]
  IN  kept[Len(s)]

(* The edges of the nodes of s, renumbered by f; those with an end that f  *)
(* does not map are left out.                                              *)
EdgesInto(ds, n, f) ==
  LET kept == Kept(ds, DOMAIN f) IN [j \in DOMAIN kept |-> <<f[kept[j]], f[n]>>]

EdgesOf(g, s, f) ==
  LET of[i \in 0 .. Len(s)] ==
        IF i = 0 THEN <<>> ELSE of[i - 1] \o EdgesInto(g[s[i]], s[i], f)
  IN  of[Len(s)]

Upto(k) == [i \in 1 .. k |-> i]

MergeSubgraph ==
  /\ call = "none"
  /\ \E other \in Others :
       /\ Len(deps) + Len(other) <= MaxNodes
       /\ add_nodes(Len(other))
       /\ todo' = EdgesOf(other, Upto(Len(other)), [i \in 1 .. Len(other) |-> Len(deps) + i])
       /\ EdgeCount + Len(todo') <= MaxEdges
  /\ call' = "merge" /\ result' = "Ok"

(* expand_node with one new task: a list of several is a call for each.    *)
ExpandNode ==
  /\ call = "none" /\ Len(deps) < MaxNodes
  /\ add_nodes(1)
  /\ \E parent \in Nodes, ds \in {<<>>} \cup {<<d>> : d \in 1 .. MaxNodes} :
       todo' = <<<<parent, Len(deps) + 1>>>> \o [i \in DOMAIN ds |-> <<ds[i], Len(deps) + 1>>]
  /\ EdgeCount + Len(todo') <= MaxEdges
  /\ call' = "expand" /\ result' = "Ok"

(* The nodes of keep, one new node for each time a node is listed; edges   *)
(* go to the last.  map_nodes keeps all of them in order.                  *)
Subgraph ==
  /\ call = "none"
  /\ \E k \in 0 .. MaxKeep : \E keep \in [1 .. k -> Nodes] \cup {Upto(Len(deps))} :
       /\ deps' = [i \in DOMAIN keep |-> <<>>] /\ dependents' = deps'
       /\ todo' = EdgesOf(deps, keep, [n \in Elems(keep) |->
                    CHOOSE i \in DOMAIN keep : keep[i] = n /\ \A j \in DOMAIN keep : keep[j] = n => j <= i])
       /\ Len(todo') <= MaxEdges
  /\ call' = "subgraph" /\ result' = "Ok"

(* An error ends expand_node, is ignored by merge_subgraph, and would be a *)
(* panic of subgraph.                                                      *)
AddNext ==
  /\ todo # <<>>
  /\ add_dependency(Head(todo)[1], Head(todo)[2])
  /\ todo' = IF call = "expand" /\ result' # "Ok" THEN <<>> ELSE Tail(todo)
  /\ UNCHANGED call

GraphReturn ==
  /\ call # "none" /\ todo = <<>>
  /\ call' = "none"
  /\ UNCHANGED <<deps, dependents, todo, result>>

GraphNext ==
  AddNode \/ AddDependency \/ MergeSubgraph \/ ExpandNode \/ Subgraph \/ AddNext \/ GraphReturn

GraphSpec == GraphInit /\ [][GraphNext]_graphVars

-----------------------------------------------------------------------------
(* topological_order: nodes with no dependency left, first come first      *)
(* served; a node counts its dependencies down once per edge.              *)
Drop(s, e) ==
  LET left == [s.left EXCEPT ![e] = @ - 1]
  IN  [left |-> left, ready |-> IF left[e] = 0 THEN Append(s.ready, e) ELSE s.ready]

Visit(s) ==
  LET ds == dependents[Head(s.ready)]
      after[i \in 0 .. Len(ds)] ==
        IF i = 0 THEN [left |-> s.left, ready |-> Tail(s.ready)] ELSE Drop(after[i - 1], ds[i])
  IN  [left |-> after[Len(ds)].left, ready |-> after[Len(ds)].ready,
       order |-> Append(s.order, Head(s.ready))]

topological_order ==
  LET run[k \in 0 .. Len(deps)] ==
        IF k = 0
        THEN [left |-> [n \in Nodes |-> Len(deps[n])], order |-> <<>>,
              ready |-> Kept(Upto(Len(deps)), {n \in Nodes : deps[n] = <<>>})]
        ELSE IF run[k - 1].ready = <<>> THEN run[k - 1] ELSE Visit(run[k - 1])
  IN  run[Len(deps)].order

(* levels: one more than the deepest dependency, in topological order.     *)
Placed(level, n) ==
  LET depths == {level[d] + 1 : d \in Elems(deps[n])}
  IN  [level EXCEPT ![n] =
         IF depths = {} THEN 0 ELSE CHOOSE m \in depths : \A o \in depths : o <= m]

level_of ==
  LET order == topological_order
      up[k \in 0 .. Len(order)] ==
        IF k = 0 THEN [n \in Nodes |-> 0] ELSE Placed(up[k - 1], order[k])
  IN  up[Len(order)]

-----------------------------------------------------------------------------
(* affected_nodes: a breadth-first walk along the dependents, from the     *)
(* changed nodes that exist; a node is queued when it is first seen.       *)
Seen(q, n) == IF n \in Nodes \ Elems(q) THEN Append(q, n) ELSE q

See(q, ns) ==
  LET after[i \in 0 .. Len(ns)] == IF i = 0 THEN q ELSE Seen(after[i - 1], ns[i])
  IN  after[Len(ns)]

Expand(q, k) == IF k > Len(q) THEN q ELSE See(q, dependents[q[k]])

affected_nodes(changed) ==
  LET walk[k \in 0 .. Len(deps)] ==
        IF k = 0 THEN See(<<>>, changed) ELSE Expand(walk[k - 1], k)
  IN  walk[Len(deps)]

-----------------------------------------------------------------------------
(* No order of calls makes a cycle.                                        *)
GraphIsAcyclic == Acyclic(deps)

(* The two lists of an edge agree; reaches walks along the one, readiness  *)
(* and validation along the other.                                         *)
EdgesMirror ==
  /\ Len(dependents) = Len(deps)
  /\ \A n \in Nodes : Elems(deps[n]) \subseteq Nodes /\ Elems(dependents[n]) \subseteq Nodes
  /\ \A m, n \in Nodes : m \in Elems(deps[n]) <=> n \in Elems(dependents[m])

(* "a subgraph of a DAG is a DAG", "mapped graph inherits the DAG          *)
(* structure": the calls of add_dependency whose error is ignored or would *)
(* panic have none, whatever the graph and the list of nodes kept.         *)
CopiesAreComplete == call \in {"merge", "subgraph"} => result = "Ok"

(* An edge is refused exactly when it would close a cycle: what the walk   *)
(* along the dependents finds is a path back along the dependencies.       *)
RefusesExactlyCycles ==
  \A d, n \in Nodes :
    d # n => (reaches(n, d) <=> ~Acyclic([deps EXCEPT ![n] = Append(@, d)]))

(* The order has every node once, after its dependencies, also where an    *)
(* edge is there twice; and the level of a node is the length of the       *)
(* longest chain below it.                                                 *)
OrderIsTopological ==
  LET order == topological_order
      At(n) == CHOOSE i \in DOMAIN order : order[i] = n
  IN  /\ Len(order) = Len(deps) /\ Elems(order) = Nodes
      /\ \A n \in Nodes : \A d \in Elems(deps[n]) : At(d) < At(n)

LevelsAreDepths ==
  \A n \in Nodes :
    /\ \A d \in Elems(deps[n]) : level_of[d] < level_of[n]
    /\ level_of[n] > 0 => \E d \in Elems(deps[n]) : level_of[d] = level_of[n] - 1

(* A change affects exactly the changed nodes and those whose dependencies *)
(* lead to one, each listed once, whatever the list of changes repeats.    *)
(* (Nobody can ask in the middle of a call.)                               *)
AffectedIsExact ==
  call = "none" =>
  \A k \in 0 .. MaxKeep : \A changed \in [1 .. k -> 1 .. MaxNodes] :
    LET affected == affected_nodes(changed)
        Closed(S) == \A n \in Nodes : n \in Elems(changed) \/ Elems(deps[n]) \cap S # {} => n \in S
    IN  /\ Len(affected) = Cardinality(Elems(affected))
        /\ Closed(Elems(affected))
        /\ \A S \in SUBSET Nodes : Closed(S) => Elems(affected) \subseteq S

(* After every call of add_dependency, merge_subgraph, expand_node and     *)
(* subgraph, in any order: what the scheduler relies on in a graph.        *)
GraphIsSound ==
  /\ EdgesMirror /\ GraphIsAcyclic
  /\ CopiesAreComplete /\ RefusesExactlyCycles
  /\ OrderIsTopological /\ LevelsAreDepths /\ AffectedIsExact
=============================================================================
