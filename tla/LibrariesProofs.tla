--------------------------- MODULE LibrariesProofs --------------------------
(***************************************************************************)
(* What is proved of the library components that MCLibraries checks: the   *)
(* calls that build a graph, the dependency map of the lock-free graph,    *)
(* the race of two executors, the two maps of the file cache, the          *)
(* collection of a directory and the three tiers of LRU caches, for any    *)
(* number of nodes, names, files, keys and threads.                        *)
(***************************************************************************)
EXTENDS GraphConstruction, LocklessGraph, FileCache, Racing, CacheGc, TieredCache, FiniteSetTheorems,
        TLAPS

(* The elements of a queue when one comes and when one goes.               *)
LEMMA AppendElements ==
  ASSUME NEW S, NEW s \in Seq(S), NEW e \in S
  PROVE  ToSet(Append(s, e)) = ToSet(s) \cup {e}
  <1>1. \A i \in 1 .. Len(s) + 1 : Append(s, e)[i] = IF i = Len(s) + 1 THEN e ELSE s[i]
    OBVIOUS
  <1>2. DOMAIN Append(s, e) = 1 .. Len(s) + 1 /\ DOMAIN s = 1 .. Len(s) /\ Len(s) \in Nat
    OBVIOUS
  <1>3. ASSUME NEW x \in ToSet(s) PROVE x \in ToSet(Append(s, e))
    <2>1. PICK i \in 1 .. Len(s) : s[i] = x
      BY <1>3 DEF ToSet
    <2>2. i \in 1 .. Len(s) + 1 /\ Append(s, e)[i] = x
      BY <1>1, <2>1
    <2>3. QED
      BY <1>2, <2>2 DEF ToSet
  <1>4. e \in ToSet(Append(s, e))
    <2>1. Len(s) + 1 \in 1 .. Len(s) + 1 /\ Append(s, e)[Len(s) + 1] = e
      BY <1>1, <1>2
    <2>2. QED
      BY <1>2, <2>1 DEF ToSet
  <1>5. ASSUME NEW x \in ToSet(Append(s, e)), x # e PROVE x \in ToSet(s)
    <2>1. PICK i \in 1 .. Len(s) + 1 : Append(s, e)[i] = x
      BY <1>2, <1>5 DEF ToSet
    <2>2. i \in 1 .. Len(s) /\ s[i] = x
      BY <1>1, <1>2, <1>5, <2>1
    <2>3. QED
      BY <1>2, <2>2 DEF ToSet
  <1>6. QED
    BY <1>3, <1>4, <1>5

LEMMA TailElements ==
  ASSUME NEW S, NEW s \in Seq(S), s # <<>>
  PROVE  ToSet(s) \subseteq {Head(s)} \cup ToSet(Tail(s))
  <1>1. SUFFICES ASSUME NEW i \in 1 .. Len(s), s[i] # Head(s) PROVE s[i] \in ToSet(Tail(s))
    BY DEF ToSet
  <1>2. i # 1
    BY <1>1
  <1>3. i - 1 \in 1 .. Len(s) - 1 /\ DOMAIN Tail(s) = 1 .. Len(s) - 1
    BY <1>2
  <1>4. Tail(s)[i - 1] = s[i]
    <2>1. \A j \in 1 .. Len(s) - 1 : Tail(s)[j] = s[j + 1]
      OBVIOUS
    <2>2. Tail(s)[i - 1] = s[(i - 1) + 1]
      BY <1>3, <2>1
    <2>3. (i - 1) + 1 = i
      OBVIOUS
    <2>4. QED
      BY <2>2, <2>3
  <1>5. QED
    BY <1>3, <1>4 DEF ToSet

-----------------------------------------------------------------------------
(* Recursive functions.                                                    *)
(* A set of natural numbers that has one has a least.                      *)
LEMMA LeastNumber ==
  ASSUME NEW T \in SUBSET Nat, T # {}
  PROVE  \E m \in T : \A k \in T : m <= k
<1> DEFINE R == OpToRel(<, Nat)
<1>1. \A x, y \in Nat : y < x => <<y, x>> \in R
  BY Zenon DEF OpToRel
<1>2. IsWellFoundedOn(R, Nat)
  BY NatLessThanWellFounded, Zenon
<1> HIDE DEF R
<1>3. PICK m \in T : \A y \in T : ~(<<y, m>> \in R)
  BY <1>2, WFMin
<1>4. ASSUME NEW k \in T PROVE m <= k
  <2>1. ~(<<k, m>> \in R)
    BY <1>3
  <2>2. m \in Nat /\ k \in Nat
    OBVIOUS
  <2>3. ~(k < m)
    BY <1>1, <2>1, <2>2
  <2>4. QED
    BY <2>2, <2>3
<1>5. QED
  BY <1>4

(* Induction over an interval, for a set of numbers. *)
LEMMA IntervalInduction ==
  ASSUME NEW n \in Nat, NEW P, 0 \in P,
         \A k \in 1 .. n : k - 1 \in P => k \in P
  PROVE  \A k \in 0 .. n : k \in P
<1> DEFINE T == {k \in 0 .. n : k \notin P}
<1>1. SUFFICES ASSUME T # {} PROVE FALSE
  OBVIOUS
<1>2. T \in SUBSET Nat
  OBVIOUS
<1>3. PICK m \in T : \A k \in T : m <= k
  BY <1>1, <1>2, LeastNumber
<1>4. m \in 1 .. n /\ m \notin P
  OBVIOUS
<1>5. m - 1 \in 0 .. n /\ ~(m <= m - 1)
  BY <1>4
<1>6. m - 1 \in P
  BY <1>3, <1>5
<1>7. QED
  BY <1>4, <1>6

(* A function defined by recursion from each number to the next exists.    *)
Recursive(n, X, base, F) ==
  \E f \in [0 .. n -> X] : f[0] = base /\ \A i \in 1 .. n : f[i] = F[<<f[i - 1], i>>]

LEMMA RecursionExists ==
  ASSUME NEW n \in Nat, NEW X, NEW base \in X, NEW F \in [X \X (1 .. n) -> X]
  PROVE  Recursive(n, X, base, F)
<1> DEFINE Upto_(k) == \E f \in [0 .. k -> X] : f[0] = base /\ \A i \in 1 .. k : f[i] = F[<<f[i - 1], i>>]
           P == {k \in 0 .. n : Upto_(k)}
<1>1. Upto_(0)
  <2> DEFINE f == [i \in 0 .. 0 |-> base]
  <2>1. f \in [0 .. 0 -> X] /\ f[0] = base /\ 1 .. 0 = {}
    OBVIOUS
  <2> HIDE DEF f
  <2>2. QED
    BY <2>1
<1>2. ASSUME NEW k \in 1 .. n, Upto_(k - 1) PROVE Upto_(k)
  <2>1. PICK f \in [0 .. k - 1 -> X] :
          f[0] = base /\ \A i \in 1 .. k - 1 : f[i] = F[<<f[i - 1], i>>]
    BY <1>2
  <2> DEFINE next == F[<<f[k - 1], k>>]
             g == [i \in 0 .. k |-> IF i = k THEN next ELSE f[i]]
  <2>2. next \in X
    <3>1. f[k - 1] \in X /\ k \in 1 .. n
      OBVIOUS
    <3>2. <<f[k - 1], k>> \in X \X (1 .. n)
      BY <3>1
    <3>3. QED
      BY <3>2
  <2> HIDE DEF next
  <2>3. g \in [0 .. k -> X]
    BY <2>2
  <2>4. g[0] = base
    BY <2>1
  <2>5. ASSUME NEW i \in 1 .. k PROVE g[i] = F[<<g[i - 1], i>>]
    <3>1. CASE i = k
      <4>1. g[k] = next /\ g[k - 1] = f[k - 1]
        OBVIOUS
      <4>2. QED
        BY <3>1, <4>1 DEF next
    <3>2. CASE i # k
      <4>1. i \in 1 .. k - 1 /\ i - 1 \in 0 .. k - 1
        BY <3>2
      <4>2. g[i] = f[i] /\ g[i - 1] = f[i - 1]
        BY <4>1
      <4>3. QED
        BY <2>1, <4>1, <4>2
    <3>3. QED
      BY <3>1, <3>2
  <2> HIDE DEF g
  <2>6. QED
    BY <2>3, <2>4, <2>5
<1> HIDE DEF Upto_
<1>3. 0 \in P /\ \A k \in 1 .. n : k - 1 \in P => k \in P
  BY <1>1, <1>2
<1>4. n \in P
  <2> HIDE DEF P
  <2>1. \A k \in 0 .. n : k \in P
    BY <1>3, IntervalInduction
  <2>2. QED
    BY <2>1
<1>5. QED
  BY <1>4 DEF Upto_, Recursive

-----------------------------------------------------------------------------
(* How often a list has a member.                                          *)
Times(s, e) == Cardinality({i \in 1 .. Len(s) : s[i] = e})

LEMMA TimesIs ==
  ASSUME NEW s \in Seq(Nat), NEW e
  PROVE  /\ IsFiniteSet({i \in 1 .. Len(s) : s[i] = e}) /\ Times(s, e) \in Nat
         /\ Times(s, e) = 0 <=> \A i \in 1 .. Len(s) : s[i] # e
  <1> DEFINE D == {i \in 1 .. Len(s) : s[i] = e}
  <1>1. Len(s) \in Nat
    OBVIOUS
  <1>2. IsFiniteSet(1 .. Len(s))
    BY <1>1, FS_Interval
  <1>3. IsFiniteSet(D)
    BY <1>2, FS_Subset
  <1>4. Cardinality(D) \in Nat /\ (Cardinality(D) = 0 <=> D = {})
    BY <1>3, FS_CardinalityType, FS_EmptySet
  <1>5. QED
    BY <1>3, <1>4 DEF Times

(* The empty list has no member. *)
LEMMA TimesOfNone == \A e : Times(<<>>, e) = 0
  <1>1. <<>> \in Seq(Nat) /\ Len(<<>>) = 0
    OBVIOUS
  <1>2. \A e : Times(<<>>, e) = 0 <=> \A i \in 1 .. 0 : <<>>[i] # e
    BY <1>1, TimesIs
  <1>3. 1 .. 0 = {}
    OBVIOUS
  <1>4. QED
    BY <1>2, <1>3

LEMMA TimesAppend ==
  ASSUME NEW s \in Seq(Nat), NEW x \in Nat, NEW e
  PROVE  Times(Append(s, x), e) = Times(s, e) + (IF x = e THEN 1 ELSE 0)
  <1> DEFINE D == {i \in 1 .. Len(s) : s[i] = e}
             r == Append(s, x)
             E == {i \in 1 .. Len(r) : r[i] = e}
  <1>1. /\ Len(r) = Len(s) + 1 /\ r[Len(s) + 1] = x /\ Len(s) \in Nat
        /\ \A i \in 1 .. Len(s) : r[i] = s[i]
    OBVIOUS
  <1>2. IsFiniteSet(D) /\ Times(s, e) = Cardinality(D) /\ Times(s, e) \in Nat
    BY TimesIs DEF Times
  <1>3. Times(r, e) = Cardinality(E)
    BY DEF Times
  <1> HIDE DEF r
  <1>4. E = IF x = e THEN D \cup {Len(s) + 1} ELSE D
    BY <1>1
  <1>5. Len(s) + 1 \notin D
    BY <1>1
  <1> HIDE DEF D, E
  <1>6. Cardinality(E) = Cardinality(D) + (IF x = e THEN 1 ELSE 0)
    <2>1. CASE x = e
      BY <1>2, <1>4, <1>5, <2>1, FS_AddElement
    <2>2. CASE x # e
      BY <1>2, <1>4, <2>2
    <2>3. QED
      BY <2>1, <2>2
  <1>7. QED
    BY <1>2, <1>3, <1>6 DEF r

-----------------------------------------------------------------------------
(* The calls that build a graph.                                           *)
EdgesCounted ==
  \A m, n \in Nodes : Times(deps[n], m) = Times(dependents[m], n)

GraphInv ==
  /\ deps \in Seq(Seq(Nat)) /\ dependents \in Seq(Seq(Nat))
  /\ EdgesMirror /\ EdgesCounted /\ GraphIsAcyclic

LEMMA ElemsAppend ==
  ASSUME NEW s \in Seq(Nat), NEW e \in Nat
  PROVE  Elems(Append(s, e)) = Elems(s) \cup {e}
  <1>1. \A q : Elems(q) = ToSet(q)
    BY DEF Elems, ToSet
  <1>2. QED
    BY <1>1, AppendElements

LEMMA FreeNode ==
  ASSUME GraphInv, NEW T, T \subseteq Nodes, T # {}
  PROVE  \E m \in T : \A x \in Elems(deps[m]) : x \notin T
  <1>1. DOMAIN deps = Nodes
    BY DEF GraphInv, Nodes
  <1>2. T \in SUBSET (DOMAIN deps)
    BY <1>1
  <1>3. QED
    BY <1>2 DEF GraphInv, GraphIsAcyclic, Acyclic

(* The invariant speaks of the two lists only. *)
LEMMA GraphInvOfLists ==
  ASSUME GraphInv, UNCHANGED <<deps, dependents>>
  PROVE  GraphInv'
  <1>1. deps' = deps /\ dependents' = dependents
    OBVIOUS
  <1>2. Nodes' = Nodes
    BY <1>1 DEF Nodes
  <1>3. EdgesMirror' /\ GraphIsAcyclic'
    BY <1>1, <1>2 DEF GraphInv, EdgesMirror, GraphIsAcyclic, Acyclic
  <1>4. EdgesCounted'
    BY <1>1, <1>2 DEF GraphInv, EdgesCounted
  <1>5. QED
    BY <1>1, <1>3, <1>4 DEF GraphInv

(* What one more edge does to a graph. *)
WithEdge(d, n) == [deps EXCEPT ![n] = Append(@, d)]

LEMMA EdgeAdded ==
  ASSUME GraphInv, NEW d \in Nodes, NEW n \in Nodes
  PROVE  LET g == WithEdge(d, n) IN
         /\ g \in Seq(Seq(Nat)) /\ DOMAIN g = Nodes
         /\ Elems(g[n]) = Elems(deps[n]) \cup {d}
         /\ \A m \in Nodes : m # n => g[m] = deps[m]
<1> DEFINE g == WithEdge(d, n)
<1>1. deps[n] \in Seq(Nat) /\ d \in Nat /\ Nodes = 1 .. Len(deps)
  BY DEF GraphInv, Nodes
<1>0. g = [deps EXCEPT ![n] = Append(@, d)]
  BY DEF WithEdge
<1> HIDE DEF g
<1>2. /\ g[n] = Append(deps[n], d) /\ g \in Seq(Seq(Nat)) /\ DOMAIN g = Nodes
      /\ \A m \in Nodes : m # n => g[m] = deps[m]
  BY <1>0, <1>1 DEF GraphInv
<1>3. Elems(g[n]) = Elems(deps[n]) \cup {d}
  BY <1>1, <1>2, ElemsAppend
<1>4. QED
  BY <1>2, <1>3 DEF g

(* A walk along the dependents that does not find d from n has found a set *)
(* without d that no dependency leaves upwards; so of any nodes with both, *)
(* one outside that set has none of its dependencies among them.           *)
LEMMA NoCycleWithoutPath ==
  ASSUME GraphInv, NEW d \in Nodes, NEW n \in Nodes, ~reaches(n, d)
  PROVE  Acyclic(WithEdge(d, n))
<1> DEFINE g == WithEdge(d, n)
<1>1. /\ DOMAIN g = Nodes /\ Elems(g[n]) = Elems(deps[n]) \cup {d}
      /\ \A m \in Nodes : m # n => g[m] = deps[m]
  BY EdgeAdded
<1> HIDE DEF g
<1>2. PICK S \in SUBSET Nodes : /\ n \in S /\ d \notin S
                                /\ \A m \in S : Elems(dependents[m]) \subseteq S
  BY DEF reaches
<1>3. ASSUME NEW T \in SUBSET Nodes, T # {}
      PROVE  \E m \in T : \A x \in Elems(g[m]) : x \notin T
  <2>1. CASE n \notin T \/ d \notin T
    <3>1. PICK m \in T : \A x \in Elems(deps[m]) : x \notin T
      BY <1>3, FreeNode
    <3>2. QED
      BY <1>1, <2>1, <3>1
  <2>2. CASE n \in T /\ d \in T
    <3>1. T \ S # {} /\ T \ S \subseteq Nodes
      BY <1>2, <2>2
    <3>2. PICK m \in T \ S : \A x \in Elems(deps[m]) : x \notin T \ S
      BY <3>1, FreeNode
    <3>3. \A x \in Elems(deps[m]) : x \notin S
      BY <1>2, <3>2 DEF GraphInv, EdgesMirror
    <3>4. g[m] = deps[m]
      BY <1>1, <1>2, <3>2
    <3>5. QED
      BY <3>2, <3>3, <3>4
  <2>3. QED
    BY <2>1, <2>2
<1>4. Acyclic(g)
  BY <1>1, <1>3 DEF Acyclic
<1>5. QED
  BY <1>4 DEF g

(* Of the nodes on the ways from n to d every one but n has a dependency   *)
(* among them, and n would have d.                                         *)
LEMMA CycleWithPath ==
  ASSUME GraphInv, NEW d \in Nodes, NEW n \in Nodes, reaches(n, d)
  PROVE  ~Acyclic(WithEdge(d, n))
<1> DEFINE g == WithEdge(d, n)
           From == {x \in Nodes : reaches(n, x)}
           T == {x \in From : reaches(x, d)}
<1>1. /\ DOMAIN g = Nodes /\ Elems(g[n]) = Elems(deps[n]) \cup {d}
      /\ \A m \in Nodes : m # n => g[m] = deps[m]
  BY EdgeAdded
<1> HIDE DEF g
<1>2. \A x \in Nodes : reaches(x, x)
  BY DEF reaches
<1>3. n \in T /\ d \in T
  BY <1>2
<1>4. \A p \in From : Elems(dependents[p]) \subseteq From
  BY DEF reaches, GraphInv, EdgesMirror
<1>5. ASSUME NEW m \in T, m # n PROVE \E p \in Elems(deps[m]) : p \in T
  <2>1. m \in From /\ reaches(m, d) /\ m \in Nodes /\ From \subseteq Nodes
    OBVIOUS
  <2>2. PICK p \in From : m \in Elems(dependents[p])
    <3>1. SUFFICES ASSUME \A p \in From : m \notin Elems(dependents[p]) PROVE FALSE
      OBVIOUS
    <3>2. DEFINE S == From \ {m}
    <3>3. n \in S /\ S \in SUBSET Nodes /\ \A p \in S : Elems(dependents[p]) \subseteq S
      BY <1>3, <1>4, <1>5, <3>1
    <3>4. m \notin S
      OBVIOUS
    <3> HIDE DEF S
    <3>5. ~reaches(n, m)
      BY <3>3, <3>4 DEF reaches
    <3>6. QED
      BY <2>1, <3>5
  <2>3. p \in Elems(deps[m])
    BY <2>1, <2>2 DEF GraphInv, EdgesMirror
  <2>4. reaches(p, d)
    <3>1. SUFFICES ASSUME NEW S \in SUBSET Nodes, p \in S,
                          \A x \in S : Elems(dependents[x]) \subseteq S
                   PROVE  d \in S
      BY DEF reaches
    <3>2. m \in S
      BY <2>2, <3>1
    <3>3. QED
      BY <2>1, <3>1, <3>2 DEF reaches
  <2>5. QED
    BY <2>2, <2>3, <2>4
<1>6. \A m \in T : \E p \in Elems(g[m]) : p \in T
  BY <1>1, <1>3, <1>5
<1>7. T # {} /\ T \in SUBSET DOMAIN g
  BY <1>1, <1>3
<1> HIDE DEF T
<1>8. ~Acyclic(g)
  BY <1>6, <1>7 DEF Acyclic
<1>9. QED
  BY <1>8 DEF g

LEMMA RefusesExactly == GraphInv => RefusesExactlyCycles
BY NoCycleWithoutPath, CycleWithPath DEF RefusesExactlyCycles, WithEdge

(* The two lists of an edge are appended to together. *)
LEMMA AddDependencyInv ==
  ASSUME GraphInv, NEW d, NEW n, add_dependency(d, n)
  PROVE  GraphInv'
  <1> USE DEF GraphInv
  <1>1. CASE UNCHANGED <<deps, dependents>>
    BY <1>1, GraphInvOfLists
  <1>2. CASE ~UNCHANGED <<deps, dependents>>
    <2>1. /\ d \in Nodes /\ n \in Nodes /\ ~reaches(n, d)
          /\ deps' = [deps EXCEPT ![n] = Append(deps[n], d)]
          /\ dependents' = [dependents EXCEPT ![d] = Append(dependents[d], n)]
      BY <1>2 DEF add_dependency
    <2>2. /\ deps[n] \in Seq(Nat) /\ dependents[d] \in Seq(Nat) /\ d \in Nat /\ n \in Nat
          /\ Len(dependents) = Len(deps) /\ Nodes = 1 .. Len(deps)
      BY <2>1 DEF Nodes, EdgesMirror
    <2>3. /\ deps' \in Seq(Seq(Nat)) /\ dependents' \in Seq(Seq(Nat))
          /\ Len(deps') = Len(deps) /\ Len(dependents') = Len(dependents) /\ Nodes' = Nodes
          /\ deps'[n] = Append(deps[n], d) /\ dependents'[d] = Append(dependents[d], n)
          /\ \A m \in Nodes : m # n => deps'[m] = deps[m]
          /\ \A m \in Nodes : m # d => dependents'[m] = dependents[m]
      BY <2>1, <2>2 DEF Nodes
    <2>4. /\ Elems(deps'[n]) = Elems(deps[n]) \cup {d}
          /\ Elems(dependents'[d]) = Elems(dependents[d]) \cup {n}
      <3>1. Elems(Append(deps[n], d)) = Elems(deps[n]) \cup {d}
        BY <2>2, ElemsAppend
      <3>2. Elems(Append(dependents[d], n)) = Elems(dependents[d]) \cup {n}
        BY <2>2, ElemsAppend
      <3>3. QED
        BY <2>3, <3>1, <3>2
    <2>5. EdgesMirror'
      <3>1. Len(dependents') = Len(deps')
        BY <2>2, <2>3
      <3>2. \A m \in Nodes : Elems(deps'[m]) \subseteq Nodes /\ Elems(dependents'[m]) \subseteq Nodes
        BY <2>1, <2>3, <2>4 DEF EdgesMirror
      <3>3. ASSUME NEW l \in Nodes, NEW m \in Nodes
            PROVE  l \in Elems(deps'[m]) <=> m \in Elems(dependents'[l])
        <4>1. l \in Elems(deps[m]) <=> m \in Elems(dependents[l])
          BY DEF EdgesMirror
        <4>2. l \in Elems(deps'[m]) <=> l \in Elems(deps[m]) \/ (m = n /\ l = d)
          BY <2>3, <2>4
        <4>3. m \in Elems(dependents'[l]) <=> m \in Elems(dependents[l]) \/ (m = n /\ l = d)
          BY <2>3, <2>4
        <4>4. QED
          BY <4>1, <4>2, <4>3
      <3>4. QED
        BY <2>3, <3>1, <3>2, <3>3 DEF EdgesMirror
    <2>6. Acyclic(WithEdge(d, n)) /\ deps' = WithEdge(d, n)
      BY <2>1, NoCycleWithoutPath DEF WithEdge
    <2>8. GraphIsAcyclic'
      BY <2>6 DEF GraphIsAcyclic, Acyclic
    <2>9. EdgesCounted'
      <3>1. /\ \A l : Times(deps'[n], l) = Times(deps[n], l) + (IF d = l THEN 1 ELSE 0)
            /\ \A l : Times(dependents'[d], l) = Times(dependents[d], l) + (IF n = l THEN 1 ELSE 0)
        <4>1. /\ \A l : Times(Append(deps[n], d), l) = Times(deps[n], l) + (IF d = l THEN 1 ELSE 0)
              /\ \A l : Times(Append(dependents[d], n), l) = Times(dependents[d], l) + (IF n = l THEN 1 ELSE 0)
          BY <2>2, TimesAppend
        <4>2. QED
          BY <2>3, <4>1
      <3>2. ASSUME NEW l \in Nodes, NEW m \in Nodes
            PROVE  Times(deps'[m], l) = Times(dependents'[l], m)
        <4>1. Times(deps[m], l) = Times(dependents[l], m)
          BY DEF EdgesCounted
        <4>2. CASE m = n /\ l = d
          BY <3>1, <4>1, <4>2
        <4>3. CASE m = n /\ l # d
          <5>1. Times(deps'[m], l) = Times(deps[m], l) + 0 /\ Times(deps[m], l) \in Nat
            BY <2>2, <3>1, <4>3, TimesIs
          <5>2. dependents'[l] = dependents[l]
            BY <2>3, <4>3
          <5>3. QED
            BY <4>1, <5>1, <5>2
        <4>4. CASE m # n /\ l = d
          <5>1. Times(dependents'[l], m) = Times(dependents[l], m) + 0 /\ Times(dependents[l], m) \in Nat
            BY <2>2, <3>1, <4>4, TimesIs
          <5>2. deps'[m] = deps[m]
            BY <2>3, <4>4
          <5>3. QED
            BY <4>1, <5>1, <5>2
        <4>5. CASE m # n /\ l # d
          BY <2>3, <4>1, <4>5
        <4>6. QED
          BY <4>2, <4>3, <4>4, <4>5
      <3>3. QED
        BY <2>3, <3>2 DEF EdgesCounted
    <2>10. QED
      BY <2>3, <2>5, <2>8, <2>9
  <1>3. QED
    BY <1>1, <1>2

(* New nodes have no edge. *)
LEMMA EmptyListsAppended ==
  ASSUME NEW g \in Seq(Seq(Nat)), NEW k \in Nat, NEW h, h = g \o [i \in 1 .. k |-> <<>>]
  PROVE  /\ h \in Seq(Seq(Nat)) /\ Len(h) = Len(g) + k
         /\ \A m \in 1 .. Len(g) : h[m] = g[m]
         /\ \A m \in 1 .. Len(g) + k : m > Len(g) => h[m] = <<>>
  <1> DEFINE empty == [i \in 1 .. k |-> <<>>]
  <1>1. empty \in Seq(Seq(Nat)) /\ Len(empty) = k /\ \A i \in 1 .. k : empty[i] = <<>>
    OBVIOUS
  <1>2. h = g \o empty
    OBVIOUS
  <1> HIDE DEF empty
  <1>3. h \in Seq(Seq(Nat)) /\ Len(h) = Len(g) + k
    BY <1>1, <1>2
  <1>4. \A m \in 1 .. Len(g) : h[m] = g[m]
    BY <1>1, <1>2
  <1>5. ASSUME NEW m \in 1 .. Len(g) + k, m > Len(g) PROVE h[m] = <<>>
    <2>1. h[m] = empty[m - Len(g)]
      BY <1>1, <1>2, <1>5
    <2>2. m - Len(g) \in 1 .. k
      BY <1>5
    <2>3. QED
      BY <1>1, <2>1, <2>2
  <1>6. QED
    BY <1>3, <1>4, <1>5

LEMMA AddNodesInv ==
  ASSUME GraphInv, NEW k \in Nat, add_nodes(k)
  PROVE  GraphInv'
  <1>1. deps' = deps \o [i \in 1 .. k |-> <<>>] /\ dependents' = dependents \o [i \in 1 .. k |-> <<>>]
    BY DEF add_nodes
  <1>2. /\ deps \in Seq(Seq(Nat)) /\ dependents \in Seq(Seq(Nat)) /\ Len(dependents) = Len(deps)
        /\ Nodes = 1 .. Len(deps)
    BY DEF GraphInv, EdgesMirror, Nodes
  <1>3. /\ deps' \in Seq(Seq(Nat)) /\ Len(deps') = Len(deps) + k
        /\ \A m \in 1 .. Len(deps) : deps'[m] = deps[m]
        /\ \A m \in 1 .. Len(deps) + k : m > Len(deps) => deps'[m] = <<>>
    BY <1>1, <1>2, EmptyListsAppended
  <1>4. /\ dependents' \in Seq(Seq(Nat)) /\ Len(dependents') = Len(dependents) + k
        /\ \A m \in 1 .. Len(dependents) : dependents'[m] = dependents[m]
        /\ \A m \in 1 .. Len(dependents) + k : m > Len(dependents) => dependents'[m] = <<>>
    BY <1>1, <1>2, EmptyListsAppended
  <1>5. /\ deps' \in Seq(Seq(Nat)) /\ dependents' \in Seq(Seq(Nat))
        /\ Len(dependents') = Len(deps') /\ Nodes' = 1 .. Len(deps) + k
    BY <1>2, <1>3, <1>4 DEF Nodes
  <1>6. \A m \in Nodes : m \in Nodes' /\ deps'[m] = deps[m] /\ dependents'[m] = dependents[m]
    BY <1>2, <1>3, <1>4, <1>5
  <1>7. ASSUME NEW m \in Nodes' \ Nodes PROVE deps'[m] = <<>> /\ dependents'[m] = <<>>
    BY <1>2, <1>3, <1>4, <1>5, <1>7
  <1>8. Elems(<<>>) = {}
    BY DEF Elems
  <1>9. EdgesMirror'
    BY <1>5, <1>6, <1>7, <1>8 DEF GraphInv, EdgesMirror
  <1>10. GraphIsAcyclic'
    <2>1. SUFFICES ASSUME NEW T \in SUBSET Nodes', T # {}
                   PROVE  \E m \in T : \A x \in Elems(deps'[m]) : x \notin T
      <3>1. DOMAIN deps' = Nodes'
        BY <1>5 DEF Nodes
      <3>2. QED
        BY <3>1 DEF GraphIsAcyclic, Acyclic
    <2>2. CASE T \subseteq Nodes
      <3>1. PICK m \in T : \A x \in Elems(deps[m]) : x \notin T
        BY <2>1, <2>2, FreeNode
      <3>2. QED
        BY <1>6, <2>2, <3>1
    <2>3. CASE ~(T \subseteq Nodes)
      BY <1>7, <1>8, <2>1, <2>3
    <2>4. QED
      BY <2>2, <2>3
  <1>11. EdgesCounted'
    <2>1. \A e : Times(<<>>, e) = 0
      BY TimesOfNone
    <2>3. ASSUME NEW m \in Nodes', NEW n \in Nodes'
          PROVE  Times(deps'[n], m) = Times(dependents'[m], n)
      <3>1. CASE m \in Nodes /\ n \in Nodes
        BY <1>6, <3>1 DEF GraphInv, EdgesCounted
      <3>2. CASE m \notin Nodes /\ n \in Nodes
        <4>1. dependents'[m] = <<>> /\ deps'[n] = deps[n] /\ deps[n] \in Seq(Nat)
          BY <1>2, <1>6, <1>7, <3>2
        <4>2. m \notin Elems(deps[n])
          BY <3>2 DEF GraphInv, EdgesMirror
        <4>3. \A i \in 1 .. Len(deps[n]) : deps[n][i] # m
          BY <4>1, <4>2 DEF Elems
        <4>4. QED
          BY <2>1, <4>1, <4>3, TimesIs
      <3>3. CASE m \in Nodes /\ n \notin Nodes
        <4>1. deps'[n] = <<>> /\ dependents'[m] = dependents[m] /\ dependents[m] \in Seq(Nat)
          BY <1>2, <1>6, <1>7, <3>3
        <4>2. n \notin Elems(dependents[m])
          BY <3>3 DEF GraphInv, EdgesMirror
        <4>3. \A i \in 1 .. Len(dependents[m]) : dependents[m][i] # n
          BY <4>1, <4>2 DEF Elems
        <4>4. QED
          BY <2>1, <4>1, <4>3, TimesIs
      <3>4. CASE m \notin Nodes /\ n \notin Nodes
        BY <1>7, <2>1, <3>4
      <3>5. QED
        BY <3>1, <3>2, <3>3, <3>4
    <2>4. QED
      BY <2>3 DEF EdgesCounted
  <1>12. QED
    BY <1>5, <1>9, <1>10, <1>11 DEF GraphInv

LEMMA GraphInvInit == GraphInit => GraphInv
  BY DEF GraphInit, GraphInv, EdgesMirror, EdgesCounted, GraphIsAcyclic, Acyclic, Nodes

LEMMA GraphInvNext == GraphInv /\ [GraphNext]_graphVars => GraphInv'
  <1> SUFFICES ASSUME GraphInv, [GraphNext]_graphVars PROVE GraphInv'
    OBVIOUS
  <1>1. CASE AddNode \/ ExpandNode
    BY <1>1, AddNodesInv DEF AddNode, ExpandNode
  <1>2. CASE MergeSubgraph
    BY <1>2, AddNodesInv, OthersAssumption DEF MergeSubgraph
  <1>3. CASE AddDependency
    BY <1>3, AddDependencyInv DEF AddDependency
  <1>4. CASE AddNext
    BY <1>4, AddDependencyInv DEF AddNext
  <1>5. CASE Subgraph
    <2>1. PICK k \in 0 .. MaxKeep :
            \E keep \in [1 .. k -> Nodes] \cup {Upto(Len(deps))} :
              deps' = [i \in DOMAIN keep |-> <<>>] /\ dependents' = deps'
      BY <1>5 DEF Subgraph
    <2>2. PICK keep \in [1 .. k -> Nodes] \cup {Upto(Len(deps))} :
            deps' = [i \in DOMAIN keep |-> <<>>] /\ dependents' = deps'
      BY <2>1
    <2>3. PICK len \in Nat : DOMAIN keep = 1 .. len
      BY <2>2 DEF Upto, GraphInv
    <2>4. deps' \in Seq(Seq(Nat)) /\ Len(deps') = len /\ \A m \in 1 .. len : Elems(deps'[m]) = {}
      BY <2>2, <2>3 DEF Elems
    <2>5. QED
      <3>1. dependents' = deps' /\ DOMAIN deps' = 1 .. len /\ Nodes' = 1 .. len
        BY <2>2, <2>3, <2>4 DEF Nodes
      <3>2. EdgesMirror'
        BY <2>4, <3>1 DEF EdgesMirror
      <3>3. GraphIsAcyclic'
        BY <2>4, <3>1 DEF GraphIsAcyclic, Acyclic
      <3>4. EdgesCounted'
        <4>1. \A m \in Nodes' : deps'[m] = dependents'[m] /\ deps'[m] = <<>>
          BY <2>2, <2>3, <3>1
        <4>2. \A e : Times(<<>>, e) = 0
          BY TimesOfNone
        <4>3. QED
          BY <4>1, <4>2 DEF EdgesCounted
      <3>5. QED
        BY <2>4, <3>1, <3>2, <3>3, <3>4 DEF GraphInv
  <1>6. CASE GraphReturn \/ UNCHANGED graphVars
    BY <1>6, GraphInvOfLists DEF GraphReturn, graphVars
  <1>7. QED
    BY <1>1, <1>2, <1>3, <1>4, <1>5, <1>6 DEF GraphNext

(* add_dependency, merge_subgraph, expand_node and subgraph leave a graph  *)
(* whose two directions agree and that has no cycle, in any order, at any  *)
(* point of them, whatever the graphs that are merged.                     *)
THEOREM GraphStaysAcyclic == GraphSpec => [](EdgesMirror /\ GraphIsAcyclic)
  <1>1. GraphSpec => []GraphInv
    BY GraphInvInit, GraphInvNext, PTL DEF GraphSpec
  <1>2. GraphInv => EdgesMirror /\ GraphIsAcyclic
    BY DEF GraphInv
  <1>3. QED
    BY <1>1, <1>2, PTL

-----------------------------------------------------------------------------
(* The walk of affected_nodes.                                             *)
Injective(q) == \A i, j \in 1 .. Len(q) : q[i] = q[j] => i = j

LEMMA InjectiveAppend ==
  ASSUME NEW q \in Seq(Nat), Injective(q), NEW e \in Nat, e \notin Elems(q)
  PROVE  Injective(Append(q, e))
<1> DEFINE r == Append(q, e)
<1>1. /\ Len(r) = Len(q) + 1 /\ r[Len(q) + 1] = e /\ Len(q) \in Nat
      /\ \A i \in 1 .. Len(q) : r[i] = q[i]
  OBVIOUS
<1>2. \A i \in 1 .. Len(q) : q[i] # e
  BY DEF Elems
<1> HIDE DEF r
<1>3. Injective(r)
  <2> SUFFICES ASSUME NEW i \in 1 .. Len(q) + 1, NEW j \in 1 .. Len(q) + 1, r[i] = r[j]
               PROVE  i = j
    BY <1>1 DEF Injective
  <2>1. CASE i \in 1 .. Len(q) /\ j \in 1 .. Len(q)
    BY <1>1, <2>1 DEF Injective
  <2>2. CASE i = Len(q) + 1 \/ j = Len(q) + 1
    BY <1>1, <1>2, <2>2
  <2>3. QED
    BY <1>1, <2>1, <2>2
<1>4. QED
  BY <1>3 DEF r

(* The recursive function of See exists. *)
LEMMA SeeUnfolds ==
  ASSUME NEW q \in Seq(Nat), NEW ns \in Seq(Nat)
  PROVE  \E f : /\ See(q, ns) = f[Len(ns)] /\ f[0] = q
                /\ \A i \in 1 .. Len(ns) : f[i] = Seen(f[i - 1], ns[i])
<1> DEFINE F == [p \in Seq(Nat) \X (1 .. Len(ns)) |-> Seen(p[1], ns[p[2]])]
           Body(h) == [i \in 0 .. Len(ns) |-> IF i = 0 THEN q ELSE Seen(h[i - 1], ns[i])]
<1>1. \A s \in Seq(Nat), i \in 1 .. Len(ns) : Seen(s, ns[i]) \in Seq(Nat)
  BY DEF Seen
<1>2. F \in [Seq(Nat) \X (1 .. Len(ns)) -> Seq(Nat)]
  BY <1>1
<1>3. \A s \in Seq(Nat), i \in 1 .. Len(ns) : F[<<s, i>>] = Seen(s, ns[i])
  OBVIOUS
<1> HIDE DEF F
<1>4. PICK h \in [0 .. Len(ns) -> Seq(Nat)] :
        h[0] = q /\ \A i \in 1 .. Len(ns) : h[i] = F[<<h[i - 1], i>>]
  <2>1. Len(ns) \in Nat
    OBVIOUS
  <2>2. Recursive(Len(ns), Seq(Nat), q, F)
    BY <1>2, <2>1, RecursionExists
  <2>3. QED
    BY <2>2, Zenon DEF Recursive
<1>5. h = Body(h)
  <2>1. ASSUME NEW i \in 0 .. Len(ns) PROVE h[i] = Body(h)[i]
    <3>1. CASE i = 0
      BY <1>4, <3>1
    <3>2. CASE i # 0
      <4>1. i \in 1 .. Len(ns) /\ i - 1 \in 0 .. Len(ns)
        BY <3>2
      <4>2. QED
        BY <1>3, <1>4, <4>1
    <3>3. QED
      BY <3>1, <3>2
  <2> HIDE DEF Body
  <2>2. DOMAIN Body(h) = 0 .. Len(ns) /\ Body(h) = [i \in 0 .. Len(ns) |-> Body(h)[i]]
    BY DEF Body
  <2>3. h = [i \in 0 .. Len(ns) |-> h[i]]
    BY <1>4
  <2>4. QED
    BY <2>1, <2>2, <2>3
<1> DEFINE f == CHOOSE after : after = Body(after)
<1>6. f = Body(f)
  BY <1>5, Zenon
<1>7. See(q, ns) = f[Len(ns)]
  BY DEF See
<1> HIDE DEF f
<1>8. f[0] = q
  BY <1>6
<1>9. ASSUME NEW i \in 1 .. Len(ns) PROVE f[i] = Seen(f[i - 1], ns[i])
  <2>1. i \in 0 .. Len(ns) /\ i # 0
    OBVIOUS
  <2>2. Body(f)[i] = Seen(f[i - 1], ns[i])
    BY <2>1
  <2> HIDE DEF Body
  <2>3. QED
    BY <1>6, <2>2
<1>10. QED
  BY <1>7, <1>8, <1>9

Fresh(q) == q \in Seq(Nodes) /\ Injective(q)

LEMMA NodesAreNumbers ==
  /\ Nodes \subseteq Nat
  /\ \A q \in Seq(Nodes) : q \in Seq(Nat) /\ Elems(q) \subseteq Nodes
<1>1. Nodes \subseteq Nat
  BY DEF Nodes
<1>2. ASSUME NEW q \in Seq(Nodes) PROVE q \in Seq(Nat) /\ Elems(q) \subseteq Nodes
  <2>1. DOMAIN q = 1 .. Len(q) /\ \A i \in 1 .. Len(q) : q[i] \in Nodes
    OBVIOUS
  <2>2. q \in Seq(Nat)
    <3>1. \A i \in 1 .. Len(q) : q[i] \in Nat
      BY <1>1, <2>1
    <3>2. q = [i \in 1 .. Len(q) |-> q[i]] /\ Len(q) \in Nat
      BY <2>1
    <3>3. QED
      BY <3>1, <3>2
  <2>3. QED
    BY <2>1, <2>2 DEF Elems
<1>3. QED
  BY <1>1, <1>2

LEMMA SeenIsFresh ==
  ASSUME NEW q, Fresh(q), NEW n \in Nat
  PROVE  /\ Fresh(Seen(q, n)) /\ Len(q) <= Len(Seen(q, n))
         /\ \A i \in 1 .. Len(q) : Seen(q, n)[i] = q[i]
         /\ Elems(Seen(q, n)) = Elems(q) \cup ({n} \cap Nodes)
<1>1. q \in Seq(Nodes) /\ q \in Seq(Nat)
  BY NodesAreNumbers DEF Fresh
<1>2. CASE n \in Nodes \ Elems(q)
  <2>1. Seen(q, n) = Append(q, n)
    BY <1>2 DEF Seen
  <2> DEFINE r == Append(q, n)
  <2>2. /\ r \in Seq(Nodes) /\ Len(r) = Len(q) + 1 /\ r[Len(q) + 1] = n
        /\ \A i \in 1 .. Len(q) : r[i] = q[i]
    BY <1>1, <1>2
  <2>3. Elems(r) = Elems(q) \cup {n}
    BY <1>1, ElemsAppend
  <2> HIDE DEF r
  <2>4. Injective(r)
    BY <1>1, <1>2, InjectiveAppend DEF Fresh, r
  <2>5. {n} \cap Nodes = {n} /\ Len(q) \in Nat
    BY <1>1, <1>2
  <2>6. QED
    BY <2>1, <2>2, <2>3, <2>4, <2>5 DEF Fresh, r
<1>3. CASE n \notin Nodes \ Elems(q)
  <2>1. Seen(q, n) = q
    BY <1>3 DEF Seen
  <2>2. Len(q) \in Nat
    BY <1>1
  <2>3. QED
    BY <1>3, <2>1, <2>2
<1>4. QED
  BY <1>2, <1>3

LEMMA SeeIsFresh ==
  ASSUME NEW q, Fresh(q), NEW ns \in Seq(Nat)
  PROVE  /\ Fresh(See(q, ns)) /\ Len(q) <= Len(See(q, ns))
         /\ \A i \in 1 .. Len(q) : See(q, ns)[i] = q[i]
         /\ Elems(See(q, ns)) = Elems(q) \cup (Elems(ns) \cap Nodes)
<1>1. q \in Seq(Nat) /\ Len(ns) \in Nat /\ Len(q) \in Nat
  BY NodesAreNumbers DEF Fresh
<1>2. PICK f : /\ See(q, ns) = f[Len(ns)] /\ f[0] = q
               /\ \A i \in 1 .. Len(ns) : f[i] = Seen(f[i - 1], ns[i])
  BY <1>1, SeeUnfolds
<1> DEFINE Good(k) == /\ Fresh(f[k]) /\ Len(q) <= Len(f[k])
                      /\ \A i \in 1 .. Len(q) : f[k][i] = q[i]
                      /\ Elems(f[k]) = Elems(q) \cup ({ns[i] : i \in 1 .. k} \cap Nodes)
           P == {k \in 0 .. Len(ns) : Good(k)}
<1>3. Good(0)
  BY <1>1, <1>2
<1>4. ASSUME NEW k \in 1 .. Len(ns), Good(k - 1) PROVE Good(k)
  <2>1. f[k] = Seen(f[k - 1], ns[k]) /\ ns[k] \in Nat
    BY <1>2
  <2>2. /\ Fresh(f[k]) /\ Len(f[k - 1]) <= Len(f[k])
        /\ \A i \in 1 .. Len(f[k - 1]) : f[k][i] = f[k - 1][i]
        /\ Elems(f[k]) = Elems(f[k - 1]) \cup ({ns[k]} \cap Nodes)
    BY <1>4, <2>1, SeenIsFresh
  <2>3. Len(f[k]) \in Nat /\ Len(f[k - 1]) \in Nat
    BY <1>4, <2>2 DEF Fresh
  <2>4. {ns[i] : i \in 1 .. k} = {ns[i] : i \in 1 .. k - 1} \cup {ns[k]}
    <3>1. 1 .. k = (1 .. k - 1) \cup {k}
      OBVIOUS
    <3>2. QED
      BY <3>1
  <2>5. Elems(f[k]) = Elems(q) \cup ({ns[i] : i \in 1 .. k} \cap Nodes)
    BY <1>4, <2>2, <2>4
  <2>6. QED
    BY <1>1, <1>4, <2>2, <2>3, <2>5
<1> HIDE DEF Good
<1>5. 0 \in P /\ \A k \in 1 .. Len(ns) : k - 1 \in P => k \in P
  BY <1>1, <1>3, <1>4
<1>6. Good(Len(ns))
  <2> HIDE DEF P
  <2>1. \A k \in 0 .. Len(ns) : k \in P
    BY <1>1, <1>5, IntervalInduction
  <2>2. QED
    BY <1>1, <2>1 DEF P
<1>7. Elems(ns) = {ns[i] : i \in 1 .. Len(ns)}
  BY DEF Elems
<1>8. QED
  BY <1>2, <1>6, <1>7 DEF Good

ClosedUnder(changed, S) ==
  \A n \in Nodes : n \in Elems(changed) \/ Elems(deps[n]) \cap S # {} => n \in S

(* The queue after k nodes have been expanded. *)
Explored(changed, q, k) ==
  /\ Fresh(q) /\ Elems(changed) \cap Nodes \subseteq Elems(q)
  /\ \A i \in 1 .. Len(q) : i <= k => Elems(dependents[q[i]]) \subseteq Elems(q)
  /\ \A S \in SUBSET Nodes : ClosedUnder(changed, S) => Elems(q) \subseteq S

LEMMA ExpandIsFresh ==
  ASSUME GraphInv, NEW q, Fresh(q), NEW k \in Nat \ {0}
  PROVE  Fresh(Expand(q, k))
<1>1. CASE k > Len(q)
  BY <1>1 DEF Expand
<1>2. CASE ~(k > Len(q))
  <2>1. q[k] \in Nodes
    BY <1>2 DEF Fresh
  <2>2. dependents[q[k]] \in Seq(Nat)
    BY <2>1 DEF GraphInv, EdgesMirror, Nodes
  <2>3. QED
    BY <1>2, <2>2, SeeIsFresh DEF Expand
<1>3. QED
  BY <1>1, <1>2

LEMMA ExpandExplores ==
  ASSUME GraphInv, NEW changed, NEW k \in Nat \ {0}, NEW q, Explored(changed, q, k - 1)
  PROVE  Explored(changed, Expand(q, k), k)
<1>0. Fresh(q) /\ q \in Seq(Nodes) /\ Len(q) \in Nat
  BY DEF Explored, Fresh
<1>1. CASE k > Len(q)
  <2>1. \A i \in 1 .. Len(q) : i <= k - 1
    BY <1>0, <1>1
  <2>2. QED
    BY <1>1, <2>1 DEF Expand, Explored
<1>2. CASE ~(k > Len(q))
  <2> DEFINE r == See(q, dependents[q[k]])
  <2>1. q[k] \in Nodes /\ k \in 1 .. Len(q)
    BY <1>0, <1>2
  <2>2. dependents[q[k]] \in Seq(Nat)
    BY <2>1 DEF GraphInv, EdgesMirror, Nodes
  <2>3. /\ Fresh(r) /\ Len(q) <= Len(r) /\ \A i \in 1 .. Len(q) : r[i] = q[i]
        /\ Elems(r) = Elems(q) \cup (Elems(dependents[q[k]]) \cap Nodes)
    BY <1>0, <2>2, SeeIsFresh
  <2> HIDE DEF r
  <2>4. Elems(dependents[q[k]]) \subseteq Nodes
    BY <2>1 DEF GraphInv, EdgesMirror
  <2>5. ASSUME NEW i \in 1 .. Len(r), i <= k PROVE Elems(dependents[r[i]]) \subseteq Elems(r)
    <3>1. i \in 1 .. Len(q) /\ r[i] = q[i] /\ Len(r) \in Nat
      BY <1>0, <2>1, <2>3, <2>5 DEF Fresh
    <3>2. CASE i = k
      BY <2>3, <2>4, <3>1, <3>2
    <3>3. CASE i # k
      <4>1. i <= k - 1
        BY <2>5, <3>3
      <4>2. Elems(dependents[q[i]]) \subseteq Elems(q)
        BY <3>1, <4>1 DEF Explored
      <4>3. QED
        BY <2>3, <3>1, <4>2
    <3>4. QED
      BY <3>2, <3>3
  <2>6. ASSUME NEW S \in SUBSET Nodes, ClosedUnder(changed, S) PROVE Elems(r) \subseteq S
    <3>1. Elems(q) \subseteq S
      BY <2>6 DEF Explored
    <3>2. q[k] \in S
      BY <1>0, <2>1, <3>1 DEF Elems
    <3>3. ASSUME NEW e \in Elems(dependents[q[k]]) PROVE e \in S
      <4>1. e \in Nodes /\ q[k] \in Elems(deps[e])
        BY <2>1, <2>4 DEF GraphInv, EdgesMirror
      <4>2. QED
        BY <2>6, <3>2, <4>1 DEF ClosedUnder
    <3>4. QED
      BY <2>3, <3>1, <3>3
  <2>7. r = Expand(q, k)
    BY <1>2 DEF Expand, r
  <2>8. Elems(changed) \cap Nodes \subseteq Elems(r)
    BY <2>3 DEF Explored
  <2>9. QED
    BY <2>3, <2>5, <2>6, <2>7, <2>8 DEF Explored
<1>3. QED
  BY <1>1, <1>2

LEMMA WalkUnfolds ==
  ASSUME GraphInv, NEW changed \in Seq(Nat)
  PROVE  \E f : /\ affected_nodes(changed) = f[Len(deps)] /\ f[0] = See(<<>>, changed)
                /\ \A k \in 1 .. Len(deps) : f[k] = Expand(f[k - 1], k)
<1> DEFINE X == {q \in Seq(Nodes) : Injective(q)}
           n == Len(deps)
           base == See(<<>>, changed)
           F == [p \in X \X (1 .. n) |-> Expand(p[1], p[2])]
           Body(h) == [k \in 0 .. Len(deps) |-> IF k = 0 THEN See(<<>>, changed) ELSE Expand(h[k - 1], k)]
<1>0. \A q : q \in X <=> Fresh(q)
  BY DEF Fresh
<1>1. n \in Nat /\ n = Len(deps)
  BY DEF GraphInv
<1>2. base \in X
  <2>1. Fresh(<<>>)
    BY DEF Fresh, Injective
  <2>2. QED
    BY <1>0, <2>1, SeeIsFresh
<1> HIDE DEF X, n
<1>3. \A q \in X, k \in 1 .. n : Expand(q, k) \in X
  BY <1>0, <1>1, ExpandIsFresh
<1>4. F \in [X \X (1 .. n) -> X]
  BY <1>3
<1>5. \A q \in X, k \in 1 .. n : F[<<q, k>>] = Expand(q, k)
  OBVIOUS
<1> HIDE DEF F, base
<1>6. PICK h \in [0 .. n -> X] : h[0] = base /\ \A k \in 1 .. n : h[k] = F[<<h[k - 1], k>>]
  <2>1. Recursive(n, X, base, F)
    BY <1>1, <1>2, <1>4, RecursionExists
  <2>2. QED
    BY <2>1, Zenon DEF Recursive
<1>7. h = Body(h)
  <2>1. ASSUME NEW k \in 0 .. n PROVE h[k] = Body(h)[k]
    <3>1. CASE k = 0
      BY <1>1, <1>6, <3>1 DEF base
    <3>2. CASE k # 0
      <4>1. k \in 1 .. n /\ k - 1 \in 0 .. n
        BY <1>1, <3>2
      <4>2. QED
        BY <1>1, <1>5, <1>6, <3>2, <4>1
    <3>3. QED
      BY <3>1, <3>2
  <2> HIDE DEF Body
  <2>2. DOMAIN Body(h) = 0 .. n /\ Body(h) = [k \in 0 .. n |-> Body(h)[k]]
    BY <1>1 DEF Body
  <2>3. h = [k \in 0 .. n |-> h[k]]
    BY <1>6
  <2>4. QED
    BY <2>1, <2>2, <2>3
<1> DEFINE f == CHOOSE w : w = Body(w)
<1>8. f = Body(f)
  BY <1>7, Zenon
<1>9. affected_nodes(changed) = f[Len(deps)]
  BY DEF affected_nodes
<1> HIDE DEF f
<1>10. f[0] = See(<<>>, changed)
  BY <1>1, <1>8
<1>11. ASSUME NEW k \in 1 .. Len(deps) PROVE f[k] = Expand(f[k - 1], k)
  <2>1. k \in 0 .. Len(deps) /\ k # 0
    BY <1>1
  <2>2. Body(f)[k] = Expand(f[k - 1], k)
    BY <2>1
  <2> HIDE DEF Body
  <2>3. QED
    BY <1>8, <2>2
<1>12. QED
  BY <1>9, <1>10, <1>11

(* A list without repetitions is as long as the set of its members, and of *)
(* nodes not longer than there are nodes.                                  *)
LEMMA FreshLength ==
  ASSUME GraphInv, NEW q, Fresh(q)
  PROVE  /\ Len(q) = Cardinality(Elems(q)) /\ Len(q) <= Len(deps)
         /\ Len(q) = Len(deps) => Elems(q) = Nodes
<1>1. Len(q) \in Nat /\ Len(deps) \in Nat /\ DOMAIN q = 1 .. Len(q) /\ Nodes = 1 .. Len(deps)
  BY DEF Fresh, GraphInv, Nodes
<1>2. q \in [1 .. Len(q) -> Nodes] /\ \A i, j \in 1 .. Len(q) : q[i] = q[j] => i = j
  BY DEF Fresh, Injective
<1>3. Elems(q) = {q[i] : i \in 1 .. Len(q)} /\ Elems(q) \subseteq Nodes
  BY <1>1, <1>2 DEF Elems
<1>4. IsFiniteSet(Nodes) /\ Cardinality(Nodes) = Len(deps) /\ Cardinality(1 .. Len(q)) = Len(q)
      /\ IsFiniteSet(1 .. Len(q))
  <2>1. \A n \in Nat : IsFiniteSet(1 .. n) /\ Cardinality(1 .. n) = n
    BY FS_Interval
  <2>3. QED
    BY <1>1, <2>1
<1>5. q \in Injection(1 .. Len(q), Nodes)
  BY <1>2 DEF Injection, IsInjective
<1>6. Len(q) <= Len(deps) /\ (Len(q) = Len(deps) => q \in Surjection(1 .. Len(q), Nodes))
  BY <1>4, <1>5, FS_Injection
<1>7. q \in Bijection(1 .. Len(q), Elems(q))
  <2>1. q \in [1 .. Len(q) -> Elems(q)]
    BY <1>2, <1>3
  <2>2. \A e \in Elems(q) : \E i \in 1 .. Len(q) : q[i] = e
    BY <1>3
  <2>3. QED
    BY <1>2, <2>1, <2>2 DEF Bijection, Injection, Surjection, IsInjective
<1>8. Len(q) = Cardinality(Elems(q))
  <2>1. ExistsBijection(1 .. Len(q), Elems(q))
    BY <1>7 DEF ExistsBijection
  <2>2. QED
    BY <1>4, <2>1, FS_Bijection
<1>9. ASSUME Len(q) = Len(deps) PROVE Elems(q) = Nodes
  BY <1>3, <1>6, <1>9 DEF Surjection
<1>10. QED
  BY <1>6, <1>8, <1>9

LEMMA WalkExplores ==
  ASSUME GraphInv, NEW changed \in Seq(Nat)
  PROVE  Explored(changed, affected_nodes(changed), Len(deps))
<1>1. PICK f : /\ affected_nodes(changed) = f[Len(deps)] /\ f[0] = See(<<>>, changed)
               /\ \A k \in 1 .. Len(deps) : f[k] = Expand(f[k - 1], k)
  BY WalkUnfolds
<1>2. Explored(changed, f[0], 0)
  <2> DEFINE q == See(<<>>, changed)
  <2>1. Fresh(<<>>) /\ Elems(<<>>) = {}
    BY DEF Fresh, Injective, Elems
  <2>2. Fresh(q) /\ Elems(q) = Elems(changed) \cap Nodes
    BY <2>1, SeeIsFresh
  <2> HIDE DEF q
  <2>3. \A i \in 1 .. Len(q) : ~(i <= 0)
    BY <2>2 DEF Fresh
  <2>4. \A S \in SUBSET Nodes : ClosedUnder(changed, S) => Elems(q) \subseteq S
    BY <2>2 DEF ClosedUnder
  <2>5. Explored(changed, q, 0)
    BY <2>2, <2>3, <2>4 DEF Explored
  <2>6. QED
    BY <1>1, <2>5 DEF q
<1> DEFINE P == {k \in 0 .. Len(deps) : Explored(changed, f[k], k)}
<1>3. Len(deps) \in Nat
  BY DEF GraphInv
<1>4. ASSUME NEW k \in 1 .. Len(deps), k - 1 \in P PROVE k \in P
  BY <1>1, <1>4, ExpandExplores
<1>5. 0 \in P /\ \A k \in 1 .. Len(deps) : k - 1 \in P => k \in P
  BY <1>2, <1>3, <1>4
<1>6. Explored(changed, f[Len(deps)], Len(deps))
  <2> HIDE DEF P
  <2>1. \A k \in 0 .. Len(deps) : k \in P
    BY <1>3, <1>5, IntervalInduction
  <2>2. QED
    BY <1>3, <2>1 DEF P
<1>7. QED
  BY <1>1, <1>6

LEMMA AffectedExactly == GraphInv => AffectedIsExact
<1> SUFFICES ASSUME GraphInv, NEW k \in 0 .. MaxKeep, NEW changed \in [1 .. k -> 1 .. MaxNodes]
             PROVE  LET affected == affected_nodes(changed)
                        Closed(S) == \A n \in Nodes : n \in Elems(changed) \/ Elems(deps[n]) \cap S # {} => n \in S
                    IN  /\ Len(affected) = Cardinality(Elems(affected))
                        /\ Closed(Elems(affected))
                        /\ \A S \in SUBSET Nodes : Closed(S) => Elems(affected) \subseteq S
  BY DEF AffectedIsExact
<1> DEFINE q == affected_nodes(changed)
<1>1. changed \in Seq(Nat)
  OBVIOUS
<1>2. Explored(changed, q, Len(deps))
  BY <1>1, WalkExplores
<1> HIDE DEF q
<1>3. Fresh(q) /\ q \in Seq(Nodes) /\ Len(q) \in Nat
  BY <1>2 DEF Explored, Fresh
<1>4. Len(q) = Cardinality(Elems(q)) /\ Len(q) <= Len(deps)
  BY <1>3, FreshLength
<1>5. \A i \in 1 .. Len(q) : Elems(dependents[q[i]]) \subseteq Elems(q)
  <2>1. \A i \in 1 .. Len(q) : i <= Len(deps)
    BY <1>3, <1>4 DEF GraphInv
  <2>2. QED
    BY <1>2, <2>1 DEF Explored
<1>6. ClosedUnder(changed, Elems(q))
  <2> SUFFICES ASSUME NEW n \in Nodes, n \in Elems(changed) \/ Elems(deps[n]) \cap Elems(q) # {}
               PROVE  n \in Elems(q)
    BY DEF ClosedUnder
  <2>1. CASE n \in Elems(changed)
    BY <1>2, <2>1 DEF Explored
  <2>2. CASE Elems(deps[n]) \cap Elems(q) # {}
    <3>1. PICK d \in Elems(deps[n]) : d \in Elems(q)
      BY <2>2
    <3>2. PICK i \in 1 .. Len(q) : d = q[i]
      BY <1>3, <3>1 DEF Elems
    <3>3. d \in Nodes /\ n \in Elems(dependents[d])
      BY <3>1 DEF GraphInv, EdgesMirror
    <3>4. QED
      BY <1>5, <3>2, <3>3
  <2>3. QED
    BY <2>1, <2>2
<1>7. \A S \in SUBSET Nodes : ClosedUnder(changed, S) => Elems(q) \subseteq S
  BY <1>2 DEF Explored
<1>8. QED
  BY <1>4, <1>6, <1>7 DEF ClosedUnder, q

-----------------------------------------------------------------------------
(* The members of a list that are in a set. *)
KeptOne(s, S, e) == IF e \in S THEN Append(s, e) ELSE s

LEMMA KeptUnfolds ==
  ASSUME NEW s \in Seq(Nat), NEW S
  PROVE  \E f : /\ Kept(s, S) = f[Len(s)] /\ f[0] = <<>>
                /\ \A i \in 1 .. Len(s) : f[i] = KeptOne(f[i - 1], S, s[i])
<1> DEFINE F == [p \in Seq(Nat) \X (1 .. Len(s)) |-> KeptOne(p[1], S, s[p[2]])]
           Body(h) == [i \in 0 .. Len(s) |-> IF i = 0 THEN <<>>
                                             ELSE IF s[i] \in S THEN Append(h[i - 1], s[i]) ELSE h[i - 1]]
<1>1. \A q \in Seq(Nat), i \in 1 .. Len(s) : KeptOne(q, S, s[i]) \in Seq(Nat)
  BY DEF KeptOne
<1>2. F \in [Seq(Nat) \X (1 .. Len(s)) -> Seq(Nat)]
  BY <1>1
<1>3. \A q \in Seq(Nat), i \in 1 .. Len(s) : F[<<q, i>>] = KeptOne(q, S, s[i])
  OBVIOUS
<1> HIDE DEF F
<1>4. PICK h \in [0 .. Len(s) -> Seq(Nat)] :
        h[0] = <<>> /\ \A i \in 1 .. Len(s) : h[i] = F[<<h[i - 1], i>>]
  <2>1. Len(s) \in Nat /\ <<>> \in Seq(Nat)
    OBVIOUS
  <2>2. Recursive(Len(s), Seq(Nat), <<>>, F)
    BY <1>2, <2>1, RecursionExists
  <2>3. QED
    BY <2>2, Zenon DEF Recursive
<1>5. h = Body(h)
  <2>1. ASSUME NEW i \in 0 .. Len(s) PROVE h[i] = Body(h)[i]
    <3>1. CASE i = 0
      BY <1>4, <3>1
    <3>2. CASE i # 0
      <4>1. i \in 1 .. Len(s) /\ i - 1 \in 0 .. Len(s)
        BY <3>2
      <4>2. h[i] = KeptOne(h[i - 1], S, s[i])
        BY <1>3, <1>4, <4>1
      <4>3. QED
        BY <3>2, <4>1, <4>2 DEF KeptOne
    <3>3. QED
      BY <3>1, <3>2
  <2> HIDE DEF Body
  <2>2. DOMAIN Body(h) = 0 .. Len(s) /\ Body(h) = [i \in 0 .. Len(s) |-> Body(h)[i]]
    BY DEF Body
  <2>3. h = [i \in 0 .. Len(s) |-> h[i]]
    BY <1>4
  <2>4. QED
    BY <2>1, <2>2, <2>3
<1> DEFINE f == CHOOSE k : k = Body(k)
<1>6. f = Body(f)
  BY <1>5, Zenon
<1>7. Kept(s, S) = f[Len(s)]
  BY DEF Kept
<1> HIDE DEF f
<1>8. f[0] = <<>>
  BY <1>6
<1>9. ASSUME NEW i \in 1 .. Len(s) PROVE f[i] = KeptOne(f[i - 1], S, s[i])
  <2>1. i \in 0 .. Len(s) /\ i # 0
    OBVIOUS
  <2>2. Body(f)[i] = KeptOne(f[i - 1], S, s[i])
    BY <2>1 DEF KeptOne
  <2> HIDE DEF Body
  <2>3. QED
    BY <1>6, <2>2
<1>10. QED
  BY <1>7, <1>8, <1>9

LEMMA KeptIs ==
  ASSUME NEW s \in Seq(Nat), NEW S
  PROVE  /\ Kept(s, S) \in Seq(Nat) /\ Elems(Kept(s, S)) = Elems(s) \cap S
         /\ Injective(s) => Injective(Kept(s, S))
<1>1. PICK f : /\ Kept(s, S) = f[Len(s)] /\ f[0] = <<>>
               /\ \A i \in 1 .. Len(s) : f[i] = KeptOne(f[i - 1], S, s[i])
  BY KeptUnfolds
<1> DEFINE Good(k) == /\ f[k] \in Seq(Nat)
                      /\ Elems(f[k]) = {s[i] : i \in 1 .. k} \cap S
                      /\ Injective(s) => Injective(f[k])
           P == {k \in 0 .. Len(s) : Good(k)}
<1>2. Good(0)
  BY <1>1 DEF Elems, Injective
<1>3. ASSUME NEW k \in 1 .. Len(s), Good(k - 1) PROVE Good(k)
  <2>1. f[k] = KeptOne(f[k - 1], S, s[k]) /\ s[k] \in Nat
    BY <1>1
  <2>2. {s[i] : i \in 1 .. k} = {s[i] : i \in 1 .. k - 1} \cup {s[k]}
    <3>1. 1 .. k = (1 .. k - 1) \cup {k}
      OBVIOUS
    <3>2. QED
      BY <3>1
  <2>3. CASE s[k] \in S
    <3>1. f[k] = Append(f[k - 1], s[k])
      BY <2>1, <2>3 DEF KeptOne
    <3>2. f[k] \in Seq(Nat) /\ Elems(f[k]) = Elems(f[k - 1]) \cup {s[k]}
      BY <1>3, <2>1, <3>1, ElemsAppend
    <3>3. Elems(f[k]) = {s[i] : i \in 1 .. k} \cap S
      BY <1>3, <2>2, <2>3, <3>2
    <3>4. ASSUME Injective(s) PROVE Injective(f[k])
      <4>1. s[k] \notin {s[i] : i \in 1 .. k - 1}
        BY <3>4 DEF Injective
      <4>2. s[k] \notin Elems(f[k - 1])
        BY <1>3, <4>1
      <4>3. QED
        BY <1>3, <2>1, <3>1, <3>4, <4>2, InjectiveAppend
    <3>5. QED
      BY <3>2, <3>3, <3>4
  <2>4. CASE s[k] \notin S
    <3>1. f[k] = f[k - 1]
      BY <2>1, <2>4 DEF KeptOne
    <3>2. QED
      BY <1>3, <2>2, <2>4, <3>1
  <2>5. QED
    BY <2>3, <2>4
<1> HIDE DEF Good
<1>4. 0 \in P /\ \A k \in 1 .. Len(s) : k - 1 \in P => k \in P
  BY <1>2, <1>3
<1>5. Good(Len(s))
  <2> HIDE DEF P
  <2>1. Len(s) \in Nat
    OBVIOUS
  <2>2. \A k \in 0 .. Len(s) : k \in P
    BY <1>4, <2>1, IntervalInduction
  <2>3. QED
    BY <2>1, <2>2 DEF P
<1>6. Elems(s) = {s[i] : i \in 1 .. Len(s)}
  BY DEF Elems
<1>7. QED
  BY <1>1, <1>5, <1>6 DEF Good

-----------------------------------------------------------------------------
(* topological_order.                                                      *)
(* How many of its edges a node still waits for.                           *)
Remaining(n, D) == Cardinality({j \in 1 .. Len(deps[n]) : deps[n][j] \notin D})

LEMMA RemainingIs ==
  ASSUME GraphInv, NEW n \in Nodes, NEW D
  PROVE  /\ IsFiniteSet({j \in 1 .. Len(deps[n]) : deps[n][j] \notin D})
         /\ Remaining(n, D) \in Nat
         /\ Remaining(n, D) = 0 <=> Elems(deps[n]) \subseteq D
<1> DEFINE R == {j \in 1 .. Len(deps[n]) : deps[n][j] \notin D}
<1>1. deps[n] \in Seq(Nat) /\ Len(deps[n]) \in Nat
  BY DEF GraphInv, Nodes
<1>2. IsFiniteSet(1 .. Len(deps[n]))
  BY <1>1, FS_Interval
<1>3. IsFiniteSet(R)
  BY <1>2, FS_Subset
<1>4. Cardinality(R) \in Nat /\ (Cardinality(R) = 0 <=> R = {})
  BY <1>3, FS_CardinalityType, FS_EmptySet
<1>5. R = {} <=> Elems(deps[n]) \subseteq D
  BY <1>1 DEF Elems
<1>6. QED
  BY <1>3, <1>4, <1>5 DEF Remaining

LEMMA RemainingDrops ==
  ASSUME GraphInv, NEW n \in Nodes, NEW D, NEW v \in Nat, v \notin D
  PROVE  Remaining(n, D) = Remaining(n, D \cup {v}) + Times(deps[n], v)
<1> DEFINE R == {j \in 1 .. Len(deps[n]) : deps[n][j] \notin D}
           Q == {j \in 1 .. Len(deps[n]) : deps[n][j] \notin D \cup {v}}
           V == {j \in 1 .. Len(deps[n]) : deps[n][j] = v}
<1>1. deps[n] \in Seq(Nat)
  BY DEF GraphInv, Nodes
<1>2. IsFiniteSet(Q) /\ IsFiniteSet(V)
  BY <1>1, RemainingIs, TimesIs
<1>3. R = Q \cup V /\ Q \cap V = {}
  OBVIOUS
<1>4. Remaining(n, D) = Cardinality(R) /\ Remaining(n, D \cup {v}) = Cardinality(Q)
      /\ Times(deps[n], v) = Cardinality(V)
  BY DEF Remaining, Times
<1> HIDE DEF R, Q, V
<1>5. Cardinality(Q \cup V) = Cardinality(Q) + Cardinality(V) - Cardinality(Q \cap V)
  BY <1>2, FS_Union
<1>6. Cardinality(Q \cap V) = 0 /\ Cardinality(Q) \in Nat /\ Cardinality(V) \in Nat
  BY <1>2, <1>3, FS_EmptySet, FS_CardinalityType
<1>7. QED
  BY <1>3, <1>4, <1>5, <1>6

(* How often a list has a member after its first i. *)
Ahead(s, i, e) == Cardinality({k \in i + 1 .. Len(s) : s[k] = e})

LEMMA AheadIs ==
  ASSUME NEW s \in Seq(Nat), NEW e
  PROVE  /\ \A i \in 0 .. Len(s) : Ahead(s, i, e) \in Nat
         /\ Ahead(s, 0, e) = Times(s, e) /\ Ahead(s, Len(s), e) = 0
         /\ \A i \in 1 .. Len(s) : Ahead(s, i - 1, e) = Ahead(s, i, e) + (IF s[i] = e THEN 1 ELSE 0)
<1> DEFINE D(i) == {k \in i + 1 .. Len(s) : s[k] = e}
<1>0. Len(s) \in Nat
  OBVIOUS
<1>1. ASSUME NEW i \in 0 .. Len(s) PROVE IsFiniteSet(D(i)) /\ Cardinality(D(i)) \in Nat
  <2>1. IsFiniteSet(1 .. Len(s))
    BY <1>0, FS_Interval
  <2>2. D(i) \subseteq 1 .. Len(s)
    BY <1>0
  <2> HIDE DEF D
  <2>3. IsFiniteSet(D(i))
    BY <2>1, <2>2, FS_Subset
  <2>4. Cardinality(D(i)) \in Nat
    BY <2>3, FS_CardinalityType
  <2>5. QED
    BY <2>3, <2>4
<1>2. Ahead(s, 0, e) = Times(s, e)
  BY DEF Ahead, Times
<1>3. Ahead(s, Len(s), e) = 0
  <2>1. {k \in Len(s) + 1 .. Len(s) : s[k] = e} = {}
    BY <1>0
  <2>2. QED
    BY <2>1, FS_EmptySet DEF Ahead
<1>4. ASSUME NEW i \in 1 .. Len(s)
      PROVE  Ahead(s, i - 1, e) = Ahead(s, i, e) + (IF s[i] = e THEN 1 ELSE 0)
  <2>1. D(i - 1) = (IF s[i] = e THEN D(i) \cup {i} ELSE D(i)) /\ i \notin D(i)
    <3>1. (i - 1) + 1 = i /\ i \in 1 .. Len(s) /\ i .. Len(s) = {i} \cup (i + 1 .. Len(s))
      BY <1>0
    <3>2. i \notin i + 1 .. Len(s)
      OBVIOUS
    <3>3. QED
      BY <3>1, <3>2
  <2>2. IsFiniteSet(D(i)) /\ Cardinality(D(i)) \in Nat
    <3> HIDE DEF D
    <3>1. i \in 0 .. Len(s)
      OBVIOUS
    <3>2. QED
      BY <1>1, <3>1
  <2>3. Ahead(s, i - 1, e) = Cardinality(D(i - 1)) /\ Ahead(s, i, e) = Cardinality(D(i))
    BY DEF Ahead
  <2> HIDE DEF D
  <2>4. CASE s[i] = e
    <3>1. D(i - 1) = D(i) \cup {i}
      BY <2>1, <2>4
    <3>2. Cardinality(D(i) \cup {i}) = Cardinality(D(i)) + 1
      BY <2>1, <2>2, FS_AddElement
    <3>3. QED
      BY <2>3, <2>4, <3>1, <3>2
  <2>5. CASE s[i] # e
    BY <2>1, <2>2, <2>3, <2>5
  <2>6. QED
    BY <2>4, <2>5
<1>5. \A i \in 0 .. Len(s) : Ahead(s, i, e) \in Nat
  BY <1>1 DEF Ahead
<1>6. QED
  BY <1>2, <1>3, <1>4, <1>5

(* The count of each node and the queue, as the edges are taken. *)
Counts == [left : [Nodes -> Int], ready : Seq(Nodes)]

LEMMA DropIs ==
  ASSUME NEW s \in Counts, NEW e \in Nodes
  PROVE  /\ Drop(s, e) \in Counts
         /\ Drop(s, e).left[e] = s.left[e] - 1
         /\ \A n \in Nodes : n # e => Drop(s, e).left[n] = s.left[n]
         /\ Drop(s, e).ready = IF Drop(s, e).left[e] = 0 THEN Append(s.ready, e) ELSE s.ready
<1> DEFINE left == [s.left EXCEPT ![e] = @ - 1]
           ready == IF left[e] = 0 THEN Append(s.ready, e) ELSE s.ready
<1>1. s.left \in [Nodes -> Int] /\ s.ready \in Seq(Nodes)
  BY DEF Counts
<1>2. /\ left \in [Nodes -> Int] /\ left[e] = s.left[e] - 1
      /\ \A n \in Nodes : n # e => left[n] = s.left[n]
  BY <1>1
<1> HIDE DEF left
<1>3. ready \in Seq(Nodes)
  BY <1>1
<1>4. Drop(s, e) = [left |-> left, ready |-> ready]
  BY DEF Drop, left
<1> HIDE DEF ready
<1>5. Drop(s, e) \in Counts /\ Drop(s, e).left = left /\ Drop(s, e).ready = ready
  BY <1>2, <1>3, <1>4 DEF Counts
<1>6. QED
  BY <1>2, <1>5 DEF ready

LEMMA VisitUnfolds ==
  ASSUME NEW s, s.left \in [Nodes -> Int], s.ready \in Seq(Nodes), s.ready # <<>>,
         dependents[Head(s.ready)] \in Seq(Nodes)
  PROVE  LET ds == dependents[Head(s.ready)] IN
         \E f : /\ Visit(s) = [left |-> f[Len(ds)].left, ready |-> f[Len(ds)].ready,
                               order |-> Append(s.order, Head(s.ready))]
                /\ f[0] = [left |-> s.left, ready |-> Tail(s.ready)]
                /\ \A i \in 1 .. Len(ds) : f[i] = Drop(f[i - 1], ds[i])
<1> DEFINE ds == dependents[Head(s.ready)]
           base == [left |-> s.left, ready |-> Tail(s.ready)]
           F == [p \in Counts \X (1 .. Len(ds)) |-> Drop(p[1], ds[p[2]])]
           Body(h) == [i \in 0 .. Len(ds) |->
                         IF i = 0 THEN [left |-> s.left, ready |-> Tail(s.ready)] ELSE Drop(h[i - 1], ds[i])]
<1>0. ds \in Seq(Nodes) /\ Len(ds) \in Nat
  OBVIOUS
<1>1. base \in Counts
  <2>1. Tail(s.ready) \in Seq(Nodes)
    OBVIOUS
  <2>2. QED
    BY <2>1 DEF Counts
<1> DEFINE f == CHOOSE after : after = Body(after)
<1>7. Visit(s) = [left |-> f[Len(ds)].left, ready |-> f[Len(ds)].ready,
                  order |-> Append(s.order, Head(s.ready))]
  BY Zenon DEF Visit
<1> HIDE DEF ds, f
<1>2. \A c \in Counts, i \in 1 .. Len(ds) : Drop(c, ds[i]) \in Counts
  <2>1. \A i \in 1 .. Len(ds) : ds[i] \in Nodes
    BY <1>0
  <2>2. QED
    BY <2>1, DropIs, Zenon
<1>3. F \in [Counts \X (1 .. Len(ds)) -> Counts]
  BY <1>2
<1>4. \A c \in Counts, i \in 1 .. Len(ds) : F[<<c, i>>] = Drop(c, ds[i])
  OBVIOUS
<1> HIDE DEF F, base
<1>5. PICK h \in [0 .. Len(ds) -> Counts] :
        h[0] = base /\ \A i \in 1 .. Len(ds) : h[i] = F[<<h[i - 1], i>>]
  <2>1. Recursive(Len(ds), Counts, base, F)
    BY <1>0, <1>1, <1>3, RecursionExists
  <2>2. QED
    BY <2>1, Zenon DEF Recursive
<1>6. h = Body(h)
  <2>1. ASSUME NEW i \in 0 .. Len(ds) PROVE h[i] = Body(h)[i]
    <3>1. CASE i = 0
      BY <1>5, <3>1 DEF base
    <3>2. CASE i # 0
      <4>1. i \in 1 .. Len(ds) /\ i - 1 \in 0 .. Len(ds)
        BY <1>0, <3>2
      <4>2. QED
        BY <1>4, <1>5, <3>2, <4>1
    <3>3. QED
      BY <3>1, <3>2
  <2> HIDE DEF Body
  <2>2. DOMAIN Body(h) = 0 .. Len(ds) /\ Body(h) = [i \in 0 .. Len(ds) |-> Body(h)[i]]
    BY DEF Body
  <2>3. h = [i \in 0 .. Len(ds) |-> h[i]]
    BY <1>5
  <2>4. QED
    BY <2>1, <2>2, <2>3
<1>8. f = Body(f)
  BY <1>6, Zenon DEF f
<1>9. f[0] = [left |-> s.left, ready |-> Tail(s.ready)]
  BY <1>0, <1>8
<1>10. ASSUME NEW i \in 1 .. Len(ds) PROVE f[i] = Drop(f[i - 1], ds[i])
  <2>1. i \in 0 .. Len(ds) /\ i # 0
    BY <1>0
  <2>2. Body(f)[i] = Drop(f[i - 1], ds[i])
    BY <2>1
  <2> HIDE DEF Body
  <2>3. QED
    BY <1>8, <2>2
<1>11. QED
  BY <1>7, <1>9, <1>10 DEF ds

(* Every edge of the visited node is taken off once, and a node is queued  *)
(* with its last.                                                          *)
(* T is what is left of each node once v, at the head, has been visited.   *)
BeforeVisit(s, ds, T, rest) ==
  /\ s.left \in [Nodes -> Int] /\ s.ready \in Seq(Nodes) /\ s.ready # <<>>
  /\ ds \in Seq(Nodes) /\ ds = dependents[Head(s.ready)]
  /\ T \in [Nodes -> Nat] /\ \A n \in Nodes : s.left[n] = T[n] + Times(ds, n)
  /\ rest = Tail(s.ready) /\ Injective(rest)
  /\ \A n \in Elems(rest) : s.left[n] = 0

LEMMA VisitCounts ==
  ASSUME NEW s, NEW ds, NEW T, NEW rest, BeforeVisit(s, ds, T, rest)
  PROVE  /\ Visit(s).left \in [Nodes -> Int] /\ \A n \in Nodes : Visit(s).left[n] = T[n]
         /\ Fresh(Visit(s).ready)
         /\ Elems(Visit(s).ready) = Elems(rest) \cup {n \in Nodes : s.left[n] # 0 /\ T[n] = 0}
         /\ Visit(s).order = Append(s.order, Head(s.ready))
<1> USE DEF BeforeVisit
<1>1. PICK f : /\ Visit(s) = [left |-> f[Len(ds)].left, ready |-> f[Len(ds)].ready,
                               order |-> Append(s.order, Head(s.ready))]
               /\ f[0] = [left |-> s.left, ready |-> Tail(s.ready)]
               /\ \A i \in 1 .. Len(ds) : f[i] = Drop(f[i - 1], ds[i])
  BY VisitUnfolds
<1>2. Len(ds) \in Nat /\ ds \in Seq(Nat) /\ rest \in Seq(Nodes)
  BY NodesAreNumbers
<1> DEFINE Done(i) == {n \in Nodes : s.left[n] # 0 /\ f[i].left[n] = 0}
           Good(i) == /\ f[i] \in Counts
                      /\ \A n \in Nodes : f[i].left[n] = T[n] + Ahead(ds, i, n)
                      /\ Injective(f[i].ready)
                      /\ Elems(f[i].ready) = Elems(rest) \cup Done(i)
           P == {i \in 0 .. Len(ds) : Good(i)}
<1>3. Good(0)
  <2>1. f[0] \in Counts /\ f[0].left = s.left /\ f[0].ready = rest
    BY <1>1, <1>2 DEF Counts
  <2>2. \A n \in Nodes : Ahead(ds, 0, n) = Times(ds, n)
    BY <1>2, AheadIs
  <2>3. Done(0) = {}
    BY <2>1
  <2> HIDE DEF Done
  <2>4. QED
    BY <2>1, <2>2, <2>3
<1>4. ASSUME NEW i \in 1 .. Len(ds), Good(i - 1) PROVE Good(i)
  <2> DEFINE g == f[i - 1]
             h == f[i]
             e == ds[i]
  <2>1. /\ g \in Counts /\ \A n \in Nodes : g.left[n] = T[n] + Ahead(ds, i - 1, n)
        /\ Injective(g.ready) /\ Elems(g.ready) = Elems(rest) \cup Done(i - 1)
    BY <1>4
  <2>2. Done(i - 1) = {n \in Nodes : s.left[n] # 0 /\ g.left[n] = 0}
        /\ Done(i) = {n \in Nodes : s.left[n] # 0 /\ h.left[n] = 0}
    OBVIOUS
  <2>3. h = Drop(g, e) /\ e \in Nodes /\ e \in Nat
    <3>1. h = Drop(g, e)
      BY <1>1
    <3>2. e \in Nodes
      OBVIOUS
    <3>3. QED
      BY <3>1, <3>2, NodesAreNumbers
  <2>4. \A n \in Nodes : /\ Ahead(ds, i - 1, n) = Ahead(ds, i, n) + (IF e = n THEN 1 ELSE 0)
                         /\ Ahead(ds, i, n) \in Nat /\ Times(ds, n) \in Nat
    <3> SUFFICES ASSUME NEW n \in Nodes
                 PROVE  /\ Ahead(ds, i - 1, n) = Ahead(ds, i, n) + (IF e = n THEN 1 ELSE 0)
                        /\ Ahead(ds, i, n) \in Nat /\ Times(ds, n) \in Nat
      OBVIOUS
    <3>1. i \in 0 .. Len(ds)
      BY <1>2
    <3>2. Ahead(ds, i - 1, n) = Ahead(ds, i, n) + (IF ds[i] = n THEN 1 ELSE 0)
      BY <1>2, AheadIs
    <3>3. Ahead(ds, i, n) \in Nat /\ Times(ds, n) \in Nat
      BY <1>2, <3>1, AheadIs, TimesIs
    <3>4. QED
      BY <3>2, <3>3
  <2>5. Times(ds, e) # 0
    BY <1>2, TimesIs
  <2> HIDE DEF g, h, e, Done
  <2>6. /\ h \in Counts /\ h.left[e] = g.left[e] - 1
        /\ \A n \in Nodes : n # e => h.left[n] = g.left[n]
        /\ h.ready = IF h.left[e] = 0 THEN Append(g.ready, e) ELSE g.ready
    BY <2>1, <2>3, DropIs
  <2>7. \A n \in Nodes : T[n] \in Nat
    OBVIOUS
  <2>8. ASSUME NEW n \in Nodes PROVE h.left[n] = T[n] + Ahead(ds, i, n)
    <3>1. g.left[n] = T[n] + Ahead(ds, i - 1, n) /\ T[n] \in Nat
      BY <2>1, <2>7
    <3>2. Ahead(ds, i, n) \in Nat /\ Ahead(ds, i - 1, n) = Ahead(ds, i, n) + (IF e = n THEN 1 ELSE 0)
      BY <2>4
    <3>3. CASE n = e
      BY <2>6, <3>1, <3>2, <3>3
    <3>4. CASE n # e
      BY <2>6, <3>1, <3>2, <3>4
    <3>5. QED
      BY <3>3, <3>4
  <2>9. s.left[e] # 0 /\ g.left[e] # 0
    <3>1. s.left[e] = T[e] + Times(ds, e) /\ g.left[e] = T[e] + Ahead(ds, i - 1, e)
      BY <2>1, <2>3
    <3>2. QED
      BY <2>3, <2>4, <2>5, <2>7, <3>1
  <2>10. e \notin Elems(g.ready)
    BY <2>1, <2>2, <2>9
  <2>11. Injective(h.ready) /\ Elems(h.ready) = Elems(g.ready) \cup (IF h.left[e] = 0 THEN {e} ELSE {})
    <3>1. g.ready \in Seq(Nat)
      BY <2>1, NodesAreNumbers DEF Counts
    <3>2. CASE h.left[e] = 0
      <4>1. h.ready = Append(g.ready, e)
        BY <2>6, <3>2
      <4>2. Injective(h.ready) /\ Elems(h.ready) = Elems(g.ready) \cup {e}
        BY <2>1, <2>3, <2>10, <3>1, <4>1, InjectiveAppend, ElemsAppend
      <4>3. QED
        BY <3>2, <4>2
    <3>3. CASE h.left[e] # 0
      BY <2>1, <2>6, <3>3
    <3>4. QED
      BY <3>2, <3>3
  <2>12. Done(i) = Done(i - 1) \cup (IF h.left[e] = 0 THEN {e} ELSE {})
    <3>1. \A n \in Nodes : n # e => (n \in Done(i) <=> n \in Done(i - 1))
      BY <2>2, <2>6
    <3>2. e \in Done(i) <=> h.left[e] = 0
      BY <2>2, <2>3, <2>9
    <3>3. e \notin Done(i - 1) /\ Done(i) \subseteq Nodes /\ Done(i - 1) \subseteq Nodes
      BY <2>2, <2>9
    <3>4. QED
      BY <3>1, <3>2, <3>3
  <2>13. Elems(h.ready) = Elems(rest) \cup Done(i)
    BY <2>1, <2>11, <2>12
  <2>14. QED
    BY <2>6, <2>8, <2>11, <2>13 DEF h
<1> HIDE DEF Good
<1>5. 0 \in P /\ \A i \in 1 .. Len(ds) : i - 1 \in P => i \in P
  BY <1>2, <1>3, <1>4
<1>6. Good(Len(ds))
  <2> HIDE DEF P
  <2>1. \A i \in 0 .. Len(ds) : i \in P
    BY <1>2, <1>5, IntervalInduction
  <2>2. QED
    BY <1>2, <2>1 DEF P
<1> DEFINE r == f[Len(ds)]
<1>7. /\ r \in Counts /\ \A n \in Nodes : r.left[n] = T[n] + Ahead(ds, Len(ds), n)
      /\ Injective(r.ready)
      /\ Elems(r.ready) = Elems(rest) \cup {n \in Nodes : s.left[n] # 0 /\ r.left[n] = 0}
  BY <1>6 DEF Good
<1>8. Visit(s).left = r.left /\ Visit(s).ready = r.ready /\ Visit(s).order = Append(s.order, Head(s.ready))
  BY <1>1
<1> HIDE DEF r
<1>9. \A n \in Nodes : r.left[n] = T[n]
  <2>1. \A n \in Nodes : Ahead(ds, Len(ds), n) = 0 /\ T[n] \in Nat
    BY <1>2, AheadIs
  <2>2. QED
    BY <1>7, <2>1
<1>10. Elems(r.ready) = Elems(rest) \cup {n \in Nodes : s.left[n] # 0 /\ T[n] = 0}
  BY <1>7, <1>9
<1>11. r.left \in [Nodes -> Int] /\ Fresh(r.ready)
  BY <1>7 DEF Counts, Fresh
<1>12. QED
  BY <1>8, <1>9, <1>10, <1>11

(* Every node that waits for no other is in the order or queued, and what  *)
(* is in the order comes after its dependencies.                           *)
Below(order) ==
  \A i \in 1 .. Len(order) : \A d \in Elems(deps[order[i]]) :
    \E j \in 1 .. i - 1 : order[j] = d

Ordering(s) ==
  /\ s.left \in [Nodes -> Int] /\ Fresh(s.order) /\ Fresh(s.ready)
  /\ \A n \in Nodes : s.left[n] = Remaining(n, Elems(s.order))
  /\ Elems(s.order) \cap Elems(s.ready) = {}
  /\ \A n \in Nodes : n \in Elems(s.order) \cup Elems(s.ready) <=> s.left[n] = 0
  /\ Below(s.order)

LEMMA HeadAndTail ==
  ASSUME NEW q, Fresh(q), q # <<>>
  PROVE  /\ Head(q) \in Nodes /\ Fresh(Tail(q)) /\ Elems(Tail(q)) = Elems(q) \ {Head(q)}
         /\ Head(q) \in Elems(q)
<1>1. q \in Seq(Nodes) /\ Len(q) \in Nat /\ Len(q) # 0
  BY DEF Fresh
<1>2. Head(q) = q[1] /\ 1 \in 1 .. Len(q)
  BY <1>1
<1> DEFINE t == Tail(q)
<1>3. /\ t \in Seq(Nodes) /\ Len(t) = Len(q) - 1
      /\ \A i \in 1 .. Len(q) - 1 : t[i] = q[i + 1]
  BY <1>1
<1> HIDE DEF t
<1>4. Injective(t)
  <2> SUFFICES ASSUME NEW i \in 1 .. Len(t), NEW j \in 1 .. Len(t), t[i] = t[j] PROVE i = j
    BY DEF Injective
  <2>1. i + 1 \in 1 .. Len(q) /\ j + 1 \in 1 .. Len(q) /\ q[i + 1] = q[j + 1]
    BY <1>1, <1>3
  <2>2. i + 1 = j + 1
    BY <2>1 DEF Fresh, Injective
  <2>3. QED
    BY <1>3, <2>2
<1>5. ASSUME NEW e \in Elems(t) PROVE e \in Elems(q) \ {Head(q)}
  <2>1. PICK i \in 1 .. Len(t) : e = t[i]
    BY <1>3, <1>5 DEF Elems
  <2>2. i + 1 \in 1 .. Len(q) /\ q[i + 1] = e /\ i + 1 # 1
    BY <1>1, <1>3, <2>1
  <2>3. q[i + 1] # q[1]
    BY <1>2, <2>2 DEF Fresh, Injective
  <2>4. QED
    BY <1>1, <1>2, <2>2, <2>3 DEF Elems
<1>6. ASSUME NEW e \in Elems(q) \ {Head(q)} PROVE e \in Elems(t)
  <2>1. PICK i \in 1 .. Len(q) : e = q[i]
    BY <1>1 DEF Elems
  <2>2. i # 1
    BY <1>2, <2>1
  <2>3. i - 1 \in 1 .. Len(t) /\ (i - 1) + 1 = i
    BY <1>1, <1>3, <2>2
  <2>4. t[i - 1] = e
    BY <1>3, <2>1, <2>3
  <2>5. QED
    BY <1>3, <2>3, <2>4 DEF Elems
<1>7. Head(q) \in Nodes /\ Head(q) \in Elems(q)
  BY <1>1, <1>2 DEF Elems
<1>8. Fresh(t) /\ Elems(t) = Elems(q) \ {Head(q)}
  BY <1>3, <1>4, <1>5, <1>6 DEF Fresh
<1>9. QED
  BY <1>7, <1>8 DEF t

LEMMA VisitOrders ==
  ASSUME GraphInv, NEW s, Ordering(s), s.ready # <<>>
  PROVE  Ordering(Visit(s)) /\ Len(Visit(s).order) = Len(s.order) + 1
<1> DEFINE v == Head(s.ready)
           rest == Tail(s.ready)
           ds == dependents[v]
           D == Elems(s.order)
           T == [n \in Nodes |-> Remaining(n, D \cup {v})]
           r == Visit(s)
<1>1. /\ s.left \in [Nodes -> Int] /\ Fresh(s.order) /\ Fresh(s.ready)
      /\ \A n \in Nodes : s.left[n] = Remaining(n, D)
      /\ D \cap Elems(s.ready) = {}
      /\ \A n \in Nodes : n \in D \cup Elems(s.ready) <=> s.left[n] = 0
      /\ Below(s.order)
  BY DEF Ordering
<1>2. /\ v \in Nodes /\ Fresh(rest) /\ Elems(rest) = Elems(s.ready) \ {v} /\ v \in Elems(s.ready)
  BY <1>1, HeadAndTail
<1>3. s.ready \in Seq(Nodes)
  BY <1>1 DEF Fresh
<1> HIDE DEF v
<1>4. v \in Nat /\ v \notin D /\ s.left[v] = 0 /\ D \subseteq Nodes /\ s.order \in Seq(Nodes) /\ s.order \in Seq(Nat)
  BY <1>1, <1>2, NodesAreNumbers DEF Fresh
<1>5. ds \in Seq(Nodes)
  <2>1. dependents[v] \in Seq(Nat) /\ Elems(dependents[v]) \subseteq Nodes
    BY <1>2 DEF GraphInv, EdgesMirror, Nodes
  <2>2. \A i \in 1 .. Len(dependents[v]) : dependents[v][i] \in Nodes
    BY <2>1 DEF Elems
  <2>3. QED
    BY <2>1, <2>2
<1>6. T \in [Nodes -> Nat]
  BY RemainingIs
<1>7. ASSUME NEW n \in Nodes
      PROVE  T[n] = Remaining(n, D \cup {v}) /\ s.left[n] = T[n] + Times(ds, n) /\ Times(ds, n) \in Nat
  <2>1. Remaining(n, D) = Remaining(n, D \cup {v}) + Times(deps[n], v)
    BY <1>4, RemainingDrops
  <2>2. Times(deps[n], v) = Times(ds, n)
    BY <1>2 DEF GraphInv, EdgesCounted
  <2>3. Times(ds, n) \in Nat
    BY <1>5, NodesAreNumbers, TimesIs
  <2>4. QED
    BY <1>1, <2>1, <2>2, <2>3
<1> HIDE DEF T, D
<1>8. \A n \in Elems(rest) : s.left[n] = 0
  <2>1. Elems(rest) \subseteq Nodes
    BY <1>2, NodesAreNumbers DEF Fresh
  <2>2. QED
    BY <1>1, <1>2, <2>1
<1>9. /\ r.left \in [Nodes -> Int] /\ \A n \in Nodes : r.left[n] = T[n]
      /\ Fresh(r.ready)
      /\ Elems(r.ready) = Elems(rest) \cup {n \in Nodes : s.left[n] # 0 /\ T[n] = 0}
      /\ r.order = Append(s.order, v)
  <2>1. ds = dependents[Head(s.ready)] /\ Injective(rest)
    BY <1>2 DEF v, Fresh
  <2> HIDE DEF ds, rest
  <2>2. rest = Tail(s.ready)
    BY DEF rest
  <2>3. \A n \in Nodes : s.left[n] = T[n] + Times(ds, n)
    BY <1>7
  <2>4. /\ Visit(s).left \in [Nodes -> Int] /\ \A n \in Nodes : Visit(s).left[n] = T[n]
        /\ Fresh(Visit(s).ready)
        /\ Elems(Visit(s).ready) = Elems(rest) \cup {n \in Nodes : s.left[n] # 0 /\ T[n] = 0}
        /\ Visit(s).order = Append(s.order, Head(s.ready))
    <3>1. BeforeVisit(s, ds, T, rest)
      BY <1>1, <1>3, <1>5, <1>6, <1>8, <2>1, <2>2, <2>3 DEF BeforeVisit
    <3>2. QED
      BY <3>1, VisitCounts
  <2>5. QED
    BY <2>4 DEF v
<1> HIDE DEF r, ds, rest
<1>10. Elems(r.order) = D \cup {v} /\ Fresh(r.order) /\ Len(r.order) = Len(s.order) + 1
  <2>1. Elems(Append(s.order, v)) = D \cup {v}
    BY <1>4, ElemsAppend DEF D
  <2>2. Injective(Append(s.order, v))
    BY <1>1, <1>4, InjectiveAppend DEF Fresh, D
  <2>3. Append(s.order, v) \in Seq(Nodes) /\ Len(Append(s.order, v)) = Len(s.order) + 1
    BY <1>2, <1>4
  <2>4. QED
    BY <1>9, <2>1, <2>2, <2>3 DEF Fresh
<1>11. \A n \in Nodes : r.left[n] = Remaining(n, Elems(r.order))
  BY <1>7, <1>9, <1>10
<1>12. Elems(r.order) \cap Elems(r.ready) = {}
  <2>1. (D \cup {v}) \cap Elems(rest) = {}
    BY <1>1, <1>2
  <2>2. \A n \in D \cup {v} : n \in Nodes /\ s.left[n] = 0
    BY <1>1, <1>2, <1>4
  <2>3. QED
    BY <1>9, <1>10, <2>1, <2>2
<1>13. ASSUME NEW n \in Nodes PROVE n \in Elems(r.order) \cup Elems(r.ready) <=> r.left[n] = 0
  <2>1. n \in Elems(r.order) \cup Elems(r.ready)
          <=> n \in D \cup Elems(s.ready) \/ (s.left[n] # 0 /\ T[n] = 0)
    BY <1>2, <1>9, <1>10
  <2>2. s.left[n] = 0 => T[n] = 0
    BY <1>6, <1>7
  <2>3. QED
    BY <1>1, <1>9, <2>1, <2>2
<1>14. Below(r.order)
  <2>1. /\ \A i \in 1 .. Len(s.order) : r.order[i] = s.order[i]
        /\ r.order[Len(s.order) + 1] = v /\ Len(s.order) \in Nat
    BY <1>2, <1>4, <1>9
  <2>2. Elems(deps[v]) \subseteq D
    BY <1>1, <1>2, <1>4, RemainingIs
  <2> SUFFICES ASSUME NEW i \in 1 .. Len(s.order) + 1, NEW d \in Elems(deps[r.order[i]])
               PROVE  \E j \in 1 .. i - 1 : r.order[j] = d
    BY <1>10 DEF Below
  <2>3. CASE i \in 1 .. Len(s.order)
    <3>1. PICK j \in 1 .. i - 1 : s.order[j] = d
      BY <1>1, <2>1, <2>3 DEF Below
    <3>2. j \in 1 .. Len(s.order)
      BY <2>1, <2>3
    <3>3. QED
      BY <2>1, <3>1, <3>2
  <2>4. CASE i = Len(s.order) + 1
    <3>1. d \in D
      BY <2>1, <2>2, <2>4
    <3>2. PICK j \in 1 .. Len(s.order) : s.order[j] = d
      BY <1>4, <3>1 DEF D, Elems
    <3>3. QED
      BY <2>1, <2>4, <3>2
  <2>5. QED
    BY <2>1, <2>3, <2>4
<1>15. Ordering(r)
  BY <1>9, <1>10, <1>11, <1>12, <1>13, <1>14 DEF Ordering
<1>16. QED
  BY <1>10, <1>15 DEF r

VisitIfAny(s) == IF s.ready = <<>> THEN s ELSE Visit(s)
Orderings ==
  {s \in [left : [Nodes -> Int], order : Seq(Nodes), ready : Seq(Nodes)] : Ordering(s)}

LEMMA VisitIfAnyOrders ==
  ASSUME GraphInv, NEW s \in Orderings
  PROVE  VisitIfAny(s) \in Orderings
<1>1. CASE s.ready = <<>>
  BY <1>1 DEF VisitIfAny
<1>2. CASE s.ready # <<>>
  <2>1. Ordering(s)
    BY DEF Orderings
  <2>2. Ordering(Visit(s))
    BY <1>2, <2>1, VisitOrders
  <2>3. \E l, o, q : Visit(s) = [left |-> l, ready |-> q, order |-> o]
    BY Zenon DEF Visit
  <2>4. PICK l, o, q : Visit(s) = [left |-> l, ready |-> q, order |-> o]
    BY <2>3
  <2>5. l \in [Nodes -> Int] /\ o \in Seq(Nodes) /\ q \in Seq(Nodes)
    BY <2>2, <2>4 DEF Ordering, Fresh
  <2>6. QED
    BY <1>2, <2>2, <2>4, <2>5 DEF VisitIfAny, Orderings
<1>3. QED
  BY <1>1, <1>2

FirstOrdering ==
  [left |-> [n \in Nodes |-> Len(deps[n])], order |-> <<>>,
   ready |-> Kept(Upto(Len(deps)), {n \in Nodes : deps[n] = <<>>})]

LEMMA FirstIsOrdering ==
  ASSUME GraphInv
  PROVE  FirstOrdering \in Orderings
<1> DEFINE left == [n \in Nodes |-> Len(deps[n])]
           free == {n \in Nodes : deps[n] = <<>>}
           ready == Kept(Upto(Len(deps)), free)
<1>1. FirstOrdering = [left |-> left, order |-> <<>>, ready |-> ready]
  BY DEF FirstOrdering
<1>2. \A n \in Nodes : deps[n] \in Seq(Nat) /\ Len(deps[n]) \in Nat
  BY DEF GraphInv, Nodes
<1>3. left \in [Nodes -> Int] /\ \A n \in Nodes : left[n] = Len(deps[n])
  BY <1>2
<1>4. Len(deps) \in Nat /\ Nodes = 1 .. Len(deps)
  BY DEF GraphInv, Nodes
<1>5. ready \in Seq(Nat) /\ Elems(ready) = free /\ Injective(ready)
  <2> DEFINE u == Upto(Len(deps))
  <2>1. u \in Seq(Nat) /\ Len(u) = Len(deps) /\ DOMAIN u = Nodes /\ \A i \in Nodes : u[i] = i
    BY <1>4 DEF Upto
  <2> HIDE DEF u
  <2>2. Elems(u) = Nodes /\ Injective(u)
    BY <1>4, <2>1 DEF Elems, Injective
  <2>3. Kept(u, free) \in Seq(Nat) /\ Elems(Kept(u, free)) = Elems(u) \cap free /\ Injective(Kept(u, free))
    BY <2>1, <2>2, KeptIs
  <2>4. QED
    BY <2>2, <2>3 DEF u
<1> HIDE DEF left, ready, free
<1>6. ready \in Seq(Nodes)
  <2>1. \A i \in 1 .. Len(ready) : ready[i] \in Nodes
    BY <1>5 DEF Elems, free
  <2>2. QED
    BY <1>5, <2>1
<1>7. Elems(<<>>) = {} /\ Fresh(<<>>) /\ Below(<<>>)
  BY DEF Elems, Fresh, Injective, Below
<1>8. ASSUME NEW n \in Nodes PROVE left[n] = Remaining(n, {})
  <2>1. {j \in 1 .. Len(deps[n]) : deps[n][j] \notin {}} = 1 .. Len(deps[n])
    OBVIOUS
  <2>2. \A k \in Nat : Cardinality(1 .. k) = k
    BY FS_Interval
  <2>3. QED
    BY <1>2, <1>3, <2>1, <2>2 DEF Remaining
<1>9. ASSUME NEW n \in Nodes PROVE n \in Elems(ready) <=> left[n] = 0
  BY <1>2, <1>3, <1>5 DEF free
<1>10. FirstOrdering \in [left : [Nodes -> Int], order : Seq(Nodes), ready : Seq(Nodes)]
  BY <1>1, <1>3, <1>6
<1>11. FirstOrdering.left = left /\ FirstOrdering.order = <<>> /\ FirstOrdering.ready = ready
  BY <1>1
<1>12. Fresh(ready)
  BY <1>5, <1>6 DEF Fresh
<1>13. Ordering(FirstOrdering)
  BY <1>3, <1>7, <1>8, <1>9, <1>11, <1>12 DEF Ordering
<1>14. QED
  BY <1>10, <1>13 DEF Orderings

LEMMA OrderUnfolds ==
  ASSUME GraphInv
  PROVE  \E f : /\ topological_order = f[Len(deps)].order /\ f[0] = FirstOrdering
                /\ \A k \in 1 .. Len(deps) : f[k] = VisitIfAny(f[k - 1])
<1> DEFINE n == Len(deps)
           F == [p \in Orderings \X (1 .. n) |-> VisitIfAny(p[1])]
           Body(h) ==
             [k \in 0 .. Len(deps) |->
               IF k = 0
               THEN [left |-> [m \in Nodes |-> Len(deps[m])], order |-> <<>>,
                     ready |-> Kept(Upto(Len(deps)), {m \in Nodes : deps[m] = <<>>})]
               ELSE IF h[k - 1].ready = <<>> THEN h[k - 1] ELSE Visit(h[k - 1])]
           f == CHOOSE run : run = Body(run)
<1>1. topological_order = f[Len(deps)].order
  BY Zenon DEF topological_order
<1> HIDE DEF f
<1>2. n \in Nat /\ n = Len(deps)
  BY DEF GraphInv
<1> HIDE DEF n
<1>3. F \in [Orderings \X (1 .. n) -> Orderings]
  BY VisitIfAnyOrders
<1>4. \A s \in Orderings, k \in 1 .. n : F[<<s, k>>] = VisitIfAny(s)
  OBVIOUS
<1> HIDE DEF F
<1>5. PICK h \in [0 .. n -> Orderings] :
        h[0] = FirstOrdering /\ \A k \in 1 .. n : h[k] = F[<<h[k - 1], k>>]
  <2>1. Recursive(n, Orderings, FirstOrdering, F)
    BY <1>2, <1>3, FirstIsOrdering, RecursionExists
  <2>2. QED
    BY <2>1, Zenon DEF Recursive
<1>6. \A g : \A k \in 0 .. n : Body(g)[k] = IF k = 0 THEN FirstOrdering ELSE VisitIfAny(g[k - 1])
  BY <1>2 DEF FirstOrdering, VisitIfAny
<1>7. \A g : Body(g) = [k \in 0 .. n |-> Body(g)[k]]
  BY <1>2
<1> HIDE DEF Body
<1>8. h = Body(h)
  <2>1. ASSUME NEW k \in 0 .. n PROVE h[k] = Body(h)[k]
    <3>1. CASE k = 0
      BY <1>5, <1>6, <3>1
    <3>2. CASE k # 0
      <4>1. k \in 1 .. n /\ k - 1 \in 0 .. n
        BY <1>2, <3>2
      <4>2. QED
        BY <1>4, <1>5, <1>6, <3>2, <4>1
    <3>3. QED
      BY <3>1, <3>2
  <2>2. h = [k \in 0 .. n |-> h[k]]
    BY <1>5
  <2>3. QED
    BY <1>7, <2>1, <2>2
<1>9. f = Body(f)
  BY <1>8, Zenon DEF f
<1>10. f[0] = FirstOrdering
  BY <1>2, <1>6, <1>9
<1>11. ASSUME NEW k \in 1 .. Len(deps) PROVE f[k] = VisitIfAny(f[k - 1])
  <2>1. k \in 0 .. n /\ k # 0
    BY <1>2
  <2>2. QED
    BY <1>6, <1>9, <2>1
<1>12. QED
  BY <1>1, <1>10, <1>11

(* A visit adds a node as long as one is queued, and when none is queued   *)
(* the nodes that are left have none without a dependency among them.      *)
LEMMA OrderIs ==
  ASSUME GraphInv, NEW order, order = topological_order
  PROVE  Fresh(order) /\ Below(order) /\ Len(order) = Len(deps) /\ Elems(order) = Nodes
<1>1. PICK f : /\ topological_order = f[Len(deps)].order /\ f[0] = FirstOrdering
               /\ \A k \in 1 .. Len(deps) : f[k] = VisitIfAny(f[k - 1])
  BY OrderUnfolds
<1>2. Len(deps) \in Nat
  BY DEF GraphInv
<1> DEFINE Good(k) == f[k] \in Orderings /\ (Len(f[k].order) = k \/ f[k].ready = <<>>)
           P == {k \in 0 .. Len(deps) : Good(k)}
<1>3. Good(0)
  <2>1. f[0] \in Orderings
    BY <1>1, FirstIsOrdering
  <2>2. f[0].order = <<>>
    BY <1>1 DEF FirstOrdering
  <2>3. QED
    BY <2>1, <2>2
<1>4. ASSUME NEW k \in 1 .. Len(deps), Good(k - 1) PROVE Good(k)
  <2>1. f[k] = VisitIfAny(f[k - 1]) /\ f[k - 1] \in Orderings
    BY <1>1, <1>4
  <2>2. f[k] \in Orderings
    BY <2>1, VisitIfAnyOrders
  <2>3. CASE f[k - 1].ready = <<>>
    BY <2>1, <2>2, <2>3 DEF VisitIfAny
  <2>4. CASE f[k - 1].ready # <<>>
    <3>1. Len(f[k - 1].order) = k - 1 /\ f[k] = Visit(f[k - 1])
      BY <1>4, <2>1, <2>4 DEF VisitIfAny
    <3>2. Ordering(f[k - 1])
      BY <2>1 DEF Orderings
    <3>3. Len(f[k].order) = Len(f[k - 1].order) + 1
      BY <2>4, <3>1, <3>2, VisitOrders
    <3>4. QED
      BY <2>2, <3>1, <3>3
  <2>5. QED
    BY <2>3, <2>4
<1> HIDE DEF Good
<1>5. 0 \in P /\ \A k \in 1 .. Len(deps) : k - 1 \in P => k \in P
  BY <1>2, <1>3, <1>4
<1>6. Good(Len(deps))
  <2> HIDE DEF P
  <2>1. \A k \in 0 .. Len(deps) : k \in P
    BY <1>2, <1>5, IntervalInduction
  <2>2. QED
    BY <1>2, <2>1 DEF P
<1> DEFINE s == f[Len(deps)]
<1>7. /\ s \in Orderings /\ (Len(s.order) = Len(deps) \/ s.ready = <<>>) /\ order = s.order
  BY <1>1, <1>6 DEF Good
<1> HIDE DEF s
<1>8. Ordering(s)
  BY <1>7 DEF Orderings
<1>9. Fresh(order) /\ Below(order) /\ order \in Seq(Nodes) /\ Elems(order) \subseteq Nodes
  BY <1>7, <1>8, NodesAreNumbers DEF Ordering, Fresh
<1>10. Elems(order) = Nodes
  <2>1. CASE Len(s.order) = Len(deps)
    BY <1>7, <1>9, <2>1, FreshLength
  <2>2. CASE s.ready = <<>>
    <3>1. SUFFICES ASSUME Nodes \ Elems(order) # {} PROVE FALSE
      BY <1>9
    <3>2. PICK m \in Nodes \ Elems(order) : \A x \in Elems(deps[m]) : x \notin Nodes \ Elems(order)
      BY <3>1, FreeNode
    <3>3. Elems(deps[m]) \subseteq Elems(order)
      BY <3>2 DEF GraphInv, EdgesMirror
    <3>4. Remaining(m, Elems(order)) = 0
      BY <3>3, RemainingIs
    <3>5. s.left[m] = 0 /\ Elems(s.ready) = {}
      BY <1>7, <1>8, <2>2, <3>4 DEF Ordering, Elems
    <3>6. m \in Elems(order)
      BY <1>7, <1>8, <3>5 DEF Ordering
    <3>7. QED
      BY <3>6
  <2>3. QED
    BY <1>7, <2>1, <2>2
<1>11. Len(order) = Len(deps)
  <2>1. Len(order) = Cardinality(Nodes)
    BY <1>9, <1>10, FreshLength
  <2>2. \A k \in Nat : Cardinality(1 .. k) = k
    BY FS_Interval
  <2>3. QED
    BY <1>2, <2>1, <2>2 DEF Nodes
<1>12. QED
  BY <1>9, <1>10, <1>11

LEMMA OrderTopological == GraphInv => OrderIsTopological
<1> SUFFICES ASSUME GraphInv PROVE OrderIsTopological
  OBVIOUS
<1> DEFINE order == topological_order
           At(n) == CHOOSE i \in DOMAIN order : order[i] = n
<1>1. Fresh(order) /\ Below(order) /\ Len(order) = Len(deps) /\ Elems(order) = Nodes
  BY OrderIs
<1> HIDE DEF order
<1>2. DOMAIN order = 1 .. Len(order) /\ Len(order) \in Nat
  BY <1>1 DEF Fresh
<1>3. ASSUME NEW i \in 1 .. Len(order) PROVE At(order[i]) = i
  <2>1. \A j \in DOMAIN order : order[j] = order[i] => j = i
    BY <1>1, <1>2 DEF Fresh, Injective
  <2>2. QED
    BY <1>2, <2>1
<1> HIDE DEF At
<1>4. ASSUME NEW n \in Nodes, NEW d \in Elems(deps[n]) PROVE At(d) < At(n)
  <2>1. PICK i \in 1 .. Len(order) : n = order[i]
    BY <1>1, <1>2 DEF Elems
  <2>2. PICK j \in 1 .. i - 1 : order[j] = d
    BY <1>1, <1>4, <2>1 DEF Below
  <2>3. j \in 1 .. Len(order)
    BY <1>2
  <2>4. At(n) = i /\ At(d) = j
    BY <1>3, <2>1, <2>2, <2>3
  <2>5. QED
    BY <2>4
<1>5. QED
  BY <1>1, <1>4 DEF OrderIsTopological, order, At

-----------------------------------------------------------------------------
(* levels.                                                                 *)
LEMMA GreatestNumber ==
  ASSUME NEW T \in SUBSET Nat, T # {}, NEW b \in Nat, \A k \in T : k <= b
  PROVE  \E m \in T : \A k \in T : k <= m
<1> DEFINE U == {c \in Nat : \A k \in T : k <= c}
<1>1. b \in U /\ U \in SUBSET Nat
  OBVIOUS
<1>2. PICK m \in U : \A c \in U : m <= c
  <2> HIDE DEF U
  <2>1. QED
    BY <1>1, LeastNumber
<1>3. m \in T
  <2>1. SUFFICES ASSUME m \notin T PROVE FALSE
    OBVIOUS
  <2>2. \A k \in T : k <= m - 1 /\ k \in Nat
    BY <1>2, <2>1
  <2>3. m - 1 \in U
    <3>1. PICK k \in T : TRUE
      OBVIOUS
    <3>2. m \in Nat /\ k \in Nat /\ k <= m - 1
      BY <1>2, <2>2, <3>1
    <3>3. m - 1 \in Nat
      BY <3>2
    <3>4. QED
      BY <2>2, <3>3
  <2>4. QED
    BY <1>2, <2>3
<1>4. QED
  BY <1>2, <1>3

LEMMA PlacedIs ==
  ASSUME GraphInv, NEW level \in [Nodes -> Nat], NEW n \in Nodes,
         NEW b \in Nat, \A m \in Nodes : level[m] <= b
  PROVE  LET new == Placed(level, n) IN
         /\ new \in [Nodes -> Nat] /\ new[n] <= b + 1
         /\ \A m \in Nodes : m # n => new[m] = level[m]
         /\ \A d \in Elems(deps[n]) : level[d] < new[n]
         /\ new[n] > 0 => \E d \in Elems(deps[n]) : level[d] = new[n] - 1
<1> DEFINE depths == {level[d] + 1 : d \in Elems(deps[n])}
           top == IF depths = {} THEN 0 ELSE CHOOSE m \in depths : \A o \in depths : o <= m
           new == Placed(level, n)
<1>1. Elems(deps[n]) \subseteq Nodes
  BY DEF GraphInv, EdgesMirror
<1>2. depths \in SUBSET Nat /\ \A o \in depths : o <= b + 1
  BY <1>1
<1>3. \A d \in Elems(deps[n]) : level[d] + 1 \in depths
  OBVIOUS
<1>4. \A o \in depths : \E d \in Elems(deps[n]) : o = level[d] + 1
  OBVIOUS
<1>5. new = [level EXCEPT ![n] = top]
  BY DEF Placed
<1> HIDE DEF depths, new
<1>6. depths # {} => top \in depths /\ \A o \in depths : o <= top
  <2> SUFFICES ASSUME depths # {} PROVE top \in depths /\ \A o \in depths : o <= top
    OBVIOUS
  <2>1. b + 1 \in Nat
    OBVIOUS
  <2>2. \E m \in depths : \A o \in depths : o <= m
    BY <1>2, <2>1, GreatestNumber
  <2>3. QED
    BY <2>2
<1>7. depths = {} => top = 0
  OBVIOUS
<1> HIDE DEF top
<1>8. top \in Nat /\ top <= b + 1
  <2>1. CASE depths = {}
    BY <1>7, <2>1
  <2>2. CASE depths # {}
    <3>1. top \in depths
      BY <1>6, <2>2
    <3>2. QED
      BY <1>2, <3>1
  <2>3. QED
    BY <2>1, <2>2
<1>9. new \in [Nodes -> Nat] /\ new[n] = top /\ \A m \in Nodes : m # n => new[m] = level[m]
  BY <1>5, <1>8
<1>10. ASSUME NEW d \in Elems(deps[n]) PROVE level[d] < top
  <2>1. level[d] + 1 <= top /\ level[d] \in Nat
    BY <1>1, <1>3, <1>6
  <2>2. QED
    BY <1>8, <2>1
<1>11. ASSUME top > 0 PROVE \E d \in Elems(deps[n]) : level[d] = top - 1
  <2>1. PICK d \in Elems(deps[n]) : top = level[d] + 1
    BY <1>4, <1>6, <1>7, <1>11
  <2>2. level[d] \in Nat
    BY <1>1
  <2>3. QED
    BY <2>1, <2>2
<1>12. QED
  BY <1>8, <1>9, <1>10, <1>11 DEF new

Bounded(level, b) == level \in [Nodes -> Nat] /\ \A m \in Nodes : level[m] <= b
Levels == {level \in [Nodes -> Nat] : \E b \in Nat : Bounded(level, b)}

LEMMA PlacedInLevels ==
  ASSUME GraphInv, NEW level \in Levels, NEW n \in Nodes
  PROVE  Placed(level, n) \in Levels
<1>1. PICK b \in Nat : Bounded(level, b)
  BY DEF Levels
<1> DEFINE new == Placed(level, n)
<1>2. /\ new \in [Nodes -> Nat] /\ new[n] <= b + 1
      /\ \A m \in Nodes : m # n => new[m] = level[m]
  BY <1>1, PlacedIs DEF Bounded
<1> HIDE DEF new
<1>3. ASSUME NEW m \in Nodes PROVE new[m] <= b + 1
  BY <1>1, <1>2 DEF Bounded
<1>4. Bounded(new, b + 1) /\ b + 1 \in Nat
  BY <1>2, <1>3 DEF Bounded
<1>5. QED
  BY <1>2, <1>4 DEF Levels, new

LEMMA LevelsUnfold ==
  ASSUME GraphInv, NEW order, order = topological_order, order \in Seq(Nodes)
  PROVE  \E f : /\ level_of = f[Len(order)] /\ f[0] = [n \in Nodes |-> 0]
                /\ \A k \in 1 .. Len(order) : f[k] = Placed(f[k - 1], order[k])
<1> DEFINE base == [n \in Nodes |-> 0]
           F == [p \in Levels \X (1 .. Len(order)) |-> Placed(p[1], order[p[2]])]
           Body(h) == [k \in 0 .. Len(order) |->
                         IF k = 0 THEN [n \in Nodes |-> 0] ELSE Placed(h[k - 1], order[k])]
           f == CHOOSE high : high = Body(high)
<1>1. level_of = f[Len(order)]
  BY Zenon DEF level_of
<1> HIDE DEF f
<1>2. Len(order) \in Nat /\ \A k \in 1 .. Len(order) : order[k] \in Nodes
  OBVIOUS
<1>3. base \in Levels
  <2>1. base \in [Nodes -> Nat] /\ \A m \in Nodes : base[m] = 0
    OBVIOUS
  <2> HIDE DEF base
  <2>2. Bounded(base, 0)
    BY <2>1 DEF Bounded
  <2>3. QED
    BY <2>1, <2>2 DEF Levels
<1>4. F \in [Levels \X (1 .. Len(order)) -> Levels]
  BY <1>2, PlacedInLevels
<1>5. \A l \in Levels, k \in 1 .. Len(order) : F[<<l, k>>] = Placed(l, order[k])
  OBVIOUS
<1> HIDE DEF F
<1>6. \A g : \A k \in 0 .. Len(order) : Body(g)[k] = IF k = 0 THEN base ELSE Placed(g[k - 1], order[k])
  OBVIOUS
<1>7. \A g : Body(g) = [k \in 0 .. Len(order) |-> Body(g)[k]]
  OBVIOUS
<1> HIDE DEF Body, base
<1>8. PICK h \in [0 .. Len(order) -> Levels] :
        h[0] = base /\ \A k \in 1 .. Len(order) : h[k] = F[<<h[k - 1], k>>]
  <2>1. Recursive(Len(order), Levels, base, F)
    BY <1>2, <1>3, <1>4, RecursionExists
  <2>2. QED
    BY <2>1, Zenon DEF Recursive
<1>9. h = Body(h)
  <2>1. ASSUME NEW k \in 0 .. Len(order) PROVE h[k] = Body(h)[k]
    <3>1. CASE k = 0
      BY <1>6, <1>8, <3>1
    <3>2. CASE k # 0
      <4>1. k \in 1 .. Len(order) /\ k - 1 \in 0 .. Len(order)
        BY <1>2, <3>2
      <4>2. h[k] = F[<<h[k - 1], k>>] /\ h[k - 1] \in Levels
        BY <1>8, <4>1
      <4>3. h[k] = Placed(h[k - 1], order[k])
        BY <1>5, <4>1, <4>2
      <4>4. QED
        BY <1>6, <3>2, <4>3
    <3>3. QED
      BY <3>1, <3>2
  <2>2. h = [k \in 0 .. Len(order) |-> h[k]]
    BY <1>8
  <2>3. QED
    BY <1>7, <2>1, <2>2
<1>10. f = Body(f)
  BY <1>9, Zenon DEF f
<1>11. f[0] = base
  BY <1>2, <1>6, <1>10
<1>12. ASSUME NEW k \in 1 .. Len(order) PROVE f[k] = Placed(f[k - 1], order[k])
  <2>1. k \in 0 .. Len(order) /\ k # 0
    BY <1>2
  <2>2. QED
    BY <1>6, <1>10, <2>1
<1>13. QED
  BY <1>1, <1>11, <1>12 DEF base

(* The level of a node is one more than that of its deepest dependency.    *)
Deepest(level, n) ==
  /\ \A d \in Elems(deps[n]) : level[d] < level[n]
  /\ level[n] > 0 => \E d \in Elems(deps[n]) : level[d] = level[n] - 1

LEMMA LevelsDepths == GraphInv => LevelsAreDepths
<1> SUFFICES ASSUME GraphInv PROVE LevelsAreDepths
  OBVIOUS
<1> DEFINE order == topological_order
<1>1. Fresh(order) /\ Below(order) /\ Elems(order) = Nodes /\ order \in Seq(Nodes)
  BY OrderIs DEF Fresh
<1>2. PICK f : /\ level_of = f[Len(order)] /\ f[0] = [n \in Nodes |-> 0]
               /\ \A k \in 1 .. Len(order) : f[k] = Placed(f[k - 1], order[k])
  BY <1>1, LevelsUnfold
<1> HIDE DEF order
<1>3. Len(order) \in Nat /\ \A k \in 1 .. Len(order) : order[k] \in Nodes
  BY <1>1
<1>4. \A n \in Nodes : Elems(deps[n]) \subseteq Nodes
  BY DEF GraphInv, EdgesMirror
<1> DEFINE Good(k) == Bounded(f[k], k) /\ \A i \in 1 .. k : Deepest(f[k], order[i])
           P == {k \in 0 .. Len(order) : Good(k)}
<1>5. Good(0)
  BY <1>2 DEF Bounded
<1>6. ASSUME NEW k \in 1 .. Len(order), Good(k - 1) PROVE Good(k)
  <2> DEFINE low == f[k - 1]
             new == f[k]
             n == order[k]
  <2>1. /\ Bounded(low, k - 1) /\ \A i \in 1 .. k - 1 : Deepest(low, order[i])
        /\ n \in Nodes /\ new = Placed(low, n) /\ k - 1 \in Nat
    BY <1>2, <1>3, <1>6
  <2>2. \A i \in 1 .. k - 1 : i \in 1 .. Len(order) /\ order[i] # n
    BY <1>1, <1>3 DEF Fresh, Injective
  <2> HIDE DEF low, new, n
  <2>3. /\ new \in [Nodes -> Nat] /\ new[n] <= (k - 1) + 1
        /\ \A m \in Nodes : m # n => new[m] = low[m]
        /\ \A d \in Elems(deps[n]) : low[d] < new[n]
        /\ new[n] > 0 => \E d \in Elems(deps[n]) : low[d] = new[n] - 1
    BY <2>1, PlacedIs DEF Bounded
  <2>4. Bounded(new, k)
    <3>1. \A m \in Nodes : low[m] <= k - 1 /\ low[m] \in Nat
      BY <2>1 DEF Bounded
    <3>2. ASSUME NEW m \in Nodes PROVE new[m] <= k
      BY <2>3, <3>1
    <3>3. QED
      BY <2>3, <3>2 DEF Bounded
  <2>5. ASSUME NEW i \in 1 .. k, NEW d \in Elems(deps[order[i]])
        PROVE  d \in Nodes /\ new[d] = low[d]
    <3>1. PICK j \in 1 .. i - 1 : order[j] = d
      <4>1. i \in 1 .. Len(order)
        BY <1>3
      <4>2. QED
        BY <1>1, <4>1 DEF Below
    <3>2. d # n /\ j \in 1 .. Len(order)
      BY <1>3, <2>2, <3>1
    <3>3. d \in Nodes
      BY <1>3, <3>1, <3>2
    <3>4. QED
      BY <2>3, <3>2, <3>3
  <2>6. ASSUME NEW i \in 1 .. k PROVE Deepest(new, order[i])
    <3>1. CASE i = k
      <4>1. \A d \in Elems(deps[n]) : new[d] = low[d]
        BY <2>5, <3>1 DEF n
      <4>2. Deepest(new, n)
        BY <2>3, <4>1 DEF Deepest
      <4>3. QED
        BY <3>1, <4>2 DEF n
    <3>2. CASE i # k
      <4>1. i \in 1 .. k - 1
        BY <3>2
      <4>2. Deepest(low, order[i]) /\ order[i] \in Nodes /\ order[i] # n
        BY <1>3, <2>1, <2>2, <4>1
      <4>3. new[order[i]] = low[order[i]]
        BY <2>3, <4>2
      <4>4. \A d \in Elems(deps[order[i]]) : new[d] = low[d]
        BY <2>5
      <4>5. QED
        BY <4>2, <4>3, <4>4 DEF Deepest
    <3>3. QED
      BY <3>1, <3>2
  <2>7. QED
    BY <2>4, <2>6 DEF new
<1> HIDE DEF Good
<1>7. 0 \in P /\ \A k \in 1 .. Len(order) : k - 1 \in P => k \in P
  BY <1>3, <1>5, <1>6
<1>8. Good(Len(order))
  <2> HIDE DEF P
  <2>1. \A k \in 0 .. Len(order) : k \in P
    BY <1>3, <1>7, IntervalInduction
  <2>2. QED
    BY <1>3, <2>1 DEF P
<1>9. ASSUME NEW n \in Nodes PROVE Deepest(level_of, n)
  <2>1. PICK i \in 1 .. Len(order) : order[i] = n
    BY <1>1, <1>3 DEF Elems
  <2>2. QED
    BY <1>2, <1>8, <2>1 DEF Good
<1>10. QED
  BY <1>9 DEF LevelsAreDepths, Deepest

-----------------------------------------------------------------------------
(* The edges that a copy adds.                                             *)
Renumbered(e, ds, n, f, D) == \E d \in Elems(ds) \cap D : e = <<f[d], f[n]>>

LEMMA EdgesIntoIs ==
  ASSUME NEW ds \in Seq(Nat), NEW Y, NEW D, NEW f \in [D -> Y], NEW n \in D
  PROVE  /\ EdgesInto(ds, n, f) \in Seq(Y \X Y)
         /\ \A e \in Elems(EdgesInto(ds, n, f)) : Renumbered(e, ds, n, f, D)
<1> DEFINE kept == Kept(ds, D)
           into == [j \in DOMAIN kept |-> <<f[kept[j]], f[n]>>]
<1>1. DOMAIN f = D
  OBVIOUS
<1>2. kept \in Seq(Nat) /\ Elems(kept) = Elems(ds) \cap D
  BY KeptIs
<1>3. EdgesInto(ds, n, f) = into
  BY <1>1 DEF EdgesInto
<1> HIDE DEF kept
<1>4. DOMAIN kept = 1 .. Len(kept) /\ Len(kept) \in Nat /\ \A j \in 1 .. Len(kept) : kept[j] \in Elems(ds) \cap D
  <2>1. DOMAIN kept = 1 .. Len(kept) /\ Len(kept) \in Nat
    BY <1>2
  <2>2. \A j \in 1 .. Len(kept) : kept[j] \in Elems(kept)
    BY <2>1 DEF Elems
  <2>3. QED
    BY <1>2, <2>1, <2>2
<1>5. \A j \in 1 .. Len(kept) : into[j] = <<f[kept[j]], f[n]>> /\ into[j] \in Y \X Y
  BY <1>4
<1>6. into \in Seq(Y \X Y) /\ DOMAIN into = 1 .. Len(kept)
  BY <1>4, <1>5
<1> HIDE DEF into
<1>7. ASSUME NEW e \in Elems(into) PROVE Renumbered(e, ds, n, f, D)
  <2>1. PICK j \in 1 .. Len(kept) : e = into[j]
    BY <1>6, <1>7 DEF Elems
  <2>2. kept[j] \in Elems(ds) \cap D /\ e = <<f[kept[j]], f[n]>>
    BY <1>4, <1>5, <2>1
  <2>3. QED
    BY <2>2 DEF Renumbered
<1>8. QED
  BY <1>3, <1>6, <1>7

(* What is copied: the nodes of s, renumbered by f. *)
Copied(g, s, f, D, Y) ==
  /\ f \in [D -> Y] /\ s \in Seq(D)
  /\ \A i \in 1 .. Len(s) : g[s[i]] \in Seq(Nat)

(* The edges of the first nodes of s. *)
Gathered(h, g, s, f) ==
  /\ EdgesOf(g, s, f) = h[Len(s)] /\ h[0] = <<>>
  /\ \A i \in 1 .. Len(s) : h[i] = h[i - 1] \o EdgesInto(g[s[i]], s[i], f)

LEMMA EdgesOfUnfolds ==
  ASSUME NEW g, NEW s, NEW f, NEW D, NEW Y, Copied(g, s, f, D, Y)
  PROVE  \E h : Gathered(h, g, s, f)
<1> DEFINE X == Seq(Y \X Y)
           Into(i) == EdgesInto(g[s[i]], s[i], f)
           F == [p \in X \X (1 .. Len(s)) |-> p[1] \o Into(p[2])]
           Body(h) == [i \in 0 .. Len(s) |->
                         IF i = 0 THEN <<>> ELSE h[i - 1] \o EdgesInto(g[s[i]], s[i], f)]
           c == CHOOSE of : of = Body(of)
<1>1. EdgesOf(g, s, f) = c[Len(s)]
  BY Zenon DEF EdgesOf
<1> HIDE DEF c
<1>2. Len(s) \in Nat /\ \A i \in 1 .. Len(s) : s[i] \in D /\ g[s[i]] \in Seq(Nat)
  BY DEF Copied
<1>3. \A i \in 1 .. Len(s) : Into(i) \in X
  BY <1>2, EdgesIntoIs DEF Copied
<1> HIDE DEF Into
<1>4. F \in [X \X (1 .. Len(s)) -> X]
  BY <1>3
<1>5. \A q \in X, i \in 1 .. Len(s) : F[<<q, i>>] = q \o Into(i)
  OBVIOUS
<1>6. <<>> \in X
  OBVIOUS
<1>7. \A h : \A i \in 0 .. Len(s) : Body(h)[i] = IF i = 0 THEN <<>> ELSE h[i - 1] \o Into(i)
  BY DEF Into
<1>8. \A h : Body(h) = [i \in 0 .. Len(s) |-> Body(h)[i]]
  OBVIOUS
<1> HIDE DEF F, X, Body
<1>9. PICK h \in [0 .. Len(s) -> X] :
        h[0] = <<>> /\ \A i \in 1 .. Len(s) : h[i] = F[<<h[i - 1], i>>]
  <2>1. Recursive(Len(s), X, <<>>, F)
    BY <1>2, <1>4, <1>6, RecursionExists
  <2>2. QED
    BY <2>1, Zenon DEF Recursive
<1>10. h = Body(h)
  <2>1. ASSUME NEW i \in 0 .. Len(s) PROVE h[i] = Body(h)[i]
    <3>1. CASE i = 0
      BY <1>7, <1>9, <3>1
    <3>2. CASE i # 0
      <4>1. i \in 1 .. Len(s) /\ i - 1 \in 0 .. Len(s)
        BY <1>2, <3>2
      <4>2. h[i] = F[<<h[i - 1], i>>] /\ h[i - 1] \in X
        BY <1>9, <4>1
      <4>3. h[i] = h[i - 1] \o Into(i)
        BY <1>5, <4>1, <4>2
      <4>4. QED
        BY <1>7, <3>2, <4>3
    <3>3. QED
      BY <3>1, <3>2
  <2>2. h = [i \in 0 .. Len(s) |-> h[i]]
    BY <1>9
  <2>3. QED
    BY <1>8, <2>1, <2>2
<1>11. c = Body(c)
  BY <1>10, Zenon DEF c
<1>12. c[0] = <<>>
  BY <1>2, <1>7, <1>11
<1>13. ASSUME NEW i \in 1 .. Len(s) PROVE c[i] = c[i - 1] \o EdgesInto(g[s[i]], s[i], f)
  <2>1. i \in 0 .. Len(s) /\ i # 0
    BY <1>2
  <2>2. c[i] = c[i - 1] \o Into(i)
    BY <1>7, <1>11, <2>1
  <2>3. QED
    BY <2>2 DEF Into
<1>14. Gathered(c, g, s, f)
  BY <1>1, <1>12, <1>13 DEF Gathered
<1>15. QED
  BY <1>14

LEMMA ElemsJoined ==
  ASSUME NEW Z, NEW a \in Seq(Z), NEW b \in Seq(Z)
  PROVE  a \o b \in Seq(Z) /\ Elems(a \o b) \subseteq Elems(a) \cup Elems(b)
<1> DEFINE j == a \o b
<1>1. /\ j \in Seq(Z) /\ Len(j) = Len(a) + Len(b) /\ Len(a) \in Nat /\ Len(b) \in Nat
      /\ \A i \in 1 .. Len(a) + Len(b) : j[i] = IF i <= Len(a) THEN a[i] ELSE b[i - Len(a)]
  OBVIOUS
<1>2. DOMAIN a = 1 .. Len(a) /\ DOMAIN b = 1 .. Len(b) /\ DOMAIN j = 1 .. Len(a) + Len(b)
  BY <1>1
<1> HIDE DEF j
<1>3. ASSUME NEW e \in Elems(j) PROVE e \in Elems(a) \cup Elems(b)
  <2>1. PICK i \in 1 .. Len(a) + Len(b) : e = j[i]
    BY <1>2, <1>3 DEF Elems
  <2>2. CASE i <= Len(a)
    BY <1>1, <1>2, <2>1, <2>2 DEF Elems
  <2>3. CASE ~(i <= Len(a))
    <3>1. i - Len(a) \in 1 .. Len(b) /\ e = b[i - Len(a)]
      BY <1>1, <2>1, <2>3
    <3>2. QED
      BY <1>2, <3>1 DEF Elems
  <2>4. QED
    BY <2>2, <2>3
<1>4. QED
  BY <1>1, <1>3 DEF j

LEMMA EdgesOfIs ==
  ASSUME NEW g, NEW s, NEW f, NEW D, NEW Y, Copied(g, s, f, D, Y)
  PROVE  /\ EdgesOf(g, s, f) \in Seq(Y \X Y)
         /\ \A e \in Elems(EdgesOf(g, s, f)) :
              \E n \in Elems(s) : Renumbered(e, g[n], n, f, D)
<1>0. PICK h : Gathered(h, g, s, f)
  BY EdgesOfUnfolds
<1>1. /\ EdgesOf(g, s, f) = h[Len(s)] /\ h[0] = <<>>
      /\ \A i \in 1 .. Len(s) : h[i] = h[i - 1] \o EdgesInto(g[s[i]], s[i], f)
  BY <1>0 DEF Gathered
<1>2. Len(s) \in Nat /\ \A i \in 1 .. Len(s) : s[i] \in D /\ s[i] \in Elems(s) /\ g[s[i]] \in Seq(Nat)
  BY DEF Copied, Elems
<1> DEFINE Edge(e) == \E n \in Elems(s) : Renumbered(e, g[n], n, f, D)
           Good(i) == h[i] \in Seq(Y \X Y) /\ \A e \in Elems(h[i]) : Edge(e)
           P == {i \in 0 .. Len(s) : Good(i)}
<1>3. Good(0)
  BY <1>1 DEF Elems
<1>4. ASSUME NEW i \in 1 .. Len(s), Good(i - 1) PROVE Good(i)
  <2> DEFINE into == EdgesInto(g[s[i]], s[i], f)
  <2>1. into \in Seq(Y \X Y) /\ \A e \in Elems(into) : Renumbered(e, g[s[i]], s[i], f, D)
    <3>1. s[i] \in D /\ g[s[i]] \in Seq(Nat) /\ f \in [D -> Y]
      BY <1>2 DEF Copied
    <3>2. QED
      BY <3>1, EdgesIntoIs
  <2>2. h[i] = h[i - 1] \o into
    BY <1>1
  <2> HIDE DEF into
  <2>3. \A e \in Elems(into) : Edge(e)
    BY <1>2, <2>1
  <2> HIDE DEF Edge
  <2>4. h[i] \in Seq(Y \X Y) /\ Elems(h[i]) \subseteq Elems(h[i - 1]) \cup Elems(into)
    BY <1>4, <2>1, <2>2, ElemsJoined
  <2>5. QED
    BY <1>4, <2>3, <2>4
<1> HIDE DEF Good
<1>5. 0 \in P /\ \A i \in 1 .. Len(s) : i - 1 \in P => i \in P
  BY <1>2, <1>3, <1>4
<1>6. Good(Len(s))
  <2> HIDE DEF P
  <2>1. \A i \in 0 .. Len(s) : i \in P
    BY <1>2, <1>5, IntervalInduction
  <2>2. QED
    BY <1>2, <2>1 DEF P
<1>7. QED
  BY <1>1, <1>6 DEF Good

-----------------------------------------------------------------------------
(* Copies.                                                                 *)
(* The edges there are and those still to add have no cycle together.      *)
Loose(T, n) == n \in T /\ \A d \in T : d \notin Elems(deps[n]) /\ <<d, n>> \notin Elems(todo)

CopyInv ==
  call \in {"merge", "subgraph"} =>
    /\ result = "Ok" /\ todo \in Seq(Nodes \X Nodes)
    /\ \A T \in SUBSET Nodes : T # {} => \E n \in T : Loose(T, n)

LEMMA AddNextCopies ==
  ASSUME GraphInv, CopyInv, AddNext
  PROVE  CopyInv'
<1> SUFFICES ASSUME call \in {"merge", "subgraph"} PROVE CopyInv'
  BY DEF CopyInv, AddNext
<1>1. /\ todo \in Seq(Nodes \X Nodes) /\ todo # <<>> /\ call' = call
      /\ \A T \in SUBSET Nodes : T # {} => \E n \in T : Loose(T, n)
  BY DEF CopyInv, AddNext
<1>2. Head(todo) \in Nodes \X Nodes /\ Len(todo) \in Nat /\ 1 \in DOMAIN todo /\ todo[1] = Head(todo)
  BY <1>1
<1>3. PICK d \in Nodes, n \in Nodes : Head(todo) = <<d, n>>
  BY <1>2
<1>4. <<d, n>> \in Elems(todo)
  BY <1>2, <1>3 DEF Elems
<1>5. add_dependency(d, n) /\ (result' = "Ok" => todo' = Tail(todo))
  BY <1>3 DEF AddNext
<1>6. d # n
  <2>1. SUFFICES ASSUME d = n PROVE FALSE
    OBVIOUS
  <2>2. {n} \in SUBSET Nodes /\ {n} # {}
    OBVIOUS
  <2>3. PICK m \in {n} : Loose({n}, m)
    BY <1>1, <2>2
  <2>4. QED
    BY <1>4, <2>1, <2>3 DEF Loose
<1>7. Acyclic(WithEdge(d, n))
  <2>1. LET g == WithEdge(d, n) IN
        /\ DOMAIN g = Nodes /\ Elems(g[n]) = Elems(deps[n]) \cup {d}
        /\ \A m \in Nodes : m # n => g[m] = deps[m]
    BY EdgeAdded
  <2> DEFINE g == WithEdge(d, n)
  <2> HIDE DEF g
  <2>2. /\ DOMAIN g = Nodes /\ Elems(g[n]) = Elems(deps[n]) \cup {d}
        /\ \A m \in Nodes : m # n => g[m] = deps[m]
    BY <2>1 DEF g
  <2>3. ASSUME NEW T \in SUBSET Nodes, T # {} PROVE \E m \in T : \A x \in Elems(g[m]) : x \notin T
    <3>1. PICK m \in T : Loose(T, m)
      BY <1>1, <2>3
    <3>2. \A x \in Elems(g[m]) : x \notin T
      BY <1>4, <2>2, <3>1 DEF Loose
    <3>3. QED
      BY <3>2
  <2>4. QED
    BY <2>2, <2>3 DEF Acyclic, g
<1>8. ~reaches(n, d)
  BY <1>7, CycleWithPath
<1>9. /\ result' = "Ok" /\ deps' = WithEdge(d, n)
  BY <1>5, <1>6, <1>8 DEF add_dependency, WithEdge
<1>10. /\ Elems(deps'[n]) = Elems(deps[n]) \cup {d} /\ DOMAIN deps' = Nodes /\ deps' \in Seq(Seq(Nat))
       /\ \A m \in Nodes : m # n => deps'[m] = deps[m]
  BY <1>9, EdgeAdded
<1>11. Nodes' = Nodes
  BY <1>10 DEF Nodes
<1>12. todo' = Tail(todo) /\ todo' \in Seq(Nodes \X Nodes)
  <2>1. todo' = Tail(todo)
    BY <1>5, <1>9
  <2> DEFINE E == Nodes \X Nodes
  <2>2. todo \in Seq(E) /\ todo # <<>>
    BY <1>1
  <2> HIDE DEF E
  <2>3. Tail(todo) \in Seq(E)
    BY <2>2
  <2>4. QED
    BY <2>1, <2>3 DEF E
<1>13. Elems(todo') \subseteq Elems(todo)
  <2>1. Len(Tail(todo)) = Len(todo) - 1 /\ \A i \in 1 .. Len(todo) - 1 : Tail(todo)[i] = todo[i + 1]
    BY <1>1
  <2>2. DOMAIN Tail(todo) = 1 .. Len(todo) - 1 /\ DOMAIN todo = 1 .. Len(todo)
    BY <1>1
  <2>3. ASSUME NEW i \in 1 .. Len(todo) - 1 PROVE todo[i + 1] \in Elems(todo)
    <3>1. i + 1 \in 1 .. Len(todo)
      BY <1>2
    <3>2. QED
      BY <2>2, <3>1 DEF Elems
  <2>4. QED
    BY <1>12, <2>1, <2>2, <2>3 DEF Elems
<1>14. ASSUME NEW T \in SUBSET Nodes, T # {}
       PROVE  \E m \in T : \A x \in T : x \notin Elems(deps'[m]) /\ <<x, m>> \notin Elems(todo')
  <2>1. PICK m \in T : Loose(T, m)
    BY <1>1, <1>14
  <2>2. \A x \in T : x \notin Elems(deps'[m]) /\ <<x, m>> \notin Elems(todo')
    BY <1>4, <1>10, <1>13, <2>1 DEF Loose
  <2>3. QED
    BY <2>2
<1>15. QED
  BY <1>9, <1>11, <1>12, <1>14 DEF CopyInv, Loose

LEMMA MergeCopies ==
  ASSUME GraphInv, MergeSubgraph
  PROVE  CopyInv'
<1>1. PICK other \in Others :
        /\ add_nodes(Len(other))
        /\ todo' = EdgesOf(other, Upto(Len(other)), [i \in 1 .. Len(other) |-> Len(deps) + i])
        /\ result' = "Ok"
  BY DEF MergeSubgraph
<1> DEFINE k == Len(other)
           s == Upto(k)
           f == [i \in 1 .. k |-> Len(deps) + i]
           both == Len(deps) + k
<1>2. /\ other \in Seq(Seq(Nat)) /\ Acyclic(other) /\ k \in Nat /\ DOMAIN other = 1 .. k
      /\ Len(deps) \in Nat /\ deps \in Seq(Seq(Nat)) /\ Nodes = 1 .. Len(deps) /\ both \in Nat
  BY OthersAssumption DEF GraphInv, Nodes
<1>3. /\ deps' \in Seq(Seq(Nat)) /\ Len(deps') = both
      /\ \A m \in 1 .. Len(deps) : deps'[m] = deps[m]
      /\ \A m \in 1 .. both : m > Len(deps) => deps'[m] = <<>>
  BY <1>1, <1>2, EmptyListsAppended DEF add_nodes
<1>4. Nodes' = 1 .. both
  BY <1>3 DEF Nodes
<1>5. s \in Seq(1 .. k) /\ Len(s) = k /\ Elems(s) = 1 .. k /\ \A i \in 1 .. k : s[i] = i
  BY <1>2 DEF Upto, Elems
<1>6. f \in [1 .. k -> 1 .. both] /\ \A i \in 1 .. k : f[i] = Len(deps) + i
  BY <1>2
<1>7. todo' = EdgesOf(other, s, f)
  BY <1>1
<1> HIDE DEF s, f, k, both
<1>8. Copied(other, s, f, 1 .. k, 1 .. both)
  <2>1. \A i \in 1 .. k : other[i] \in Seq(Nat)
    BY <1>2
  <2>2. \A i \in 1 .. Len(s) : other[s[i]] \in Seq(Nat)
    BY <1>5, <2>1
  <2>3. QED
    BY <1>5, <1>6, <2>2 DEF Copied
<1>9. /\ todo' \in Seq((1 .. both) \X (1 .. both))
      /\ \A e \in Elems(todo') : \E i \in 1 .. k : Renumbered(e, other[i], i, f, 1 .. k)
  BY <1>5, <1>7, <1>8, EdgesOfIs
<1>10. ASSUME NEW x, NEW n, <<x, n>> \in Elems(todo')
       PROVE  \E i \in 1 .. k : \E d \in Elems(other[i]) \cap (1 .. k) :
                x = Len(deps) + d /\ n = Len(deps) + i
  <2>1. PICK i \in 1 .. k : Renumbered(<<x, n>>, other[i], i, f, 1 .. k)
    BY <1>9, <1>10
  <2>2. PICK d \in Elems(other[i]) \cap (1 .. k) : <<x, n>> = <<f[d], f[i]>>
    BY <2>1 DEF Renumbered
  <2>3. x = Len(deps) + d /\ n = Len(deps) + i
    BY <1>6, <2>2
  <2>4. QED
    BY <2>2, <2>3
<1>11. ASSUME NEW T \in SUBSET (1 .. both), T # {}
       PROVE  \E m \in T : \A x \in T : x \notin Elems(deps'[m]) /\ <<x, m>> \notin Elems(todo')
  <2>1. CASE T \cap Nodes # {}
    <3>1. PICK m \in T \cap Nodes : \A x \in Elems(deps[m]) : x \notin T \cap Nodes
      BY <2>1, FreeNode
    <3>2. \A x \in T : x \notin Elems(deps'[m])
      BY <1>2, <1>3, <3>1 DEF GraphInv, EdgesMirror
    <3>3. \A x : <<x, m>> \notin Elems(todo')
      <4>1. \A i \in 1 .. k : m # Len(deps) + i
        BY <1>2, <3>1
      <4>2. QED
        BY <1>10, <4>1
    <3>4. QED
      BY <3>1, <3>2, <3>3
  <2>2. CASE T \cap Nodes = {}
    <3> DEFINE U == {i \in 1 .. k : Len(deps) + i \in T}
    <3>1. \A t \in T : t - Len(deps) \in U /\ Len(deps) + (t - Len(deps)) = t
      <4> SUFFICES ASSUME NEW t \in T PROVE t - Len(deps) \in U /\ Len(deps) + (t - Len(deps)) = t
        OBVIOUS
      <4>1. t \in 1 .. Len(deps) + k /\ t \notin 1 .. Len(deps)
        BY <1>2, <1>11, <2>2 DEF both
      <4>2. t - Len(deps) \in 1 .. k /\ Len(deps) + (t - Len(deps)) = t
        BY <1>2, <4>1
      <4>3. QED
        BY <4>2
    <3>2. U # {} /\ U \in SUBSET DOMAIN other
      BY <1>2, <1>11, <3>1
    <3>3. PICK i \in U : \A d \in Elems(other[i]) : d \notin U
      BY <1>2, <3>2 DEF Acyclic
    <3> DEFINE m == Len(deps) + i
    <3>4. m \in T /\ m \in 1 .. both /\ m > Len(deps) /\ i \in 1 .. k
      BY <1>2, <3>3
    <3>5. Elems(deps'[m]) = {}
      BY <1>3, <3>4 DEF Elems
    <3>6. ASSUME NEW x \in T PROVE <<x, m>> \notin Elems(todo')
      <4>1. SUFFICES ASSUME <<x, m>> \in Elems(todo') PROVE FALSE
        OBVIOUS
      <4>2. PICK j \in 1 .. k : \E d \in Elems(other[j]) \cap (1 .. k) : x = Len(deps) + d /\ m = Len(deps) + j
        <5> HIDE DEF m
        <5>1. QED
          BY <1>10, <4>1
      <4>3. PICK d \in Elems(other[j]) \cap (1 .. k) : x = Len(deps) + d /\ m = Len(deps) + j
        BY <4>2
      <4>4. j = i
        BY <1>2, <3>4, <4>3
      <4>5. d \in U
        BY <4>3
      <4>6. QED
        BY <3>3, <4>3, <4>4, <4>5
    <3>7. QED
      BY <3>4, <3>5, <3>6
  <2>3. QED
    BY <2>1, <2>2
<1>12. QED
  BY <1>1, <1>4, <1>9, <1>11 DEF CopyInv, Loose

(* The new node of a node that is kept: its last place in the list.        *)
LastPlace(keep, n) ==
  CHOOSE i \in DOMAIN keep : keep[i] = n /\ \A j \in DOMAIN keep : keep[j] = n => j <= i

LEMMA LastPlaceIs ==
  ASSUME NEW len \in Nat, NEW keep, DOMAIN keep = 1 .. len, NEW n \in Elems(keep)
  PROVE  LastPlace(keep, n) \in 1 .. len /\ keep[LastPlace(keep, n)] = n
<1> DEFINE T == {i \in 1 .. len : keep[i] = n}
<1>1. T \in SUBSET Nat /\ T # {} /\ \A i \in T : i <= len
  BY DEF Elems
<1> HIDE DEF T
<1>2. \E m \in T : \A i \in T : i <= m
  BY <1>1, GreatestNumber
<1>3. \E i \in DOMAIN keep : keep[i] = n /\ \A j \in DOMAIN keep : keep[j] = n => j <= i
  BY <1>2 DEF T
<1>4. QED
  BY <1>3 DEF LastPlace

LEMMA SubgraphCopies ==
  ASSUME GraphInv, Subgraph
  PROVE  CopyInv'
<1>1. PICK k \in 0 .. MaxKeep :
        \E keep \in [1 .. k -> Nodes] \cup {Upto(Len(deps))} :
          /\ deps' = [i \in DOMAIN keep |-> <<>>]
          /\ todo' = EdgesOf(deps, keep, [n \in Elems(keep) |-> LastPlace(keep, n)])
  BY DEF Subgraph, LastPlace
<1>2. PICK keep \in [1 .. k -> Nodes] \cup {Upto(Len(deps))} :
        /\ deps' = [i \in DOMAIN keep |-> <<>>]
        /\ todo' = EdgesOf(deps, keep, [n \in Elems(keep) |-> LastPlace(keep, n)])
  BY <1>1
<1>3. Len(deps) \in Nat /\ Nodes = 1 .. Len(deps) /\ \A n \in Nodes : deps[n] \in Seq(Nat)
  BY DEF GraphInv, Nodes
<1>4. PICK len \in Nat : DOMAIN keep = 1 .. len
  BY <1>2, <1>3 DEF Upto
<1>5. keep \in Seq(Nodes) /\ Len(keep) = len /\ \A i \in 1 .. len : keep[i] \in Nodes
  <2>1. keep \in [1 .. len -> Nodes]
    BY <1>2, <1>3, <1>4 DEF Upto
  <2>2. QED
    BY <2>1
<1> DEFINE D == Elems(keep)
           f == [n \in D |-> LastPlace(keep, n)]
<1>6. D \subseteq Nodes /\ keep \in Seq(D)
  <2>1. \A i \in 1 .. len : keep[i] \in D
    BY <1>4 DEF Elems
  <2>2. D \subseteq Nodes
    BY <1>4, <1>5 DEF Elems
  <2> HIDE DEF D
  <2>3. QED
    BY <1>5, <2>1, <2>2
<1>7. f \in [D -> 1 .. len] /\ \A n \in D : keep[f[n]] = n
  BY <1>4, LastPlaceIs
<1>8. todo' = EdgesOf(deps, keep, f)
  BY <1>2
<1> HIDE DEF D, f
<1>9. deps' \in [1 .. len -> {<<>>}] /\ Nodes' = 1 .. len
  <2>1. deps' = [i \in 1 .. len |-> <<>>]
    BY <1>2, <1>4
  <2>2. Len(deps') = len
    BY <2>1
  <2>3. QED
    BY <2>1, <2>2 DEF Nodes
<1>10. Copied(deps, keep, f, D, 1 .. len)
  BY <1>3, <1>5, <1>6, <1>7 DEF Copied
<1>11. /\ todo' \in Seq((1 .. len) \X (1 .. len))
       /\ \A e \in Elems(todo') : \E n \in D : Renumbered(e, deps[n], n, f, D)
  BY <1>8, <1>10, EdgesOfIs DEF D
<1>12. ASSUME NEW x, NEW m, <<x, m>> \in Elems(todo')
       PROVE  \E n \in D : \E d \in Elems(deps[n]) \cap D : x = f[d] /\ m = f[n]
  <2>1. PICK n \in D : Renumbered(<<x, m>>, deps[n], n, f, D)
    BY <1>11, <1>12
  <2>2. PICK d \in Elems(deps[n]) \cap D : <<x, m>> = <<f[d], f[n]>>
    BY <2>1 DEF Renumbered
  <2>3. x = f[d] /\ m = f[n]
    BY <2>2
  <2>4. QED
    BY <2>2, <2>3
<1>13. ASSUME NEW T \in SUBSET (1 .. len), T # {}
       PROVE  \E m \in T : \A x \in T : x \notin Elems(deps'[m]) /\ <<x, m>> \notin Elems(todo')
  <2> DEFINE U == {n \in D : f[n] \in T}
  <2>1. \A m \in T : Elems(deps'[m]) = {}
    BY <1>9, <1>13 DEF Elems
  <2>2. CASE U = {}
    <3>1. PICK m \in T : TRUE
      BY <1>13
    <3>2. ASSUME NEW x \in T, <<x, m>> \in Elems(todo') PROVE FALSE
      <4>1. PICK n \in D : \E d \in Elems(deps[n]) \cap D : x = f[d] /\ m = f[n]
        BY <1>12, <3>2
      <4>2. QED
        BY <2>2, <4>1
    <3>3. QED
      BY <2>1, <3>1, <3>2
  <2>3. CASE U # {}
    <3>1. PICK n \in U : \A d \in Elems(deps[n]) : d \notin U
      BY <1>6, <2>3, FreeNode
    <3>2. f[n] \in T
      BY <3>1
    <3>3. ASSUME NEW x \in T, <<x, f[n]>> \in Elems(todo') PROVE FALSE
      <4>1. PICK p \in D : \E d \in Elems(deps[p]) \cap D : x = f[d] /\ f[n] = f[p]
        BY <1>12, <3>3
      <4>2. PICK d \in Elems(deps[p]) \cap D : x = f[d] /\ f[n] = f[p]
        BY <4>1
      <4>3. n = p
        BY <1>7, <3>1, <4>2
      <4>4. d \in U
        BY <3>3, <4>2
      <4>5. QED
        BY <3>1, <4>2, <4>3, <4>4
    <3>4. QED
      BY <2>1, <3>2, <3>3
  <2>4. QED
    BY <2>2, <2>3
<1>14. result' = "Ok"
  BY DEF Subgraph
<1>15. QED
  BY <1>9, <1>11, <1>13, <1>14 DEF CopyInv, Loose

(* After every call, in any order, whatever the graphs that are merged and *)
(* the lists that a subgraph or a change is taken of: the two directions   *)
(* agree, there is no cycle, copies refuse no edge, an edge is refused     *)
(* exactly for a cycle, the order is topological, a level is the length of *)
(* the longest chain below, and a change affects exactly what leads to it. *)
THEOREM GraphIsSoundHolds == GraphSpec => []GraphIsSound
<1>1. GraphInit => CopyInv
  BY DEF GraphInit, CopyInv
<1>2. GraphInv /\ CopyInv /\ [GraphNext]_graphVars => CopyInv'
  <2> SUFFICES ASSUME GraphInv, CopyInv, [GraphNext]_graphVars PROVE CopyInv'
    OBVIOUS
  <2>1. CASE AddNode \/ AddDependency
    BY <2>1 DEF AddNode, AddDependency, CopyInv
  <2>2. CASE MergeSubgraph
    BY <2>2, MergeCopies
  <2>3. CASE ExpandNode
    BY <2>3 DEF ExpandNode, CopyInv
  <2>4. CASE Subgraph
    BY <2>4, SubgraphCopies
  <2>5. CASE AddNext
    BY <2>5, AddNextCopies
  <2>6. CASE GraphReturn
    BY <2>6 DEF GraphReturn, CopyInv
  <2>7. CASE UNCHANGED graphVars
    BY <2>7 DEF graphVars, CopyInv, Loose, Nodes
  <2>8. QED
    BY <2>1, <2>2, <2>3, <2>4, <2>5, <2>6, <2>7 DEF GraphNext
<1>3. GraphInv /\ CopyInv => GraphIsSound
  <2>1. GraphInv => EdgesMirror /\ GraphIsAcyclic
    BY DEF GraphInv
  <2>2. CopyInv => CopiesAreComplete
    BY DEF CopyInv, CopiesAreComplete
  <2>3. QED
    BY <2>1, <2>2, RefusesExactly, OrderTopological, LevelsDepths, AffectedExactly DEF GraphIsSound
<1>4. GraphSpec => []GraphInv
  BY GraphInvInit, GraphInvNext, PTL DEF GraphSpec
<1>5. QED
  BY <1>1, <1>2, <1>3, <1>4, PTL DEF GraphSpec

-----------------------------------------------------------------------------
(* DynamicRacingExecutor.  Before an answer has won nobody sees the flag,  *)
(* so a thread that is gone has sent its answer or panicked.               *)
RacingInv ==
  /\ rpc \in [Racer -> {"grace", "execute", "send", "gone"}]
  /\ answer \in [Racer -> Result \cup {"none"}]
  /\ channel \in Seq(Racer)
  /\ \A r \in Racer : rpc[r] = "send" \/ r \in ToSet(channel) => answer[r] \in Result
  /\ \A r \in Racer : r \in ToSet(channel) => rpc[r] = "gone"
  /\ won = "none" =>
       /\ cancelled = FALSE /\ unsure = {}
       /\ \A r \in Racer : rpc[r] = "gone" => answer[r] = "panic" \/ r \in ToSet(channel)
  /\ won = "Interrupted" => \A r \in Racer : rpc[r] = "gone" /\ answer[r] = "panic"

LEMMA Unseen ==
  ASSUME RacingInv, won = "none", NEW r \in Racer
  PROVE  SeesCancelled(r) = {FALSE}
  <1>1. cancelled = FALSE /\ r \notin unsure
    BY DEF RacingInv
  <1>2. QED
    BY <1>1, Zenon DEF SeesCancelled

(* execute_race answers "terminated without outcome" only when both        *)
(* executors have panicked.                                                *)
THEOREM InterruptedMeansPanicHolds == RacingSpec => []InterruptedMeansPanic
  <1>1. RacingInit => RacingInv
    BY DEF RacingInit, RacingInv, ToSet, Racer
  <1>2. RacingInv /\ [RacingNext]_racingVars => RacingInv'
    <2> SUFFICES ASSUME RacingInv, [RacingNext]_racingVars PROVE RacingInv'
      OBVIOUS
    <2> USE DEF RacingInv
    <2>1. ASSUME NEW r \in Racer, Begins(r) PROVE RacingInv'
      <3>1. /\ rpc[r] = "grace" /\ UNCHANGED <<answer, channel, cancelled, unsure, won>>
            /\ \/ rpc' = [rpc EXCEPT ![r] = "execute"]
               \/ rpc' = [rpc EXCEPT ![r] = "gone"] /\ won # "none"
        <4>1. CASE won = "none"
          <5>1. SeesCancelled(r) = {FALSE}
            BY <4>1, Unseen
          <5>2. PICK seen_ \in SeesCancelled(r) : rpc' = [rpc EXCEPT ![r] = IF seen_ THEN "gone" ELSE "execute"]
            BY <2>1 DEF Begins
          <5>3. seen_ = FALSE
            BY <5>1, Zenon
          <5>4. QED
            BY <2>1, <5>2, <5>3 DEF Begins
        <4>2. CASE won # "none"
          BY <2>1, <4>2 DEF Begins
        <4>3. QED
          BY <4>1, <4>2
      <3>2. QED
        BY <3>1
    <2>2. ASSUME NEW r \in Racer, Executes(r) PROVE RacingInv'
      BY <2>2 DEF Executes, Result
    <2>3. ASSUME NEW r \in Racer, Sends(r) PROVE RacingInv'
      <3>1. channel \in Seq(Racer)
        OBVIOUS
      <3>2. ToSet(Append(channel, r)) = ToSet(channel) \cup {r} /\ Append(channel, r) \in Seq(Racer)
        BY <3>1, AppendElements
      <3>3. QED
        <4>1. /\ rpc[r] = "send" /\ UNCHANGED <<answer, cancelled, unsure, won>>
              /\ rpc' = [rpc EXCEPT ![r] = "gone"]
              /\ channel' = Append(channel, r) \/ (channel' = channel /\ won # "none")
          <5>1. CASE won = "none"
            <6>1. SeesCancelled(r) = {FALSE}
              BY <5>1, Unseen
            <6>2. PICK seen_ \in SeesCancelled(r) : channel' = IF seen_ THEN channel ELSE Append(channel, r)
              BY <2>3 DEF Sends
            <6>3. seen_ = FALSE
              BY <6>1, Zenon
            <6>4. QED
              BY <2>3, <6>2, <6>3 DEF Sends
          <5>2. CASE won # "none"
            BY <2>3, <5>2 DEF Sends
          <5>3. QED
            BY <5>1, <5>2
        <4>2. QED
          BY <3>2, <4>1
    <2>4. ASSUME NEW r \in Racer, BecomesVisible(r) PROVE RacingInv'
      BY <2>4 DEF BecomesVisible
    <2>5. CASE Receives
      <3>1. channel # <<>> /\ channel' = Tail(channel) /\ channel' \in Seq(Racer)
        BY <2>5 DEF Receives
      <3>2. Head(channel) \in Racer /\ Head(channel) \in ToSet(channel)
        BY <3>1 DEF ToSet
      <3>3. ToSet(channel') \subseteq ToSet(channel)
        BY <3>1 DEF ToSet
      <3>4. won' \in Result
        BY <2>5, <3>2 DEF Receives
      <3>5. QED
        BY <2>5, <3>1, <3>3, <3>4 DEF Receives, Result
    <2>6. CASE Disconnected
      <3>1. ToSet(channel) = {}
        BY <2>6 DEF Disconnected, ToSet
      <3>2. QED
        BY <2>6, <3>1 DEF Disconnected
    <2>7. CASE RaceOver \/ UNCHANGED racingVars
      BY <2>7 DEF RaceOver, racingVars
    <2>8. QED
      BY <2>1, <2>2, <2>3, <2>4, <2>5, <2>6, <2>7 DEF RacingNext
  <1>3. RacingInv => InterruptedMeansPanic
    BY DEF RacingInv, InterruptedMeansPanic
  <1>4. QED
    BY <1>1, <1>2, <1>3, PTL DEF RacingSpec

-----------------------------------------------------------------------------
(* LocklessDependencyGraph.                                                *)
LocklessInv ==
  /\ DOMAIN reverse_dependencies = DOMAIN dependencies
  /\ \A n \in DOMAIN dependencies : ToSet(dependencies[n]) \subseteq DOMAIN dependencies
  /\ \A n \in DOMAIN dependencies : reverse_dependencies[n] \subseteq DOMAIN dependencies
  /\ ReverseEdgesMirror

(* insert_node takes a node that is inserted again out of the lists of its *)
(* old dependencies and puts it in those of the new: the reverse edges     *)
(* mirror the edges after any insertions.                                  *)
THEOREM ReverseEdgesMirrorHolds == LocklessSpec => []ReverseEdgesMirror
  <1>1. LocklessInit => LocklessInv
    BY DEF LocklessInit, LocklessInv, ReverseEdgesMirror
  <1>2. ASSUME LocklessInv, NEW id, NEW ds, NEW weight, insert_node(id, ds, weight)
        PROVE  LocklessInv'
    <2> DEFINE nodes == DOMAIN dependencies \cup {id} \cup ToSet(ds)
               old == IF id \in DOMAIN dependencies THEN ToSet(dependencies[id]) ELSE {}
    <2>1. ToSet(<<>>) = {}
      BY DEF ToSet
    <2>2. /\ DOMAIN dependencies' = nodes /\ DOMAIN reverse_dependencies' = nodes
          /\ \A n \in nodes : dependencies'[n] = IF n = id THEN ds
                                ELSE IF n \in DOMAIN dependencies THEN dependencies[n] ELSE <<>>
          /\ \A n \in nodes : reverse_dependencies'[n] =
               ((IF n \in DOMAIN reverse_dependencies THEN reverse_dependencies[n] ELSE {})
                  \ (IF n \in old THEN {id} ELSE {})) \cup (IF n \in ToSet(ds) THEN {id} ELSE {})
      BY <1>2 DEF insert_node
    <2> HIDE DEF nodes
    <2>3. nodes = DOMAIN dependencies \cup {id} \cup ToSet(ds)
      BY DEF nodes
    <2>4. ASSUME NEW m \in nodes, NEW n \in nodes
          PROVE  m \in ToSet(dependencies'[n]) <=> n \in reverse_dependencies'[m]
      <3>1. CASE n = id
        BY <1>2, <2>1, <2>2, <2>3, <3>1 DEF LocklessInv, ReverseEdgesMirror
      <3>2. CASE n # id
        BY <1>2, <2>1, <2>2, <2>3, <3>2 DEF LocklessInv, ReverseEdgesMirror
      <3>3. QED
        BY <3>1, <3>2
    <2>5. ASSUME NEW n \in nodes PROVE ToSet(dependencies'[n]) \subseteq nodes
      BY <1>2, <2>1, <2>2, <2>3 DEF LocklessInv
    <2>6. ASSUME NEW n \in nodes PROVE reverse_dependencies'[n] \subseteq nodes
      BY <1>2, <2>2, <2>3 DEF LocklessInv
    <2>7. QED
      BY <2>2, <2>4, <2>5, <2>6 DEF LocklessInv, ReverseEdgesMirror
  <1>3. LocklessInv /\ [LocklessNext]_locklessVars => LocklessInv'
    BY <1>2 DEF LocklessNext, locklessVars, LocklessInv, ReverseEdgesMirror
  <1>4. LocklessInv => ReverseEdgesMirror
    BY DEF LocklessInv
  <1>5. QED
    BY <1>1, <1>3, <1>4, PTL DEF LocklessSpec

-----------------------------------------------------------------------------
(* LocklessDependencyGraph: its longest paths.                             *)
Answers == {CycleError} \cup [weight : Nat, path : Seq(1 .. Names)]

LEMMA AnswerIs ==
  ASSUME NEW a \in Answers, a # CycleError
  PROVE  /\ a \in [weight : Nat, path : Seq(1 .. Names)] /\ a.weight \in Nat /\ a.path \in Seq(1 .. Names)
         /\ a = [weight |-> a.weight, path |-> a.path]
BY DEF Answers

LEMMA AnswersHold ==
  /\ NoPath \in Answers /\ NoPath # CycleError /\ NoPath.weight = 0 /\ NoPath.path = <<>> /\ CycleError \in Answers
     /\ \A w \in Nat, p \in Seq(1 .. Names) :
        [weight |-> w, path |-> p] \in Answers /\ [weight |-> w, path |-> p] # CycleError
<1>1. CycleError.weight = -1 /\ NoPath.weight = 0 /\ NoPath.path = <<>>
  BY DEF CycleError, NoPath
<1>2. \A w \in Nat, p \in Seq(1 .. Names) : [weight |-> w, path |-> p] \in [weight : Nat, path : Seq(1 .. Names)]
  OBVIOUS
<1>3. \A w \in Nat, p \in Seq(1 .. Names) : [weight |-> w, path |-> p] # CycleError
  <2>1. \A w \in Nat, p \in Seq(1 .. Names) : [weight |-> w, path |-> p].weight = w
    OBVIOUS
  <2>2. \A w \in Nat : w # -1
    OBVIOUS
  <2>3. QED
    BY <1>1, <2>1, <2>2
<1>4. NoPath = [weight |-> 0, path |-> <<>>] /\ <<>> \in Seq(1 .. Names) /\ 0 \in Nat
  BY DEF NoPath
<1>5. QED
  BY <1>1, <1>2, <1>3, <1>4 DEF Answers

LEMMA HeavierIs ==
  ASSUME NEW a \in Answers, NEW b \in Answers
  PROVE  /\ Heavier(a, b) \in Answers
         /\ Heavier(a, b) = CycleError <=> a = CycleError \/ b = CycleError
         /\ a # CycleError /\ b # CycleError =>
              /\ a.weight <= Heavier(a, b).weight /\ b.weight <= Heavier(a, b).weight
              /\ Heavier(a, b) = a \/ Heavier(a, b) = b
<1>1. CycleError \in Answers
  BY AnswersHold
<1>2. CASE a = CycleError \/ b = CycleError
  BY <1>1, <1>2 DEF Heavier
<1>3. CASE a # CycleError /\ b # CycleError
  <2>1. a.weight \in Nat /\ b.weight \in Nat
    BY <1>3, AnswerIs
  <2>2. Heavier(a, b) = IF b.weight > a.weight THEN b ELSE a
    BY <1>3 DEF Heavier
  <2>3. QED
    BY <1>3, <2>1, <2>2
<1>4. QED
  BY <1>2, <1>3

HeaviestSteps(q, f) ==
  /\ f[0] = NoPath /\ \A i \in 1 .. Len(q) : f[i] = Heavier(f[i - 1], q[i])
  /\ Heaviest(q) = f[Len(q)]

LEMMA HeaviestUnfolds ==
  ASSUME NEW q \in Seq(Answers)
  PROVE  \E f : HeaviestSteps(q, f)
<1> DEFINE F == [p \in Answers \X (1 .. Len(q)) |-> Heavier(p[1], q[p[2]])]
           Body(h) == [i \in 0 .. Len(q) |-> IF i = 0 THEN NoPath ELSE Heavier(h[i - 1], q[i])]
<1>1. \A a \in Answers, i \in 1 .. Len(q) : Heavier(a, q[i]) \in Answers
  BY HeavierIs
<1>2. F \in [Answers \X (1 .. Len(q)) -> Answers]
  BY <1>1
<1>3. \A a \in Answers, i \in 1 .. Len(q) : F[<<a, i>>] = Heavier(a, q[i])
  OBVIOUS
<1> HIDE DEF F
<1>4. PICK h \in [0 .. Len(q) -> Answers] :
        h[0] = NoPath /\ \A i \in 1 .. Len(q) : h[i] = F[<<h[i - 1], i>>]
  <2>1. Len(q) \in Nat /\ NoPath \in Answers
    BY AnswersHold
  <2>2. Recursive(Len(q), Answers, NoPath, F)
    BY <1>2, <2>1, RecursionExists
  <2>3. QED
    BY <2>2, Zenon DEF Recursive
<1>5. h = Body(h)
  <2>1. ASSUME NEW i \in 0 .. Len(q) PROVE h[i] = Body(h)[i]
    <3>1. CASE i = 0
      BY <1>4, <3>1
    <3>2. CASE i # 0
      <4>1. i \in 1 .. Len(q) /\ i - 1 \in 0 .. Len(q)
        BY <3>2
      <4>2. h[i] = Heavier(h[i - 1], q[i])
        BY <1>3, <1>4, <4>1
      <4>3. QED
        BY <3>2, <4>1, <4>2
    <3>3. QED
      BY <3>1, <3>2
  <2>2. QED
    BY <2>1
<1> DEFINE f == CHOOSE w : w = Body(w)
<1>6. f = Body(f) /\ Heaviest(q) = f[Len(q)]
  <2>1. f = Body(f)
    BY <1>5
  <2>2. QED
    BY <2>1 DEF Heaviest
<1> HIDE DEF f
<1>7. HeaviestSteps(q, f)
  <2>1. f[0] = NoPath
    <3>1. 0 \in 0 .. Len(q)
      OBVIOUS
    <3>2. QED
      BY <1>6, <3>1
  <2>2. ASSUME NEW i \in 1 .. Len(q) PROVE f[i] = Heavier(f[i - 1], q[i])
    <3>1. i \in 0 .. Len(q) /\ i # 0
      OBVIOUS
    <3>2. QED
      BY <1>6, <3>1
  <2>3. QED
    BY <1>6, <2>1, <2>2 DEF HeaviestSteps
<1>8. QED
  BY <1>7

(* What the heaviest of the first n answers is.                            *)
HeaviestOf(q, n, a) ==
  /\ a \in Answers
  /\ a = CycleError <=> \E i \in 1 .. n : q[i] = CycleError
  /\ a # CycleError =>
       /\ \A i \in 1 .. n : q[i].weight <= a.weight
       /\ a = NoPath \/ \E i \in 1 .. n : a = q[i]

LEMMA HeaviestIs ==
  ASSUME NEW q \in Seq(Answers)
  PROVE  HeaviestOf(q, Len(q), Heaviest(q))
<1>1. PICK f : HeaviestSteps(q, f)
  BY HeaviestUnfolds
<1>2. /\ f[0] = NoPath /\ \A i \in 1 .. Len(q) : f[i] = Heavier(f[i - 1], q[i])
      /\ Heaviest(q) = f[Len(q)]
  BY <1>1 DEF HeaviestSteps
<1> DEFINE P == {n \in 0 .. Len(q) : HeaviestOf(q, n, f[n])}
<1>3. 0 \in P
  <2>1. 1 .. 0 = {} /\ 0 \in 0 .. Len(q)
    OBVIOUS
  <2>2. QED
    BY <1>2, <2>1, AnswersHold DEF HeaviestOf
<1>4. ASSUME NEW n \in 1 .. Len(q), n - 1 \in P PROVE n \in P
  <2> DEFINE a == f[n - 1]
             b == q[n]
             r == f[n]
  <2>1. HeaviestOf(q, n - 1, a) /\ b \in Answers /\ r = Heavier(a, b)
    BY <1>2, <1>4
  <2>2. \A i \in 1 .. n : i \in 1 .. n - 1 \/ i = n
    OBVIOUS
  <2>3. \A i \in 1 .. n - 1 : i \in 1 .. n
    OBVIOUS
  <2>4. n \in 1 .. n /\ n \in 0 .. Len(q)
    OBVIOUS
  <2>5. \A i \in 1 .. n : q[i] \in Answers
    OBVIOUS
  <2> HIDE DEF a, r
  <2>6. /\ r \in Answers
        /\ r = CycleError <=> a = CycleError \/ b = CycleError
        /\ a # CycleError /\ b # CycleError =>
              /\ a.weight <= r.weight /\ b.weight <= r.weight
              /\ r = a \/ r = b
    BY <2>1, HeavierIs DEF HeaviestOf
  <2>7. r = CycleError <=> \E i \in 1 .. n : q[i] = CycleError
    BY <2>1, <2>2, <2>3, <2>4, <2>6 DEF HeaviestOf
  <2>8. ASSUME r # CycleError
        PROVE  /\ \A i \in 1 .. n : q[i].weight <= r.weight
               /\ r = NoPath \/ \E i \in 1 .. n : r = q[i]
    <3>1. a # CycleError /\ b # CycleError
      BY <2>6, <2>8
    <3>2. a.weight \in Nat /\ r.weight \in Nat /\ a.weight <= r.weight /\ b.weight <= r.weight /\ (r = a \/ r = b)
      BY <2>1, <2>6, <2>8, <3>1, AnswerIs DEF HeaviestOf
    <3>3. ASSUME NEW i \in 1 .. n PROVE q[i].weight <= r.weight
      <4>1. CASE i = n
        BY <3>2, <4>1
      <4>2. CASE i \in 1 .. n - 1
        <5>1. q[i].weight <= a.weight
          BY <2>1, <3>1, <4>2 DEF HeaviestOf
        <5>2. q[i] # CycleError
          BY <2>1, <3>1, <4>2 DEF HeaviestOf
        <5>3. q[i].weight \in Nat
          BY <2>5, <5>2, AnswerIs
        <5>4. QED
          BY <3>2, <5>1, <5>3
      <4>3. QED
        BY <2>2, <4>1, <4>2
    <3>4. r = NoPath \/ \E i \in 1 .. n : r = q[i]
      BY <2>1, <2>3, <2>4, <3>1, <3>2 DEF HeaviestOf
    <3>5. QED
      BY <3>3, <3>4
  <2>9. HeaviestOf(q, n, r)
    BY <2>6, <2>7, <2>8 DEF HeaviestOf
  <2>10. QED
    BY <2>4, <2>9 DEF r
<1>5. \A n \in 0 .. Len(q) : n \in P
  <2>1. Len(q) \in Nat
    OBVIOUS
  <2> HIDE DEF P
  <2>2. QED
    BY <1>3, <1>4, <2>1, IntervalInduction
<1>6. QED
  BY <1>2, <1>5

(* The weights of a chain, one more at a time.                             *)
WeighSteps(p, f) ==
  /\ f[0] = 0 /\ \A i \in 1 .. Len(p) : f[i] = f[i - 1] + execution_weight[p[i]]
  /\ Weigh(p) = f[Len(p)] /\ \A i \in 0 .. Len(p) : f[i] \in Nat

LEMMA WeighUnfolds ==
  ASSUME NEW D, execution_weight \in [D -> Nat], NEW p \in Seq(D)
  PROVE  \E f : WeighSteps(p, f)
<1> DEFINE F == [u \in Nat \X (1 .. Len(p)) |-> u[1] + execution_weight[p[u[2]]]]
           Body(h) == [i \in 0 .. Len(p) |-> IF i = 0 THEN 0 ELSE h[i - 1] + execution_weight[p[i]]]
<1>1. \A a \in Nat, i \in 1 .. Len(p) : a + execution_weight[p[i]] \in Nat
  OBVIOUS
<1>2. F \in [Nat \X (1 .. Len(p)) -> Nat]
  BY <1>1
<1>3. \A a \in Nat, i \in 1 .. Len(p) : F[<<a, i>>] = a + execution_weight[p[i]]
  OBVIOUS
<1> HIDE DEF F
<1>4. PICK h \in [0 .. Len(p) -> Nat] :
        h[0] = 0 /\ \A i \in 1 .. Len(p) : h[i] = F[<<h[i - 1], i>>]
  <2>1. Len(p) \in Nat /\ 0 \in Nat
    OBVIOUS
  <2>2. Recursive(Len(p), Nat, 0, F)
    BY <1>2, <2>1, RecursionExists
  <2>3. QED
    BY <2>2, Zenon DEF Recursive
<1>5. h = Body(h)
  <2>1. ASSUME NEW i \in 0 .. Len(p) PROVE h[i] = Body(h)[i]
    <3>1. CASE i = 0
      BY <1>4, <3>1
    <3>2. CASE i # 0
      <4>1. i \in 1 .. Len(p) /\ i - 1 \in 0 .. Len(p)
        BY <3>2
      <4>2. h[i] = h[i - 1] + execution_weight[p[i]]
        BY <1>3, <1>4, <4>1
      <4>3. QED
        BY <3>2, <4>1, <4>2
    <3>3. QED
      BY <3>1, <3>2
  <2>2. QED
    BY <2>1
<1> DEFINE f == CHOOSE w : w = Body(w)
<1>6. f = Body(f) /\ Weigh(p) = f[Len(p)]
  <2>1. f = Body(f)
    BY <1>5
  <2>2. QED
    BY <2>1 DEF Weigh
<1> HIDE DEF f
<1>7. f[0] = 0
  <2>1. 0 \in 0 .. Len(p)
    OBVIOUS
  <2>2. QED
    BY <1>6, <2>1
<1>8. ASSUME NEW i \in 1 .. Len(p) PROVE f[i] = f[i - 1] + execution_weight[p[i]]
  <2>1. i \in 0 .. Len(p) /\ i # 0
    OBVIOUS
  <2>2. QED
    BY <1>6, <2>1
<1> DEFINE P == {i \in 0 .. Len(p) : f[i] \in Nat}
<1>9. 0 \in P /\ \A i \in 1 .. Len(p) : i - 1 \in P => i \in P
  <2>1. 0 \in 0 .. Len(p)
    OBVIOUS
  <2>2. ASSUME NEW i \in 1 .. Len(p), f[i - 1] \in Nat PROVE f[i] \in Nat
    <3>1. execution_weight[p[i]] \in Nat
      OBVIOUS
    <3>2. QED
      BY <1>8, <2>2, <3>1
  <2>3. \A i \in 1 .. Len(p) : i \in 0 .. Len(p)
    OBVIOUS
  <2>4. QED
    BY <1>7, <2>1, <2>2, <2>3
<1>10. \A i \in 0 .. Len(p) : i \in P
  <2>1. Len(p) \in Nat
    OBVIOUS
  <2> HIDE DEF P
  <2>2. QED
    BY <1>9, <2>1, IntervalInduction
<1>11. WeighSteps(p, f)
  BY <1>6, <1>7, <1>8, <1>10 DEF WeighSteps
<1>12. QED
  BY <1>11

LEMMA WeighAppend ==
  ASSUME NEW D, execution_weight \in [D -> Nat], NEW p \in Seq(D), NEW id \in D
  PROVE  /\ Weigh(Append(p, id)) = Weigh(p) + execution_weight[id] /\ Weigh(p) \in Nat
         /\ p = <<>> => Weigh(p) = 0
<1> DEFINE q == Append(p, id)
<1>1. /\ q \in Seq(D) /\ Len(q) = Len(p) + 1 /\ Len(p) \in Nat /\ q[Len(p) + 1] = id
      /\ \A i \in 1 .. Len(p) : q[i] = p[i] /\ i \in 1 .. Len(q)
  OBVIOUS
<1> HIDE DEF q
<1>2. PICK f : WeighSteps(p, f)
  BY WeighUnfolds
<1>3. PICK g : WeighSteps(q, g)
  BY <1>1, WeighUnfolds
<1> DEFINE P == {i \in 0 .. Len(p) : f[i] = g[i]}
<1>4. 0 \in P
  BY <1>1, <1>2, <1>3 DEF WeighSteps
<1>5. ASSUME NEW i \in 1 .. Len(p), i - 1 \in P PROVE i \in P
  <2>1. i \in 1 .. Len(q) /\ q[i] = p[i] /\ i \in 0 .. Len(p)
    BY <1>1
  <2>2. f[i] = f[i - 1] + execution_weight[p[i]]
    BY <1>2 DEF WeighSteps
  <2>3. g[i] = g[i - 1] + execution_weight[q[i]]
    BY <1>3, <2>1 DEF WeighSteps
  <2>4. f[i - 1] = g[i - 1]
    BY <1>5
  <2>5. QED
    BY <2>1, <2>2, <2>3, <2>4
<1>6. \A i \in 0 .. Len(p) : i \in P
  <2> HIDE DEF P
  <2>1. QED
    BY <1>1, <1>4, <1>5, IntervalInduction
<1>7. f[Len(p)] = g[Len(p)]
  BY <1>1, <1>6
<1>8. g[Len(p) + 1] = g[Len(p)] + execution_weight[id]
  <2>1. Len(p) + 1 \in 1 .. Len(q) /\ Len(p) + 1 - 1 = Len(p)
    BY <1>1
  <2>2. QED
    BY <1>1, <1>3, <2>1 DEF WeighSteps
<1>9. Weigh(p) = f[Len(p)] /\ Weigh(q) = g[Len(q)] /\ f[Len(p)] \in Nat /\ f[0] = 0
  BY <1>1, <1>2, <1>3 DEF WeighSteps
<1>10. QED
  BY <1>1, <1>7, <1>8, <1>9 DEF q

LocklessTypes ==
  /\ DOMAIN dependencies \subseteq 1 .. Names
  /\ \A n \in DOMAIN dependencies : dependencies[n] \in Seq(DOMAIN dependencies)
  /\ execution_weight \in [DOMAIN dependencies -> Nat]

Answered == [DOMAIN dependencies -> Answers]
DepsOf(id) == ToSet(dependencies[id])

(* The answer r for id from those of its dependencies.                     *)
PathIs(id, visiting, below, r) ==
  /\ r \in Answers
  /\ r = CycleError <=> id \in visiting \/ \E d \in DepsOf(id) : below[d] = CycleError
  /\ r # CycleError =>
       /\ \A d \in DepsOf(id) : below[d].weight + execution_weight[id] <= r.weight
       /\ \/ r.weight = execution_weight[id] /\ r.path = <<id>>
          \/ \E d \in DepsOf(id) : /\ r.weight = below[d].weight + execution_weight[id]
                                  /\ r.path = Append(below[d].path, id)

LEMMA PathToIs ==
  ASSUME LocklessTypes, NEW id \in DOMAIN dependencies, NEW visiting, NEW below \in Answered
  PROVE  PathIs(id, visiting, below, PathTo(id, visiting, below))
<1> DEFINE list == dependencies[id]
           q == [i \in DOMAIN list |-> below[list[i]]]
           best == Heaviest(q)
           w == execution_weight[id]
           r == PathTo(id, visiting, below)
<1> SUFFICES PathIs(id, visiting, below, r)
  OBVIOUS
<1>1. /\ list \in Seq(DOMAIN dependencies) /\ DOMAIN list = 1 .. Len(list) /\ Len(list) \in Nat
      /\ \A i \in 1 .. Len(list) : list[i] \in DOMAIN dependencies
      /\ w \in Nat /\ id \in 1 .. Names
  BY DEF LocklessTypes
<1>2. q = [i \in 1 .. Len(list) |-> q[i]] /\ \A i \in 1 .. Len(list) : q[i] = below[list[i]] /\ q[i] \in Answers
  BY <1>1 DEF Answered
<1>3. r = IF id \in visiting \/ best = CycleError THEN CycleError
          ELSE [weight |-> best.weight + w, path |-> Append(best.path, id)]
  BY DEF PathTo
<1>4. \A d : d \in DepsOf(id) <=> \E i \in 1 .. Len(list) : list[i] = d
  BY <1>1 DEF DepsOf, ToSet
<1> HIDE DEF q, list, w, r
<1>5. q \in Seq(Answers) /\ Len(q) = Len(list)
  BY <1>1, <1>2
<1>6. HeaviestOf(q, Len(list), best)
  BY <1>5, HeaviestIs
<1>7. /\ best \in Answers
      /\ best = CycleError <=> \E d \in DepsOf(id) : below[d] = CycleError
      /\ best # CycleError =>
           /\ \A d \in DepsOf(id) : below[d].weight <= best.weight /\ below[d] # CycleError
           /\ best = NoPath \/ \E d \in DepsOf(id) : best = below[d]
  BY <1>2, <1>4, <1>6 DEF HeaviestOf
<1> HIDE DEF best
<1>8. CASE id \in visiting \/ best = CycleError
  BY <1>3, <1>7, <1>8, AnswersHold DEF PathIs
<1>9. CASE ~(id \in visiting \/ best = CycleError)
  <2>1. /\ r = [weight |-> best.weight + w, path |-> Append(best.path, id)]
        /\ best.weight \in Nat /\ best.path \in Seq(1 .. Names)
    BY <1>3, <1>7, <1>9, AnswerIs
  <2>2. best.weight + w \in Nat /\ Append(best.path, id) \in Seq(1 .. Names)
    BY <1>1, <2>1
  <2>3. r \in Answers /\ r # CycleError
    BY <2>1, <2>2, AnswersHold
  <2>4. r.weight = best.weight + w /\ r.path = Append(best.path, id)
    BY <2>1
  <2>5. ASSUME NEW d \in DepsOf(id) PROVE below[d].weight + w <= r.weight
    <3>1. below[d].weight <= best.weight /\ below[d] # CycleError /\ below[d] \in Answers
      BY <1>1, <1>4, <1>7, <1>9 DEF Answered
    <3>2. below[d].weight \in Nat
      BY <3>1, AnswerIs
    <3>3. QED
      BY <1>1, <2>1, <2>4, <3>1, <3>2
  <2>6. CASE best = NoPath
    <3>1. best.weight = 0 /\ best.path = <<>>
      BY <2>6, AnswersHold
    <3>2. r.weight = w /\ r.path = <<id>>
      BY <1>1, <2>4, <3>1
    <3>3. QED
      BY <1>7, <1>9, <2>3, <2>5, <3>2 DEF PathIs, w
  <2>7. CASE \E d \in DepsOf(id) : best = below[d]
    BY <1>7, <1>9, <2>3, <2>4, <2>5, <2>7 DEF PathIs, w
  <2>8. QED
    BY <1>7, <1>9, <2>6, <2>7
<1>10. QED
  BY <1>8, <1>9

LEMMA PathToSame ==
  ASSUME LocklessTypes, NEW id \in DOMAIN dependencies, NEW visiting, NEW f, NEW g,
         id \in visiting \/ \A d \in DOMAIN dependencies : f[d] = g[d]
  PROVE  PathTo(id, visiting, f) = PathTo(id, visiting, g)
<1>1. CASE id \in visiting
  BY <1>1 DEF PathTo
<1>2. CASE \A d \in DOMAIN dependencies : f[d] = g[d]
  <2>1. dependencies[id] \in Seq(DOMAIN dependencies)
    BY DEF LocklessTypes
  <2>2. \A i \in DOMAIN dependencies[id] : f[dependencies[id][i]] = g[dependencies[id][i]]
    BY <1>2, <2>1
  <2>3. [i \in DOMAIN dependencies[id] |-> f[dependencies[id][i]]]
          = [i \in DOMAIN dependencies[id] |-> g[dependencies[id][i]]]
    BY <2>2
  <2>4. QED
    BY <2>3, Zenon DEF PathTo
<1>3. QED
  BY <1>1, <1>2

(* The recursion of longest_path ends, since a node that is visited again  *)
(* is an error: there is a function that satisfies it.                     *)
Again(f) ==
  [visiting \in SUBSET DOMAIN dependencies |->
     [id \in DOMAIN dependencies |-> PathTo(id, visiting, f[visiting \cup {id}])]]

Visits == SUBSET DOMAIN dependencies
Unvisited(visiting) == Cardinality(DOMAIN dependencies \ visiting)
Solutions == [Visits -> Answered]

LongestSteps(f) ==
  /\ f \in Solutions /\ longest_path = f[{}]
  /\ \A v \in Visits, id \in DOMAIN dependencies : f[v][id] = PathTo(id, v, f[v \cup {id}])

LEMMA AgainAt ==
  ASSUME NEW f, NEW v \in Visits, NEW id \in DOMAIN dependencies
  PROVE  Again(f)[v][id] = PathTo(id, v, f[v \cup {id}])
BY DEF Again, Visits

LEMMA AgainIs ==
  ASSUME LocklessTypes, NEW f \in Solutions
  PROVE  Again(f) \in Solutions
<1>1. ASSUME NEW visiting \in SUBSET DOMAIN dependencies, NEW id \in DOMAIN dependencies
      PROVE  PathTo(id, visiting, f[visiting \cup {id}]) \in Answers
  <2>1. f[visiting \cup {id}] \in Answered
    BY DEF Solutions, Visits
  <2>2. QED
    BY <2>1, PathToIs DEF PathIs
<1>2. QED
  BY <1>1 DEF Again, Answered, Solutions, Visits

LEMMA NodesFinite ==
  ASSUME LocklessTypes
  PROVE  IsFiniteSet(DOMAIN dependencies) /\ Cardinality(DOMAIN dependencies) \in 0 .. Names
<1>1. IsFiniteSet(1 .. Names) /\ Cardinality(1 .. Names) = Names
  BY LocklessAssumption, FS_Interval
<1>2. IsFiniteSet(DOMAIN dependencies) /\ Cardinality(DOMAIN dependencies) <= Names
  BY <1>1, FS_Subset DEF LocklessTypes
<1>3. Cardinality(DOMAIN dependencies) \in Nat
  BY <1>2, FS_CardinalityType
<1>4. QED
  BY <1>2, <1>3, LocklessAssumption

LEMMA LessToVisit ==
  ASSUME LocklessTypes
  PROVE  /\ \A v \in Visits : Unvisited(v) \in Nat /\ Unvisited(v) <= Cardinality(DOMAIN dependencies)
         /\ \A v \in Visits, id \in DOMAIN dependencies :
              v \cup {id} \in Visits /\ (id \notin v => Unvisited(v \cup {id}) = Unvisited(v) - 1)
         /\ {} \in Visits /\ Unvisited({}) = Cardinality(DOMAIN dependencies)
<1>1. ASSUME NEW v \in Visits
      PROVE  /\ IsFiniteSet(DOMAIN dependencies \ v) /\ Unvisited(v) \in Nat
             /\ Unvisited(v) <= Cardinality(DOMAIN dependencies)
  BY NodesFinite, FS_Subset, FS_CardinalityType DEF Unvisited
<1>2. ASSUME NEW v \in Visits, NEW id \in DOMAIN dependencies, id \notin v
      PROVE  Unvisited(v \cup {id}) = Unvisited(v) - 1
  <2> DEFINE rest == DOMAIN dependencies \ v
  <2>1. DOMAIN dependencies \ (v \cup {id}) = rest \ {id} /\ id \in rest
    BY <1>2
  <2>2. Cardinality(rest \ {id}) = Cardinality(rest) - 1
    BY <1>1, <2>1, FS_RemoveElement
  <2>3. QED
    BY <2>1, <2>2 DEF Unvisited
<1>3. {} \in Visits /\ Unvisited({}) = Cardinality(DOMAIN dependencies)
  <2>1. DOMAIN dependencies \ {} = DOMAIN dependencies
    OBVIOUS
  <2>2. QED
    BY <2>1 DEF Visits, Unvisited
<1>4. \A v \in Visits, id \in DOMAIN dependencies : v \cup {id} \in Visits
  BY DEF Visits
<1>5. QED
  BY <1>1, <1>2, <1>3, <1>4

LEMMA SolutionExists ==
  ASSUME LocklessTypes
  PROVE  \E f \in Solutions : f = Again(f)
<1> DEFINE D == DOMAIN dependencies
           n == Cardinality(D) + 1
           F == [p \in Solutions \X (1 .. n) |-> Again(p[1])]
           base == [v \in Visits |-> [id \in D |-> CycleError]]
<1>1. n \in Nat /\ n >= 1 /\ n \in 0 .. n
  BY NodesFinite
<1>2. F \in [Solutions \X (1 .. n) -> Solutions] /\ base \in Solutions
  BY AgainIs, AnswersHold DEF Answered, Solutions
<1>3. \A f \in Solutions, i \in 1 .. n : F[<<f, i>>] = Again(f)
  OBVIOUS
<1>4. \A v \in Visits : Unvisited(v) \in Nat /\ Unvisited(v) < n
  BY LessToVisit, NodesFinite
<1> HIDE DEF F, n, base, D
<1>5. PICK g \in [0 .. n -> Solutions] : g[0] = base /\ \A i \in 1 .. n : g[i] = F[<<g[i - 1], i>>]
  <2>1. Recursive(n, Solutions, base, F)
    BY <1>1, <1>2, RecursionExists
  <2>2. QED
    BY <2>1, Zenon DEF Recursive
<1>6. \A i \in 1 .. n : i - 1 \in 0 .. n /\ g[i - 1] \in Solutions /\ g[i] = Again(g[i - 1])
  <2>1. \A i \in 1 .. n : i - 1 \in 0 .. n
    BY <1>1
  <2>2. QED
    BY <1>3, <1>5, <2>1
<1>7. \A f : \A v \in Visits, id \in D : Again(f)[v][id] = PathTo(id, v, f[v \cup {id}])
  BY AgainAt DEF D
<1> DEFINE Still(k) == \A v \in Visits, id \in D :
                         Unvisited(v) < k => g[k][v][id] = PathTo(id, v, g[k][v \cup {id}])
           P == {k \in 0 .. n : Still(k)}
<1>8. 0 \in P
  <2>1. \A v \in Visits : ~(Unvisited(v) < 0)
    BY <1>4
  <2>2. 0 \in 0 .. n
    BY <1>1
  <2>3. QED
    BY <2>1, <2>2
<1>9. ASSUME NEW k \in 1 .. n, k - 1 \in P PROVE k \in P
  <2>1. ASSUME NEW v \in Visits, NEW id \in D, Unvisited(v) < k
        PROVE  g[k][v][id] = PathTo(id, v, g[k][v \cup {id}])
    <3>1. Still(k - 1)
      BY <1>9
    <3>2. g[k] = Again(g[k - 1])
      BY <1>6
    <3> HIDE DEF Still, P
    <3>3. g[k][v][id] = PathTo(id, v, g[k - 1][v \cup {id}])
      BY <1>7, <3>2
    <3>4. id \in v \/ \A d \in D : g[k - 1][v \cup {id}][d] = g[k][v \cup {id}][d]
      <4> SUFFICES ASSUME id \notin v, NEW d \in D
                   PROVE  g[k - 1][v \cup {id}][d] = g[k][v \cup {id}][d]
        OBVIOUS
      <4> DEFINE u == v \cup {id}
      <4>1. u \in Visits /\ Unvisited(u) = Unvisited(v) - 1 /\ Unvisited(v) \in Nat
        BY LessToVisit DEF D
      <4>2. Unvisited(u) < k - 1
        BY <2>1, <4>1
      <4> HIDE DEF u
      <4>3. g[k - 1][u][d] = PathTo(d, u, g[k - 1][u \cup {d}])
        BY <3>1, <4>1, <4>2 DEF Still
      <4>4. Again(g[k - 1])[u][d] = PathTo(d, u, g[k - 1][u \cup {d}])
        BY <1>7, <4>1
      <4>5. g[k][u][d] = PathTo(d, u, g[k - 1][u \cup {d}])
        BY <3>2, <4>4, Zenon
      <4>6. g[k - 1][u][d] = g[k][u][d]
        BY <4>3, <4>5, Zenon
      <4>7. QED
        BY <4>6, Zenon DEF u
    <3>5. id \in DOMAIN dependencies
      BY DEF D
    <3>6. PathTo(id, v, g[k - 1][v \cup {id}]) = PathTo(id, v, g[k][v \cup {id}])
      <4> DEFINE a == g[k - 1][v \cup {id}]
                 b == g[k][v \cup {id}]
      <4>1. id \in v \/ \A d \in DOMAIN dependencies : a[d] = b[d]
        BY <3>4, Zenon DEF D
      <4> HIDE DEF a, b
      <4>2. PathTo(id, v, a) = PathTo(id, v, b)
        BY <3>5, <4>1, PathToSame
      <4>3. QED
        BY <4>2, Zenon DEF a, b
    <3>7. QED
      BY <3>3, <3>6
  <2>2. Still(k) /\ k \in 0 .. n
    BY <2>1, <1>1
  <2>3. QED
    BY <2>2
<1>10. n \in P
  <2> HIDE DEF P
  <2>1. \A k \in 0 .. n : k \in P
    BY <1>1, <1>8, <1>9, IntervalInduction
  <2>2. QED
    BY <1>1, <2>1
<1> DEFINE h == g[n]
<1>11. h \in Solutions /\ \A v \in Visits, id \in D : h[v][id] = PathTo(id, v, h[v \cup {id}])
  <2>1. Still(n)
    BY <1>10
  <2>2. h \in Solutions
    BY <1>1, <1>5
  <2> HIDE DEF P
  <2>3. QED
    BY <1>4, <2>1, <2>2
<1> HIDE DEF h, P
<1>12. h = Again(h)
  <2>1. Again(h) \in Solutions
    BY <1>11, AgainIs
  <2>2. \A v \in Visits : h[v] = Again(h)[v]
    <3> SUFFICES ASSUME NEW v \in Visits PROVE h[v] = Again(h)[v]
      OBVIOUS
    <3>1. h[v] \in [D -> Answers] /\ Again(h)[v] \in [D -> Answers]
      BY <1>11, <2>1 DEF D, Answered, Solutions
    <3>2. ASSUME NEW id \in D PROVE h[v][id] = Again(h)[v][id]
      <4>1. h[v][id] = PathTo(id, v, h[v \cup {id}])
        BY <1>11
      <4>2. Again(h)[v][id] = PathTo(id, v, h[v \cup {id}])
        BY <1>7
      <4>3. QED
        BY <4>1, <4>2
    <3>3. QED
      BY <3>1, <3>2
  <2>3. QED
    BY <1>11, <2>1, <2>2 DEF Solutions
<1>13. QED
  BY <1>11, <1>12

LEMMA LongestUnfolds ==
  ASSUME LocklessTypes
  PROVE  \E f : LongestSteps(f)
<1> DEFINE f == CHOOSE w : w = Again(w)
           D == DOMAIN dependencies
           n == Cardinality(D)
<1>1. f = Again(f)
  BY SolutionExists, Zenon
<1>2. longest_path = f[{}]
  BY Zenon DEF longest_path, Again
<1> HIDE DEF f
<1>3. \A v \in Visits, id \in D : f[v][id] = PathTo(id, v, f[v \cup {id}])
  <2>1. \A v \in Visits, id \in D : Again(f)[v][id] = PathTo(id, v, f[v \cup {id}])
    BY AgainAt
  <2>2. QED
    BY <1>1, <2>1, Zenon
<1>4. f = [v \in Visits |-> [id \in D |-> f[v][id]]]
  <2>1. f = [v \in Visits |-> [id \in D |-> PathTo(id, v, f[v \cup {id}])]]
    BY <1>1, Zenon DEF Again, Visits
  <2>2. QED
    BY <1>3, <2>1
<1> DEFINE Typed(k) == \A v \in Visits, id \in D : Unvisited(v) <= k => f[v][id] \in Answers
           P == {k \in 0 .. n : Typed(k)}
<1>5. n \in Nat /\ 0 \in 0 .. n
  BY NodesFinite
<1> HIDE DEF n
<1>6. ASSUME NEW v \in Visits, NEW id \in D, id \in v \/ f[v \cup {id}] \in Answered
      PROVE  f[v][id] \in Answers
  <2>1. CASE id \in v
    <3>1. PathTo(id, v, f[v \cup {id}]) = CycleError
      BY <2>1 DEF PathTo
    <3>2. QED
      BY <1>3, <3>1, AnswersHold
  <2>2. CASE f[v \cup {id}] \in Answered
    <3>1. PathIs(id, v, f[v \cup {id}], PathTo(id, v, f[v \cup {id}]))
      BY <2>2, PathToIs
    <3>2. QED
      BY <1>3, <3>1 DEF PathIs
  <2>3. QED
    BY <1>6, <2>1, <2>2
<1>7. ASSUME NEW v \in Visits, NEW id \in D, id \notin v, \A d \in D : f[v \cup {id}][d] \in Answers
      PROVE  f[v][id] \in Answers
  <2>1. v \cup {id} \in Visits
    BY LessToVisit
  <2>2. f[v \cup {id}] = [d \in D |-> f[v \cup {id}][d]]
    BY <1>4, <2>1
  <2>3. f[v \cup {id}] \in Answered
    BY <1>7, <2>2 DEF Answered
  <2>4. QED
    BY <1>6, <2>3
<1> HIDE DEF D
<1>8. 0 \in P
  <2>1. ASSUME NEW v \in Visits, NEW id \in D, Unvisited(v) <= 0 PROVE f[v][id] \in Answers
    <3>1. ASSUME id \notin v PROVE FALSE
      <4>1. v \cup {id} \in Visits /\ Unvisited(v \cup {id}) = Unvisited(v) - 1 /\ Unvisited(v) \in Nat
        BY <3>1, LessToVisit DEF D
      <4>2. Unvisited(v \cup {id}) \in Nat
        BY <4>1, LessToVisit
      <4>3. QED
        BY <2>1, <4>1, <4>2
    <3>2. QED
      BY <1>6, <3>1
  <2>2. QED
    BY <1>5, <2>1
<1>9. ASSUME NEW k \in 1 .. n, k - 1 \in P PROVE k \in P
  <2>1. Typed(k - 1)
    BY <1>9
  <2>2. ASSUME NEW v \in Visits, NEW id \in D, Unvisited(v) <= k PROVE f[v][id] \in Answers
    <3>1. CASE id \in v
      BY <1>6, <3>1
    <3>2. CASE id \notin v
      <4>1. v \cup {id} \in Visits /\ Unvisited(v \cup {id}) = Unvisited(v) - 1 /\ Unvisited(v) \in Nat
        BY <3>2, LessToVisit DEF D
      <4>2. Unvisited(v \cup {id}) <= k - 1
        BY <2>2, <4>1
      <4>3. \A d \in D : f[v \cup {id}][d] \in Answers
        BY <2>1, <4>1, <4>2
      <4>4. QED
        BY <1>7, <3>2, <4>3
    <3>3. QED
      BY <3>1, <3>2
  <2>3. k \in 0 .. n
    BY <1>5
  <2>4. QED
    BY <2>2, <2>3
<1>10. n \in P
  <2> HIDE DEF P
  <2>1. \A k \in 0 .. n : k \in P
    BY <1>5, <1>8, <1>9, IntervalInduction
  <2>2. QED
    BY <1>5, <2>1
<1>11. \A v \in Visits, id \in D : f[v][id] \in Answers
  <2>1. Typed(n)
    BY <1>10
  <2>2. \A v \in Visits : Unvisited(v) <= n
    BY LessToVisit DEF n, D
  <2>3. QED
    BY <2>1, <2>2
<1>12. f \in Solutions
  BY <1>4, <1>11 DEF Solutions, Answered, D
<1>13. LongestSteps(f)
  BY <1>2, <1>3, <1>12 DEF LongestSteps, D
<1>14. QED
  BY <1>13

(* The walk of transitive_dependencies.                                    *)
Out(S) == S \cup UNION {ToSet(dependencies[n]) : n \in S}

WalkSteps(id, f) ==
  /\ f[0] = DepsOf(id) /\ \A k \in 1 .. Names : f[k] = Out(f[k - 1])
  /\ \A k \in 0 .. Names : f[k] \in Visits
  /\ transitive_dependencies(id) = f[Names]

LEMMA DepsOfIs ==
  ASSUME LocklessTypes
  PROVE  /\ \A id \in DOMAIN dependencies : DepsOf(id) \in Visits
         /\ \A S \in Visits : Out(S) \in Visits /\ S \subseteq Out(S)
         /\ \A S : \A n \in S : DepsOf(n) \subseteq Out(S)
         /\ \A S : (\A n \in S : DepsOf(n) \subseteq S) => Out(S) = S
<1>1. ASSUME NEW id \in DOMAIN dependencies PROVE DepsOf(id) \in Visits
  <2>1. dependencies[id] \in Seq(DOMAIN dependencies)
    BY DEF LocklessTypes
  <2>2. QED
    BY <2>1 DEF DepsOf, Visits, ToSet
<1>2. ASSUME NEW S \in Visits PROVE Out(S) \in Visits /\ S \subseteq Out(S)
  BY <1>1 DEF Visits, Out, DepsOf
<1>3. \A S : \A n \in S : DepsOf(n) \subseteq Out(S)
  BY DEF DepsOf, Out
<1>4. \A S : (\A n \in S : DepsOf(n) \subseteq S) => Out(S) = S
  BY DEF DepsOf, Out
<1>5. QED
  BY <1>1, <1>2, <1>3, <1>4

LEMMA DepsWalkUnfolds ==
  ASSUME LocklessTypes, NEW id \in DOMAIN dependencies
  PROVE  \E f : WalkSteps(id, f)
<1> DEFINE F == [p \in Visits \X (1 .. Names) |-> Out(p[1])]
           Body(h) == [k \in 0 .. Names |-> IF k = 0 THEN ToSet(dependencies[id]) ELSE Out(h[k - 1])]
<1>1. DepsOf(id) \in Visits /\ \A S \in Visits : Out(S) \in Visits
  BY DepsOfIs
<1>2. F \in [Visits \X (1 .. Names) -> Visits]
  BY <1>1
<1>3. \A S \in Visits, i \in 1 .. Names : F[<<S, i>>] = Out(S)
  OBVIOUS
<1> HIDE DEF F
<1>4. PICK h \in [0 .. Names -> Visits] :
        h[0] = DepsOf(id) /\ \A i \in 1 .. Names : h[i] = F[<<h[i - 1], i>>]
  <2>1. Recursive(Names, Visits, DepsOf(id), F)
    BY <1>1, <1>2, LocklessAssumption, RecursionExists
  <2>2. QED
    BY <2>1, Zenon DEF Recursive
<1>5. h = Body(h)
  <2>1. ASSUME NEW i \in 0 .. Names PROVE h[i] = Body(h)[i]
    <3>1. CASE i = 0
      BY <1>4, <3>1 DEF DepsOf
    <3>2. CASE i # 0
      <4>1. i \in 1 .. Names /\ i - 1 \in 0 .. Names
        BY <3>2, LocklessAssumption
      <4>2. h[i] = Out(h[i - 1])
        BY <1>3, <1>4, <4>1
      <4>3. QED
        BY <3>2, <4>1, <4>2
    <3>3. QED
      BY <3>1, <3>2
  <2> HIDE DEF Body
  <2>2. Body(h) = [k \in 0 .. Names |-> Body(h)[k]]
    BY DEF Body
  <2>3. QED
    BY <2>1, <2>2
<1> DEFINE f == CHOOSE w : w = Body(w)
<1>6. f = Body(f)
  BY <1>5, Zenon
<1>7. transitive_dependencies(id) = f[Names]
  BY DEF transitive_dependencies, Out
<1> HIDE DEF f
<1>8. f[0] = DepsOf(id)
  <2>1. 0 \in 0 .. Names
    BY LocklessAssumption
  <2>2. Body(f)[0] = DepsOf(id)
    BY <2>1 DEF DepsOf
  <2>3. QED
    BY <1>6, <2>2, Zenon
<1>9. ASSUME NEW k \in 1 .. Names PROVE f[k] = Out(f[k - 1])
  <2>1. k \in 0 .. Names /\ k # 0
    BY LocklessAssumption
  <2>2. Body(f)[k] = Out(f[k - 1])
    BY <2>1
  <2>3. QED
    BY <1>6, <2>2, Zenon
<1> DEFINE P == {k \in 0 .. Names : f[k] \in Visits}
<1>10. \A k \in 0 .. Names : k \in P
  <2>1. 0 \in P /\ \A k \in 1 .. Names : k - 1 \in P => k \in P
    BY <1>1, <1>8, <1>9, LocklessAssumption
  <2> HIDE DEF P
  <2>2. QED
    BY <2>1, LocklessAssumption, IntervalInduction
<1>11. WalkSteps(id, f)
  BY <1>7, <1>8, <1>9, <1>10 DEF WalkSteps
<1>12. QED
  BY <1>11

Closed(T) == \A n \in T : DepsOf(n) \subseteq T

(* It finds the least closed set with the dependencies of id: a step that  *)
(* finds nothing new is the last that could, and each of the others finds  *)
(* one of Names.                                                           *)
LEMMA WalkIs ==
  ASSUME LocklessTypes, NEW id \in DOMAIN dependencies
  PROVE  /\ transitive_dependencies(id) \in Visits /\ DepsOf(id) \subseteq transitive_dependencies(id)
         /\ Closed(transitive_dependencies(id))
         /\ \A T : DepsOf(id) \subseteq T /\ Closed(T) => transitive_dependencies(id) \subseteq T
<1>1. PICK f : WalkSteps(id, f)
  BY DepsWalkUnfolds
<1>2. /\ f[0] = DepsOf(id) /\ \A k \in 1 .. Names : f[k] = Out(f[k - 1])
      /\ \A k \in 0 .. Names : f[k] \in Visits
      /\ transitive_dependencies(id) = f[Names] /\ Names \in Nat /\ Names \in 0 .. Names
  BY <1>1, LocklessAssumption DEF WalkSteps
<1>3. ASSUME NEW T, DepsOf(id) \subseteq T, Closed(T) PROVE f[Names] \subseteq T
  <2> DEFINE P == {k \in 0 .. Names : f[k] \subseteq T}
  <2>1. 0 \in P
    BY <1>2, <1>3
  <2>2. ASSUME NEW k \in 1 .. Names, k - 1 \in P PROVE k \in P
    <3>1. f[k] = Out(f[k - 1]) /\ f[k - 1] \subseteq T
      BY <1>2, <2>2
    <3>2. Out(f[k - 1]) \subseteq T
      BY <1>3, <3>1 DEF Out, Closed, DepsOf
    <3>3. k \in 0 .. Names
      BY <1>2
    <3>4. QED
      BY <3>1, <3>2, <3>3
  <2>3. \A k \in 0 .. Names : k \in P
    <3> HIDE DEF P
    <3>1. QED
      BY <1>2, <2>1, <2>2, IntervalInduction
  <2>4. QED
    BY <1>2, <2>3
<1>4. DepsOf(id) \subseteq f[Names]
  <2> DEFINE P == {k \in 0 .. Names : DepsOf(id) \subseteq f[k]}
  <2>1. 0 \in P
    BY <1>2
  <2>2. ASSUME NEW k \in 1 .. Names, k - 1 \in P PROVE k \in P
    <3>1. f[k] = Out(f[k - 1]) /\ DepsOf(id) \subseteq f[k - 1] /\ k \in 0 .. Names
      BY <1>2, <2>2
    <3>2. f[k - 1] \subseteq Out(f[k - 1])
      BY DEF Out
    <3>3. QED
      BY <3>1, <3>2
  <2>3. \A k \in 0 .. Names : k \in P
    <3> HIDE DEF P
    <3>1. QED
      BY <1>2, <2>1, <2>2, IntervalInduction
  <2>4. QED
    BY <1>2, <2>3
<1>5. \A S \in Visits : IsFiniteSet(S) /\ Cardinality(S) \in Nat
  BY NodesFinite, FS_Subset, FS_CardinalityType DEF Visits
<1>6. Out(f[Names]) = f[Names]
  <2> DEFINE P == {k \in 0 .. Names : Out(f[k]) = f[k] \/ Cardinality(f[k]) >= k}
  <2>1. 0 \in P
    BY <1>2, <1>5
  <2>2. ASSUME NEW k \in 1 .. Names, k - 1 \in P PROVE k \in P
    <3> DEFINE S == f[k - 1]
    <3>1. /\ f[k] = Out(S) /\ S \in Visits /\ Out(S) \in Visits /\ S \subseteq Out(S) /\ k \in 0 .. Names
          /\ Out(S) = S \/ Cardinality(S) >= k - 1
      BY <1>2, <2>2, DepsOfIs
    <3> HIDE DEF S
    <3>2. CASE Out(S) = S
      BY <3>1, <3>2
    <3>3. CASE Out(S) # S
      <4>1. Cardinality(S) < Cardinality(Out(S))
        BY <1>5, <3>1, <3>3, FS_Subset
      <4>2. Cardinality(f[k]) >= k
        BY <1>5, <3>1, <3>3, <4>1
      <4>3. QED
        BY <3>1, <4>2
    <3>4. QED
      BY <3>2, <3>3
  <2>3. \A k \in 0 .. Names : k \in P
    <3> HIDE DEF P
    <3>1. QED
      BY <1>2, <2>1, <2>2, IntervalInduction
  <2>4. CASE Cardinality(f[Names]) >= Names
    <3> DEFINE S == f[Names]
    <3>1. S \in Visits /\ Out(S) \in Visits /\ S \subseteq Out(S)
      BY <1>2, DepsOfIs
    <3>2. ASSUME Out(S) # S PROVE FALSE
      <4>1. Cardinality(S) < Cardinality(Out(S))
        BY <1>5, <3>1, <3>2, FS_Subset
      <4>2. Cardinality(Out(S)) <= Cardinality(DOMAIN dependencies)
        BY <3>1, NodesFinite, FS_Subset DEF Visits
      <4>3. QED
        BY <1>2, <1>5, <2>4, <3>1, <4>1, <4>2, NodesFinite
    <3>3. QED
      BY <3>2
  <2>5. QED
    BY <1>2, <2>3, <2>4
<1>7. Closed(f[Names])
  <2>1. \A n \in f[Names] : DepsOf(n) \subseteq Out(f[Names])
    BY DepsOfIs
  <2>2. QED
    BY <1>6, <2>1 DEF Closed
<1>8. QED
  BY <1>2, <1>3, <1>4, <1>7

(* What holds of a visit once it holds of those below holds of all.        *)
LEMMA VisitInduction ==
  ASSUME LocklessTypes, NEW Q,
         \A v \in Visits : (\A id \in DOMAIN dependencies \ v : v \cup {id} \in Q) => v \in Q
  PROVE  \A v \in Visits : v \in Q
<1> DEFINE n == Cardinality(DOMAIN dependencies)
           P == {k \in 0 .. n : \A v \in Visits : Unvisited(v) <= k => v \in Q}
<1>1. n \in Nat /\ n \in 0 .. n /\ 0 \in 0 .. n /\ \A k \in 1 .. n : k \in 0 .. n
  BY NodesFinite
<1>2. \A v \in Visits : Unvisited(v) \in Nat /\ Unvisited(v) <= n
  BY LessToVisit
<1>3. \A v \in Visits : \A id \in DOMAIN dependencies \ v :
        v \cup {id} \in Visits /\ Unvisited(v \cup {id}) = Unvisited(v) - 1
  BY LessToVisit
<1> HIDE DEF n
<1>4. 0 \in P
  <2>1. ASSUME NEW v \in Visits, Unvisited(v) <= 0 PROVE v \in Q
    <3>1. ASSUME NEW id \in DOMAIN dependencies \ v PROVE FALSE
      <4>1. v \cup {id} \in Visits /\ Unvisited(v \cup {id}) = Unvisited(v) - 1
        BY <1>3
      <4>2. Unvisited(v \cup {id}) \in Nat /\ Unvisited(v) \in Nat
        BY <1>2, <4>1
      <4>3. QED
        BY <2>1, <4>1, <4>2
    <3>2. QED
      BY <3>1
  <2>2. QED
    BY <1>1, <2>1
<1>5. ASSUME NEW k \in 1 .. n, k - 1 \in P PROVE k \in P
  <2>1. \A v \in Visits : Unvisited(v) <= k - 1 => v \in Q
    BY <1>5
  <2>2. ASSUME NEW v \in Visits, Unvisited(v) <= k PROVE v \in Q
    <3>1. ASSUME NEW id \in DOMAIN dependencies \ v PROVE v \cup {id} \in Q
      <4>1. v \cup {id} \in Visits /\ Unvisited(v \cup {id}) = Unvisited(v) - 1 /\ Unvisited(v) \in Nat
        BY <1>2, <1>3
      <4>2. Unvisited(v \cup {id}) <= k - 1
        BY <2>2, <4>1
      <4>3. QED
        BY <2>1, <4>1, <4>2
    <3>2. QED
      BY <3>1
  <2>3. QED
    BY <1>1, <2>2
<1>6. n \in P
  <2> HIDE DEF P
  <2>1. \A k \in 0 .. n : k \in P
    BY <1>1, <1>4, <1>5, IntervalInduction
  <2>2. QED
    BY <1>1, <2>1
<1>7. QED
  BY <1>2, <1>6

LEMMA LongestIs ==
  ASSUME LocklessTypes, NEW f, LongestSteps(f), NEW v \in Visits, NEW id \in DOMAIN dependencies
  PROVE  PathIs(id, v, f[v \cup {id}], f[v][id]) /\ f[v] \in Answered
<1>1. v \cup {id} \in Visits
  BY LessToVisit
<1>2. f[v \cup {id}] \in Answered /\ f[v] \in Answered
  BY <1>1 DEF LongestSteps, Solutions
<1>3. f[v][id] = PathTo(id, v, f[v \cup {id}])
  BY DEF LongestSteps
<1>4. PathIs(id, v, f[v \cup {id}], PathTo(id, v, f[v \cup {id}]))
  BY <1>2, PathToIs
<1>5. QED
  BY <1>2, <1>3, <1>4

(* Every way into a cycle is an error.                                     *)
LEMMA CycleIsError ==
  ASSUME LocklessTypes, NEW f, LongestSteps(f), NEW n \in DOMAIN dependencies, n \in transitive_dependencies(n)
  PROVE  f[{}][n] = CycleError
<1> DEFINE T == {m \in DOMAIN dependencies : n \in transitive_dependencies(m)}
           Q == {v \in Visits : \A id \in T : f[v][id] = CycleError}
<1>1. ASSUME NEW m \in T PROVE \E d \in DepsOf(m) : d \in T
  <2> DEFINE X == DepsOf(m) \cup UNION {transitive_dependencies(d) : d \in DepsOf(m)}
  <2>1. DepsOf(m) \subseteq DOMAIN dependencies
    BY DepsOfIs DEF Visits
  <2>2. \A d \in DepsOf(m) : DepsOf(d) \subseteq transitive_dependencies(d) /\ Closed(transitive_dependencies(d))
    BY <2>1, WalkIs
  <2>3. Closed(X)
    <3>1. ASSUME NEW x \in X PROVE DepsOf(x) \subseteq X
      <4>1. CASE x \in DepsOf(m)
        <5>1. DepsOf(x) \subseteq transitive_dependencies(x)
          BY <2>2, <4>1
        <5>2. QED
          BY <4>1, <5>1
      <4>2. CASE \E d \in DepsOf(m) : x \in transitive_dependencies(d)
        <5>1. PICK d \in DepsOf(m) : x \in transitive_dependencies(d)
          BY <4>2
        <5>2. DepsOf(x) \subseteq transitive_dependencies(d)
          BY <2>2, <5>1 DEF Closed
        <5>3. QED
          BY <5>1, <5>2
      <4>3. QED
        BY <4>1, <4>2
    <3>2. QED
      BY <3>1 DEF Closed
  <2>4. DepsOf(m) \subseteq X
    OBVIOUS
  <2> HIDE DEF X
  <2>5. transitive_dependencies(m) \subseteq X
    BY <2>3, <2>4, WalkIs
  <2>6. n \in DepsOf(m) \/ \E d \in DepsOf(m) : n \in transitive_dependencies(d)
    BY <2>5 DEF X
  <2>7. QED
    BY <2>1, <2>6
<1>2. n \in T
  OBVIOUS
<1>3. T \subseteq DOMAIN dependencies
  OBVIOUS
<1> HIDE DEF T
<1>4. ASSUME NEW v \in Visits, \A id \in DOMAIN dependencies \ v : v \cup {id} \in Q PROVE v \in Q
  <2>1. ASSUME NEW id \in T PROVE f[v][id] = CycleError
    <3>1. PathIs(id, v, f[v \cup {id}], f[v][id])
      BY <1>3, LongestIs
    <3>2. CASE id \in v
      BY <3>1, <3>2 DEF PathIs
    <3>3. CASE id \notin v
      <4>1. PICK d \in DepsOf(id) : d \in T
        BY <1>1
      <4>2. v \cup {id} \in Q
        BY <1>3, <1>4, <3>3
      <4>3. f[v \cup {id}][d] = CycleError
        BY <4>1, <4>2
      <4>4. QED
        BY <3>1, <4>1, <4>3 DEF PathIs
    <3>4. QED
      BY <3>2, <3>3
  <2>2. QED
    BY <2>1
<1>5. \A v \in Visits : v \in Q
  <2> HIDE DEF Q
  <2>1. QED
    BY <1>4, VisitInduction
<1>6. {} \in Visits
  BY LessToVisit
<1>7. QED
  BY <1>2, <1>5, <1>6

EndsIn(p, id) ==
  /\ p \in Seq(DOMAIN dependencies) /\ Len(p) >= 1 /\ p[Len(p)] = id
  /\ \A i \in 1 .. Len(p) - 1 : p[i] \in DepsOf(p[i + 1])

LEMMA ChainAppend ==
  ASSUME NEW q, NEW d, EndsIn(q, d), NEW id \in DOMAIN dependencies, d \in DepsOf(id)
  PROVE  EndsIn(Append(q, id), id)
<1> DEFINE p == Append(q, id)
<1>1. /\ q \in Seq(DOMAIN dependencies) /\ Len(q) \in Nat /\ Len(q) >= 1 /\ q[Len(q)] = d
      /\ \A i \in 1 .. Len(q) - 1 : q[i] \in DepsOf(q[i + 1])
  BY DEF EndsIn
<1>2. /\ p \in Seq(DOMAIN dependencies) /\ Len(p) = Len(q) + 1 /\ p[Len(p)] = id
      /\ \A i \in 1 .. Len(q) : p[i] = q[i]
  BY <1>1
<1> HIDE DEF p
<1>3. ASSUME NEW i \in 1 .. Len(p) - 1 PROVE p[i] \in DepsOf(p[i + 1])
  <2>1. CASE i = Len(q)
    BY <1>1, <1>2, <2>1
  <2>2. CASE i # Len(q)
    <3>1. i \in 1 .. Len(q) - 1 /\ i \in 1 .. Len(q) /\ i + 1 \in 1 .. Len(q)
      BY <1>1, <1>2, <2>2
    <3>2. QED
      BY <1>1, <1>2, <3>1
  <2>3. QED
    BY <2>1, <2>2
<1>4. QED
  BY <1>1, <1>2, <1>3 DEF EndsIn, p

LEMMA ChainFront ==
  ASSUME LocklessTypes, NEW p, NEW id \in DOMAIN dependencies, EndsIn(p, id)
  PROVE  \E q \in Seq(DOMAIN dependencies) :
           p = Append(q, id) /\ (q = <<>> \/ \E d \in DepsOf(id) : EndsIn(q, d))
<1> DEFINE q == [i \in 1 .. Len(p) - 1 |-> p[i]]
<1>1. /\ p \in Seq(DOMAIN dependencies) /\ Len(p) \in Nat /\ Len(p) >= 1 /\ p[Len(p)] = id
      /\ \A i \in 1 .. Len(p) - 1 : p[i] \in DepsOf(p[i + 1])
  BY DEF EndsIn
<1>2. q \in Seq(DOMAIN dependencies) /\ Len(q) = Len(p) - 1 /\ \A i \in 1 .. Len(q) : q[i] = p[i]
  BY <1>1
<1>3. p = Append(q, id)
  BY <1>1, <1>2
<1> HIDE DEF q
<1>4. CASE Len(p) = 1
  <2>1. q = <<>>
    BY <1>2, <1>4
  <2>2. QED
    BY <1>2, <1>3, <2>1
<1>5. CASE Len(p) # 1
  <2>1. Len(q) \in 1 .. Len(p) - 1 /\ Len(q) + 1 = Len(p) /\ Len(q) \in 1 .. Len(q)
    BY <1>1, <1>2, <1>5
  <2>2. q[Len(q)] \in DepsOf(id)
    BY <1>1, <1>2, <2>1
  <2>3. ASSUME NEW i \in 1 .. Len(q) - 1 PROVE q[i] \in DepsOf(q[i + 1])
    <3>1. i \in 1 .. Len(p) - 1 /\ i \in 1 .. Len(q) /\ i + 1 \in 1 .. Len(q)
      BY <1>1, <1>2
    <3>2. QED
      BY <1>1, <1>2, <3>1
  <2>4. EndsIn(q, q[Len(q)])
    BY <1>2, <2>1, <2>3 DEF EndsIn
  <2>5. QED
    BY <1>2, <1>3, <2>2, <2>4
<1>6. QED
  BY <1>4, <1>5

(* The answer a for id while v are being visited: the heaviest chain.      *)
Answer(a, id, v) ==
  /\ a # CycleError /\ EndsIn(a.path, id) /\ Len(a.path) <= Unvisited(v) /\ Weigh(a.path) = a.weight
  /\ \A p : EndsIn(p, id) => Weigh(p) <= a.weight

LEMMA AnswerFromBelow ==
  ASSUME LocklessTypes, NEW v \in Visits, NEW id \in DOMAIN dependencies \ v, NEW below \in Answered, NEW r,
         PathIs(id, v, below, r), \A d \in DepsOf(id) : Answer(below[d], d, v \cup {id})
  PROVE  Answer(r, id, v)
<1> DEFINE w == execution_weight[id]
<1>1. Unvisited(v \cup {id}) = Unvisited(v) - 1 /\ Unvisited(v) \in Nat /\ Unvisited(v \cup {id}) \in Nat
  BY LessToVisit
<1>2. w \in Nat /\ execution_weight \in [DOMAIN dependencies -> Nat]
  BY DEF LocklessTypes
<1>3. \A d \in DepsOf(id) : below[d] # CycleError
  BY DEF Answer
<1>4. /\ r \in Answers /\ r # CycleError
      /\ \A d \in DepsOf(id) : below[d].weight + w <= r.weight
      /\ \/ r.weight = w /\ r.path = <<id>>
         \/ \E d \in DepsOf(id) : r.weight = below[d].weight + w /\ r.path = Append(below[d].path, id)
  BY <1>3 DEF PathIs
<1>5. \A d \in DepsOf(id) : below[d].weight \in Nat
  <2>1. DepsOf(id) \subseteq DOMAIN dependencies
    BY DepsOfIs DEF Visits
  <2>2. QED
    BY <1>3, <2>1, AnswerIs DEF Answered
<1>6. r.weight \in Nat
  BY <1>4, AnswerIs
<1> HIDE DEF w
<1>7. EndsIn(r.path, id) /\ Len(r.path) <= Unvisited(v) /\ Weigh(r.path) = r.weight /\ w <= r.weight
  <2>1. CASE r.weight = w /\ r.path = <<id>>
    <3> DEFINE e == <<>>
    <3>1. Append(e, id) = <<id>> /\ e \in Seq(DOMAIN dependencies) /\ e = <<>>
      OBVIOUS
    <3> HIDE DEF e
    <3>2. Weigh(<<id>>) = w
      <4>1. Weigh(Append(e, id)) = Weigh(e) + execution_weight[id] /\ Weigh(e) = 0
        BY <1>2, <3>1, WeighAppend
      <4>2. QED
        BY <1>2, <3>1, <4>1 DEF w
    <3>3. EndsIn(<<id>>, id)
      BY DEF EndsIn
    <3>4. Len(<<id>>) = 1
      OBVIOUS
    <3>5. QED
      BY <1>1, <1>2, <2>1, <3>2, <3>3, <3>4
  <2>2. CASE \E d \in DepsOf(id) : r.weight = below[d].weight + w /\ r.path = Append(below[d].path, id)
    <3>1. PICK d \in DepsOf(id) : r.weight = below[d].weight + w /\ r.path = Append(below[d].path, id)
      BY <2>2
    <3>2. /\ EndsIn(below[d].path, d) /\ Len(below[d].path) <= Unvisited(v \cup {id})
          /\ Weigh(below[d].path) = below[d].weight
      BY DEF Answer
    <3>3. below[d].path \in Seq(DOMAIN dependencies)
      BY <3>2 DEF EndsIn
    <3>4. Weigh(r.path) = below[d].weight + w
      BY <1>2, <3>1, <3>2, <3>3, WeighAppend DEF w
    <3>5. EndsIn(r.path, id)
      BY <3>1, <3>2, ChainAppend
    <3>6. Len(r.path) = Len(below[d].path) + 1 /\ Len(below[d].path) \in Nat
      BY <3>1, <3>3
    <3>7. QED
      BY <1>1, <1>2, <1>5, <3>1, <3>2, <3>4, <3>5, <3>6
  <2>3. QED
    BY <1>4, <2>1, <2>2
<1>8. ASSUME NEW p, EndsIn(p, id) PROVE Weigh(p) <= r.weight
  <2>1. PICK q \in Seq(DOMAIN dependencies) :
          p = Append(q, id) /\ (q = <<>> \/ \E d \in DepsOf(id) : EndsIn(q, d))
    BY <1>8, ChainFront
  <2>2. Weigh(p) = Weigh(q) + w /\ Weigh(q) \in Nat /\ (q = <<>> => Weigh(q) = 0)
    BY <1>2, <2>1, WeighAppend DEF w
  <2>3. CASE q = <<>>
    BY <1>2, <1>7, <2>2, <2>3
  <2>4. CASE \E d \in DepsOf(id) : EndsIn(q, d)
    <3>1. PICK d \in DepsOf(id) : EndsIn(q, d)
      BY <2>4
    <3>2. Weigh(q) <= below[d].weight
      BY <3>1 DEF Answer
    <3>3. QED
      BY <1>2, <1>4, <1>5, <1>6, <2>2, <3>2
  <2>5. QED
    BY <2>1, <2>3, <2>4
<1>9. QED
  BY <1>4, <1>7, <1>8 DEF Answer

LEMMA AnswersAreHeaviest ==
  ASSUME LocklessTypes, NEW f, LongestSteps(f),
         \A n \in DOMAIN dependencies : n \notin transitive_dependencies(n), NEW id \in DOMAIN dependencies
  PROVE  Answer(f[{}][id], id, {})
<1> DEFINE Above(v, n) == \A u \in v : n \in transitive_dependencies(u)
           Q == {v \in Visits : \A n \in DOMAIN dependencies : Above(v, n) => Answer(f[v][n], n, v)}
<1>1. ASSUME NEW v \in Visits, \A n \in DOMAIN dependencies \ v : v \cup {n} \in Q PROVE v \in Q
  <2>1. ASSUME NEW n \in DOMAIN dependencies, Above(v, n) PROVE Answer(f[v][n], n, v)
    <3> DEFINE u == v \cup {n}
    <3>1. n \notin v
      BY <2>1
    <3>2. u \in Q /\ u \in Visits
      BY <1>1, <3>1
    <3>3. PathIs(n, v, f[u], f[v][n]) /\ f[u] \in Answered
      BY <3>2, LongestIs
    <3>4. ASSUME NEW d \in DepsOf(n) PROVE Answer(f[u][d], d, u)
      <4>1. d \in DOMAIN dependencies
        BY DepsOfIs DEF Visits
      <4>2. ASSUME NEW w \in u PROVE d \in transitive_dependencies(w)
        <5>1. w \in DOMAIN dependencies
          BY <3>2 DEF Visits
        <5>2. CASE w = n
          BY <5>1, <5>2, WalkIs
        <5>3. CASE w \in v
          <6>1. n \in transitive_dependencies(w) /\ Closed(transitive_dependencies(w))
            BY <2>1, <5>1, <5>3, WalkIs
          <6>2. QED
            BY <6>1 DEF Closed
        <5>4. QED
          BY <5>2, <5>3
      <4>3. Above(u, d)
        BY <4>2
      <4>4. QED
        BY <3>2, <4>1, <4>3
    <3>5. QED
      BY <3>1, <3>3, <3>4, AnswerFromBelow
  <2>2. QED
    BY <2>1
<1>2. \A v \in Visits : v \in Q
  <2> HIDE DEF Q
  <2>1. QED
    BY <1>1, VisitInduction
<1>3. {} \in Visits
  BY LessToVisit
<1>4. {} \in Q
  BY <1>2, <1>3
<1>5. QED
  BY <1>4

LEMMA ChainsAre ==
  ASSUME LocklessTypes
  PROVE  /\ \A p \in Chains : p[Len(p)] \in DOMAIN dependencies /\ EndsIn(p, p[Len(p)])
         /\ \A p, id : EndsIn(p, id) /\ Len(p) <= Names => p \in Chains
<1>1. ASSUME NEW p \in Chains PROVE p[Len(p)] \in DOMAIN dependencies /\ EndsIn(p, p[Len(p)])
  <2>1. PICK k \in 1 .. Names : p \in [1 .. k -> DOMAIN dependencies]
    BY DEF Chains
  <2>2. p \in Seq(DOMAIN dependencies) /\ Len(p) = k /\ k >= 1 /\ k \in 1 .. k
    BY <2>1, LocklessAssumption
  <2>3. \A i \in 1 .. Len(p) - 1 : p[i] \in DepsOf(p[i + 1])
    BY DEF Chains, DepsOf
  <2>4. QED
    BY <2>1, <2>2, <2>3 DEF EndsIn
<1>2. ASSUME NEW p, NEW id, EndsIn(p, id), Len(p) <= Names PROVE p \in Chains
  <2>1. p \in Seq(DOMAIN dependencies) /\ Len(p) >= 1 /\ Len(p) \in Nat
    BY <1>2 DEF EndsIn
  <2>2. p \in [1 .. Len(p) -> DOMAIN dependencies] /\ Len(p) \in 1 .. Names
    BY <1>2, <2>1, LocklessAssumption
  <2>3. \A i \in 1 .. Len(p) - 1 : p[i] \in ToSet(dependencies[p[i + 1]])
    BY <1>2 DEF EndsIn, DepsOf
  <2>4. QED
    BY <2>2, <2>3 DEF Chains
<1>3. QED
  BY <1>1, <1>2

LEMMA CriticalPath ==
  ASSUME LocklessTypes
  PROVE  CriticalPathIsHeaviest
<1>1. PICK f : LongestSteps(f)
  BY LongestUnfolds
<1> DEFINE D == DOMAIN dependencies
           q == [id \in 1 .. Names |-> IF id \in D THEN f[{}][id] ELSE NoPath]
           best_path == compute_critical_path
<1>2. best_path = Heaviest(q)
  <2>1. longest_path = f[{}]
    BY <1>1 DEF LongestSteps
  <2>2. QED
    BY <2>1, Zenon DEF compute_critical_path
<1>3. D \subseteq 1 .. Names /\ Names \in Nat /\ execution_weight \in [D -> Nat]
  BY LocklessAssumption DEF LocklessTypes
<1>4. \A id \in 1 .. Names : q[id] \in Answers /\ q[id] = IF id \in D THEN f[{}][id] ELSE NoPath
  BY <1>1, LessToVisit, AnswersHold DEF LongestSteps, Solutions, Answered
<1>5. q \in Seq(Answers) /\ Len(q) = Names
  BY <1>3, <1>4
<1> HIDE DEF q, best_path
<1>6. HeaviestOf(q, Names, best_path)
  BY <1>2, <1>5, HeaviestIs
<1>7. CASE \E n \in D : n \in transitive_dependencies(n)
  <2>1. PICK n \in D : n \in transitive_dependencies(n)
    BY <1>7
  <2>2. f[{}][n] = CycleError
    BY <1>1, <2>1, CycleIsError
  <2>3. q[n] = CycleError /\ n \in 1 .. Names
    BY <1>3, <1>4, <2>2
  <2>4. best_path = CycleError
    BY <1>6, <2>3 DEF HeaviestOf
  <2>5. QED
    BY <1>7, <2>4 DEF CriticalPathIsHeaviest, best_path
<1>8. CASE \A n \in D : n \notin transitive_dependencies(n)
  <2>1. \A id \in D : Answer(f[{}][id], id, {})
    BY <1>1, <1>8, AnswersAreHeaviest
  <2>2. \A id \in 1 .. Names : q[id] # CycleError
    BY <1>4, <2>1, AnswersHold DEF Answer
  <2>3. /\ best_path \in Answers /\ best_path # CycleError
        /\ \A i \in 1 .. Names : q[i].weight <= best_path.weight
        /\ best_path = NoPath \/ \E i \in 1 .. Names : best_path = q[i]
    BY <1>6, <2>2 DEF HeaviestOf
  <2>4. best_path.weight \in Nat
    BY <2>3, AnswerIs
  <2>5. best_path.path \in Chains \cup {<<>>} /\ best_path.weight = Weigh(best_path.path)
    <3>1. CASE best_path = NoPath
      <4>1. best_path.path = <<>> /\ best_path.weight = 0
        BY <3>1, AnswersHold
      <4>2. Weigh(<<>>) = 0
        <5>1. <<>> \in Seq(D) /\ Len(<<>>) = 0
          OBVIOUS
        <5>2. PICK g : WeighSteps(<<>>, g)
          BY <1>3, <5>1, WeighUnfolds
        <5>3. QED
          BY <5>1, <5>2 DEF WeighSteps
      <4>3. QED
        BY <4>1, <4>2
    <3>2. CASE \E id \in D : best_path = f[{}][id]
      <4>1. PICK id \in D : best_path = f[{}][id]
        BY <3>2
      <4>2. /\ EndsIn(best_path.path, id) /\ Len(best_path.path) <= Unvisited({})
            /\ Weigh(best_path.path) = best_path.weight
        BY <2>1, <4>1 DEF Answer
      <4>3. Unvisited({}) \in Nat /\ Unvisited({}) <= Names
        BY <1>3, LessToVisit, NodesFinite
      <4>4. Len(best_path.path) \in Nat
        BY <4>2 DEF EndsIn
      <4>5. Len(best_path.path) <= Names
        BY <1>3, <4>2, <4>3, <4>4
      <4>6. QED
        BY <4>2, <4>5, ChainsAre
    <3>3. QED
      BY <1>4, <2>3, <3>1, <3>2
  <2>6. ASSUME NEW p \in Chains PROVE Weigh(p) <= best_path.weight
    <3> DEFINE id == p[Len(p)]
    <3>1. id \in D /\ EndsIn(p, id)
      BY ChainsAre
    <3> HIDE DEF id
    <3>2. Weigh(p) <= f[{}][id].weight
      BY <2>1, <3>1 DEF Answer
    <3>3. q[id] = f[{}][id] /\ id \in 1 .. Names
      BY <1>3, <1>4, <3>1
    <3>4. q[id].weight <= best_path.weight /\ q[id].weight \in Nat
      BY <1>4, <2>2, <2>3, <3>3, AnswerIs
    <3>5. PICK g : WeighSteps(p, g)
      BY <1>3, <3>1, WeighUnfolds DEF EndsIn
    <3>6. Weigh(p) \in Nat
      BY <3>1, <3>5 DEF WeighSteps, EndsIn
    <3>7. QED
      BY <2>4, <3>2, <3>3, <3>4, <3>6
  <2>7. QED
    BY <1>8, <2>5, <2>6 DEF CriticalPathIsHeaviest, best_path
<1>9. QED
  BY <1>7, <1>8

(* A list is one of any set that holds its elements.                       *)
LEMMA ListOf ==
  ASSUME NEW T, NEW list \in Seq(T)
  PROVE  ToSet(list) \subseteq T /\ \A U : ToSet(list) \subseteq U => list \in Seq(U)
<1>1. DOMAIN list = 1 .. Len(list) /\ Len(list) \in Nat /\ \A i \in 1 .. Len(list) : list[i] \in T
  OBVIOUS
<1>2. ToSet(list) = {list[i] : i \in DOMAIN list}
  BY DEF ToSet
<1>3. \A i \in DOMAIN list : list[i] \in ToSet(list)
  BY <1>2
<1>4. ToSet(list) \subseteq T
  BY <1>1, <1>2
<1>5. ASSUME NEW U, ToSet(list) \subseteq U PROVE list \in Seq(U)
  <2>1. \A i \in 1 .. Len(list) : list[i] \in U
    BY <1>1, <1>3, <1>5
  <2>2. QED
    BY <2>1, <1>1
<1>6. QED
  BY <1>4, <1>5

LEMMA LocklessTypesInit == LocklessInit => LocklessTypes
<1>1. LocklessInit => DOMAIN dependencies = {} /\ DOMAIN execution_weight = {} /\ execution_weight = <<>>
  BY DEF LocklessInit
<1>2. <<>> \in [{} -> Nat]
  OBVIOUS
<1>3. QED
  BY <1>1, <1>2 DEF LocklessTypes

LEMMA LocklessTypesNext == LocklessTypes /\ [LocklessNext]_locklessVars => LocklessTypes'
<1> SUFFICES ASSUME LocklessTypes, [LocklessNext]_locklessVars PROVE LocklessTypes'
  OBVIOUS
<1>1. ASSUME NEW id \in 1 .. Names, NEW list \in DepLists, NEW weight \in Weights, insert_node(id, list, weight)
      PROVE  LocklessTypes'
  <2> DEFINE D == DOMAIN dependencies
             nodes == D \cup {id} \cup ToSet(list)
  <2>1. list \in Seq(1 .. Names) /\ weight \in Nat
    BY LocklessAssumption
  <2>2. ToSet(list) \subseteq 1 .. Names /\ list \in Seq(nodes)
    <3>1. ToSet(list) \subseteq nodes
      OBVIOUS
    <3> HIDE DEF nodes
    <3>2. QED
      BY <2>1, <3>1, ListOf
  <2>3. /\ dependencies' = [n \in nodes |-> IF n = id THEN list
                                            ELSE IF n \in D THEN dependencies[n] ELSE <<>>]
        /\ execution_weight' = [n \in nodes |-> IF n = id THEN weight
                                                ELSE IF n \in DOMAIN execution_weight THEN execution_weight[n] ELSE 0]
    BY <1>1 DEF insert_node
  <2>4. \A S, T : S \subseteq T => Seq(S) \subseteq Seq(T)
    OBVIOUS
  <2>5. D \subseteq 1 .. Names /\ \A n \in D : dependencies[n] \in Seq(D)
    BY DEF LocklessTypes
  <2>6. D \subseteq nodes /\ ToSet(list) \subseteq nodes /\ nodes \subseteq 1 .. Names
    BY <2>2, <2>5
  <2>7. DOMAIN dependencies' = nodes
    BY <2>3
  <2>8. Seq(D) \subseteq Seq(nodes) /\ <<>> \in Seq(nodes)
    BY <2>4, <2>6
  <2>9. execution_weight \in [D -> Nat]
    BY DEF LocklessTypes
  <2> HIDE DEF nodes, D
  <2>10. \A n \in nodes : dependencies'[n] \in Seq(nodes)
    BY <2>2, <2>3, <2>5, <2>8
  <2>11. execution_weight' \in [nodes -> Nat]
    BY <2>1, <2>3, <2>9
  <2>12. QED
    BY <2>6, <2>7, <2>10, <2>11 DEF LocklessTypes
<1>2. CASE UNCHANGED locklessVars
  BY <1>2 DEF LocklessTypes, locklessVars
<1>3. QED
  BY <1>1, <1>2 DEF LocklessNext

(* However nodes are inserted, and inserted again: the reverse edges       *)
(* mirror the edges, and compute_critical_path refuses exactly the graphs  *)
(* in which a node depends on itself, and otherwise answers with a chain   *)
(* of dependencies that no chain outweighs, for any number of names.       *)
THEOREM LocklessIsSoundHolds == LocklessSpec => []LocklessIsSound
<1>1. LocklessSpec => []LocklessTypes
  BY LocklessTypesInit, LocklessTypesNext, PTL DEF LocklessSpec
<1>2. QED
  BY <1>1, CriticalPath, ReverseEdgesMirrorHolds, PTL DEF LocklessIsSound

-----------------------------------------------------------------------------
(* FileLevelCache: a thread stores the artifact before it maps the file,   *)
(* and nothing takes an artifact out of the store.                         *)
FileInv ==
  /\ file_artifacts \in [File -> Artifact \cup {NoHash}]
  /\ ipc \in [Indexer -> Artifact \cup {"idle", "pop", "expand"}]
  /\ \A c \in Indexer : ipc[c] \in Artifact => ipc[c] \in cas_storage
  /\ MappedIsStored

(* get_file_artifact finds the artifact of every file that is mapped.      *)
THEOREM MappedIsStoredHolds == FileSpec => []MappedIsStored
  <1>1. FileInit => FileInv
    BY HashAssumption DEF FileInit, FileInv, MappedIsStored, is_file_cached
  <1>2. FileInv /\ [FileNext]_fileVars => FileInv'
    <2> SUFFICES ASSUME FileInv, [FileNext]_fileVars PROVE FileInv'
      OBVIOUS
    <2> USE DEF FileInv, MappedIsStored, is_file_cached
    <2>1. ASSUME NEW c \in Indexer, NEW f \in File, NEW h \in Artifact, CacheFile(c, f, h) PROVE FileInv'
      BY <2>1 DEF CacheFile
    <2>2. ASSUME NEW c \in Indexer, MapFile(c) PROVE FileInv'
      <3>1. /\ ipc[c] \in Artifact /\ ipc[c] \in cas_storage /\ cas_storage' = cas_storage
            /\ file_artifacts' = [file_artifacts EXCEPT ![subject[c]] = ipc[c]]
            /\ ipc' = [ipc EXCEPT ![c] = "idle"]
        BY <2>2 DEF MapFile
      <3>2. "idle" \notin Artifact
        BY HashAssumption
      <3>3. QED
        BY <3>1, <3>2
    <2>3. ASSUME NEW c \in Indexer, AddFileDependency(c) \/ RegisterTaskFiles(c) \/ NextRoot(c) PROVE FileInv'
      BY <2>3 DEF AddFileDependency, RegisterTaskFiles, NextRoot
    <2>4. ASSUME NEW c \in Indexer, InvalidateDirectory(c) PROVE FileInv'
      BY <2>4 DEF InvalidateDirectory
    <2>5. ASSUME NEW c \in Indexer, InvalidateTaskFiles(c) \/ GetDependents(c) \/ WalkDone(c) PROVE FileInv'
      <3>1. /\ file_artifacts' = file_artifacts /\ cas_storage' = cas_storage
            /\ ipc' = [ipc EXCEPT ![c] = "pop"] \/ ipc' = [ipc EXCEPT ![c] = "idle"]
        BY <2>5 DEF InvalidateTaskFiles, GetDependents, WalkDone
      <3>2. "pop" \notin Artifact /\ "idle" \notin Artifact
        BY HashAssumption
      <3>3. QED
        BY <3>1, <3>2
    <2>6. ASSUME NEW c \in Indexer, PopFile(c) PROVE FileInv'
      <3>1. /\ cas_storage' = cas_storage
            /\ ipc' = ipc \/ ipc' = [ipc EXCEPT ![c] = "expand"]
            /\ file_artifacts' = file_artifacts \/ \E f : file_artifacts' = [file_artifacts EXCEPT ![f] = NoHash]
        BY <2>6 DEF PopFile
      <3>2. "expand" \notin Artifact
        BY HashAssumption
      <3>3. QED
        BY <3>1, <3>2
    <2>7. CASE UNCHANGED fileVars
      BY <2>7 DEF fileVars
    <2>8. QED
      BY <2>1, <2>2, <2>3, <2>4, <2>5, <2>6, <2>7 DEF FileNext
  <1>3. FileInv => MappedIsStored
    BY DEF FileInv
  <1>4. QED
    BY <1>1, <1>2, <1>3, PTL DEF FileSpec

(* invalidate_with_dependents.  Of a walk under way there are the edges it *)
(* began with and the files it is done with, in this walk or that of an    *)
(* earlier file of the task: those of them that are owed are not cached,   *)
(* their dependents are done with or queued, and every set with the files  *)
(* that are done with, queued or to begin with, and the dependents of its  *)
(* members, has all that is owed.                                          *)
Walking(c) == ipc[c] \in {"pop", "expand"}

WalkOf(c, edges, done) ==
  /\ edges \subseteq file_dependents /\ done \subseteq File
  /\ visited[c] \subseteq done
  /\ ipc[c] = "expand" => subject[c] \in done
  /\ \A f \in owed[c] : f \in done => ~is_file_cached(f)
  /\ \A e \in edges : e[1] \in done /\ ~(ipc[c] = "expand" /\ e[1] = subject[c])
                        => e[2] \in done \/ e[2] \in queue[c]
  /\ \A T \in SUBSET File :
       done \subseteq T /\ queue[c] \subseteq T /\ ToSet(roots[c]) \subseteq T /\ DependentsClosed(T, edges)
         => owed[c] \subseteq T

FileTypes ==
  /\ file_artifacts \in [File -> Artifact \cup {NoHash}]
  /\ file_dependents \in SUBSET (File \X File)
  /\ task_files \in Seq(File)
  /\ ipc \in [Indexer -> Artifact \cup {"idle", "pop", "expand"}]
  /\ subject \in [Indexer -> File \cup {NoFile}]
  /\ queue \in [Indexer -> SUBSET File] /\ visited \in [Indexer -> SUBSET File]
  /\ roots \in [Indexer -> Seq(File)] /\ owed \in [Indexer -> SUBSET File]

WalkInv ==
  /\ FileTypes
  /\ \A c \in Indexer : ~Walking(c) => visited[c] = {}
  /\ \A c \in Indexer : Walking(c) => \E edges, done : WalkOf(c, edges, done)

LEMMA FileWords ==
  /\ {"idle", "pop", "expand"} \cap Artifact = {} /\ NoHash \notin Artifact
  /\ \A files \in TaskLists : files \in Seq(File)
BY HashAssumption, TaskListsAssumption

LEMMA FileTypesStep ==
  ASSUME FileTypes, [FileNext]_fileVars
  PROVE  FileTypes'
  <1> USE DEF FileTypes
  <1>1. ASSUME NEW c \in Indexer, NEW f \in File, NEW h \in Artifact, CacheFile(c, f, h) PROVE FileTypes'
    BY <1>1 DEF CacheFile, walk
  <1>2. ASSUME NEW c \in Indexer, MapFile(c) PROVE FileTypes'
    BY <1>2 DEF MapFile, walk
  <1>3. ASSUME NEW c \in Indexer, AddFileDependency(c) PROVE FileTypes'
    BY <1>3 DEF AddFileDependency, walk
  <1>4. ASSUME NEW c \in Indexer, InvalidateDirectory(c) PROVE FileTypes'
    BY <1>4 DEF InvalidateDirectory, walk
  <1>5. ASSUME NEW c \in Indexer, RegisterTaskFiles(c) PROVE FileTypes'
    BY <1>5, FileWords DEF RegisterTaskFiles, walk
  <1>6. ASSUME NEW c \in Indexer, InvalidateTaskFiles(c) PROVE FileTypes'
    <2>1. Affected(ToSet(task_files)) \subseteq File
      BY DEF Affected
    <2>2. QED
      BY <1>6, <2>1 DEF InvalidateTaskFiles
  <1>7. ASSUME NEW c \in Indexer, PopFile(c) PROVE FileTypes'
    <2>1. PICK f \in File : /\ queue' = [queue EXCEPT ![c] = @ \ {f}]
                            /\ visited' = visited \/ visited' = [visited EXCEPT ![c] = @ \cup {f}]
                            /\ file_artifacts' = file_artifacts \/ file_artifacts' = [file_artifacts EXCEPT ![f] = NoHash]
                            /\ ipc' = ipc \/ ipc' = [ipc EXCEPT ![c] = "expand"]
                            /\ subject' = subject \/ subject' = [subject EXCEPT ![c] = f]
      BY <1>7 DEF PopFile
    <2>2. queue' \in [Indexer -> SUBSET File] /\ visited' \in [Indexer -> SUBSET File]
      <3>1. queue[c] \ {f} \in SUBSET File /\ visited[c] \cup {f} \in SUBSET File
        OBVIOUS
      <3>2. queue' = [queue EXCEPT ![c] = queue[c] \ {f}]
        BY <2>1
      <3>3. visited' = visited \/ visited' = [visited EXCEPT ![c] = visited[c] \cup {f}]
        BY <2>1
      <3>4. queue' \in [Indexer -> SUBSET File]
        BY <3>1, <3>2
      <3>5. visited' \in [Indexer -> SUBSET File]
        BY <3>1, <3>3
      <3>6. QED
        BY <3>4, <3>5
    <2>3. /\ ipc' \in [Indexer -> Artifact \cup {"idle", "pop", "expand"}]
          /\ subject' \in [Indexer -> File \cup {NoFile}]
          /\ file_artifacts' \in [File -> Artifact \cup {NoHash}]
      BY <2>1
    <2>4. UNCHANGED <<file_dependents, task_files, roots, owed>>
      BY <1>7 DEF PopFile
    <2>5. QED
      BY <2>2, <2>3, <2>4
  <1>8. ASSUME NEW c \in Indexer, GetDependents(c) PROVE FileTypes'
    <2>1. PICK found \in SUBSET File : queue' = [queue EXCEPT ![c] = @ \cup (found \ visited[c])]
      <3>1. {e[2] : e \in {d \in file_dependents : d[1] = subject[c]}} \subseteq File
        OBVIOUS
      <3>2. QED
        BY <1>8, <3>1 DEF GetDependents
    <2>2. queue' \in [Indexer -> SUBSET File]
      BY <2>1
    <2>3. ipc' \in [Indexer -> Artifact \cup {"idle", "pop", "expand"}] /\ subject' \in [Indexer -> File \cup {NoFile}]
      BY <1>8 DEF GetDependents
    <2>4. UNCHANGED <<file_artifacts, file_dependents, task_files, visited, roots, owed>>
      BY <1>8 DEF GetDependents
    <2>5. QED
      BY <2>2, <2>3, <2>4
  <1>9. ASSUME NEW c \in Indexer, NextRoot(c) PROVE FileTypes'
    <2>1. Head(roots[c]) \in File /\ Tail(roots[c]) \in Seq(File)
      BY <1>9 DEF NextRoot
    <2>2. QED
      BY <1>9, <2>1 DEF NextRoot
  <1>10. ASSUME NEW c \in Indexer, WalkDone(c) PROVE FileTypes'
    BY <1>10 DEF WalkDone
  <1>11. CASE UNCHANGED fileVars
    BY <1>11 DEF fileVars, walk
  <1>12. QED
    BY <1>1, <1>2, <1>3, <1>4, <1>5, <1>6, <1>7, <1>8, <1>9, <1>10, <1>11 DEF FileNext

(* What another thread does to the walk of d: it may uncache a file, cache *)
(* one that is then no longer owed, and add an edge.                       *)
LEMMA WalkUndisturbed ==
  ASSUME NEW d \in Indexer, Walking(d), FileTypes, NEW edges, NEW done, WalkOf(d, edges, done),
         file_dependents \subseteq file_dependents',
         ipc'[d] = ipc[d], subject'[d] = subject[d], queue'[d] = queue[d],
         visited'[d] = visited[d], roots'[d] = roots[d], owed'[d] \subseteq owed[d],
         \A f \in owed'[d] : file_artifacts'[f] = file_artifacts[f] \/ file_artifacts'[f] = NoHash
  PROVE  WalkOf(d, edges, done)'
  <1>1. ipc[d] = "expand" <=> ipc'[d] = "expand"
    OBVIOUS
  <1>2. \A f \in owed'[d] : f \in done => ~(file_artifacts'[f] # NoHash)
    BY DEF WalkOf, is_file_cached
  <1>3. edges \subseteq file_dependents' /\ done \subseteq File /\ visited'[d] \subseteq done
    BY DEF WalkOf
  <1>4. \A T \in SUBSET File :
       done \subseteq T /\ queue'[d] \subseteq T /\ ToSet(roots'[d]) \subseteq T /\ DependentsClosed(T, edges)
         => owed'[d] \subseteq T
    BY DEF WalkOf
  <1>5. \A e \in edges : e[1] \in done /\ ~(ipc'[d] = "expand" /\ e[1] = subject'[d])
                        => e[2] \in done \/ e[2] \in queue'[d]
    BY <1>1 DEF WalkOf
  <1>6. ipc'[d] = "expand" => subject'[d] \in done
    BY DEF WalkOf
  <1>7. QED
    BY <1>2, <1>3, <1>4, <1>5, <1>6 DEF WalkOf, is_file_cached

LEMMA WalkStep ==
  ASSUME WalkInv, [FileNext]_fileVars
  PROVE  WalkInv'
  <1>1. FileTypes /\ FileTypes'
    BY FileTypesStep DEF WalkInv
  <1> SUFFICES ASSUME NEW d \in Indexer
               PROVE  /\ ~Walking(d)' => visited'[d] = {}
                      /\ Walking(d)' => \E edges, done : WalkOf(d, edges, done)'
    BY <1>1 DEF WalkInv
  <1>2. /\ ~Walking(d) => visited[d] = {}
        /\ Walking(d) => \E edges, done : WalkOf(d, edges, done)
    BY DEF WalkInv
  <1>3. ASSUME file_dependents \subseteq file_dependents',
               ipc'[d] = ipc[d], subject'[d] = subject[d], queue'[d] = queue[d],
               visited'[d] = visited[d], roots'[d] = roots[d], owed'[d] \subseteq owed[d],
               \A f \in owed'[d] : file_artifacts'[f] = file_artifacts[f] \/ file_artifacts'[f] = NoHash
        PROVE  /\ ~Walking(d)' => visited'[d] = {}
               /\ Walking(d)' => \E edges, done : WalkOf(d, edges, done)'
    <2>1. Walking(d) <=> Walking(d)'
      BY <1>3 DEF Walking
    <2>2. ASSUME Walking(d) PROVE \E edges, done : WalkOf(d, edges, done)'
      <3>1. PICK edges, done : WalkOf(d, edges, done)
        BY <1>2, <2>2
      <3>2. WalkOf(d, edges, done)'
        BY <1>1, <1>3, <2>2, <3>1, WalkUndisturbed
      <3>3. QED
        BY <3>2
    <2>3. QED
      BY <1>2, <1>3, <2>1, <2>2
  <1>4. ASSUME NEW c \in Indexer, NEW f \in File, NEW h \in Artifact, CacheFile(c, f, h)
        PROVE  /\ ~Walking(d)' => visited'[d] = {}
               /\ Walking(d)' => \E edges, done : WalkOf(d, edges, done)'
    <2>1. CASE c = d
      <3>1. ~Walking(d) /\ ipc'[d] = h /\ visited' = visited
        BY <1>1, <1>4, <2>1, FileWords DEF CacheFile, Walking, FileTypes, walk
      <3>2. ~Walking(d)'
        BY <3>1, FileWords DEF Walking
      <3>3. QED
        BY <1>2, <3>1, <3>2
    <2>2. CASE c # d
      BY <1>1, <1>3, <1>4, <2>2 DEF CacheFile, walk, FileTypes
    <2>3. QED
      BY <2>1, <2>2
  <1>5. ASSUME NEW c \in Indexer, MapFile(c)
        PROVE  /\ ~Walking(d)' => visited'[d] = {}
               /\ Walking(d)' => \E edges, done : WalkOf(d, edges, done)'
    <2>1. CASE c = d
      <3>1. ~Walking(d) /\ ipc'[d] = "idle" /\ visited' = visited
        BY <1>1, <1>5, <2>1, FileWords DEF MapFile, Walking, FileTypes, walk
      <3>2. QED
        BY <1>2, <3>1 DEF Walking
    <2>2. CASE c # d
      <3>1. /\ file_dependents' = file_dependents /\ ipc'[d] = ipc[d] /\ subject'[d] = subject[d]
            /\ UNCHANGED <<queue, visited, roots>> /\ owed'[d] = owed[d] \ {subject[c]}
        BY <1>1, <1>5, <2>2 DEF MapFile, walk, FileTypes
      <3>2. \A f \in File : f # subject[c] => file_artifacts'[f] = file_artifacts[f]
        BY <1>1, <1>5 DEF MapFile, FileTypes
      <3>3. \A f \in owed'[d] : file_artifacts'[f] = file_artifacts[f]
        BY <1>1, <3>1, <3>2 DEF FileTypes
      <3>4. QED
        BY <1>3, <3>1, <3>3
    <2>3. QED
      BY <2>1, <2>2
  <1>6. ASSUME NEW c \in Indexer, AddFileDependency(c) \/ RegisterTaskFiles(c) \/ InvalidateDirectory(c)
        PROVE  /\ ~Walking(d)' => visited'[d] = {}
               /\ Walking(d)' => \E edges, done : WalkOf(d, edges, done)'
    <2>1. /\ file_dependents \subseteq file_dependents' /\ UNCHANGED <<ipc, subject, walk, owed>>
          /\ \A f \in File : file_artifacts'[f] = file_artifacts[f] \/ file_artifacts'[f] = NoHash
      BY <1>1, <1>6 DEF AddFileDependency, RegisterTaskFiles, InvalidateDirectory, FileTypes
    <2>2. owed'[d] \subseteq File
      BY <1>1 DEF FileTypes
    <2>3. QED
      BY <1>3, <2>1, <2>2 DEF walk
  <1>7. ASSUME NEW c \in Indexer, InvalidateTaskFiles(c)
        PROVE  /\ ~Walking(d)' => visited'[d] = {}
               /\ Walking(d)' => \E edges, done : WalkOf(d, edges, done)'
    <2>1. CASE c = d
      <3>1. /\ ipc[d] = "idle" /\ ipc'[d] = "pop" /\ roots'[d] = task_files
            /\ owed'[d] = Affected(ToSet(task_files))
            /\ UNCHANGED <<file_artifacts, file_dependents, queue, visited>>
        BY <1>1, <1>7, <2>1 DEF InvalidateTaskFiles, FileTypes
      <3>2. visited'[d] = {} /\ Walking(d)'
        BY <1>2, <3>1 DEF Walking
      <3>3. \A T \in SUBSET File :
              ToSet(task_files) \subseteq T /\ DependentsClosed(T, file_dependents)
                => Affected(ToSet(task_files)) \subseteq T
        BY DEF Affected
      <3>4. WalkOf(d, file_dependents, {})'
        BY <3>1, <3>2, <3>3 DEF WalkOf
      <3>5. PICK edges : edges = file_dependents
        OBVIOUS
      <3>6. WalkOf(d, edges, {})'
        BY <3>1, <3>2, <3>3, <3>5 DEF WalkOf
      <3>7. QED
        BY <3>2, <3>6
    <2>2. CASE c # d
      BY <1>1, <1>3, <1>7, <2>2 DEF InvalidateTaskFiles, FileTypes
    <2>3. QED
      BY <2>1, <2>2
  <1>8. ASSUME NEW c \in Indexer, PopFile(c)
        PROVE  /\ ~Walking(d)' => visited'[d] = {}
               /\ Walking(d)' => \E edges, done : WalkOf(d, edges, done)'
    <2>1. PICK f \in queue[c] :
             /\ ipc[c] = "pop"
             /\ queue' = [queue EXCEPT ![c] = @ \ {f}]
             /\ UNCHANGED <<cas_storage, file_dependents, task_files, roots, owed>>
             /\ IF f \in visited[c]
                THEN UNCHANGED <<file_artifacts, visited, ipc, subject>>
                ELSE /\ visited' = [visited EXCEPT ![c] = @ \cup {f}]
                     /\ file_artifacts' = [file_artifacts EXCEPT ![f] = NoHash]
                     /\ ipc' = [ipc EXCEPT ![c] = "expand"] /\ subject' = [subject EXCEPT ![c] = f]
      BY <1>8 DEF PopFile
    <2>2. f \in File /\ \A g \in File : file_artifacts'[g] = file_artifacts[g] \/ file_artifacts'[g] = NoHash
      BY <1>1, <2>1 DEF FileTypes
    <2>3. CASE c # d
      <3>1. /\ file_dependents' = file_dependents /\ ipc'[d] = ipc[d] /\ subject'[d] = subject[d]
            /\ queue'[d] = queue[d] /\ visited'[d] = visited[d] /\ roots' = roots /\ owed' = owed
        BY <1>1, <2>1, <2>3 DEF FileTypes
      <3>2. owed[d] \subseteq File
        BY <1>1 DEF FileTypes
      <3>3. QED
        BY <1>3, <2>2, <3>1, <3>2
    <2>4. CASE c = d
      <3>1. PICK edges, done : WalkOf(d, edges, done)
        BY <1>2, <2>1, <2>4 DEF Walking
      <3>2. queue'[d] = queue[d] \ {f} /\ queue[d] \subseteq File
        BY <1>1, <2>1, <2>4 DEF FileTypes
      <3>3. CASE f \in visited[d]
        <4>1. UNCHANGED <<file_artifacts, file_dependents, visited, ipc, subject, roots, owed>> /\ f \in done
          BY <2>1, <2>4, <3>1, <3>3 DEF WalkOf
        <4>2. /\ edges \subseteq file_dependents' /\ done \subseteq File /\ visited'[d] \subseteq done
              /\ ipc'[d] = "expand" => subject'[d] \in done
              /\ \A g \in owed'[d] : g \in done => ~is_file_cached(g)'
          BY <3>1, <4>1 DEF WalkOf, is_file_cached
        <4>3. \A e \in edges : e[1] \in done /\ ~(ipc'[d] = "expand" /\ e[1] = subject'[d])
                        => e[2] \in done \/ e[2] \in queue'[d]
          BY <3>1, <3>2, <4>1 DEF WalkOf
        <4>4. \A T \in SUBSET File :
                 done \subseteq T /\ queue'[d] \subseteq T /\ ToSet(roots'[d]) \subseteq T /\ DependentsClosed(T, edges)
                   => owed'[d] \subseteq T
          <5> SUFFICES ASSUME NEW T \in SUBSET File, done \subseteq T, queue'[d] \subseteq T,
                              ToSet(roots'[d]) \subseteq T, DependentsClosed(T, edges)
                       PROVE  owed'[d] \subseteq T
            OBVIOUS
          <5>1. queue[d] \subseteq T
            BY <3>2, <4>1
          <5>2. QED
            BY <3>1, <4>1, <5>1 DEF WalkOf
        <4>5. WalkOf(d, edges, done)'
          BY <4>2, <4>3, <4>4 DEF WalkOf
        <4>6. QED
          BY <2>1, <2>4, <4>1, <4>5 DEF Walking
      <3>4. CASE f \notin visited[d]
        <4>1. /\ UNCHANGED <<file_dependents, roots, owed>>
              /\ visited'[d] = visited[d] \cup {f}
              /\ ipc[d] = "pop" /\ ipc'[d] = "expand" /\ subject'[d] = f
              /\ file_artifacts'[f] = NoHash
          BY <1>1, <2>1, <2>2, <2>4, <3>4 DEF FileTypes
        <4>2. PICK new : new = done \cup {f}
          OBVIOUS
        <4>3. /\ edges \subseteq file_dependents' /\ new \subseteq File /\ visited'[d] \subseteq new
              /\ subject'[d] \in new
          BY <2>2, <3>1, <4>1, <4>2 DEF WalkOf
        <4>4. \A g \in owed'[d] : g \in new => ~is_file_cached(g)'
          <5>1. \A g \in owed[d] : g \in File
            BY <1>1 DEF FileTypes
          <5>2. QED
            BY <2>2, <3>1, <4>1, <4>2, <5>1 DEF WalkOf, is_file_cached
        <4>5. \A e \in edges : e[1] \in new /\ ~(ipc'[d] = "expand" /\ e[1] = subject'[d])
                        => e[2] \in new \/ e[2] \in queue'[d]
          BY <3>1, <3>2, <4>1, <4>2 DEF WalkOf
        <4>6. \A T \in SUBSET File :
                 new \subseteq T /\ queue'[d] \subseteq T /\ ToSet(roots'[d]) \subseteq T /\ DependentsClosed(T, edges)
                   => owed'[d] \subseteq T
          <5> SUFFICES ASSUME NEW T \in SUBSET File, new \subseteq T, queue'[d] \subseteq T,
                              ToSet(roots'[d]) \subseteq T, DependentsClosed(T, edges)
                       PROVE  owed'[d] \subseteq T
            OBVIOUS
          <5>1. queue[d] \subseteq T /\ done \subseteq T
            BY <3>2, <4>2
          <5>2. QED
            BY <3>1, <4>1, <5>1 DEF WalkOf
        <4>7. WalkOf(d, edges, new)'
          BY <4>3, <4>4, <4>5, <4>6 DEF WalkOf
        <4>8. QED
          BY <4>1, <4>7 DEF Walking
      <3>5. QED
        BY <3>3, <3>4
    <2>5. QED
      BY <2>3, <2>4
  <1>9. ASSUME NEW c \in Indexer, GetDependents(c)
        PROVE  /\ ~Walking(d)' => visited'[d] = {}
               /\ Walking(d)' => \E edges, done : WalkOf(d, edges, done)'
    <2> DEFINE found == {e[2] : e \in {g \in file_dependents : g[1] = subject[c]}}
    <2>1. /\ ipc[c] = "expand" /\ queue' = [queue EXCEPT ![c] = @ \cup (found \ visited[c])]
          /\ ipc' = [ipc EXCEPT ![c] = "pop"] /\ subject' = [subject EXCEPT ![c] = NoFile]
          /\ UNCHANGED <<file_artifacts, cas_storage, file_dependents, task_files, visited, roots, owed>>
      BY <1>9 DEF GetDependents
    <2>2. CASE c # d
      BY <1>1, <1>3, <2>1, <2>2 DEF FileTypes
    <2>3. CASE c = d
      <3>1. PICK edges, done : WalkOf(d, edges, done)
        BY <1>2, <2>1, <2>3 DEF Walking
      <3>2. /\ queue'[d] = queue[d] \cup (found \ visited[d]) /\ ipc'[d] = "pop"
            /\ UNCHANGED <<file_artifacts, file_dependents, visited, roots, owed>>
        BY <1>1, <2>1, <2>3 DEF FileTypes
      <3>3. \A e \in edges : e[1] = subject[d] => e[2] \in found
        BY <2>3, <3>1 DEF WalkOf
      <3> HIDE DEF found
      <3>4. \A e \in edges : e[1] \in done => e[2] \in done \/ e[2] \in queue'[d]
        BY <3>1, <3>2, <3>3 DEF WalkOf
      <3>5. \A T \in SUBSET File :
              done \subseteq T /\ queue'[d] \subseteq T /\ ToSet(roots'[d]) \subseteq T /\ DependentsClosed(T, edges)
                => owed'[d] \subseteq T
        BY <3>1, <3>2 DEF WalkOf
      <3>6. /\ edges \subseteq file_dependents' /\ done \subseteq File /\ visited'[d] \subseteq done
            /\ ipc'[d] # "expand"
            /\ \A g \in owed'[d] : g \in done => ~is_file_cached(g)'
        BY <3>1, <3>2 DEF WalkOf, is_file_cached
      <3>7. WalkOf(d, edges, done)'
        BY <3>4, <3>5, <3>6 DEF WalkOf
      <3>8. QED
        BY <3>2, <3>7 DEF Walking
    <2>4. QED
      BY <2>2, <2>3
  <1>10. ASSUME NEW c \in Indexer, NextRoot(c)
        PROVE  /\ ~Walking(d)' => visited'[d] = {}
               /\ Walking(d)' => \E edges, done : WalkOf(d, edges, done)'
    <2>1. CASE c # d
      BY <1>1, <1>3, <1>10, <2>1 DEF NextRoot, FileTypes
    <2>2. CASE c = d
      <3>1. /\ ipc[d] = "pop" /\ queue[d] = {} /\ roots[d] # <<>>
            /\ queue'[d] = {Head(roots[d])} /\ visited'[d] = {} /\ roots'[d] = Tail(roots[d])
            /\ UNCHANGED <<file_artifacts, file_dependents, ipc, subject, owed>>
        BY <1>1, <1>10, <2>2 DEF NextRoot, FileTypes
      <3>2. PICK edges, done : WalkOf(d, edges, done)
        BY <1>2, <3>1 DEF Walking
      <3>3. ToSet(roots[d]) \subseteq queue'[d] \cup ToSet(roots'[d])
        <4>1. roots[d] \in Seq(File)
          BY <1>1 DEF FileTypes
        <4>2. QED
          BY <3>1, <4>1, TailElements
      <3>4. \A T \in SUBSET File :
              done \subseteq T /\ queue'[d] \subseteq T /\ ToSet(roots'[d]) \subseteq T /\ DependentsClosed(T, edges)
                => owed'[d] \subseteq T
        <4> SUFFICES ASSUME NEW T \in SUBSET File, done \subseteq T, queue'[d] \subseteq T,
                            ToSet(roots'[d]) \subseteq T, DependentsClosed(T, edges)
                     PROVE  owed'[d] \subseteq T
          OBVIOUS
        <4>1. ToSet(roots[d]) \subseteq T /\ queue[d] \subseteq T
          BY <3>1, <3>3
        <4>2. QED
          BY <3>1, <3>2, <4>1 DEF WalkOf
      <3>5. /\ edges \subseteq file_dependents' /\ done \subseteq File /\ visited'[d] \subseteq done
            /\ ipc'[d] # "expand"
            /\ \A g \in owed'[d] : g \in done => ~is_file_cached(g)'
        BY <3>1, <3>2 DEF WalkOf, is_file_cached
      <3>6. \A e \in edges : e[1] \in done => e[2] \in done \/ e[2] \in queue'[d]
        BY <3>1, <3>2 DEF WalkOf
      <3>7. WalkOf(d, edges, done)'
        BY <3>4, <3>5, <3>6 DEF WalkOf
      <3>8. QED
        BY <3>1, <3>7 DEF Walking
    <2>3. QED
      BY <2>1, <2>2
  <1>11. ASSUME NEW c \in Indexer, WalkDone(c)
        PROVE  /\ ~Walking(d)' => visited'[d] = {}
               /\ Walking(d)' => \E edges, done : WalkOf(d, edges, done)'
    <2>1. CASE c # d
      BY <1>1, <1>3, <1>11, <2>1 DEF WalkDone, FileTypes
    <2>2. CASE c = d
      BY <1>1, <1>11, <2>2 DEF WalkDone, FileTypes, Walking
    <2>3. QED
      BY <2>1, <2>2
  <1>12. CASE UNCHANGED fileVars
    BY <1>3, <1>12 DEF fileVars, walk
  <1>13. QED
    BY <1>4, <1>5, <1>6, <1>7, <1>8, <1>9, <1>10, <1>11, <1>12 DEF FileNext

(* When a walk is over and no file of the task is left, what it is done    *)
(* with has the dependents of its members, so it has all that is owed.     *)
LEMMA WalkReaches == WalkInv => InvalidationReachesDependents
  <1> SUFFICES ASSUME WalkInv, NEW c \in Indexer, ipc[c] = "pop", queue[c] = {}, roots[c] = <<>>,
                      NEW f \in owed[c]
               PROVE  ~is_file_cached(f)
    BY DEF InvalidationReachesDependents
  <1>1. PICK edges, done : WalkOf(c, edges, done)
    BY DEF WalkInv, Walking
  <1>2. ToSet(roots[c]) = {}
    BY DEF ToSet
  <1>3. DependentsClosed(done, edges)
    BY <1>1 DEF WalkOf, DependentsClosed
  <1>4. owed[c] \subseteq done
    BY <1>1, <1>2, <1>3 DEF WalkOf
  <1>5. QED
    BY <1>1, <1>4 DEF WalkOf

LEMMA WalkInit == FileInit => WalkInv
  <1> SUFFICES ASSUME FileInit PROVE WalkInv
    OBVIOUS
  <1>1. <<>> \in Seq(File)
    OBVIOUS
  <1>2. FileTypes
    BY <1>1 DEF FileInit, FileTypes
  <1>3. QED
    BY <1>2 DEF FileInit, WalkInv, Walking

(* FileLevelCache: no file is mapped to an artifact that is not stored,    *)
(* and when invalidate_task_files returns no file that depended on one of  *)
(* the task's when it began is cached, unless it was cached again, however *)
(* other threads cache files, add dependencies and invalidate meanwhile.   *)
THEOREM FileCacheIsSoundHolds == FileSpec => []FileCacheIsSound
  <1>1. WalkInv /\ [FileNext]_fileVars => WalkInv'
    BY WalkStep
  <1>2. FileSpec => []WalkInv
    BY <1>1, WalkInit, PTL DEF FileSpec
  <1>3. MappedIsStored /\ WalkInv => FileCacheIsSound
    BY WalkReaches DEF FileCacheIsSound
  <1>4. QED
    BY <1>2, <1>3, MappedIsStoredHolds, PTL

-----------------------------------------------------------------------------
(* The collection of a directory: sums of sizes.                           *)
LEMMA UnitsFinite ==
  ASSUME NEW D, IsFiniteSet(D), NEW w \in [D -> Nat]
  PROVE  IsFiniteSet(Units(w)) /\ Total(w) \in Nat
  <1> DEFINE cell(x) == {x} \X (1 .. w[x])
             C == {cell(x) : x \in D}
             f == [x \in D |-> cell(x)]
  <1>1. f \in Surjection(D, C)
    <2>1. f \in [D -> C] /\ \A x \in D : f[x] = cell(x)
      OBVIOUS
    <2>2. \A c \in C : \E x \in D : f[x] = c
      BY <2>1
    <2> HIDE DEF f, C
    <2>3. QED
      BY <2>1, <2>2 DEF Surjection
  <1>2. IsFiniteSet(C)
    <2> HIDE DEF f, C
    <2>1. QED
      BY <1>1, FS_Surjection
  <1>3. \A c \in C : IsFiniteSet(c)
    <2> SUFFICES ASSUME NEW x \in D PROVE IsFiniteSet(cell(x))
      OBVIOUS
    <2>1. IsFiniteSet({x}) /\ w[x] \in Int
      BY FS_Singleton
    <2>2. IsFiniteSet(1 .. w[x])
      BY <2>1, FS_Interval
    <2>3. IsFiniteSet({x} \X (1 .. w[x]))
      BY <2>1, <2>2, FS_Product, Zenon
    <2>4. QED
      BY <2>3
  <1>4. Units(w) = UNION C
    BY DEF Units
  <1> HIDE DEF C, f
  <1>5. IsFiniteSet(UNION C)
    BY <1>2, <1>3, FS_UNION
  <1>6. QED
    BY <1>4, <1>5, FS_CardinalityType DEF Total

(* Sizes that are found again among others are no more than those, and as  *)
(* much if that is all of them.                                            *)
FoundAgain(D, w, E, v, q) ==
  /\ IsFiniteSet(D) /\ w \in [D -> Nat] /\ IsFiniteSet(E) /\ v \in [E -> Nat]
  /\ q \in [D -> E] /\ \A x, y \in D : q[x] = q[y] => x = y
  /\ \A x \in D : v[q[x]] = w[x]
Covers(q, D, E) == \A y \in E : \E x \in D : q[x] = y

LEMMA TotalInjection ==
  ASSUME NEW D, NEW w, NEW E, NEW v, NEW q, FoundAgain(D, w, E, v, q)
  PROVE  Total(w) <= Total(v) /\ (Covers(q, D, E) => Total(w) = Total(v))
  <1> USE DEF FoundAgain
  <1> DEFINE f == [u \in Units(w) |-> <<q[u[1]], u[2]>>]
  <1>1. \A u \in Units(w) : u = <<u[1], u[2]>> /\ u[1] \in D /\ u[2] \in 1 .. w[u[1]]
    BY DEF Units
  <1>2. \A u \in Units(w) : f[u] = <<q[u[1]], u[2]>>
    OBVIOUS
  <1>3. \A u \in Units(w) : <<q[u[1]], u[2]>> \in Units(v)
    <2> TAKE u \in Units(w)
    <2>1. q[u[1]] \in E /\ u[2] \in 1 .. v[q[u[1]]]
      BY <1>1
    <2>2. <<q[u[1]], u[2]>> \in {q[u[1]]} \X (1 .. v[q[u[1]]])
      BY <2>1
    <2>3. QED
      BY <2>1, <2>2 DEF Units
  <1>4. f \in [Units(w) -> Units(v)]
    BY <1>3
  <1> HIDE DEF f
  <1>5. \A u, z \in Units(w) : f[u] = f[z] => u = z
    BY <1>1, <1>2
  <1>6. f \in Injection(Units(w), Units(v))
    BY <1>4, <1>5 DEF Injection, IsInjective
  <1>7. IsFiniteSet(Units(w)) /\ IsFiniteSet(Units(v))
    BY UnitsFinite
  <1>8. Cardinality(Units(w)) <= Cardinality(Units(v))
    BY <1>6, <1>7, FS_Injection
  <1>9. ASSUME Covers(q, D, E) PROVE Total(w) = Total(v)
    <2>1. ASSUME NEW z \in Units(v) PROVE \E u \in Units(w) : f[u] = z
      <3>1. z = <<z[1], z[2]>> /\ z[1] \in E /\ z[2] \in 1 .. v[z[1]]
        BY DEF Units
      <3>2. PICK x \in D : q[x] = z[1]
        BY <1>9, <3>1 DEF Covers
      <3>3. <<x, z[2]>> \in {x} \X (1 .. w[x])
        BY <3>1, <3>2
      <3>4. <<x, z[2]>> \in Units(w)
        BY <3>3 DEF Units
      <3>5. f[<<x, z[2]>>] = z
        BY <1>2, <3>1, <3>2, <3>4
      <3>6. QED
        BY <3>4, <3>5
    <2>2. f \in Bijection(Units(w), Units(v))
      BY <1>4, <1>5, <2>1 DEF Bijection, Injection, Surjection, IsInjective
    <2>3. ExistsBijection(Units(w), Units(v))
      BY <2>2 DEF ExistsBijection
    <2>4. QED
      BY <1>7, <2>3, FS_Bijection DEF Total
  <1>10. QED
    BY <1>8, <1>9 DEF Total

(* One less.                                                               *)
LEMMA TotalWithout ==
  ASSUME NEW D, IsFiniteSet(D), NEW w \in [D -> Nat], NEW x \in D
  PROVE  /\ Total(w) = Total(Restrict(w, D \ {x})) + w[x]
         /\ Total(w) \in Nat /\ Total(Restrict(w, D \ {x})) \in Nat
  <1> DEFINE r == Restrict(w, D \ {x})
             new == {x} \X (1 .. w[x])
  <1>1. r \in [D \ {x} -> Nat] /\ IsFiniteSet(D \ {x})
    BY FS_Subset DEF Restrict
  <1>2. \A y \in D \ {x} : r[y] = w[y]
    BY DEF Restrict
  <1>3. IsFiniteSet(new) /\ Cardinality(new) = w[x]
    <2>1. IsFiniteSet({x}) /\ Cardinality({x}) = 1
      BY FS_Singleton
    <2>2. IsFiniteSet(1 .. w[x]) /\ Cardinality(1 .. w[x]) = w[x]
      BY FS_Interval
    <2>3. IsFiniteSet({x} \X (1 .. w[x]))
          /\ Cardinality({x} \X (1 .. w[x])) = Cardinality({x}) * Cardinality(1 .. w[x])
      BY <2>1, <2>2, FS_Product, Zenon
    <2>4. QED
      BY <2>1, <2>2, <2>3
  <1> HIDE DEF r
  <1>4. Units(w) = Units(r) \cup new
    BY <1>1, <1>2 DEF Units
  <1>5. Units(r) \cap new = {}
    BY <1>1 DEF Units
  <1>6. IsFiniteSet(Units(r)) /\ Total(r) \in Nat /\ Total(w) \in Nat
    BY <1>1, UnitsFinite
  <1> HIDE DEF new
  <1>7. Cardinality(Units(r) \cup new)
          = Cardinality(Units(r)) + Cardinality(new) - Cardinality(Units(r) \cap new)
    BY <1>3, <1>6, FS_Union, Zenon
  <1>8. Cardinality(Units(r) \cap new) = 0
    BY <1>5, FS_EmptySet, Zenon
  <1>9. Total(w) = Total(r) + w[x]
    BY <1>3, <1>4, <1>6, <1>7, <1>8 DEF Total
  <1>10. QED
    BY <1>6, <1>9 DEF r

(* A directory and a list of its files.                                    *)
FileRec == [size : Nat, age : Nat]
GcEntry == GcFile \X Nat \X Nat

LEMMA DirFinite ==
  ASSUME NEW d, DOMAIN d \subseteq GcFile, d \in [DOMAIN d -> FileRec]
  PROVE  /\ IsFiniteSet(DOMAIN d) /\ [f \in DOMAIN d |-> d[f].size] \in [DOMAIN d -> Nat]
         /\ Bytes(d) \in Nat
  <1>1. IsFiniteSet(DOMAIN d)
    BY WatermarkAssumption, FS_Subset
  <1>2. [f \in DOMAIN d |-> d[f].size] \in [DOMAIN d -> Nat]
    BY DEF FileRec
  <1>3. QED
    BY <1>1, <1>2, UnitsFinite DEF Bytes

LEMMA BytesWithout ==
  ASSUME NEW d, DOMAIN d \subseteq GcFile, d \in [DOMAIN d -> FileRec], NEW f \in DOMAIN d
  PROVE  Bytes(d) = Bytes(Restrict(d, DOMAIN d \ {f})) + d[f].size
  <1> DEFINE w == [g \in DOMAIN d |-> d[g].size]
             r == Restrict(d, DOMAIN d \ {f})
  <1>1. IsFiniteSet(DOMAIN d) /\ w \in [DOMAIN d -> Nat]
    BY DirFinite
  <1>2. Total(w) = Total(Restrict(w, DOMAIN d \ {f})) + w[f]
    BY <1>1, TotalWithout
  <1>3. DOMAIN r = DOMAIN d \ {f} /\ \A g \in DOMAIN r : r[g] = d[g]
    BY DEF Restrict
  <1>4. [g \in DOMAIN r |-> r[g].size] = Restrict(w, DOMAIN d \ {f})
    BY <1>3 DEF Restrict
  <1>5. QED
    BY <1>2, <1>4 DEF Bytes

LEMMA ListFinite ==
  ASSUME NEW s \in Seq(GcEntry)
  PROVE  /\ DOMAIN s = 1 .. Len(s) /\ Len(s) \in Nat /\ IsFiniteSet(DOMAIN s)
         /\ [i \in DOMAIN s |-> s[i][2]] \in [DOMAIN s -> Nat] /\ Listed(s) \in Nat
  <1>1. DOMAIN s = 1 .. Len(s) /\ Len(s) \in Nat
    OBVIOUS
  <1>2. IsFiniteSet(DOMAIN s)
    BY <1>1, FS_Interval
  <1>3. [i \in DOMAIN s |-> s[i][2]] \in [DOMAIN s -> Nat]
    BY DEF GcEntry
  <1>4. QED
    BY <1>1, <1>2, <1>3, UnitsFinite DEF Listed

LEMMA ListedTail ==
  ASSUME NEW s \in Seq(GcEntry), s # <<>>
  PROVE  /\ Tail(s) \in Seq(GcEntry) /\ Head(s) \in GcEntry
         /\ Listed(s) = Listed(Tail(s)) + Head(s)[2]
  <1> DEFINE w == [i \in DOMAIN s |-> s[i][2]]
             t == Tail(s)
             v == [i \in DOMAIN t |-> t[i][2]]
             r == Restrict(w, DOMAIN s \ {1})
             q == [i \in DOMAIN t |-> i + 1]
  <1>1. DOMAIN s = 1 .. Len(s) /\ Len(s) \in Nat /\ Len(s) > 0
    OBVIOUS
  <1>2. /\ t \in Seq(GcEntry) /\ DOMAIN t = 1 .. Len(s) - 1
        /\ \A i \in 1 .. Len(s) - 1 : t[i] = s[i + 1]
    BY <1>1
  <1>3. Head(s) = s[1] /\ s[1] \in GcEntry
    BY <1>1
  <1>4. /\ IsFiniteSet(DOMAIN s) /\ w \in [DOMAIN s -> Nat]
        /\ IsFiniteSet(DOMAIN t) /\ v \in [DOMAIN t -> Nat]
    BY <1>2, ListFinite
  <1>5. 1 \in DOMAIN s
    BY <1>1
  <1>6. Total(w) = Total(r) + w[1]
    BY <1>4, <1>5, TotalWithout
  <1>7. IsFiniteSet(DOMAIN s \ {1}) /\ r \in [DOMAIN s \ {1} -> Nat]
    BY <1>4, FS_Subset DEF Restrict
  <1>8. q \in [DOMAIN t -> DOMAIN s \ {1}] /\ \A i \in DOMAIN t : q[i] = i + 1
    BY <1>1, <1>2
  <1>9. \A i \in DOMAIN t : r[q[i]] = v[i]
    BY <1>1, <1>2, <1>8 DEF Restrict
  <1>10. \A i, j \in DOMAIN t : q[i] = q[j] => i = j
    BY <1>2, <1>8
  <1>11. \A m \in DOMAIN s \ {1} : \E i \in DOMAIN t : q[i] = m
    <2> TAKE m \in DOMAIN s \ {1}
    <2>1. m - 1 \in DOMAIN t /\ (m - 1) + 1 = m
      BY <1>1, <1>2
    <2>2. QED
      BY <1>8, <2>1
  <1> HIDE DEF q, r, v, t
  <1>12. Total(v) = Total(r)
    <2>1. FoundAgain(DOMAIN t, v, DOMAIN s \ {1}, r, q)
      BY <1>4, <1>7, <1>8, <1>9, <1>10 DEF FoundAgain
    <2>2. Covers(q, DOMAIN t, DOMAIN s \ {1})
      BY <1>11 DEF Covers
    <2>3. QED
      BY <2>1, <2>2, TotalInjection
  <1>13. Listed(s) = Total(w) /\ Listed(t) = Total(v)
    BY DEF Listed, v
  <1>14. w[1] = Head(s)[2]
    BY <1>3, <1>5
  <1>15. QED
    BY <1>2, <1>3, <1>6, <1>12, <1>13, <1>14 DEF t

(* Files that a list names, with their sizes, have no more bytes than it   *)
(* lists; and just as many if it names no other.                           *)
LEMMA BytesListed ==
  ASSUME NEW d, DOMAIN d \subseteq GcFile, d \in [DOMAIN d -> FileRec], NEW s \in Seq(GcEntry),
         \A f \in DOMAIN d : \E i \in DOMAIN s : s[i][1] = f /\ s[i][2] = d[f].size
  PROVE  /\ Bytes(d) <= Listed(s)
         /\ (\A i \in DOMAIN s : s[i][1] \in DOMAIN d)
            /\ (\A i, j \in DOMAIN s : s[i][1] = s[j][1] => i = j) => Bytes(d) = Listed(s)
  <1> DEFINE w == [f \in DOMAIN d |-> d[f].size]
             v == [i \in DOMAIN s |-> s[i][2]]
             q == [f \in DOMAIN d |-> CHOOSE i \in DOMAIN s : s[i][1] = f /\ s[i][2] = d[f].size]
  <1>1. IsFiniteSet(DOMAIN d) /\ w \in [DOMAIN d -> Nat]
    BY DirFinite
  <1>2. IsFiniteSet(DOMAIN s) /\ v \in [DOMAIN s -> Nat]
    BY ListFinite
  <1>3. \A f \in DOMAIN d : q[f] \in DOMAIN s /\ s[q[f]][1] = f /\ s[q[f]][2] = d[f].size
    OBVIOUS
  <1>4. q \in [DOMAIN d -> DOMAIN s]
    BY <1>3
  <1> HIDE DEF q
  <1>5. \A f, g \in DOMAIN d : q[f] = q[g] => f = g
    BY <1>3
  <1>6. \A f \in DOMAIN d : v[q[f]] = w[f]
    BY <1>3
  <1>7. Listed(s) = Total(v) /\ Bytes(d) = Total(w)
    BY DEF Listed, Bytes
  <1>8. ASSUME \A i \in DOMAIN s : s[i][1] \in DOMAIN d,
               \A i, j \in DOMAIN s : s[i][1] = s[j][1] => i = j
        PROVE  \A i \in DOMAIN s : \E f \in DOMAIN d : q[f] = i
    <2> TAKE i \in DOMAIN s
    <2>1. s[i][1] \in DOMAIN d /\ q[s[i][1]] \in DOMAIN s /\ s[q[s[i][1]]][1] = s[i][1]
      BY <1>3, <1>8
    <2>2. q[s[i][1]] = i
      BY <1>8, <2>1
    <2>3. QED
      BY <2>1, <2>2
  <1> HIDE DEF w, v
  <1>9. FoundAgain(DOMAIN d, w, DOMAIN s, v, q)
    BY <1>1, <1>2, <1>4, <1>5, <1>6 DEF FoundAgain
  <1>10. Covers(q, DOMAIN d, DOMAIN s) => Bytes(d) = Listed(s)
    BY <1>7, <1>9, TotalInjection
  <1>11. Bytes(d) <= Listed(s)
    BY <1>7, <1>9, TotalInjection
  <1>12. QED
    BY <1>8, <1>10, <1>11 DEF Covers

(* The sort: a place of its own for each entry, the smaller before.        *)
Rating(e) == IF policy = "Lru" THEN 0 - e[3] ELSE IF policy = "SmallestFirst" THEN e[2] ELSE 0
UpTo(i) ==
  {j \in DOMAIN file_entries :
    \/ GoesBefore(file_entries[j], file_entries[i])
    \/ j <= i /\ ~GoesBefore(file_entries[i], file_entries[j])}

LEMMA RatingOrders ==
  \A s, t \in GcEntry : Rating(s) \in Int /\ (GoesBefore(s, t) <=> Rating(s) < Rating(t))
  BY DEF Rating, GoesBefore, GcEntry

LEMMA Places ==
  ASSUME file_entries \in Seq(GcEntry)
  PROVE  /\ \A i \in DOMAIN file_entries : place(i) \in DOMAIN file_entries
         /\ \A i, j \in DOMAIN file_entries : place(i) = place(j) => i = j
         /\ \A i, j \in DOMAIN file_entries :
              place(i) < place(j) => ~GoesBefore(file_entries[j], file_entries[i])
  <1> DEFINE D == DOMAIN file_entries
             rate(i) == Rating(file_entries[i])
  <1>1. D = 1 .. Len(file_entries) /\ Len(file_entries) \in Nat /\ IsFiniteSet(D)
    BY ListFinite
  <1>2. \A i \in D : file_entries[i] \in GcEntry
    OBVIOUS
  <1>3. /\ \A i \in D : rate(i) \in Int
        /\ \A i, j \in D : GoesBefore(file_entries[j], file_entries[i]) <=> rate(j) < rate(i)
    BY <1>2, RatingOrders
  <1>4. Cardinality(D) = Len(file_entries)
    BY <1>1, FS_Interval
  <1> HIDE DEF rate
  <1>5. \A i, j \in D : j \in UpTo(i) <=> rate(j) < rate(i) \/ (j <= i /\ rate(j) = rate(i))
    BY <1>1, <1>3 DEF UpTo
  <1>6. \A i \in D : /\ UpTo(i) \subseteq D /\ IsFiniteSet(UpTo(i)) /\ i \in UpTo(i)
                     /\ place(i) = Cardinality(UpTo(i))
    <2> TAKE i \in D
    <2>1. UpTo(i) \subseteq D
      BY DEF UpTo
    <2>2. IsFiniteSet(UpTo(i))
      BY <1>1, <2>1, FS_Subset
    <2>3. i \in UpTo(i)
      BY <1>1, <1>3, <1>5
    <2>4. QED
      BY <2>1, <2>2, <2>3 DEF place, UpTo
  <1>7. ASSUME NEW i \in D PROVE place(i) \in D
    <2>1. Cardinality(UpTo(i)) <= Len(file_entries)
      BY <1>1, <1>4, <1>6, FS_Subset
    <2>2. Cardinality(UpTo(i)) \in Nat /\ Cardinality(UpTo(i)) # 0
      BY <1>6, FS_CardinalityType, FS_EmptySet
    <2>3. QED
      BY <1>1, <1>6, <2>1, <2>2
  <1>8. ASSUME NEW i \in D, NEW j \in D, i # j, j \in UpTo(i) PROVE place(j) < place(i)
    <2>1. UpTo(j) \subseteq UpTo(i)
      <3> SUFFICES ASSUME NEW k \in UpTo(j) PROVE k \in UpTo(i)
        OBVIOUS
      <3>1. k \in D
        BY <1>6
      <3>2. rate(k) \in Int /\ rate(j) \in Int /\ rate(i) \in Int /\ k \in Int /\ j \in Int /\ i \in Int
        BY <1>1, <1>3, <3>1
      <3>3. rate(k) < rate(j) \/ (k <= j /\ rate(k) = rate(j))
        BY <1>5, <3>1
      <3>4. rate(j) < rate(i) \/ (j <= i /\ rate(j) = rate(i))
        BY <1>5, <1>8
      <3>5. rate(k) < rate(i) \/ (k <= i /\ rate(k) = rate(i))
        BY <3>2, <3>3, <3>4
      <3>6. QED
        BY <1>5, <3>1, <3>5
    <2>2. i \notin UpTo(j)
      BY <1>1, <1>3, <1>5, <1>8
    <2>3. UpTo(j) # UpTo(i)
      BY <1>6, <2>2
    <2>4. /\ Cardinality(UpTo(j)) <= Cardinality(UpTo(i))
          /\ Cardinality(UpTo(j)) # Cardinality(UpTo(i))
      BY <1>6, <2>1, <2>3, FS_Subset
    <2>5. Cardinality(UpTo(j)) \in Nat /\ Cardinality(UpTo(i)) \in Nat
      BY <1>6, FS_CardinalityType
    <2>6. QED
      BY <1>6, <2>4, <2>5
  <1>9. \A i, j \in D : i # j => j \in UpTo(i) \/ i \in UpTo(j)
    BY <1>1, <1>3, <1>5
  <1>10. \A i \in D : place(i) \in Nat
    BY <1>1, <1>7
  <1>11. \A i, j \in D : place(i) = place(j) => i = j
    BY <1>8, <1>9, <1>10
  <1>12. ASSUME NEW i \in D, NEW j \in D, place(i) < place(j),
                GoesBefore(file_entries[j], file_entries[i])
         PROVE  FALSE
    <2>1. rate(j) < rate(i)
      BY <1>3, <1>12
    <2>2. j \in UpTo(i) /\ i # j
      BY <1>3, <1>5, <2>1
    <2>3. place(j) < place(i)
      BY <1>8, <2>2
    <2>4. QED
      BY <1>10, <1>12, <2>3
  <1>13. QED
    BY <1>7, <1>11, <1>12

LEMMA ArrangedProperties ==
  ASSUME file_entries \in Seq(GcEntry), NEW s, s = Arranged
  PROVE  /\ s \in Seq(GcEntry) /\ DOMAIN s = DOMAIN file_entries
         /\ \A i, j \in DOMAIN file_entries : i < j => ~GoesBefore(s[j], s[i])
         /\ \A i \in DOMAIN file_entries : \E k \in DOMAIN file_entries : s[k] = file_entries[i]
         /\ \A k \in DOMAIN file_entries : \E i \in DOMAIN file_entries : s[k] = file_entries[i]
         /\ (\A i, j \in DOMAIN file_entries : file_entries[i][1] = file_entries[j][1] => i = j)
            => \A i, j \in DOMAIN file_entries : s[i][1] = s[j][1] => i = j
         /\ Listed(s) = Listed(file_entries)
  <1> DEFINE D == DOMAIN file_entries
             p == [k \in D |-> CHOOSE i \in D : place(i) = k]
             pl == [i \in D |-> place(i)]
             w == [k \in D |-> s[k][2]]
             v == [i \in D |-> file_entries[i][2]]
  <1>1. D = 1 .. Len(file_entries) /\ Len(file_entries) \in Nat /\ IsFiniteSet(D)
        /\ v \in [D -> Nat]
    BY ListFinite
  <1>2. /\ \A i \in D : place(i) \in D
        /\ \A i, j \in D : place(i) = place(j) => i = j
        /\ \A i, j \in D : place(i) < place(j) => ~GoesBefore(file_entries[j], file_entries[i])
    BY Places
  <1>3. pl \in [D -> D] /\ \A i \in D : pl[i] = place(i)
    BY <1>2
  <1>4. \A k \in D : \E i \in D : place(i) = k
    <2> HIDE DEF pl
    <2>1. pl \in Injection(D, D)
      BY <1>2, <1>3 DEF Injection, IsInjective
    <2>2. pl \in Surjection(D, D)
      BY <1>1, <2>1, FS_Injection
    <2>3. QED
      BY <1>3, <2>2 DEF Surjection
  <1>5. \A k \in D : p[k] \in D /\ place(p[k]) = k
    BY <1>4
  <1>6. s = [k \in D |-> file_entries[p[k]]]
    BY DEF Arranged
  <1> HIDE DEF p, pl, v
  <1>7. p \in [D -> D]
    <2>1. p = [k \in D |-> p[k]]
      BY DEF p
    <2>2. QED
      BY <1>5, <2>1
  <1>8. DOMAIN s = D /\ \A k \in D : s[k] = file_entries[p[k]]
    BY <1>6
  <1>9. s \in [1 .. Len(file_entries) -> GcEntry]
    BY <1>1, <1>5, <1>6
  <1>10. s \in Seq(GcEntry)
    BY <1>1, <1>9
  <1>11. \A k, m \in D : p[k] = p[m] => k = m
    BY <1>5
  <1>12. ASSUME NEW i \in D, NEW j \in D, i < j PROVE ~GoesBefore(s[j], s[i])
    <2>1. p[i] \in D /\ p[j] \in D /\ place(p[i]) < place(p[j])
      BY <1>5, <1>12
    <2>2. ~GoesBefore(file_entries[p[j]], file_entries[p[i]])
      BY <1>2, <2>1
    <2>3. QED
      BY <1>8, <2>2
  <1>13. \A i \in D : \E k \in D : p[k] = i
    <2> TAKE i \in D
    <2>1. place(i) \in D /\ place(p[place(i)]) = place(i)
      BY <1>2, <1>5
    <2>2. p[place(i)] = i
      BY <1>2, <1>5, <2>1
    <2>3. QED
      BY <2>1, <2>2
  <1>14. \A i \in D : \E k \in D : s[k] = file_entries[i]
    BY <1>8, <1>13
  <1>15. Listed(s) = Listed(file_entries)
    <2>1. w \in [D -> Nat]
      BY <1>8, <1>10, ListFinite
    <2>2. \A k \in D : v[p[k]] = w[k]
      BY <1>5, <1>8 DEF v
    <2>3. FoundAgain(D, w, D, v, p)
      BY <1>1, <1>7, <1>11, <2>1, <2>2 DEF FoundAgain
    <2>4. Covers(p, D, D)
      BY <1>13 DEF Covers
    <2>5. Total(w) = Total(v)
      BY <2>3, <2>4, TotalInjection
    <2>6. QED
      BY <1>8, <2>5 DEF Listed, v
  <1>16. \A k \in D : \E i \in D : s[k] = file_entries[i]
    BY <1>5, <1>8
  <1>17. ASSUME \A i, j \in D : file_entries[i][1] = file_entries[j][1] => i = j,
                NEW k \in D, NEW m \in D, s[k][1] = s[m][1]
         PROVE  k = m
    <2>1. p[k] \in D /\ p[m] \in D /\ file_entries[p[k]][1] = file_entries[p[m]][1]
      BY <1>5, <1>8, <1>17
    <2>2. p[k] = p[m]
      BY <1>17, <2>1
    <2>3. QED
      BY <1>11, <2>2
  <1>18. QED
    BY <1>8, <1>10, <1>12, <1>14, <1>15, <1>16, <1>17

(* Types, and what the list and the directory keep to.                     *)
GcType ==
  /\ DOMAIN first \subseteq GcFile /\ first \in [DOMAIN first -> FileRec]
  /\ DOMAIN dir \subseteq GcFile /\ dir \in [DOMAIN dir -> FileRec]
  /\ file_entries \in Seq(GcEntry) /\ current_size \in Nat /\ freed_bytes \in Nat
  /\ gcpc \in {"scan", "evict", "done"}

GcInv == GcType /\ CollectionFollows /\ CollectionIsExact

LEMMA KeepType ==
  ASSUME GcType, NEW S, S \subseteq DOMAIN dir
  PROVE  /\ DOMAIN Keep(S) = S /\ DOMAIN Keep(S) \subseteq GcFile
         /\ Keep(S) \in [DOMAIN Keep(S) -> FileRec] /\ \A f \in S : Keep(S)[f] = dir[f]
  <1>1. Keep(S) = [f \in S |-> dir[f]]
    BY DEF Keep, Restrict
  <1>2. QED
    BY <1>1 DEF GcType

LEMMA LivesType ==
  ASSUME GcType
  PROVE  /\ DOMAIN Restrict(first, Lives) = Lives /\ Lives \subseteq GcFile
         /\ Restrict(first, Lives) \in [Lives -> FileRec]
         /\ \A f \in Lives : Restrict(first, Lives)[f] = first[f]
  <1>1. Restrict(first, Lives) = [f \in Lives |-> first[f]] /\ Lives \subseteq DOMAIN first
    BY DEF Lives, Restrict
  <1>2. QED
    BY <1>1 DEF GcType

LEMMA GcTypeStep ==
  ASSUME GcType, [GcNext]_gcVars
  PROVE  GcType'
  <1>1. CASE UNCHANGED gcVars
    BY <1>1 DEF GcType, gcVars
  <1>2. \A S : S \subseteq DOMAIN dir => Keep(S) \in [S -> FileRec] /\ DOMAIN Keep(S) = S
    BY KeepType
  <1>3. ASSUME NEW f \in GcFile, Scan(f) PROVE GcType'
    <2>1. CASE f \notin DOMAIN dir
      BY <1>3, <2>1 DEF Scan, GcType
    <2>2. CASE f \in DOMAIN dir
      <3>1. dir[f] \in FileRec
        BY <2>2 DEF GcType
      <3>2. dir[f].size \in Nat /\ dir[f].age \in Nat
        BY <3>1 DEF FileRec
      <3>3. <<f, dir[f].size, dir[f].age>> \in GcEntry
        BY <3>2 DEF GcEntry
      <3>4. CASE dir[f].age >= Ttl
        <4>1. dir' = Keep(DOMAIN dir \ {f}) /\ freed_bytes' = freed_bytes + dir[f].size
              /\ UNCHANGED <<first, gcpc, file_entries, current_size>>
          BY <1>3, <2>2, <3>4 DEF Scan
        <4>2. DOMAIN dir' = DOMAIN dir \ {f} /\ dir' \in [DOMAIN dir' -> FileRec]
          BY <1>2, <4>1
        <4>3. DOMAIN dir' \subseteq GcFile /\ freed_bytes' \in Nat
          BY <3>2, <4>1, <4>2 DEF GcType
        <4>4. QED
          BY <4>1, <4>2, <4>3 DEF GcType
      <3>5. CASE ~(dir[f].age >= Ttl)
        <4>1. file_entries' = Append(file_entries, <<f, dir[f].size, dir[f].age>>)
              /\ UNCHANGED <<first, dir, gcpc, freed_bytes, current_size>>
          BY <1>3, <2>2, <3>5 DEF Scan
        <4>2. file_entries' \in Seq(GcEntry)
          BY <3>3, <4>1 DEF GcType
        <4>3. QED
          BY <4>1, <4>2 DEF GcType
      <3>6. QED
        BY <3>4, <3>5
    <2>3. QED
      BY <2>1, <2>2
  <1>4. CASE Judge
    <2>1. current_size' \in Nat
      BY <1>4, ListFinite DEF Judge, GcType
    <2>2. file_entries' \in Seq(GcEntry)
      BY <1>4, ArrangedProperties DEF Judge, GcType
    <2>3. gcpc' \in {"scan", "evict", "done"} /\ UNCHANGED <<first, dir, freed_bytes>>
      BY <1>4 DEF Judge
    <2>4. QED
      BY <2>1, <2>2, <2>3 DEF GcType
  <1>5. CASE EvictFile
    <2>1. CASE file_entries = <<>> \/ current_size <= LowWatermark
      BY <1>5, <2>1 DEF EvictFile, GcType
    <2>2. CASE ~(file_entries = <<>> \/ current_size <= LowWatermark)
      <3> DEFINE e == Head(file_entries)
      <3>1. e \in GcEntry /\ Tail(file_entries) \in Seq(GcEntry)
        BY <2>2, ListedTail DEF GcType
      <3>2. e[2] \in Nat
        BY <3>1 DEF GcEntry
      <3> HIDE DEF e
      <3>3. /\ file_entries' = Tail(file_entries) /\ UNCHANGED <<gcpc, first>>
            /\ IF e[1] \in DOMAIN dir
               THEN /\ dir' = Keep(DOMAIN dir \ {e[1]})
                    /\ freed_bytes' = freed_bytes + e[2]
                    /\ current_size' = IF current_size > e[2] THEN current_size - e[2] ELSE 0
               ELSE UNCHANGED <<dir, freed_bytes, current_size>>
        BY <1>5, <2>2 DEF EvictFile, e
      <3>4. DOMAIN dir' \subseteq GcFile /\ dir' \in [DOMAIN dir' -> FileRec]
        <4>1. CASE e[1] \in DOMAIN dir
          <5>1. DOMAIN dir' = DOMAIN dir \ {e[1]} /\ dir' \in [DOMAIN dir' -> FileRec]
            BY <1>2, <3>3, <4>1
          <5>2. QED
            BY <5>1 DEF GcType
        <4>2. CASE e[1] \notin DOMAIN dir
          BY <3>3, <4>2 DEF GcType
        <4>3. QED
          BY <4>1, <4>2
      <3>5. freed_bytes' \in Nat /\ current_size' \in Nat
        BY <3>2, <3>3 DEF GcType
      <3>6. QED
        BY <3>1, <3>3, <3>4, <3>5 DEF GcType
    <2>3. QED
      BY <2>1, <2>2
  <1>6. CASE OthersChange
    <2>1. PICK f \in GcFile \ touched, s \in Sizes :
            \/ dir' = [g \in DOMAIN dir \cup {f} |-> IF g = f THEN [size |-> s, age |-> 0] ELSE dir[g]]
            \/ dir' = Keep(DOMAIN dir \ {f})
      BY <1>6 DEF OthersChange
    <2>2. [size |-> s, age |-> 0] \in FileRec
      BY WatermarkAssumption DEF FileRec
    <2>3. DOMAIN dir' \subseteq GcFile /\ dir' \in [DOMAIN dir' -> FileRec]
      <3>1. CASE dir' = [g \in DOMAIN dir \cup {f} |->
                           IF g = f THEN [size |-> s, age |-> 0] ELSE dir[g]]
        BY <2>2, <3>1 DEF GcType
      <3>2. CASE dir' = Keep(DOMAIN dir \ {f})
        <4>1. DOMAIN dir' = DOMAIN dir \ {f} /\ dir' \in [DOMAIN dir' -> FileRec]
          BY <1>2, <3>2
        <4>2. QED
          BY <4>1 DEF GcType
      <3>3. QED
        BY <2>1, <3>1, <3>2
    <2>4. QED
      BY <1>6, <2>3 DEF OthersChange, GcType
  <1>7. QED
    BY <1>1, <1>3, <1>4, <1>5, <1>6 DEF GcNext, GcReturns

(* The steps of a scan and what others do meanwhile.                       *)
LEMMA ListStepScan ==
  ASSUME GcInv, NEW f \in GcFile, Scan(f)
  PROVE  GcInv'
  <1>1. GcType /\ GcType' /\ gcpc = "scan" /\ gcpc' = "scan" /\ ListFollows
    BY GcTypeStep DEF GcInv, GcNext, Scan, CollectionFollows
  <1>2. /\ f \in toScan /\ toScan' = toScan \ {f}
        /\ UNCHANGED <<policy, first, gcpc, current_size, touched>>
    BY DEF Scan
  <1>3. Lives' = Lives /\ \A g : Entry(g)' = Entry(g)
    BY <1>2 DEF Lives, Entry
  <1>4. file_entries \in Seq(GcEntry) /\ DOMAIN file_entries = 1 .. Len(file_entries)
    BY <1>1, ListFinite DEF GcType
  <1>5. CASE f \notin DOMAIN dir
    <2>1. UNCHANGED <<dir, file_entries, freed_bytes>>
      BY <1>5 DEF Scan
    <2>2. ListFollows'
      BY <1>1, <1>2, <1>3, <1>5, <2>1 DEF ListFollows, Evicted, Lives, Entry, Bytes
    <2>3. QED
      BY <1>1, <2>2 DEF GcInv, CollectionFollows, CollectionIsExact
  <1>6. CASE f \in DOMAIN dir /\ dir[f].age >= Ttl
    <2>1. /\ dir' = Keep(DOMAIN dir \ {f}) /\ freed_bytes' = freed_bytes + dir[f].size
          /\ UNCHANGED file_entries
      BY <1>6 DEF Scan
    <2>2. DOMAIN dir' = DOMAIN dir \ {f} /\ \A g \in DOMAIN dir' : dir'[g] = dir[g]
      BY <1>1, <2>1, KeepType
    <2>3. ASSUME touched' = {}
          PROVE  /\ freed_bytes' = Bytes(first) - Bytes(dir')
                 /\ \A i \in DOMAIN file_entries :
                      /\ file_entries[i][1] \in DOMAIN dir'
                      /\ file_entries[i] = Entry(file_entries[i][1])
                 /\ Lives \ DOMAIN dir' = {}
      <3>1. touched = {} /\ f \notin Lives
        <4>1. touched = {}
          BY <1>2, <2>3
        <4>2. dir[f] = first[f]
          BY <1>1, <1>6, <4>1 DEF ListFollows
        <4>3. dir[f].age \in Nat
          BY <1>1, <1>6 DEF GcType, FileRec
        <4>4. ~(first[f].age < Ttl)
          BY <1>6, <4>2, <4>3, WatermarkAssumption
        <4>5. QED
          BY <4>1, <4>4 DEF Lives
      <3>2. Bytes(dir) = Bytes(dir') + dir[f].size
        BY <1>1, <1>6, <2>1, BytesWithout DEF GcType, Keep
      <3>3. Bytes(dir) \in Nat /\ Bytes(dir') \in Nat /\ Bytes(first) \in Nat /\ dir[f].size \in Nat
        <4>1. Bytes(dir) \in Nat /\ Bytes(first) \in Nat
          BY <1>1, DirFinite DEF GcType
        <4>2. Bytes(dir') \in Nat
          BY <1>1, DirFinite DEF GcType
        <4>3. dir[f].size \in Nat
          BY <1>1, <1>6 DEF GcType, FileRec
        <4>4. QED
          BY <4>1, <4>2, <4>3
      <3>4. freed_bytes = Bytes(first) - Bytes(dir) /\ Lives \ DOMAIN dir = {}
        BY <1>1, <3>1 DEF ListFollows, Evicted
      <3>5. freed_bytes' = Bytes(first) - Bytes(dir')
        BY <2>1, <3>2, <3>3, <3>4
      <3>6. Lives \ DOMAIN dir' = {}
        BY <2>2, <3>1, <3>4
      <3>7. \A i \in DOMAIN file_entries :
              /\ file_entries[i][1] \in DOMAIN dir'
              /\ file_entries[i] = Entry(file_entries[i][1])
        BY <1>1, <1>2, <2>2, <3>1 DEF ListFollows
      <3>8. QED
        BY <3>5, <3>6, <3>7
    <2>4. \A g \in DOMAIN dir' \ touched' :
            /\ g \in DOMAIN first /\ dir'[g] = first[g]
            /\ g \notin toScan' =>
                 g \in Lives /\ \E i \in DOMAIN file_entries : file_entries[i] = Entry(g)
      BY <1>1, <1>2, <2>2 DEF ListFollows
    <2>5. /\ \A i, j \in DOMAIN file_entries : file_entries[i][1] = file_entries[j][1] => i = j
          /\ \A i \in DOMAIN file_entries : file_entries[i][1] \notin toScan'
      BY <1>1, <1>2 DEF ListFollows
    <2>6. Bytes(dir)' = Bytes(dir') /\ Evicted' = Lives \ DOMAIN dir' /\ Bytes(first)' = Bytes(first)
      BY <1>2, <1>3 DEF Evicted, Bytes
    <2>7. ListFollows'
      BY <1>2, <1>3, <2>1, <2>3, <2>4, <2>5, <2>6 DEF ListFollows
    <2>8. QED
      BY <1>1, <2>7 DEF GcInv, CollectionFollows, CollectionIsExact
  <1>7. CASE f \in DOMAIN dir /\ ~(dir[f].age >= Ttl)
    <2> DEFINE e == <<f, dir[f].size, dir[f].age>>
               n == Len(file_entries) + 1
    <2>1. file_entries' = Append(file_entries, e) /\ UNCHANGED <<dir, freed_bytes>>
      BY <1>7 DEF Scan
    <2>2. dir[f] \in FileRec
      BY <1>1, <1>7 DEF GcType
    <2>3. e \in GcEntry /\ e[1] = f
      BY <2>2 DEF GcEntry, FileRec
    <2>4. /\ DOMAIN file_entries' = (DOMAIN file_entries) \cup {n} /\ n \notin DOMAIN file_entries
          /\ file_entries'[n] = e
          /\ \A i \in DOMAIN file_entries : file_entries'[i] = file_entries[i]
      BY <1>4, <2>1, <2>3
    <2>5. f \notin touched => first[f] = dir[f] /\ f \in Lives /\ e = Entry(f)
      <3> SUFFICES ASSUME f \notin touched PROVE first[f] = dir[f] /\ f \in Lives /\ e = Entry(f)
        OBVIOUS
      <3>1. f \in DOMAIN first /\ dir[f] = first[f]
        BY <1>1, <1>7 DEF ListFollows
      <3>2. first[f].age < Ttl
        BY <1>7, <2>2, <3>1, WatermarkAssumption DEF FileRec
      <3>3. QED
        BY <3>1, <3>2 DEF Lives, Entry
    <2> HIDE DEF e, n
    <2>6. \A i, j \in DOMAIN file_entries' : file_entries'[i][1] = file_entries'[j][1] => i = j
      BY <1>1, <1>2, <2>3, <2>4 DEF ListFollows
    <2>7. \A i \in DOMAIN file_entries' : file_entries'[i][1] \notin toScan'
      BY <1>1, <1>2, <2>3, <2>4 DEF ListFollows
    <2>8. ASSUME NEW g \in DOMAIN dir \ touched
          PROVE  /\ g \in DOMAIN first /\ dir[g] = first[g]
                 /\ g \notin toScan' =>
                      g \in Lives /\ \E i \in DOMAIN file_entries' : file_entries'[i] = Entry(g)
      <3>1. g \in DOMAIN first /\ dir[g] = first[g]
        BY <1>1, <2>8 DEF ListFollows
      <3>2. CASE g = f
        BY <2>4, <2>5, <2>8, <3>1, <3>2
      <3>3. CASE g # f
        <4>1. g \notin toScan' => g \notin toScan
          BY <1>2, <3>3
        <4>2. g \notin toScan =>
                g \in Lives /\ \E i \in DOMAIN file_entries : file_entries[i] = Entry(g)
          BY <1>1, <2>8 DEF ListFollows
        <4>3. QED
          BY <2>4, <3>1, <4>1, <4>2
      <3>4. QED
        BY <3>2, <3>3
    <2>9. ASSUME touched = {}, NEW i \in DOMAIN file_entries'
          PROVE  file_entries'[i][1] \in DOMAIN dir /\ file_entries'[i] = Entry(file_entries'[i][1])
      <3>1. CASE i = n
        BY <1>7, <2>3, <2>4, <2>5, <2>9, <3>1
      <3>2. CASE i \in DOMAIN file_entries
        BY <1>1, <2>4, <2>9, <3>2 DEF ListFollows
      <3>3. QED
        BY <2>4, <2>9, <3>1, <3>2
    <2>10. touched = {} => freed_bytes = Bytes(first) - Bytes(dir) /\ Evicted = {}
      BY <1>1 DEF ListFollows
    <2>11. Bytes(dir)' = Bytes(dir) /\ Evicted' = Evicted /\ Bytes(first)' = Bytes(first)
      BY <1>2, <1>3, <2>1 DEF Evicted, Bytes
    <2>12. ListFollows'
      BY <1>2, <1>3, <2>1, <2>6, <2>7, <2>8, <2>9, <2>10, <2>11 DEF ListFollows
    <2>13. QED
      BY <1>1, <2>12 DEF GcInv, CollectionFollows, CollectionIsExact
  <1>8. QED
    BY <1>5, <1>6, <1>7

LEMMA ListStepOthers ==
  ASSUME GcInv, OthersChange
  PROVE  GcInv'
  <1>1. GcType /\ GcType'
    BY GcTypeStep DEF GcInv, GcNext
  <1>2. PICK f \in GcFile \ touched, s \in Sizes :
          /\ touched' = touched \cup {f}
          /\ \/ dir' = [g \in DOMAIN dir \cup {f} |-> IF g = f THEN [size |-> s, age |-> 0] ELSE dir[g]]
             \/ dir' = Keep(DOMAIN dir \ {f})
    BY DEF OthersChange
  <1>3. UNCHANGED <<policy, first, gcpc, toScan, file_entries, current_size, freed_bytes>>
        /\ gcpc # "done"
    BY DEF OthersChange
  <1>4. ListFollows /\ (gcpc = "evict" => EvictionFollows)
    BY <1>1, <1>3 DEF GcInv, CollectionFollows, GcType
  <1>5. \A g \in DOMAIN dir' \ touched' : g \in DOMAIN dir \ touched /\ dir'[g] = dir[g]
    <2>1. \A g \in DOMAIN Keep(DOMAIN dir \ {f}) :
            g \in DOMAIN dir \ {f} /\ Keep(DOMAIN dir \ {f})[g] = dir[g]
      BY <1>1, KeepType
    <2>2. QED
      BY <1>2, <2>1
  <1>6. touched' # {}
    BY <1>2
  <1>7. Lives' = Lives /\ \A g : Entry(g)' = Entry(g)
    BY <1>3 DEF Lives, Entry
  <1>8. ListFollows'
    BY <1>3, <1>4, <1>5, <1>6, <1>7 DEF ListFollows
  <1>9. EvictionFollows => EvictionFollows'
    BY <1>3, <1>6 DEF EvictionFollows, GoesBefore, Listed
  <1>10. QED
    BY <1>1, <1>3, <1>4, <1>8, <1>9 DEF GcInv, CollectionFollows, CollectionIsExact

(* What nobody touched is in the list, and has no more bytes than it says. *)
LEMMA LeftIsListed ==
  ASSUME GcType, ListFollows, toScan = {}
  PROVE  /\ DOMAIN dir \ touched \subseteq Lives
         /\ Bytes(Keep(DOMAIN dir \ touched)) <= Listed(file_entries)
         /\ Bytes(Keep(DOMAIN dir \ touched)) \in Nat
         /\ touched = {} =>
              /\ DOMAIN dir \subseteq Lives /\ Bytes(dir) = Listed(file_entries)
              /\ \A f \in DOMAIN dir : dir[f] = first[f] /\ Entry(f) \in Range(file_entries)
  <1> DEFINE left == DOMAIN dir \ touched
             d == Keep(left)
  <1>1. \A f \in left : /\ dir[f] = first[f] /\ f \in Lives
                        /\ \E i \in DOMAIN file_entries : file_entries[i] = Entry(f)
    BY DEF ListFollows
  <1>2. /\ DOMAIN d = left /\ DOMAIN d \subseteq GcFile /\ d \in [DOMAIN d -> FileRec]
        /\ \A f \in left : d[f] = dir[f]
    BY KeepType
  <1>3. file_entries \in Seq(GcEntry)
    BY DEF GcType
  <1>4. \A f \in left : Entry(f)[1] = f /\ Entry(f)[2] = dir[f].size
    BY <1>1 DEF Entry
  <1> HIDE DEF d, left
  <1>5. ASSUME NEW f \in DOMAIN d
        PROVE  \E i \in DOMAIN file_entries :
                 file_entries[i][1] = f /\ file_entries[i][2] = d[f].size
    <2>1. f \in left /\ d[f] = dir[f]
      BY <1>2
    <2>2. PICK i \in DOMAIN file_entries : file_entries[i] = Entry(f)
      BY <1>1, <2>1
    <2>3. QED
      BY <1>4, <2>1, <2>2
  <1>6. Bytes(d) <= Listed(file_entries) /\ Bytes(d) \in Nat
    BY <1>2, <1>3, <1>5, BytesListed, DirFinite
  <1>7. ASSUME touched = {} PROVE Bytes(dir) = Listed(file_entries)
    <2>1. DOMAIN dir = left
      BY <1>7 DEF left
    <2>2. \A f \in DOMAIN dir : \E i \in DOMAIN file_entries :
            file_entries[i][1] = f /\ file_entries[i][2] = dir[f].size
      BY <1>1, <1>4, <2>1
    <2>3. /\ \A i \in DOMAIN file_entries : file_entries[i][1] \in DOMAIN dir
          /\ \A i, j \in DOMAIN file_entries : file_entries[i][1] = file_entries[j][1] => i = j
      BY <1>7 DEF ListFollows
    <2>4. DOMAIN dir \subseteq GcFile /\ dir \in [DOMAIN dir -> FileRec]
      BY DEF GcType
    <2>5. QED
      BY <1>3, <2>2, <2>3, <2>4, BytesListed
  <1>8. \A f \in left : Entry(f) \in Range(file_entries)
    BY <1>1 DEF Range
  <1>9. QED
    BY <1>1, <1>6, <1>7, <1>8 DEF d, left

(* The files that do not expire, before any goes.                          *)
LEMMA LivesAreListed ==
  ASSUME GcType, ListFollows, toScan = {}, touched = {}, Evicted = {}
  PROVE  Bytes(Restrict(first, Lives)) = Listed(file_entries)
  <1> DEFINE d == Restrict(first, Lives)
  <1>1. /\ DOMAIN d = Lives /\ Lives \subseteq GcFile /\ d \in [Lives -> FileRec]
        /\ \A f \in Lives : d[f] = first[f]
    BY LivesType
  <1>2. Lives \subseteq DOMAIN dir
    BY DEF Evicted
  <1>3. \A f \in Lives : \E i \in DOMAIN file_entries : file_entries[i] = Entry(f)
    BY <1>2 DEF ListFollows
  <1>4. \A f \in Lives : Entry(f)[1] = f /\ Entry(f)[2] = d[f].size
    BY <1>1 DEF Entry
  <1>5. \A f \in DOMAIN d : \E i \in DOMAIN file_entries :
          file_entries[i][1] = f /\ file_entries[i][2] = d[f].size
    BY <1>1, <1>3, <1>4
  <1>6. \A i \in DOMAIN file_entries : file_entries[i][1] \in DOMAIN d
    <2>1. DOMAIN dir \subseteq Lives
      BY LeftIsListed
    <2>2. QED
      BY <1>1, <2>1 DEF ListFollows
  <1>7. \A i, j \in DOMAIN file_entries : file_entries[i][1] = file_entries[j][1] => i = j
    BY DEF ListFollows
  <1>8. file_entries \in Seq(GcEntry)
    BY DEF GcType
  <1>9. DOMAIN d \subseteq GcFile /\ d \in [DOMAIN d -> FileRec]
    BY <1>1
  <1> HIDE DEF d
  <1>10. Bytes(d) = Listed(file_entries)
    BY <1>5, <1>6, <1>7, <1>8, <1>9, BytesListed
  <1>11. QED
    BY <1>10 DEF d

LEMMA JudgeStep ==
  ASSUME GcInv, Judge
  PROVE  GcInv'
  <1>1. GcType /\ GcType' /\ gcpc = "scan" /\ toScan = {} /\ ListFollows
    BY GcTypeStep DEF GcInv, GcNext, Judge, CollectionFollows
  <1>2. /\ UNCHANGED <<policy, dir, first, toScan, freed_bytes, touched>>
        /\ current_size' = Listed(file_entries)
    BY DEF Judge
  <1>3. /\ Lives' = Lives /\ Evicted' = Evicted /\ \A f : Entry(f)' = Entry(f)
        /\ Bytes(dir)' = Bytes(dir) /\ Bytes(first)' = Bytes(first)
        /\ Bytes(Restrict(first, Lives))' = Bytes(Restrict(first, Lives))
        /\ Bytes(Keep(DOMAIN dir \ touched))' = Bytes(Keep(DOMAIN dir \ touched))
    BY <1>2 DEF Lives, Evicted, Entry, Keep
  <1>4. touched = {} =>
          /\ freed_bytes = Bytes(first) - Bytes(dir) /\ Evicted = {}
          /\ Bytes(Restrict(first, Lives)) = Listed(file_entries)
    BY <1>1, LivesAreListed DEF ListFollows
  <1>5. Listed(file_entries) \in Nat /\ file_entries \in Seq(GcEntry)
    BY <1>1, ListFinite DEF GcType
  <1>6. CASE Listed(file_entries) > HighWatermark
    <2>1. gcpc' = "evict" /\ file_entries' = Arranged
      BY <1>2, <1>6 DEF Judge
    <2>2. PICK s : s = Arranged
      OBVIOUS
    <2>3. file_entries' = s
      BY <2>1, <2>2
    <2> DEFINE D == DOMAIN file_entries
    <2>4. /\ DOMAIN s = D /\ Listed(s) = Listed(file_entries)
          /\ \A i, j \in D : i < j => ~GoesBefore(s[j], s[i])
          /\ \A i \in D : \E k \in D : s[k] = file_entries[i]
      BY <1>5, <2>2, ArrangedProperties
    <2>5. /\ \A k \in D : \E i \in D : s[k] = file_entries[i]
          /\ (\A i, j \in D : file_entries[i][1] = file_entries[j][1] => i = j)
             => \A i, j \in D : s[i][1] = s[j][1] => i = j
      BY <1>5, <2>2, ArrangedProperties
    <2>6. ListFollows'
      <3>1. \A i, j \in D : s[i][1] = s[j][1] => i = j
        BY <1>1, <2>5 DEF ListFollows
      <3>2. \A f \in DOMAIN dir \ touched :
              /\ f \in DOMAIN first /\ dir[f] = first[f]
              /\ f \in Lives /\ \E k \in D : s[k] = Entry(f)
        BY <1>1, <2>4 DEF ListFollows
      <3>3. touched = {} => \A k \in D : s[k][1] \in DOMAIN dir /\ s[k] = Entry(s[k][1])
        BY <1>1, <2>5 DEF ListFollows
      <3>4. QED
        BY <1>1, <1>2, <1>3, <1>4, <2>1, <2>3, <2>4, <3>1, <3>2, <3>3 DEF ListFollows
    <2>7. EvictionFollows'
      <3>1. Listed(file_entries)' = Listed(file_entries) /\ Listed(file_entries) <= current_size'
        BY <1>2, <1>5, <2>3, <2>4
      <3>2. \A i, j \in DOMAIN file_entries' : i < j => ~GoesBefore(file_entries[j], file_entries[i])'
        BY <1>2, <2>3, <2>4 DEF GoesBefore
      <3>3. QED
        BY <1>1, <1>2, <1>3, <1>4, <1>6, <3>1, <3>2 DEF EvictionFollows
    <2>8. QED
      BY <1>1, <2>1, <2>6, <2>7 DEF GcInv, CollectionFollows, CollectionIsExact
  <1>7. CASE ~(Listed(file_entries) > HighWatermark)
    <2>1. gcpc' = "done"
      BY <1>2, <1>7 DEF Judge
    <2>2. DOMAIN dir \ touched \subseteq Lives
          /\ Bytes(Keep(DOMAIN dir \ touched)) <= Listed(file_entries)
          /\ Bytes(Keep(DOMAIN dir \ touched)) \in Nat
      BY <1>1, LeftIsListed
    <2>3. Bytes(Keep(DOMAIN dir \ touched)) <= HighWatermark
      BY <1>5, <1>7, <2>2, WatermarkAssumption
    <2>4. touched = {} => Bytes(Restrict(first, Lives)) <= HighWatermark
      BY <1>4, <1>5, <1>7, WatermarkAssumption
    <2>5. CollectionIsExact'
      BY <1>2, <1>3, <1>4, <2>2, <2>3, <2>4 DEF CollectionIsExact
    <2>6. QED
      BY <1>1, <2>1, <2>5 DEF GcInv, CollectionFollows
  <1>8. QED
    BY <1>6, <1>7

(* The eviction ends.                                                      *)
LEMMA EvictStopStep ==
  ASSUME GcInv, EvictFile, file_entries = <<>> \/ current_size <= LowWatermark
  PROVE  GcInv'
  <1>1. GcType /\ GcType' /\ gcpc = "evict" /\ toScan = {} /\ ListFollows /\ EvictionFollows
    BY GcTypeStep DEF GcInv, GcNext, EvictFile, CollectionFollows, EvictionFollows
  <1>2. /\ UNCHANGED <<policy, dir, first, toScan, file_entries, freed_bytes, current_size, touched>>
        /\ gcpc' = "done"
    BY DEF EvictFile
  <1>3. /\ Lives' = Lives /\ Evicted' = Evicted /\ \A f : Entry(f)' = Entry(f)
        /\ Bytes(dir)' = Bytes(dir) /\ Bytes(first)' = Bytes(first)
        /\ Bytes(Restrict(first, Lives))' = Bytes(Restrict(first, Lives))
        /\ Bytes(Keep(DOMAIN dir \ touched))' = Bytes(Keep(DOMAIN dir \ touched))
    BY <1>2 DEF Lives, Evicted, Entry, Keep
  <1>4. JustEnough => JustEnough'
    BY <1>2, <1>3 DEF JustEnough, GoesBefore
  <1>5. /\ DOMAIN dir \ touched \subseteq Lives
        /\ Bytes(Keep(DOMAIN dir \ touched)) <= Listed(file_entries)
        /\ Bytes(Keep(DOMAIN dir \ touched)) \in Nat
        /\ touched = {} =>
             /\ DOMAIN dir \subseteq Lives /\ Bytes(dir) = Listed(file_entries)
             /\ \A f \in DOMAIN dir : dir[f] = first[f] /\ Entry(f) \in Range(file_entries)
    BY <1>1, LeftIsListed
  <1>6. Listed(file_entries) \in Nat /\ Listed(file_entries) <= LowWatermark
    <2>1. Listed(file_entries) \in Nat
      BY <1>1, ListFinite DEF GcType
    <2>2. CASE file_entries = <<>>
      <3>1. DOMAIN [i \in DOMAIN <<>> |-> <<>>[i][2]] = {}
        OBVIOUS
      <3>2. Units([i \in DOMAIN <<>> |-> <<>>[i][2]]) = {}
        BY <3>1 DEF Units
      <3>3. Listed(<<>>) = 0
        BY <3>2, FS_EmptySet DEF Listed, Total
      <3>4. QED
        BY <2>1, <2>2, <3>3, WatermarkAssumption
    <2>3. CASE current_size <= LowWatermark
      BY <1>1, <2>1, <2>3, WatermarkAssumption DEF EvictionFollows, GcType
    <2>4. QED
      BY <2>1, <2>2, <2>3
  <1>7. Bytes(Keep(DOMAIN dir \ touched)) <= HighWatermark
    BY <1>5, <1>6, WatermarkAssumption
  <1>8. ASSUME touched = {}
        PROVE  /\ freed_bytes = Bytes(first) - Bytes(dir)
               /\ ~(Bytes(Restrict(first, Lives)) <= HighWatermark)
               /\ Bytes(dir) <= LowWatermark /\ JustEnough
               /\ \A f \in Evicted, g \in DOMAIN dir : ~GoesBefore(Entry(g), Entry(f))
    <2>1. freed_bytes = Bytes(first) - Bytes(dir)
      BY <1>1, <1>8 DEF ListFollows
    <2>2. Bytes(Restrict(first, Lives)) \in Nat
      <3>1. /\ DOMAIN Restrict(first, Lives) \subseteq GcFile
            /\ Restrict(first, Lives) \in [DOMAIN Restrict(first, Lives) -> FileRec]
        BY <1>1, LivesType
      <3>2. QED
        BY <3>1, DirFinite
    <2>3. Bytes(Restrict(first, Lives)) > HighWatermark
      BY <1>1, <1>8 DEF EvictionFollows
    <2>4. ~(Bytes(Restrict(first, Lives)) <= HighWatermark)
      BY <2>2, <2>3, WatermarkAssumption
    <2>5. Bytes(dir) <= LowWatermark
      BY <1>5, <1>6, <1>8
    <2>6. Evicted # {}
      <3> SUFFICES ASSUME Evicted = {} PROVE FALSE
        OBVIOUS
      <3>1. DOMAIN dir = Lives
        BY <1>5, <1>8 DEF Evicted
      <3>2. dir = [f \in DOMAIN dir |-> dir[f]]
        BY <1>1 DEF GcType
      <3>3. dir = [f \in Lives |-> first[f]]
        BY <1>5, <1>8, <3>1, <3>2
      <3>4. Restrict(first, Lives) = dir
        BY <3>3 DEF Restrict
      <3>5. Bytes(dir) \in Nat
        BY <1>5, <1>6, <1>8
      <3>6. QED
        BY <2>3, <2>5, <3>4, <3>5, WatermarkAssumption
    <2>7. JustEnough
      BY <1>1, <1>8, <2>6 DEF EvictionFollows
    <2>8. \A f \in Evicted, i \in DOMAIN file_entries : ~GoesBefore(file_entries[i], Entry(f))
      BY <1>1, <1>8 DEF EvictionFollows
    <2>9. ASSUME NEW f \in Evicted, NEW g \in DOMAIN dir PROVE ~GoesBefore(Entry(g), Entry(f))
      <3>1. PICK i \in DOMAIN file_entries : file_entries[i] = Entry(g)
        BY <1>5, <1>8, <2>9 DEF Range
      <3>2. QED
        BY <2>8, <3>1
    <2>10. QED
      BY <2>1, <2>4, <2>5, <2>7, <2>9
  <1>9. \A f, g : GoesBefore(Entry(g), Entry(f))' <=> GoesBefore(Entry(g), Entry(f))
    BY <1>2, <1>3 DEF GoesBefore
  <1>10. CollectionIsExact'
    BY <1>2, <1>3, <1>4, <1>5, <1>7, <1>8, <1>9 DEF CollectionIsExact
  <1>11. QED
    BY <1>1, <1>2, <1>10 DEF GcInv, CollectionFollows

(* One more file goes, unless it is gone.                                  *)
LEMMA EvictOneStep ==
  ASSUME GcInv, EvictFile, ~(file_entries = <<>> \/ current_size <= LowWatermark)
  PROVE  GcInv'
  <1> DEFINE e == Head(file_entries)
             t == Tail(file_entries)
             n == Len(file_entries)
  <1>1. GcType /\ GcType' /\ gcpc = "evict" /\ toScan = {} /\ ListFollows /\ EvictionFollows
    BY GcTypeStep DEF GcInv, GcNext, EvictFile, CollectionFollows, EvictionFollows
  <1>2. /\ file_entries' = t /\ UNCHANGED <<policy, first, gcpc, toScan, touched>>
        /\ e[1] \in DOMAIN dir =>
             /\ dir' = Keep(DOMAIN dir \ {e[1]}) /\ freed_bytes' = freed_bytes + e[2]
             /\ current_size' = IF current_size > e[2] THEN current_size - e[2] ELSE 0
        /\ e[1] \notin DOMAIN dir => UNCHANGED <<dir, freed_bytes, current_size>>
    BY DEF EvictFile
  <1>3. /\ file_entries \in Seq(GcEntry) /\ file_entries # <<>>
        /\ t \in Seq(GcEntry) /\ e \in GcEntry /\ Listed(file_entries) = Listed(t) + e[2]
    BY <1>1, ListedTail DEF GcType
  <1>4. /\ DOMAIN file_entries = 1 .. n /\ n \in Nat /\ n > 0 /\ e = file_entries[1]
        /\ DOMAIN t = 1 .. n - 1 /\ \A i \in 1 .. n - 1 : t[i] = file_entries[i + 1]
    BY <1>3
  <1>5. Listed(t) \in Nat /\ e[2] \in Nat
    BY <1>3, ListFinite DEF GcEntry
  <1> HIDE DEF e, t, n
  <1>6. DOMAIN dir' = DOMAIN dir \ {e[1]} /\ \A f \in DOMAIN dir' : dir'[f] = dir[f]
    <2>1. CASE e[1] \in DOMAIN dir
      <3>1. DOMAIN dir \ {e[1]} \subseteq DOMAIN dir
        OBVIOUS
      <3>2. QED
        BY <1>1, <1>2, <2>1, <3>1, KeepType
    <2>2. CASE e[1] \notin DOMAIN dir
      BY <1>2, <2>2
    <2>3. QED
      BY <2>1, <2>2
  <1>7. Lives' = Lives /\ (\A f : Entry(f)' = Entry(f)) /\ Bytes(first)' = Bytes(first)
        /\ Evicted' = Lives \ DOMAIN dir' /\ Bytes(dir)' = Bytes(dir')
        /\ Bytes(Restrict(first, Lives))' = Bytes(Restrict(first, Lives))
        /\ Listed(file_entries)' = Listed(t)
    BY <1>2 DEF Lives, Entry, Evicted
  <1>8. \A i \in DOMAIN t : i + 1 \in DOMAIN file_entries /\ t[i] = file_entries[i + 1] /\ i \in Nat
    BY <1>4
  <1>9. 1 \in DOMAIN file_entries
    BY <1>4
  (* With nobody else at work. *)
  <1>10. ASSUME touched = {}
         PROVE  /\ e[1] \in DOMAIN dir /\ e = Entry(e[1]) /\ e[1] \in Lives
                /\ Bytes(dir) = Bytes(dir') + e[2] /\ Bytes(dir') \in Nat
                /\ Bytes(dir) = Listed(file_entries) /\ Bytes(dir) = current_size
                /\ freed_bytes' = Bytes(first) - Bytes(dir')
                /\ Listed(t) = current_size'
    <2>1. e[1] \in DOMAIN dir /\ e = Entry(e[1])
      BY <1>1, <1>4, <1>9, <1>10 DEF ListFollows
    <2>2. dir[e[1]] = first[e[1]] /\ e[1] \in Lives
      BY <1>1, <1>10, <2>1 DEF ListFollows
    <2>3. e[2] = dir[e[1]].size
      BY <2>1, <2>2 DEF Entry
    <2>4. Bytes(dir) = Bytes(dir') + e[2]
      BY <1>1, <1>2, <2>1, <2>3, BytesWithout DEF GcType, Keep
    <2>5. Bytes(dir') \in Nat /\ Bytes(dir) \in Nat /\ Bytes(first) \in Nat
      <3>1. Bytes(dir) \in Nat /\ Bytes(first) \in Nat
        BY <1>1, DirFinite DEF GcType
      <3>2. Bytes(dir') \in Nat
        BY <1>1, DirFinite DEF GcType
      <3>3. QED
        BY <3>1, <3>2
    <2>6. Bytes(dir) = Listed(file_entries) /\ Listed(file_entries) = current_size
      BY <1>1, <1>10, LeftIsListed DEF EvictionFollows
    <2>7. freed_bytes = Bytes(first) - Bytes(dir)
      BY <1>1, <1>10 DEF ListFollows
    <2>8. freed_bytes' = Bytes(first) - Bytes(dir')
      BY <1>2, <1>5, <2>1, <2>4, <2>5, <2>7
    <2>9. Listed(t) = current_size'
      BY <1>2, <1>3, <1>5, <2>1, <2>6
    <2>10. QED
      BY <2>1, <2>2, <2>4, <2>5, <2>6, <2>8, <2>9
  <1>11. ListFollows'
    <2>1. \A i, j \in DOMAIN t : t[i][1] = t[j][1] => i = j
      <3> SUFFICES ASSUME NEW i \in DOMAIN t, NEW j \in DOMAIN t, t[i][1] = t[j][1] PROVE i = j
        OBVIOUS
      <3>1. i + 1 = j + 1
        BY <1>1, <1>8 DEF ListFollows
      <3>2. QED
        BY <1>8, <3>1
    <2>2. \A i \in DOMAIN t : t[i][1] # e[1]
      <3> SUFFICES ASSUME NEW i \in DOMAIN t, t[i][1] = e[1] PROVE FALSE
        OBVIOUS
      <3>1. i + 1 = 1
        BY <1>1, <1>4, <1>8, <1>9 DEF ListFollows
      <3>2. QED
        BY <1>4, <1>8, <3>1
    <2>3. ASSUME NEW f \in DOMAIN dir' \ touched
          PROVE  /\ f \in DOMAIN first /\ dir'[f] = first[f]
                 /\ f \in Lives /\ \E i \in DOMAIN t : t[i] = Entry(f)
      <3>1. f \in DOMAIN dir \ touched /\ f # e[1]
        BY <1>6
      <3>2. f \in DOMAIN first /\ dir[f] = first[f] /\ f \in Lives
        BY <1>1, <3>1 DEF ListFollows
      <3>3. PICK i \in DOMAIN file_entries : file_entries[i] = Entry(f)
        BY <1>1, <3>1 DEF ListFollows
      <3>4. i # 1
        BY <1>4, <3>1, <3>3 DEF Entry
      <3>5. i - 1 \in DOMAIN t /\ t[i - 1] = Entry(f)
        BY <1>4, <3>3, <3>4
      <3>6. QED
        BY <1>6, <3>2, <3>5
    <2>4. ASSUME touched = {}, NEW i \in DOMAIN t
          PROVE  t[i][1] \in DOMAIN dir' /\ t[i] = Entry(t[i][1])
      <3>1. t[i][1] \in DOMAIN dir /\ t[i] = Entry(t[i][1])
        BY <1>1, <1>8, <2>4 DEF ListFollows
      <3>2. QED
        BY <1>6, <2>2, <3>1
    <2>5. QED
      BY <1>1, <1>2, <1>7, <1>10, <2>1, <2>3, <2>4 DEF ListFollows
  <1>12. EvictionFollows'
    <2>1. Listed(t) <= current_size'
      <3>1. Listed(file_entries) <= current_size /\ current_size \in Nat
        BY <1>1 DEF EvictionFollows, GcType
      <3>2. QED
        BY <1>2, <1>3, <1>5, <3>1
    <2>2. \A r, s : GoesBefore(r, s)' <=> GoesBefore(r, s)
      BY <1>2 DEF GoesBefore
    <2>3. ASSUME NEW i \in DOMAIN t, NEW j \in DOMAIN t, i < j PROVE ~GoesBefore(t[j], t[i])
      <3>1. i + 1 < j + 1
        BY <1>8, <2>3
      <3>2. QED
        BY <1>1, <1>8, <3>1 DEF EvictionFollows
    <2>4. ASSUME touched = {}
          PROVE  /\ \A f \in Evicted', i \in DOMAIN t : ~GoesBefore(t[i], Entry(f))
                 /\ \E last \in Evicted' :
                      /\ Bytes(dir') + first[last].size > LowWatermark
                      /\ \A f \in Evicted' : ~GoesBefore(Entry(last), Entry(f))
      <3>1. Evicted' = Evicted \cup {e[1]}
        BY <1>6, <1>7, <1>10, <2>4 DEF Evicted
      <3>2. \A f \in Evicted, i \in DOMAIN file_entries : ~GoesBefore(file_entries[i], Entry(f))
        BY <1>1, <2>4 DEF EvictionFollows
      <3>3. ~GoesBefore(e, e)
        BY <1>3, RatingOrders
      <3>4. \A i \in DOMAIN t : ~GoesBefore(t[i], e)
        <4> TAKE i \in DOMAIN t
        <4>1. 1 < i + 1
          BY <1>4, <1>8
        <4>2. QED
          BY <1>1, <1>4, <1>8, <1>9, <4>1 DEF EvictionFollows
      <3>5. \A f \in Evicted', i \in DOMAIN t : ~GoesBefore(t[i], Entry(f))
        BY <1>8, <1>10, <2>4, <3>1, <3>2, <3>4
      <3>6. \A f \in Evicted' : ~GoesBefore(Entry(e[1]), Entry(f))
        BY <1>4, <1>9, <1>10, <2>4, <3>1, <3>2, <3>3
      <3>7. Bytes(dir') + first[e[1]].size > LowWatermark
        <4>1. e[2] = first[e[1]].size
          BY <1>10, <2>4 DEF Entry
        <4>2. current_size \in Nat /\ ~(current_size <= LowWatermark)
          BY <1>1 DEF GcType
        <4>3. QED
          BY <1>5, <1>10, <2>4, <4>1, <4>2, WatermarkAssumption
      <3>8. QED
        BY <3>1, <3>5, <3>6, <3>7
    <2>5. touched = {} => JustEnough'
      BY <1>2, <1>7, <2>2, <2>4 DEF JustEnough
    <2>6. touched = {} => Bytes(Restrict(first, Lives)) > HighWatermark
      BY <1>1 DEF EvictionFollows
    <2>7. QED
      BY <1>1, <1>2, <1>7, <1>10, <2>1, <2>2, <2>3, <2>4, <2>5, <2>6 DEF EvictionFollows
  <1>13. QED
    BY <1>1, <1>2, <1>11, <1>12 DEF GcInv, CollectionFollows, CollectionIsExact

(* What a collection leaves (BackgroundCacheGc::scan_and_evict), whatever  *)
(* others write and remove in the directory meanwhile.                     *)
THEOREM CollectionIsExactHolds == GcSpec => []CollectionIsExact
  <1>1. GcInit => GcInv
    <2> SUFFICES ASSUME GcInit PROVE GcInv
      OBVIOUS
    <2>1. /\ first = dir /\ gcpc = "scan" /\ toScan = DOMAIN dir /\ file_entries = <<>>
          /\ current_size = 0 /\ freed_bytes = 0 /\ touched = {}
      BY DEF GcInit, GcStart
    <2>2. PICK S \in SUBSET GcFile : dir \in [S -> FileState]
      BY DEF GcInit
    <2>3. \A x \in FileState : x \in FileRec
      BY WatermarkAssumption DEF FileState, FileRec
    <2>4. DOMAIN dir \subseteq GcFile /\ dir \in [DOMAIN dir -> FileRec]
      BY <2>2, <2>3
    <2>5. GcType
      BY <2>1, <2>4 DEF GcType
    <2>6. Bytes(dir) \in Nat
      BY <2>4, DirFinite
    <2>7. freed_bytes = Bytes(first) - Bytes(dir) /\ Evicted = {}
      BY <2>1, <2>6 DEF Evicted, Lives
    <2>8. ListFollows
      BY <2>1, <2>7 DEF ListFollows
    <2>9. QED
      BY <2>1, <2>5, <2>8 DEF GcInv, CollectionFollows, CollectionIsExact
  <1>2. GcInv /\ [GcNext]_gcVars => GcInv'
    <2> SUFFICES ASSUME GcInv, [GcNext]_gcVars PROVE GcInv'
      OBVIOUS
    <2>1. CASE UNCHANGED gcVars
      <3>1. UNCHANGED <<policy, dir, first, gcpc, toScan, file_entries, current_size, freed_bytes,
                        touched>>
        BY <2>1 DEF gcVars
      <3>2. /\ Lives' = Lives /\ Evicted' = Evicted /\ (\A f : Entry(f)' = Entry(f))
            /\ Bytes(dir)' = Bytes(dir) /\ Bytes(first)' = Bytes(first)
            /\ Bytes(Restrict(first, Lives))' = Bytes(Restrict(first, Lives))
            /\ Bytes(Keep(DOMAIN dir \ touched))' = Bytes(Keep(DOMAIN dir \ touched))
            /\ Listed(file_entries)' = Listed(file_entries)
            /\ \A r, s : GoesBefore(r, s)' <=> GoesBefore(r, s)
        BY <3>1 DEF Lives, Evicted, Entry, Keep, GoesBefore
      <3>3. GcType'
        BY <2>1, GcTypeStep DEF GcInv
      <3>4. JustEnough => JustEnough'
        BY <3>1, <3>2 DEF JustEnough
      <3>5. ListFollows => ListFollows'
        BY <3>1, <3>2 DEF ListFollows
      <3>6. EvictionFollows => EvictionFollows'
        BY <3>1, <3>2, <3>4 DEF EvictionFollows
      <3>7. CollectionIsExact => CollectionIsExact'
        BY <3>1, <3>2, <3>4 DEF CollectionIsExact
      <3>8. QED
        BY <3>1, <3>3, <3>5, <3>6, <3>7 DEF GcInv, CollectionFollows
    <2>2. CASE EvictFile
      BY <2>2, EvictStopStep, EvictOneStep
    <2>3. QED
      BY <2>1, <2>2, ListStepScan, ListStepOthers, JudgeStep DEF GcNext, GcReturns
  <1>3. GcInv => CollectionIsExact
    BY DEF GcInv
  <1>4. QED
    BY <1>1, <1>2, <1>3, PTL DEF GcSpec

-----------------------------------------------------------------------------
(* TieredCache: orders of keys.                                            *)
Lists(q, D) == q \in Seq(Key) /\ IsInjective(q) /\ Range(q) = D

LEMMA ListsAppend ==
  ASSUME NEW D, NEW q, Lists(q, D), NEW k \in Key, k \notin D
  PROVE  Lists(Append(q, k), D \cup {k})
<1> DEFINE r == Append(q, k)
<1>1. /\ q \in Seq(Key) /\ Len(q) \in Nat /\ DOMAIN q = 1 .. Len(q)
      /\ \A i \in 1 .. Len(q) : q[i] \in D
      /\ \A x \in D : \E i \in 1 .. Len(q) : q[i] = x
  BY DEF Lists, Range
<1>2. /\ r \in Seq(Key) /\ DOMAIN r = 1 .. Len(q) + 1 /\ r[Len(q) + 1] = k
      /\ \A i \in 1 .. Len(q) : r[i] = q[i]
  BY <1>1
<1>3. \A i, j \in 1 .. Len(q) : q[i] = q[j] => i = j
  BY <1>1 DEF Lists, IsInjective
<1> HIDE DEF r
<1>4. \A i \in 1 .. Len(q) + 1 : i = Len(q) + 1 \/ i \in 1 .. Len(q)
  BY <1>1
<1>5. ASSUME NEW i \in 1 .. Len(q) + 1, NEW j \in 1 .. Len(q) + 1, r[i] = r[j] PROVE i = j
  BY <1>1, <1>2, <1>3, <1>4, <1>5
<1>6. IsInjective(r)
  BY <1>2, <1>5 DEF IsInjective
<1>7. \A x \in Range(r) : x \in D \cup {k}
  BY <1>1, <1>2, <1>4 DEF Range
<1>8. ASSUME NEW x \in D \cup {k} PROVE x \in Range(r)
  <2>1. CASE x = k
    <3>1. Len(q) + 1 \in DOMAIN r
      BY <1>1, <1>2
    <3>2. QED
      BY <1>2, <2>1, <3>1 DEF Range
  <2>2. CASE x \in D
    <3>1. PICK i \in 1 .. Len(q) : q[i] = x
      BY <1>1, <2>2
    <3>2. i \in DOMAIN r /\ r[i] = x
      BY <1>1, <1>2, <3>1
    <3>3. QED
      BY <3>2 DEF Range
  <2>3. QED
    BY <2>1, <2>2
<1>9. QED
  BY <1>2, <1>6, <1>7, <1>8 DEF Lists, r

LEMMA ListsCons ==
  ASSUME NEW D, NEW q, Lists(q, D), NEW k \in Key, k \notin D
  PROVE  Lists(<<k>> \o q, D \cup {k})
<1> DEFINE r == <<k>> \o q
<1>1. /\ q \in Seq(Key) /\ Len(q) \in Nat /\ DOMAIN q = 1 .. Len(q)
      /\ \A i \in 1 .. Len(q) : q[i] \in D
      /\ \A x \in D : \E i \in 1 .. Len(q) : q[i] = x
  BY DEF Lists, Range
<1>2. /\ r \in Seq(Key) /\ DOMAIN r = 1 .. Len(q) + 1 /\ r[1] = k
      /\ \A i \in 1 .. Len(q) : r[i + 1] = q[i]
  BY <1>1
<1>3. \A i, j \in 1 .. Len(q) : q[i] = q[j] => i = j
  BY <1>1 DEF Lists, IsInjective
<1> HIDE DEF r
<1>4. \A i \in 1 .. Len(q) + 1 : i = 1 \/ (i - 1 \in 1 .. Len(q) /\ r[i] = q[i - 1])
  <2> TAKE i \in 1 .. Len(q) + 1
  <2>1. ASSUME i # 1 PROVE i - 1 \in 1 .. Len(q) /\ (i - 1) + 1 = i
    BY <1>1, <2>1
  <2>2. QED
    BY <1>2, <2>1
<1>5. ASSUME NEW i \in 1 .. Len(q) + 1, NEW j \in 1 .. Len(q) + 1, r[i] = r[j] PROVE i = j
  <2>1. CASE i = 1 /\ j = 1
    BY <2>1
  <2>2. CASE i # 1 /\ j # 1
    <3>1. i - 1 = j - 1
      BY <1>3, <1>4, <1>5, <2>2
    <3>2. QED
      BY <1>1, <3>1
  <2>3. CASE (i = 1 /\ j # 1) \/ (i # 1 /\ j = 1)
    BY <1>1, <1>2, <1>4, <1>5, <2>3
  <2>4. QED
    BY <2>1, <2>2, <2>3
<1>6. IsInjective(r)
  BY <1>2, <1>5 DEF IsInjective
<1>7. \A x \in Range(r) : x \in D \cup {k}
  BY <1>1, <1>2, <1>4 DEF Range
<1>8. ASSUME NEW x \in D \cup {k} PROVE x \in Range(r)
  <2>1. CASE x = k
    <3>1. 1 \in DOMAIN r
      BY <1>1, <1>2
    <3>2. QED
      BY <1>2, <2>1, <3>1 DEF Range
  <2>2. CASE x \in D
    <3>1. PICK i \in 1 .. Len(q) : q[i] = x
      BY <1>1, <2>2
    <3>2. i + 1 \in DOMAIN r /\ r[i + 1] = x
      BY <1>1, <1>2, <3>1
    <3>3. QED
      BY <3>2 DEF Range
  <2>3. QED
    BY <2>1, <2>2
<1>9. QED
  BY <1>2, <1>6, <1>7, <1>8 DEF Lists, r

LEMMA ListsFront ==
  ASSUME NEW D, NEW q, Lists(q, D), q # <<>>
  PROVE  /\ Last(q) \in D /\ Lists(Front(q), D \ {Last(q)}) /\ Last(q) = q[Len(q)]
         /\ Len(Front(q)) = Len(q) - 1 /\ \A i \in 1 .. Len(q) - 1 : Front(q)[i] = q[i]
<1> DEFINE r == Front(q)
<1>1. /\ q \in Seq(Key) /\ Len(q) \in Nat /\ DOMAIN q = 1 .. Len(q) /\ Len(q) # 0
      /\ \A i \in 1 .. Len(q) : q[i] \in D
      /\ \A x \in D : \E i \in 1 .. Len(q) : q[i] = x
  BY DEF Lists, Range
<1>2. /\ r \in Seq(Key) /\ Len(r) = Len(q) - 1 /\ DOMAIN r = 1 .. Len(q) - 1
      /\ \A i \in 1 .. Len(q) - 1 : r[i] = q[i]
  BY <1>1 DEF Front
<1>3. \A i, j \in 1 .. Len(q) : q[i] = q[j] => i = j
  BY <1>1 DEF Lists, IsInjective
<1> HIDE DEF r
<1>4. Last(q) = q[Len(q)] /\ Len(q) \in 1 .. Len(q)
  BY <1>1 DEF Last
<1>5. \A i \in 1 .. Len(q) - 1 : i \in 1 .. Len(q) /\ i # Len(q)
  <2>1. \A n \in Nat : \A i \in 1 .. n - 1 : i \in 1 .. n /\ i # n
    OBVIOUS
  <2>2. QED
    BY <1>1, <2>1
<1>6. IsInjective(r)
  BY <1>2, <1>3, <1>5 DEF IsInjective
<1>7. ASSUME NEW x \in Range(r) PROVE x \in D \ {Last(q)}
  <2>1. PICK i \in 1 .. Len(q) - 1 : x = r[i]
    BY <1>2 DEF Range
  <2>2. x = q[i] /\ i \in 1 .. Len(q) /\ i # Len(q)
    BY <1>2, <1>5, <2>1
  <2>3. q[i] # q[Len(q)]
    BY <1>3, <1>4, <2>2
  <2>4. QED
    BY <1>1, <1>4, <2>2, <2>3
<1>8. ASSUME NEW x \in D, x # Last(q) PROVE x \in Range(r)
  <2>1. PICK i \in 1 .. Len(q) : q[i] = x
    BY <1>1
  <2>2. i \in 1 .. Len(q) - 1
    BY <1>1, <1>4, <1>8, <2>1
  <2>3. QED
    BY <1>2, <2>1, <2>2 DEF Range
<1>9. QED
  BY <1>1, <1>2, <1>4, <1>6, <1>7, <1>8 DEF Lists, r

LEMMA ListsFinite ==
  ASSUME NEW D, NEW q, Lists(q, D)
  PROVE  IsFiniteSet(D) /\ D \subseteq Key /\ (D = {} <=> q = <<>>)
<1>1. /\ q \in Seq(Key) /\ Len(q) \in Nat /\ DOMAIN q = 1 .. Len(q) /\ Range(q) = D
      /\ \A i \in 1 .. Len(q) : q[i] \in D
      /\ \A x \in D : \E i \in 1 .. Len(q) : q[i] = x
  BY DEF Lists, Range
<1>2. q \in Surjection(1 .. Len(q), D)
  BY <1>1 DEF Surjection
<1>3. IsFiniteSet(1 .. Len(q))
  BY <1>1, FS_Interval
<1>4. IsFiniteSet(D)
  BY <1>2, <1>3, FS_Surjection
<1>5. D \subseteq Key
  BY <1>1
<1>6. ASSUME D = {} PROVE q = <<>>
  <2>1. ~(1 \in 1 .. Len(q))
    BY <1>1, <1>6
  <2>2. Len(q) = 0
    BY <1>1, <2>1
  <2>3. QED
    BY <1>1, <2>2
<1>7. ASSUME q = <<>> PROVE D = {}
  BY <1>1, <1>7
<1>8. QED
  BY <1>4, <1>5, <1>6, <1>7

LEMMA WithoutUnfolds ==
  ASSUME NEW q \in Seq(Key), NEW k
  PROVE  \E f : /\ Without(q, k) = f[Len(q)] /\ f[0] = <<>>
                /\ \A i \in 1 .. Len(q) : f[i] = IF q[i] = k THEN f[i - 1] ELSE Append(f[i - 1], q[i])
<1> DEFINE F == [p \in Seq(Key) \X (1 .. Len(q)) |-> IF q[p[2]] = k THEN p[1] ELSE Append(p[1], q[p[2]])]
           Body(h) == [i \in 0 .. Len(q) |-> IF i = 0 THEN <<>>
                                             ELSE IF q[i] = k THEN h[i - 1] ELSE Append(h[i - 1], q[i])]
<1>1. F \in [Seq(Key) \X (1 .. Len(q)) -> Seq(Key)]
  OBVIOUS
<1>2. \A s \in Seq(Key), i \in 1 .. Len(q) : F[<<s, i>>] = IF q[i] = k THEN s ELSE Append(s, q[i])
  OBVIOUS
<1> HIDE DEF F
<1>3. PICK h \in [0 .. Len(q) -> Seq(Key)] :
        h[0] = <<>> /\ \A i \in 1 .. Len(q) : h[i] = F[<<h[i - 1], i>>]
  <2>1. Len(q) \in Nat /\ <<>> \in Seq(Key)
    OBVIOUS
  <2>2. Recursive(Len(q), Seq(Key), <<>>, F)
    BY <1>1, <2>1, RecursionExists
  <2>3. QED
    BY <2>2, Zenon DEF Recursive
<1>4. h = Body(h)
  <2>1. ASSUME NEW i \in 0 .. Len(q) PROVE h[i] = Body(h)[i]
    <3>1. CASE i = 0
      BY <1>3, <3>1
    <3>2. CASE i # 0
      <4>1. i \in 1 .. Len(q) /\ i - 1 \in 0 .. Len(q)
        BY <3>2
      <4>2. h[i] = IF q[i] = k THEN h[i - 1] ELSE Append(h[i - 1], q[i])
        BY <1>2, <1>3, <4>1
      <4>3. QED
        BY <3>2, <4>1, <4>2
    <3>3. QED
      BY <3>1, <3>2
  <2> HIDE DEF Body
  <2>2. DOMAIN Body(h) = 0 .. Len(q) /\ Body(h) = [i \in 0 .. Len(q) |-> Body(h)[i]]
    BY DEF Body
  <2>3. h = [i \in 0 .. Len(q) |-> h[i]]
    BY <1>3
  <2>4. QED
    BY <2>1, <2>2, <2>3
<1> DEFINE f == CHOOSE w : w = Body(w)
<1>5. f = Body(f)
  BY <1>4, Zenon
<1>6. Without(q, k) = f[Len(q)]
  BY DEF Without
<1> HIDE DEF f
<1>7. f[0] = <<>>
  BY <1>5
<1>8. ASSUME NEW i \in 1 .. Len(q)
      PROVE  f[i] = IF q[i] = k THEN f[i - 1] ELSE Append(f[i - 1], q[i])
  <2>1. i \in 0 .. Len(q) /\ i # 0
    OBVIOUS
  <2>2. Body(f)[i] = IF q[i] = k THEN f[i - 1] ELSE Append(f[i - 1], q[i])
    BY <2>1
  <2> HIDE DEF Body
  <2>3. QED
    BY <1>5, <2>2
<1>9. QED
  BY <1>6, <1>7, <1>8

LEMMA ListsWithout ==
  ASSUME NEW D, NEW q, Lists(q, D), NEW k
  PROVE  Lists(Without(q, k), D \ {k})
<1>1. /\ q \in Seq(Key) /\ Len(q) \in Nat /\ DOMAIN q = 1 .. Len(q)
      /\ \A i \in 1 .. Len(q) : q[i] \in Key
      /\ D = {q[i] : i \in 1 .. Len(q)}
  BY DEF Lists, Range
<1>2. PICK f : /\ Without(q, k) = f[Len(q)] /\ f[0] = <<>>
               /\ \A i \in 1 .. Len(q) : f[i] = IF q[i] = k THEN f[i - 1] ELSE Append(f[i - 1], q[i])
  BY <1>1, WithoutUnfolds
<1> DEFINE Good(n) == Lists(f[n], {q[i] : i \in 1 .. n} \ {k})
           P == {n \in 0 .. Len(q) : Good(n)}
<1>3. Good(0)
  <2>1. Lists(<<>>, {})
    BY DEF Lists, IsInjective, Range
  <2>2. {q[i] : i \in 1 .. 0} \ {k} = {}
    OBVIOUS
  <2>3. QED
    BY <1>2, <2>1, <2>2
<1>4. ASSUME NEW n \in 1 .. Len(q), Good(n - 1) PROVE Good(n)
  <2>1. {q[i] : i \in 1 .. n} = {q[i] : i \in 1 .. n - 1} \cup {q[n]}
    <3>1. 1 .. n = (1 .. n - 1) \cup {n}
      OBVIOUS
    <3>2. QED
      BY <3>1
  <2>2. q[n] \notin {q[i] : i \in 1 .. n - 1}
    <3>1. ASSUME NEW i \in 1 .. n - 1 PROVE q[i] # q[n]
      <4>1. i \in 1 .. Len(q) /\ i # n
        BY <1>1
      <4>2. QED
        BY <1>1, <4>1 DEF Lists, IsInjective
    <3>2. QED
      BY <3>1
  <2>3. CASE q[n] = k
    BY <1>2, <1>4, <2>1, <2>3
  <2>4. CASE q[n] # k
    <3>1. f[n] = Append(f[n - 1], q[n])
      BY <1>2, <2>4
    <3>2. Lists(Append(f[n - 1], q[n]), ({q[i] : i \in 1 .. n - 1} \ {k}) \cup {q[n]})
      <4> DEFINE E == {q[i] : i \in 1 .. n - 1} \ {k}
      <4>1. Lists(f[n - 1], E) /\ q[n] \in Key /\ q[n] \notin E
        BY <1>1, <1>4, <2>2
      <4> HIDE DEF E
      <4>2. Lists(Append(f[n - 1], q[n]), E \cup {q[n]})
        BY <4>1, ListsAppend
      <4>3. QED
        BY <4>2 DEF E
    <3>3. ({q[i] : i \in 1 .. n - 1} \ {k}) \cup {q[n]} = {q[i] : i \in 1 .. n} \ {k}
      BY <2>1, <2>4
    <3>4. QED
      BY <3>1, <3>2, <3>3
  <2>5. QED
    BY <2>3, <2>4
<1> HIDE DEF Good
<1>5. 0 \in P /\ \A n \in 1 .. Len(q) : n - 1 \in P => n \in P
  BY <1>1, <1>3, <1>4
<1>6. Good(Len(q))
  <2> HIDE DEF P
  <2>1. \A n \in 0 .. Len(q) : n \in P
    BY <1>1, <1>5, IntervalInduction
  <2>2. QED
    BY <1>1, <2>1 DEF P
<1>7. QED
  BY <1>1, <1>2, <1>6 DEF Good

LEMMA ListsTouched ==
  ASSUME NEW D, NEW q, Lists(q, D), NEW k \in D
  PROVE  Lists(Touched(q, k), D)
<1>1. \E i \in 1 .. Len(q) : q[i] = k
  BY DEF Lists, Range
<1>2. k \in Key
  BY ListsFinite
<1>3. Touched(q, k) = <<k>> \o Without(q, k)
  BY <1>1 DEF Touched, Contains
<1>4. Lists(Without(q, k), D \ {k})
  BY ListsWithout
<1> DEFINE E == D \ {k}
<1>5. k \notin E /\ E \cup {k} = D
  OBVIOUS
<1> HIDE DEF E
<1>6. Lists(<<k>> \o Without(q, k), E \cup {k})
  BY <1>2, <1>4, <1>5, ListsCons DEF E
<1>7. QED
  BY <1>3, <1>5, <1>6

-----------------------------------------------------------------------------
(* TieredCache: one tier.                                                  *)
Contents == UNION {[D -> Nat] : D \in SUBSET Key}
Lru == [entries : Contents, access_order : Seq(Key), current_size : Int]
Whole(c) ==
  /\ c \in Lru /\ Lists(c.access_order, DOMAIN c.entries)
  /\ c.current_size = Total(c.entries)

(* What d holds of c, which is the front of its order.                     *)
Within(d, c) ==
  /\ Len(d.access_order) <= Len(c.access_order)
  /\ \A i \in 1 .. Len(d.access_order) : d.access_order[i] = c.access_order[i]
  /\ \A j \in DOMAIN d.entries : j \in DOMAIN c.entries /\ d.entries[j] = c.entries[j]

LEMMA ContentsIs ==
  ASSUME NEW e
  PROVE  e \in Contents <=> e \in [DOMAIN e -> Nat] /\ DOMAIN e \subseteq Key
<1>1. ASSUME e \in Contents PROVE e \in [DOMAIN e -> Nat] /\ DOMAIN e \subseteq Key
  <2>1. PICK D \in SUBSET Key : e \in [D -> Nat]
    BY <1>1 DEF Contents
  <2>2. QED
    BY <2>1
<1>2. ASSUME e \in [DOMAIN e -> Nat], DOMAIN e \subseteq Key PROVE e \in Contents
  BY <1>2 DEF Contents
<1>3. QED
  BY <1>1, <1>2

LEMMA WholeIs ==
  ASSUME NEW c, Whole(c)
  PROVE  /\ c.entries \in [DOMAIN c.entries -> Nat] /\ DOMAIN c.entries \subseteq Key
         /\ IsFiniteSet(DOMAIN c.entries) /\ c.access_order \in Seq(Key)
         /\ DOMAIN c.access_order = 1 .. Len(c.access_order) /\ Len(c.access_order) \in Nat
         /\ c.current_size \in Nat /\ c.current_size = Total(c.entries)
         /\ c = [entries |-> c.entries, access_order |-> c.access_order,
                 current_size |-> c.current_size]
<1>1. c \in Lru /\ Lists(c.access_order, DOMAIN c.entries) /\ c.current_size = Total(c.entries)
  BY DEF Whole
<1>2. c.entries \in Contents
  BY <1>1 DEF Lru
<1>3. c.entries \in [DOMAIN c.entries -> Nat] /\ DOMAIN c.entries \subseteq Key
  BY <1>2, ContentsIs
<1>4. IsFiniteSet(DOMAIN c.entries)
  BY <1>1, ListsFinite
<1>5. Total(c.entries) \in Nat
  BY <1>3, <1>4, UnitsFinite
<1>6. c = [entries |-> c.entries, access_order |-> c.access_order, current_size |-> c.current_size]
      /\ c.access_order \in Seq(Key)
  BY <1>1 DEF Lru
<1>7. QED
  BY <1>1, <1>3, <1>4, <1>5, <1>6

(* A key leaves the entries.                                               *)
Left(c, k, q) ==
  [entries |-> Restrict(c.entries, DOMAIN c.entries \ {k}), access_order |-> q,
   current_size |-> c.current_size - c.entries[k]]

Lost(r, c, k, q) ==
  /\ Whole(r) /\ r.access_order = q /\ DOMAIN r.entries = DOMAIN c.entries \ {k}
  /\ \A j \in DOMAIN r.entries : r.entries[j] = c.entries[j]

LEMMA EntryLeaves ==
  ASSUME NEW c, Whole(c), NEW k \in DOMAIN c.entries, NEW q, Lists(q, DOMAIN c.entries \ {k})
  PROVE  Lost(Left(c, k, q), c, k, q)
<1> DEFINE r == Left(c, k, q)
           e == Restrict(c.entries, DOMAIN c.entries \ {k})
<1>1. /\ c.entries \in [DOMAIN c.entries -> Nat] /\ DOMAIN c.entries \subseteq Key
      /\ IsFiniteSet(DOMAIN c.entries) /\ c.current_size \in Nat /\ c.current_size = Total(c.entries)
  BY WholeIs
<1>2. Total(c.entries) = Total(e) + c.entries[k] /\ Total(e) \in Nat /\ c.entries[k] \in Nat
  BY <1>1, TotalWithout
<1>3. DOMAIN e = DOMAIN c.entries \ {k} /\ e \in [DOMAIN e -> Nat] /\ DOMAIN e \subseteq Key
      /\ \A j \in DOMAIN e : e[j] = c.entries[j]
  BY <1>1 DEF Restrict
<1> HIDE DEF e
<1>4. e \in Contents
  BY <1>3, ContentsIs
<1>5. q \in Seq(Key)
  BY DEF Lists
<1>6. r.entries = e /\ r.access_order = q /\ r.current_size = c.current_size - c.entries[k]
  BY DEF e, Left
<1>7. r.current_size \in Int /\ r.current_size = Total(e)
  BY <1>1, <1>2, <1>6
<1>8. r \in Lru
  BY <1>4, <1>5, <1>6, <1>7 DEF Lru, e, Left
<1> HIDE DEF r
<1>9. Lost(r, c, k, q)
  BY <1>3, <1>6, <1>7, <1>8 DEF Whole, Lost
<1>10. QED
  BY <1>9 DEF r

LEMMA PopIs ==
  ASSUME NEW c, Whole(c), c.access_order # <<>>
  PROVE  /\ Whole(PopOldest(c)) /\ Within(PopOldest(c), c)
         /\ Len(PopOldest(c).access_order) = Len(c.access_order) - 1
<1> DEFINE k == Last(c.access_order)
           q == Front(c.access_order)
           r == PopOldest(c)
<1>1. Lists(c.access_order, DOMAIN c.entries) /\ Len(c.access_order) \in Nat
  BY WholeIs DEF Whole
<1>2. /\ k \in DOMAIN c.entries /\ Lists(q, DOMAIN c.entries \ {k})
      /\ Len(q) = Len(c.access_order) - 1
      /\ \A i \in 1 .. Len(c.access_order) - 1 : q[i] = c.access_order[i]
  BY <1>1, ListsFront
<1>3. r = Left(c, k, q)
  BY <1>2 DEF PopOldest, Left
<1> HIDE DEF k, q, r
<1>4. /\ Whole(r) /\ r.access_order = q /\ DOMAIN r.entries = DOMAIN c.entries \ {k}
      /\ \A j \in DOMAIN r.entries : r.entries[j] = c.entries[j]
  <2>1. Lost(Left(c, k, q), c, k, q)
    BY <1>2, EntryLeaves
  <2>2. QED
    BY <1>3, <2>1 DEF Lost
<1>5. Within(r, c)
  BY <1>1, <1>2, <1>4 DEF Within
<1>6. QED
  BY <1>2, <1>4, <1>5 DEF r

EvictNext(c, t, size) == IF MustEvict(c, t, size) THEN PopOldest(c) ELSE c
Wholes == {c \in Lru : Whole(c)}

Outgoing(c, d) ==
  [i \in 1 .. Len(c.access_order) - Len(d.access_order) |->
     LET k == c.access_order[Len(c.access_order) + 1 - i] IN <<k, c.entries[k]>>]
EvictSteps(c, t, size, f) ==
  /\ f[0] = c
  /\ \A i \in 1 .. Len(c.access_order) : f[i] = EvictNext(f[i - 1], t, size)
  /\ Evict(c, t, size) = [cache |-> f[Len(c.access_order)], evicted |-> Outgoing(c, f[Len(c.access_order)])]

LEMMA EvictUnfolds ==
  ASSUME NEW c, Whole(c), NEW t, NEW size
  PROVE  \E f : EvictSteps(c, t, size, f)
<1> DEFINE L == Len(c.access_order)
           F == [p \in Wholes \X (1 .. L) |-> EvictNext(p[1], t, size)]
           Body(h) == [n \in 0 .. Len(c.access_order) |->
                         IF n = 0 THEN c
                         ELSE IF MustEvict(h[n - 1], t, size) THEN PopOldest(h[n - 1]) ELSE h[n - 1]]
<1>1. L \in Nat /\ c \in Wholes
  BY WholeIs DEF Wholes, Whole
<1>2. \A d \in Wholes : EvictNext(d, t, size) \in Wholes
  <2> SUFFICES ASSUME NEW d \in Wholes, MustEvict(d, t, size) PROVE PopOldest(d) \in Wholes
    BY DEF EvictNext
  <2>1. Whole(d) /\ d.access_order # <<>>
    BY DEF Wholes, MustEvict
  <2>2. Whole(PopOldest(d))
    BY <2>1, PopIs
  <2>3. QED
    BY <2>2 DEF Wholes, Whole
<1>3. F \in [Wholes \X (1 .. L) -> Wholes]
  BY <1>2
<1>4. \A d \in Wholes, i \in 1 .. L : F[<<d, i>>] = EvictNext(d, t, size)
  OBVIOUS
<1> HIDE DEF F
<1>5. PICK h \in [0 .. L -> Wholes] :
        h[0] = c /\ \A i \in 1 .. L : h[i] = F[<<h[i - 1], i>>]
  <2> HIDE DEF L
  <2>1. Recursive(L, Wholes, c, F)
    BY <1>1, <1>3, RecursionExists
  <2>2. QED
    BY <2>1, Zenon DEF Recursive
<1>6. h = Body(h)
  <2>1. ASSUME NEW i \in 0 .. L PROVE h[i] = Body(h)[i]
    <3>1. CASE i = 0
      BY <1>5, <3>1
    <3>2. CASE i # 0
      <4>1. i \in 1 .. L /\ i - 1 \in 0 .. L
        BY <1>1, <3>2
      <4>2. h[i] = EvictNext(h[i - 1], t, size)
        BY <1>4, <1>5, <4>1
      <4>3. QED
        BY <3>2, <4>1, <4>2 DEF EvictNext
    <3>3. QED
      BY <3>1, <3>2
  <2> HIDE DEF Body
  <2>2. DOMAIN Body(h) = 0 .. L /\ Body(h) = [i \in 0 .. L |-> Body(h)[i]]
    BY DEF Body
  <2>3. h = [i \in 0 .. L |-> h[i]]
    BY <1>5
  <2>4. QED
    BY <2>1, <2>2, <2>3
<1> DEFINE f == CHOOSE w : w = Body(w)
<1>7. f = Body(f)
  BY <1>6, Zenon
<1>8. Evict(c, t, size) =
        [cache |-> f[Len(c.access_order)], evicted |-> Outgoing(c, f[Len(c.access_order)])]
  BY Zenon DEF Evict, Outgoing
<1> HIDE DEF f
<1>9. f[0] = c
  BY <1>1, <1>7
<1>10. ASSUME NEW i \in 1 .. L PROVE f[i] = EvictNext(f[i - 1], t, size)
  <2>1. i \in 0 .. L /\ i # 0
    BY <1>1
  <2>2. Body(f)[i] = EvictNext(f[i - 1], t, size)
    BY <2>1 DEF EvictNext
  <2> HIDE DEF Body
  <2>3. QED
    BY <1>7, <2>2
<1>11. QED
  BY <1>8, <1>9, <1>10, Zenon DEF EvictSteps

(* After the loop there is room; what went is what is listed, once each.   *)
Evicted_(c, d, gone_) ==
  /\ Whole(d) /\ Within(d, c)
  /\ gone_ \in Seq(Key \X Nat)
  /\ \A i \in 1 .. Len(gone_) :
       /\ gone_[i][1] \in DOMAIN c.entries \ DOMAIN d.entries
       /\ gone_[i] = <<gone_[i][1], c.entries[gone_[i][1]]>>
  /\ \A i, h \in 1 .. Len(gone_) : gone_[i][1] = gone_[h][1] => i = h
  /\ \A j \in DOMAIN c.entries \ DOMAIN d.entries : \E i \in 1 .. Len(gone_) : gone_[i][1] = j

LEMMA EvictIs ==
  ASSUME NEW c, Whole(c), NEW t \in 1 .. 3, NEW size
  PROVE  /\ Evicted_(c, Evict(c, t, size).cache, Evict(c, t, size).evicted)
         /\ Cardinality(DOMAIN Evict(c, t, size).cache.entries) < Capacity[t]
<1> DEFINE L == Len(c.access_order)
           q == c.access_order
<1>0. PICK f : EvictSteps(c, t, size, f)
  BY EvictUnfolds
<1>1. /\ f[0] = c
      /\ \A i \in 1 .. L : f[i] = EvictNext(f[i - 1], t, size)
      /\ Evict(c, t, size) = [cache |-> f[L], evicted |-> Outgoing(c, f[L])]
  BY <1>0, Zenon DEF EvictSteps
<1>2. /\ L \in Nat /\ q \in Seq(Key) /\ DOMAIN q = 1 .. L
      /\ DOMAIN c.entries \subseteq Key /\ c.entries \in [DOMAIN c.entries -> Nat]
      /\ Lists(q, DOMAIN c.entries)
  BY WholeIs DEF Whole
<1> HIDE DEF L
<1> DEFINE Good(n) == /\ Whole(f[n]) /\ Within(f[n], c)
                      /\ Len(f[n].access_order) <= L - n \/ ~MustEvict(f[n], t, size)
           P == {n \in 0 .. L : Good(n)}
<1>3. Good(0)
  BY <1>1, <1>2 DEF Within, L
<1>4. ASSUME NEW n \in 1 .. L, Good(n - 1) PROVE Good(n)
  <2> DEFINE d == f[n - 1]
  <2>1. Whole(d) /\ Within(d, c) /\ Len(d.access_order) \in Nat /\ f[n] = EvictNext(d, t, size)
        /\ (Len(d.access_order) <= L - (n - 1) \/ ~MustEvict(d, t, size))
    BY <1>1, <1>4, WholeIs
  <2> HIDE DEF d
  <2>2. CASE ~MustEvict(d, t, size)
    BY <2>1, <2>2 DEF EvictNext
  <2>3. CASE MustEvict(d, t, size)
    <3>1. f[n] = PopOldest(d) /\ d.access_order # <<>>
      BY <2>1, <2>3 DEF EvictNext, MustEvict
    <3>2. /\ Whole(f[n]) /\ Within(f[n], d)
          /\ Len(f[n].access_order) = Len(d.access_order) - 1
      BY <2>1, <3>1, PopIs
    <3>3. Len(f[n].access_order) \in Nat
      BY <3>2, WholeIs
    <3>4. Within(f[n], c)
      BY <1>2, <2>1, <3>2, <3>3 DEF Within
    <3>5. Len(f[n].access_order) <= L - n
      BY <1>2, <2>1, <2>3, <3>2
    <3>6. QED
      BY <3>2, <3>4, <3>5
  <2>4. QED
    BY <2>2, <2>3
<1> HIDE DEF Good
<1>5. 0 \in P /\ \A n \in 1 .. L : n - 1 \in P => n \in P
  BY <1>2, <1>3, <1>4
<1>6. Good(L)
  <2> HIDE DEF P
  <2>1. \A n \in 0 .. L : n \in P
    BY <1>2, <1>5, IntervalInduction
  <2>2. QED
    BY <1>2, <2>1 DEF P
<1> DEFINE d == f[L]
           gone_ == Outgoing(c, d)
           M == Len(d.access_order)
<1>7. Evict(c, t, size).cache = d /\ Evict(c, t, size).evicted = gone_
  BY <1>1
<1>8. /\ Whole(d) /\ Within(d, c) /\ M \in Nat
      /\ Lists(d.access_order, DOMAIN d.entries)
  BY <1>6, WholeIs DEF Good, Whole
<1>9. ~MustEvict(d, t, size)
  <2>1. CASE ~(M <= L - L)
    BY <1>6, <2>1 DEF Good
  <2>2. CASE M <= L - L
    <3>1. M = 0
      BY <1>2, <1>8, <2>2
    <3>2. d.access_order = <<>>
      BY <1>8, <3>1, WholeIs
    <3>3. QED
      BY <3>2 DEF MustEvict
  <2>3. QED
    BY <2>1, <2>2
<1>10. Cardinality(DOMAIN d.entries) < Capacity[t]
  <2>1. Capacity[t] \in Nat /\ Capacity[t] > 0
    BY TierAssumption
  <2>2. CASE d.access_order = <<>>
    <3>1. DOMAIN d.entries = {}
      BY <1>8, <2>2, ListsFinite
    <3>2. Cardinality(DOMAIN d.entries) = 0
      BY <3>1, FS_EmptySet
    <3>3. QED
      BY <2>1, <3>2
  <2>3. CASE d.access_order # <<>>
    <3>1. ~(Cardinality(DOMAIN d.entries) >= Capacity[t])
      BY <1>9, <2>3 DEF MustEvict
    <3>2. Cardinality(DOMAIN d.entries) \in Nat
      BY <1>8, WholeIs, FS_CardinalityType
    <3>3. QED
      BY <2>1, <3>1, <3>2
  <2>4. QED
    BY <2>2, <2>3
<1> HIDE DEF d
<1>11. M <= L /\ \A i \in 1 .. M : d.access_order[i] = q[i]
  BY <1>8 DEF Within, L
<1>12. \A i, h \in 1 .. L : q[i] = q[h] => i = h
  BY <1>2 DEF Lists, IsInjective
<1>13. \A i \in 1 .. L : q[i] \in DOMAIN c.entries
  BY <1>2 DEF Lists, Range
<1>14. ASSUME NEW p \in 1 .. L PROVE q[p] \in DOMAIN d.entries <=> p <= M
  <2>1. DOMAIN d.access_order = 1 .. M /\ DOMAIN d.entries = Range(d.access_order)
    BY <1>8, WholeIs DEF Lists
  <2>2. ASSUME p <= M PROVE q[p] \in DOMAIN d.entries
    <3>1. p \in 1 .. M /\ d.access_order[p] = q[p]
      BY <1>2, <1>8, <1>11, <2>2
    <3>2. QED
      BY <2>1, <3>1 DEF Range
  <2>3. ASSUME q[p] \in DOMAIN d.entries PROVE p <= M
    <3>1. PICK i \in 1 .. M : d.access_order[i] = q[p]
      BY <2>1, <2>3 DEF Range
    <3>2. i \in 1 .. L /\ q[i] = q[p]
      BY <1>2, <1>8, <1>11, <3>1
    <3>3. i = p
      BY <1>12, <3>2
    <3>4. QED
      BY <3>3
  <2>4. QED
    BY <2>2, <2>3
<1>15. \A i \in 1 .. L - M : L + 1 - i \in 1 .. L /\ ~(L + 1 - i <= M)
  BY <1>2, <1>8, <1>11
<1>16. /\ L - M \in Nat /\ DOMAIN gone_ = 1 .. L - M
       /\ \A i \in 1 .. L - M : gone_[i] = <<q[L + 1 - i], c.entries[q[L + 1 - i]]>>
  <2>1. gone_ = [i \in 1 .. L - M |-> <<q[L + 1 - i], c.entries[q[L + 1 - i]]>>]
    BY Zenon DEF Outgoing, L
  <2> HIDE DEF gone_
  <2>2. L - M \in Nat
    BY <1>2, <1>8, <1>11
  <2>3. QED
    BY <2>1, <2>2
<1> HIDE DEF gone_
<1>17. ASSUME NEW i \in 1 .. L - M
       PROVE  /\ gone_[i] \in Key \X Nat
              /\ gone_[i][1] = q[L + 1 - i]
              /\ gone_[i][1] \in DOMAIN c.entries \ DOMAIN d.entries
              /\ gone_[i] = <<gone_[i][1], c.entries[gone_[i][1]]>>
  <2> DEFINE k == q[L + 1 - i]
  <2>1. k \in DOMAIN c.entries \ DOMAIN d.entries
    BY <1>13, <1>14, <1>15
  <2>2. gone_[i] = <<k, c.entries[k]>>
    BY <1>16
  <2>3. k \in Key /\ c.entries[k] \in Nat
    BY <1>2, <2>1
  <2> HIDE DEF k
  <2>4. gone_[i][1] = k
    BY <2>2
  <2>5. QED
    BY <2>1, <2>2, <2>3, <2>4 DEF k
<1>18. gone_ \in Seq(Key \X Nat) /\ Len(gone_) = L - M
  <2>1. gone_ = [i \in 1 .. L - M |-> gone_[i]]
    BY DEF gone_, Outgoing, L
  <2>2. gone_ \in [1 .. L - M -> Key \X Nat]
    BY <1>17, <2>1
  <2>3. QED
    BY <1>16, <2>2
<1>19. ASSUME NEW i \in 1 .. L - M, NEW h \in 1 .. L - M, gone_[i][1] = gone_[h][1] PROVE i = h
  <2>1. L + 1 - i = L + 1 - h
    BY <1>12, <1>15, <1>17, <1>19
  <2>2. QED
    BY <1>2, <1>8, <2>1
<1>20. ASSUME NEW j \in DOMAIN c.entries \ DOMAIN d.entries PROVE \E i \in 1 .. L - M : gone_[i][1] = j
  <2>1. PICK p \in 1 .. L : q[p] = j
    BY <1>2 DEF Lists, Range
  <2>2. ~(p <= M)
    BY <1>14, <2>1
  <2>3. L + 1 - p \in 1 .. L - M /\ L + 1 - (L + 1 - p) = p
    BY <1>2, <1>8, <1>11, <2>2
  <2>4. gone_[L + 1 - p][1] = q[L + 1 - (L + 1 - p)]
    BY <1>17, <2>3
  <2>5. gone_[L + 1 - p][1] = j
    BY <2>1, <2>3, <2>4
  <2>6. QED
    BY <2>3, <2>5
<1>21. Evicted_(c, d, gone_)
  BY <1>8, <1>17, <1>18, <1>19, <1>20 DEF Evicted_
<1>22. QED
  BY <1>7, <1>10, <1>21 DEF d, gone_

Sane(c, t) == Whole(c) /\ Cardinality(DOMAIN c.entries) <= Capacity[t]

(* A put of v under k: nothing else changes, but some is evicted.          *)
Stored(c, r, k, v) ==
  /\ r.evicted \in Seq(Key \X Nat)
  /\ \A i \in 1 .. Len(r.evicted) :
       /\ r.evicted[i][1] \in DOMAIN c.entries \ DOMAIN r.cache.entries
       /\ r.evicted[i] = <<r.evicted[i][1], c.entries[r.evicted[i][1]]>>
  /\ \A i, h \in 1 .. Len(r.evicted) : r.evicted[i][1] = r.evicted[h][1] => i = h
  /\ k \in DOMAIN r.cache.entries /\ r.cache.entries[k] = v
  /\ \A j \in DOMAIN r.cache.entries :
       j # k => j \in DOMAIN c.entries /\ r.cache.entries[j] = c.entries[j]
  /\ \A j \in DOMAIN c.entries :
       j # k => j \in DOMAIN r.cache.entries \/ \E i \in 1 .. Len(r.evicted) : r.evicted[i][1] = j

LEMMA SaneIsTidy ==
  ASSUME NEW c, NEW t, Sane(c, t)
  PROVE  Tidy(c, t)
BY Zenon DEF Sane, Whole, Lists, Tidy, BytesOf, Total, Units

(* An entry comes, or is another.                                          *)
With(e, k, v) == [j \in DOMAIN e \cup {k} |-> IF j = k THEN v ELSE e[j]]

LEMMA EntryComes ==
  ASSUME NEW D, IsFiniteSet(D), NEW e \in [D -> Nat], NEW k, k \notin D, NEW v \in Nat
  PROVE  Total(With(e, k, v)) = Total(e) + v
<1> DEFINE n == [j \in D \cup {k} |-> IF j = k THEN v ELSE e[j]]
<1>0. With(e, k, v) = n
  BY DEF With
<1>1. IsFiniteSet(D \cup {k}) /\ n \in [D \cup {k} -> Nat] /\ k \in D \cup {k}
  BY FS_AddElement
<1>2. Restrict(n, (D \cup {k}) \ {k}) = e
  <2>1. (D \cup {k}) \ {k} = D
    OBVIOUS
  <2>2. \A j \in D : n[j] = e[j]
    OBVIOUS
  <2> HIDE DEF n
  <2>3. [j \in D |-> n[j]] = e
    BY <2>2
  <2>4. QED
    BY <2>1, <2>3 DEF Restrict
<1>3. n[k] = v
  BY <1>1
<1> HIDE DEF n
<1>4. Total(n) = Total(Restrict(n, (D \cup {k}) \ {k})) + n[k]
  BY <1>1, TotalWithout
<1>5. QED
  BY <1>0, <1>2, <1>3, <1>4

LEMMA EntryChanges ==
  ASSUME NEW D, IsFiniteSet(D), NEW e \in [D -> Nat], NEW k \in D, NEW v \in Nat
  PROVE  Total([e EXCEPT ![k] = v]) = Total(e) - e[k] + v
<1> DEFINE n == [e EXCEPT ![k] = v]
<1>1. n \in [D -> Nat] /\ n[k] = v /\ \A j \in D \ {k} : n[j] = e[j]
  OBVIOUS
<1> HIDE DEF n
<1>2. Restrict(n, D \ {k}) = Restrict(e, D \ {k})
  BY <1>1 DEF Restrict
<1>3. /\ Total(n) = Total(Restrict(n, D \ {k})) + n[k]
      /\ Total(Restrict(n, D \ {k})) \in Nat
  BY <1>1, TotalWithout
<1>4. Total(e) = Total(Restrict(e, D \ {k})) + e[k]
  BY TotalWithout
<1>5. e[k] \in Nat
  OBVIOUS
<1>6. QED
  BY <1>1, <1>2, <1>3, <1>4, <1>5 DEF n

LEMMA PutIs ==
  ASSUME NEW t \in 1 .. 3, NEW c, Sane(c, t), NEW k \in Key, NEW v \in Nat
  PROVE  /\ Sane(put_with_evictions(c, t, k, v).cache, t)
         /\ Stored(c, put_with_evictions(c, t, k, v), k, v)
<1> DEFINE r == put_with_evictions(c, t, k, v)
           D == DOMAIN c.entries
<1>1. /\ Whole(c) /\ c.entries \in [D -> Nat] /\ D \subseteq Key /\ IsFiniteSet(D)
      /\ c.current_size \in Nat /\ c.current_size = Total(c.entries)
      /\ Lists(c.access_order, D) /\ Cardinality(D) <= Capacity[t]
  BY WholeIs DEF Sane, Whole
<1>2. CASE k \in D
  <2> DEFINE e == [c.entries EXCEPT ![k] = v]
             q == Touched(c.access_order, k)
             n == [entries |-> e, access_order |-> q, current_size |-> c.current_size - c.entries[k] + v]
  <2>1. r = [cache |-> n, evicted |-> <<>>]
    BY <1>2 DEF put_with_evictions
  <2>2. e \in [D -> Nat] /\ DOMAIN e = D /\ e[k] = v /\ \A j \in D : j # k => e[j] = c.entries[j]
    BY <1>1, <1>2
  <2>3. Total(e) = Total(c.entries) - c.entries[k] + v
    BY <1>1, <1>2, EntryChanges
  <2>4. Lists(q, D)
    BY <1>1, <1>2, ListsTouched
  <2> HIDE DEF e, q
  <2>5. e \in Contents
    BY <1>1, <2>2, ContentsIs
  <2>6. n.entries = e /\ n.access_order = q /\ n.current_size = c.current_size - c.entries[k] + v
    OBVIOUS
  <2>7. n.current_size \in Int /\ n.current_size = Total(e)
    BY <1>1, <1>2, <2>3, <2>6
  <2>8. n \in Lru
    BY <2>4, <2>5, <2>7 DEF Lru, Lists
  <2> HIDE DEF n
  <2>9. Sane(n, t)
    BY <1>1, <2>2, <2>4, <2>6, <2>7, <2>8 DEF Sane, Whole
  <2>10. r.cache = n /\ r.evicted = <<>>
    BY <2>1
  <2> HIDE DEF r
  <2>11. Stored(c, r, k, v)
    <3>1. r.evicted \in Seq(Key \X Nat) /\ 1 .. Len(r.evicted) = {}
      BY <2>10
    <3>2. QED
      BY <1>2, <2>2, <2>6, <2>10, <3>1 DEF Stored
  <2>12. QED
    BY <2>9, <2>10, <2>11 DEF r
<1>3. CASE k \notin D
  <2> DEFINE d == Evict(c, t, v).cache
             out == Evict(c, t, v).evicted
             E == DOMAIN d.entries
             e == With(d.entries, k, v)
             q == <<k>> \o d.access_order
             n == [entries |-> e, access_order |-> q, current_size |-> d.current_size + v]
  <2>1. r = [cache |-> n, evicted |-> out]
    BY <1>3 DEF put_with_evictions, With
  <2>2. Evicted_(c, d, out) /\ Cardinality(E) < Capacity[t]
    BY <1>1, EvictIs
  <2> HIDE DEF d, out
  <2>3. /\ Whole(d) /\ d.entries \in [E -> Nat] /\ E \subseteq Key /\ IsFiniteSet(E)
        /\ d.current_size \in Nat /\ d.current_size = Total(d.entries) /\ Lists(d.access_order, E)
    BY <2>2, WholeIs DEF Evicted_, Whole
  <2>4. E \subseteq D /\ \A j \in E : d.entries[j] = c.entries[j]
    BY <2>2 DEF Evicted_, Within
  <2>5. k \notin E
    BY <1>3, <2>4
  <2>6. /\ e \in [E \cup {k} -> Nat] /\ DOMAIN e = E \cup {k} /\ e[k] = v
        /\ \A j \in E : e[j] = c.entries[j]
    BY <2>3, <2>4, <2>5 DEF With
  <2>7. Total(e) = Total(d.entries) + v
    BY <2>3, <2>5, EntryComes
  <2>8. Lists(q, E \cup {k})
    BY <2>3, <2>5, ListsCons
  <2>9. Cardinality(E \cup {k}) = Cardinality(E) + 1 /\ Cardinality(E) \in Nat
    BY <2>3, <2>5, FS_AddElement, FS_CardinalityType
  <2> HIDE DEF e, q
  <2>10. e \in Contents
    BY <2>3, <2>6, ContentsIs
  <2>11. n.entries = e /\ n.access_order = q /\ n.current_size = d.current_size + v
    OBVIOUS
  <2>12. n.current_size \in Int /\ n.current_size = Total(e)
    BY <2>3, <2>7, <2>11
  <2>13. n \in Lru
    BY <2>8, <2>10, <2>12 DEF Lru, Lists
  <2> HIDE DEF n
  <2>14. Cardinality(E \cup {k}) <= Capacity[t]
    BY <2>2, <2>9, TierAssumption
  <2>15. Sane(n, t)
    BY <2>6, <2>8, <2>11, <2>12, <2>13, <2>14 DEF Sane, Whole
  <2>16. r.cache = n /\ r.evicted = out
    BY <2>1
  <2> HIDE DEF r
  <2>17. Stored(c, r, k, v)
    <3>1. /\ out \in Seq(Key \X Nat)
          /\ \A i \in 1 .. Len(out) : /\ out[i][1] \in D \ E /\ out[i] = <<out[i][1], c.entries[out[i][1]]>>
          /\ \A i, h \in 1 .. Len(out) : out[i][1] = out[h][1] => i = h
          /\ \A j \in D \ E : \E i \in 1 .. Len(out) : out[i][1] = j
      BY <2>2, Zenon DEF Evicted_
    <3>2. DOMAIN r.cache.entries = E \cup {k} /\ r.cache.entries = e
      BY <2>6, <2>11, <2>16
    <3>3. \A i \in 1 .. Len(out) : out[i][1] \in D \ (E \cup {k})
      BY <1>3, <3>1
    <3>4. QED
      BY <1>3, <2>4, <2>6, <2>16, <3>1, <3>2, <3>3 DEF Stored
  <2>18. QED
    BY <2>15, <2>16, <2>17 DEF r
<1>4. QED
  BY <1>2, <1>3

-----------------------------------------------------------------------------
(* TieredCache: the entries of a list put one after the other.             *)
Pairs == Seq(Key \X Nat)
Holds(c, j, x) == j \in DOMAIN c.entries /\ c.entries[j] = x
Among(s, n, j, x) == \E i \in 1 .. n : s[i] = <<j, x>>
Had(c, s, n, j, x) == Holds(c, j, x) \/ Among(s, n, j, x)

(* Versions of a key in a list come in their order, after that of a cache. *)
Rising(c, s) ==
  /\ \A i, h \in 1 .. Len(s) : i < h /\ s[i][1] = s[h][1] => s[i][2] <= s[h][2]
  /\ \A i \in 1 .. Len(s), x \in Nat : Holds(c, s[i][1], x) => x <= s[i][2]

(* After the first n of them: every version was there before, the greatest *)
(* of a key is still there, and what was evicted is older than what stays. *)
Moved(c, s, n, r) ==
  /\ \A j \in Key, x \in Nat : Had(r.cache, r.evicted, Len(r.evicted), j, x) => Had(c, s, n, j, x)
  /\ \A j \in Key, x \in Nat :
       Had(c, s, n, j, x) /\ (\A y \in Nat : Had(c, s, n, j, y) => y <= x)
         => Had(r.cache, r.evicted, Len(r.evicted), j, x)
  /\ \A i, h \in 1 .. Len(r.evicted) :
       i < h /\ r.evicted[i][1] = r.evicted[h][1] => r.evicted[i][2] <= r.evicted[h][2]
  /\ \A i \in 1 .. Len(r.evicted), x \in Nat :
       Holds(r.cache, r.evicted[i][1], x) => r.evicted[i][2] <= x

PutNext(u, t, p) ==
  LET one == put_with_evictions(u.cache, t, p[1], p[2])
  IN  [cache |-> one.cache, evicted |-> u.evicted \o one.evicted]

PutState(u, t) ==
  /\ u = [cache |-> u.cache, evicted |-> u.evicted]
  /\ Sane(u.cache, t) /\ u.evicted \in Pairs

LEMMA PairIs ==
  ASSUME NEW s \in Pairs, NEW i \in 1 .. Len(s)
  PROVE  s[i] = <<s[i][1], s[i][2]>> /\ s[i][1] \in Key /\ s[i][2] \in Nat
BY DEF Pairs

LEMMA PutNextState ==
  ASSUME NEW t \in 1 .. 3, NEW u, PutState(u, t), NEW p \in Key \X Nat
  PROVE  PutState(PutNext(u, t, p), t)
<1> DEFINE one == put_with_evictions(u.cache, t, p[1], p[2])
<1>1. p[1] \in Key /\ p[2] \in Nat
  OBVIOUS
<1>2. Sane(one.cache, t) /\ Stored(u.cache, one, p[1], p[2])
  BY <1>1, PutIs DEF PutState
<1>3. one.evicted \in Seq(Key \X Nat) /\ u.evicted \in Seq(Key \X Nat)
  BY <1>2 DEF Stored, PutState, Pairs
<1> HIDE DEF one
<1>4. u.evicted \o one.evicted \in Seq(Key \X Nat)
  BY <1>3
<1>5. PutNext(u, t, p) = [cache |-> one.cache, evicted |-> u.evicted \o one.evicted]
  BY DEF PutNext, one
<1>6. QED
  BY <1>2, <1>4, <1>5 DEF PutState, Pairs

LEMMA AmongMore ==
  ASSUME NEW s \in Pairs, NEW n \in 1 .. Len(s), NEW j, NEW x
  PROVE  Among(s, n, j, x) <=> Among(s, n - 1, j, x) \/ (j = s[n][1] /\ x = s[n][2])
<1>1. s[n] = <<s[n][1], s[n][2]>>
  BY PairIs
<1>2. \A i \in 1 .. n : i \in 1 .. n - 1 \/ i = n
  OBVIOUS
<1>3. \A i \in 1 .. n - 1 : i \in 1 .. n
  OBVIOUS
<1>4. ASSUME Among(s, n, j, x) PROVE Among(s, n - 1, j, x) \/ (j = s[n][1] /\ x = s[n][2])
  BY <1>2, <1>4 DEF Among
<1>5. ASSUME Among(s, n - 1, j, x) PROVE Among(s, n, j, x)
  BY <1>3, <1>5 DEF Among
<1>6. ASSUME j = s[n][1] /\ x = s[n][2] PROVE Among(s, n, j, x)
  <2>1. n \in 1 .. n /\ s[n] = <<j, x>>
    BY <1>1, <1>6
  <2>2. QED
    BY <2>1 DEF Among
<1>7. QED
  BY <1>4, <1>5, <1>6

Joined(q, a, b) ==
  /\ q \in Pairs /\ Len(q) = Len(a) + Len(b) /\ Len(a) \in Nat /\ Len(b) \in Nat
  /\ \A i \in 1 .. Len(a) : q[i] = a[i]
  /\ \A i \in 1 .. Len(b) : q[Len(a) + i] = b[i]
  /\ \A i \in 1 .. Len(q) : i \in 1 .. Len(a) \/ \E h \in 1 .. Len(b) : i = Len(a) + h

LEMMA JoinedIs ==
  ASSUME NEW a \in Pairs, NEW b \in Pairs
  PROVE  Joined(a \o b, a, b)
<1>1. /\ a \in Seq(Key \X Nat) /\ b \in Seq(Key \X Nat)
      /\ Len(a) \in Nat /\ Len(b) \in Nat
  BY DEF Pairs
<1>2. a \o b \in Seq(Key \X Nat) /\ Len(a \o b) = Len(a) + Len(b)
  BY <1>1
<1>3. \A i \in 1 .. Len(a) : (a \o b)[i] = a[i]
  BY <1>1
<1>4. \A i \in 1 .. Len(b) : (a \o b)[Len(a) + i] = b[i]
  BY <1>1
<1>5. ASSUME NEW i \in 1 .. Len(a) + Len(b), i \notin 1 .. Len(a)
      PROVE  i - Len(a) \in 1 .. Len(b) /\ i = Len(a) + (i - Len(a))
  BY <1>1, <1>5
<1>6. QED
  BY <1>1, <1>2, <1>3, <1>4, <1>5 DEF Pairs, Joined

LEMMA AmongJoined ==
  ASSUME NEW a, NEW b, NEW q, Joined(q, a, b), NEW j, NEW x
  PROVE  Among(q, Len(q), j, x) <=> Among(a, Len(a), j, x) \/ Among(b, Len(b), j, x)
<1>1. /\ Len(q) = Len(a) + Len(b) /\ Len(a) \in Nat /\ Len(b) \in Nat
      /\ \A i \in 1 .. Len(a) : q[i] = a[i]
      /\ \A i \in 1 .. Len(b) : q[Len(a) + i] = b[i]
      /\ \A i \in 1 .. Len(q) : i \in 1 .. Len(a) \/ \E h \in 1 .. Len(b) : i = Len(a) + h
  BY Zenon DEF Joined
<1>2. ASSUME Among(q, Len(q), j, x) PROVE Among(a, Len(a), j, x) \/ Among(b, Len(b), j, x)
  <2>1. PICK i \in 1 .. Len(q) : q[i] = <<j, x>>
    BY <1>2 DEF Among
  <2>2. QED
    BY <1>1, <2>1 DEF Among
<1>3. ASSUME Among(a, Len(a), j, x) PROVE Among(q, Len(q), j, x)
  <2>1. PICK i \in 1 .. Len(a) : a[i] = <<j, x>>
    BY <1>3 DEF Among
  <2>2. i \in 1 .. Len(q) /\ q[i] = <<j, x>>
    BY <1>1, <2>1
  <2>3. QED
    BY <2>2 DEF Among
<1>4. ASSUME Among(b, Len(b), j, x) PROVE Among(q, Len(q), j, x)
  <2>1. PICK i \in 1 .. Len(b) : b[i] = <<j, x>>
    BY <1>4 DEF Among
  <2>2. Len(a) + i \in 1 .. Len(q) /\ q[Len(a) + i] = <<j, x>>
    BY <1>1, <2>1
  <2>3. QED
    BY <2>2 DEF Among
<1>5. QED
  BY <1>2, <1>3, <1>4

(* What a put does, version by version.                                    *)
Effect(c, r, k, v) ==
  /\ r.evicted \in Pairs /\ Holds(r.cache, k, v)
  /\ \A j, x : Holds(r.cache, j, x) => (j = k /\ x = v) \/ (j # k /\ Holds(c, j, x))
  /\ \A j, x : Among(r.evicted, Len(r.evicted), j, x)
                 => j # k /\ Holds(c, j, x) /\ ~(j \in DOMAIN r.cache.entries)
  /\ \A j, x : j # k /\ Holds(c, j, x)
                 => Holds(r.cache, j, x) \/ Among(r.evicted, Len(r.evicted), j, x)

LEMMA StoredVersions ==
  ASSUME NEW c, NEW k, NEW v, NEW r, Stored(c, r, k, v)
  PROVE  Effect(c, r, k, v)
<1>1. r.evicted \in Pairs /\ Holds(r.cache, k, v)
  BY DEF Stored, Holds, Pairs
<1>2. \A j, x : Holds(r.cache, j, x) => (j = k /\ x = v) \/ (j # k /\ Holds(c, j, x))
  BY DEF Stored, Holds
<1>3. ASSUME NEW j, NEW x, Among(r.evicted, Len(r.evicted), j, x)
      PROVE  j # k /\ Holds(c, j, x) /\ ~(j \in DOMAIN r.cache.entries)
  <2>1. PICK i \in 1 .. Len(r.evicted) : r.evicted[i] = <<j, x>>
    BY <1>3 DEF Among
  <2>2. r.evicted[i][1] = j /\ r.evicted[i][2] = x
    BY <2>1
  <2>3. /\ r.evicted[i][1] \in DOMAIN c.entries \ DOMAIN r.cache.entries
        /\ r.evicted[i] = <<r.evicted[i][1], c.entries[r.evicted[i][1]]>>
        /\ k \in DOMAIN r.cache.entries
    BY DEF Stored
  <2>4. r.evicted[i][2] = c.entries[j]
    BY <2>2, <2>3
  <2>5. QED
    BY <2>2, <2>3, <2>4 DEF Holds
<1>4. ASSUME NEW j, NEW x, j # k, Holds(c, j, x), ~Holds(r.cache, j, x)
      PROVE  Among(r.evicted, Len(r.evicted), j, x)
  <2>1. j \in DOMAIN c.entries /\ c.entries[j] = x
    BY <1>4 DEF Holds
  <2>2. j \notin DOMAIN r.cache.entries
    BY <1>4, <2>1 DEF Holds, Stored
  <2>3. PICK i \in 1 .. Len(r.evicted) : r.evicted[i][1] = j
    BY <1>4, <2>1, <2>2 DEF Stored
  <2>4. r.evicted[i] = <<r.evicted[i][1], c.entries[r.evicted[i][1]]>>
    BY DEF Stored
  <2>5. r.evicted[i] = <<j, x>>
    BY <2>1, <2>3, <2>4
  <2>6. QED
    BY <2>5 DEF Among
<1>5. QED
  BY <1>1, <1>2, <1>3, <1>4, Zenon DEF Effect

LEMMA MovedStep ==
  ASSUME NEW t \in 1 .. 3, NEW c, NEW s \in Pairs, Rising(c, s), NEW n \in 1 .. Len(s),
         NEW u, PutState(u, t), Moved(c, s, n - 1, u)
  PROVE  Moved(c, s, n, PutNext(u, t, s[n]))
<1> DEFINE k == s[n][1]
           v == s[n][2]
           one == put_with_evictions(u.cache, t, k, v)
           C == u.cache
           O == u.evicted
           D == one.cache
           N == one.evicted
           w == PutNext(u, t, s[n])
<1>1. k \in Key /\ v \in Nat
  BY PairIs
<1>2. Sane(C, t) /\ O \in Pairs
  BY DEF PutState
<1>3. Stored(C, one, k, v)
  BY <1>1, <1>2, PutIs
<1>4. w.cache = D /\ w.evicted = O \o N
  BY DEF PutNext
<1> HIDE DEF one, w
<1>5. /\ N \in Pairs /\ Holds(D, k, v)
      /\ \A j, x : Holds(D, j, x) => (j = k /\ x = v) \/ (j # k /\ Holds(C, j, x))
      /\ \A j, x : Among(N, Len(N), j, x)
                     => j # k /\ Holds(C, j, x) /\ ~(j \in DOMAIN D.entries)
      /\ \A j, x : j # k /\ Holds(C, j, x) => Holds(D, j, x) \/ Among(N, Len(N), j, x)
  <2>1. Effect(C, one, k, v)
    BY <1>3, StoredVersions
  <2>2. QED
    BY <2>1, Zenon DEF Effect
<1>6. \A j, x : Among(s, n, j, x) <=> Among(s, n - 1, j, x) \/ (j = k /\ x = v)
  BY AmongMore
<1>0. Joined(w.evicted, O, N)
  BY <1>2, <1>4, <1>5, JoinedIs
<1>7. \A j, x : Among(w.evicted, Len(w.evicted), j, x) <=> Among(O, Len(O), j, x) \/ Among(N, Len(N), j, x)
  BY <1>0, AmongJoined
<1>8. /\ Len(w.evicted) = Len(O) + Len(N) /\ Len(O) \in Nat /\ Len(N) \in Nat
      /\ \A i \in 1 .. Len(O) : w.evicted[i] = O[i]
      /\ \A i \in 1 .. Len(N) : w.evicted[Len(O) + i] = N[i]
      /\ \A i \in 1 .. Len(w.evicted) : i \in 1 .. Len(O) \/ \E h \in 1 .. Len(N) : i = Len(O) + h
  BY <1>0, Zenon DEF Joined
<1>9. \A x \in Nat : Had(c, s, n - 1, k, x) => x <= v
  <2> SUFFICES ASSUME NEW x \in Nat, Had(c, s, n - 1, k, x) PROVE x <= v
    OBVIOUS
  <2>1. CASE Holds(c, k, x)
    BY <2>1 DEF Rising
  <2>2. CASE Among(s, n - 1, k, x)
    <3>1. PICK i \in 1 .. n - 1 : s[i] = <<k, x>>
      BY <2>2 DEF Among
    <3>2. i \in 1 .. Len(s) /\ i < n /\ s[i][1] = s[n][1] /\ s[i][2] = x
      <4>1. Len(s) \in Nat
        BY DEF Pairs
      <4>2. QED
        BY <3>1, <4>1
    <3>3. QED
      BY <3>2 DEF Rising
  <2>3. QED
    BY <2>1, <2>2 DEF Had
<1>10. \A j \in Key, x \in Nat : Had(C, O, Len(O), j, x) => Had(c, s, n - 1, j, x)
  BY DEF Moved
<1>11. \A j \in Key, x \in Nat : Had(c, s, n, j, x) <=> Had(c, s, n - 1, j, x) \/ (j = k /\ x = v)
  BY <1>6 DEF Had
<1>12. \A j \in Key, x \in Nat :
         Had(w.cache, w.evicted, Len(w.evicted), j, x)
           <=> Holds(D, j, x) \/ Among(O, Len(O), j, x) \/ Among(N, Len(N), j, x)
  BY <1>4, <1>7 DEF Had
<1>13. ASSUME NEW j \in Key, NEW x \in Nat, Had(w.cache, w.evicted, Len(w.evicted), j, x)
       PROVE  Had(c, s, n, j, x)
  <2>1. CASE Holds(D, j, x) \/ Among(N, Len(N), j, x)
    <3>1. (j = k /\ x = v) \/ Holds(C, j, x)
      BY <1>5, <2>1
    <3>2. QED
      BY <1>10, <1>11, <3>1 DEF Had
  <2>2. CASE Among(O, Len(O), j, x)
    BY <1>10, <1>11, <2>2 DEF Had
  <2>3. QED
    BY <1>12, <1>13, <2>1, <2>2
<1>14. ASSUME NEW j \in Key, NEW x \in Nat, Had(c, s, n, j, x),
              \A y \in Nat : Had(c, s, n, j, y) => y <= x
       PROVE  Had(w.cache, w.evicted, Len(w.evicted), j, x)
  <2>1. CASE j = k
    <3>1. v <= x
      BY <1>1, <1>11, <1>14, <2>1
    <3>2. x <= v
      BY <1>1, <1>9, <1>11, <1>14, <2>1
    <3>3. x = v
      BY <1>1, <3>1, <3>2
    <3>4. QED
      BY <1>5, <1>12, <2>1, <3>3
  <2>2. CASE j # k
    <3>1. Had(c, s, n - 1, j, x) /\ \A y \in Nat : Had(c, s, n - 1, j, y) => y <= x
      BY <1>11, <1>14, <2>2
    <3>2. Had(C, O, Len(O), j, x)
      BY <3>1 DEF Moved
    <3>3. QED
      BY <1>5, <1>12, <2>2, <3>2 DEF Had
  <2>3. QED
    BY <2>1, <2>2
<1>15. ASSUME NEW i \in 1 .. Len(O) PROVE Had(c, s, n - 1, O[i][1], O[i][2]) /\ O[i] = <<O[i][1], O[i][2]>>
                                          /\ O[i][1] \in Key /\ O[i][2] \in Nat
  <2>1. O[i] = <<O[i][1], O[i][2]>> /\ O[i][1] \in Key /\ O[i][2] \in Nat
    BY <1>2, PairIs
  <2>2. Among(O, Len(O), O[i][1], O[i][2])
    BY <2>1 DEF Among
  <2>3. QED
    BY <1>10, <2>1, <2>2 DEF Had
<1>16. ASSUME NEW i \in 1 .. Len(N)
       PROVE  /\ N[i][1] \in Key /\ N[i][2] \in Nat
              /\ N[i][1] # k /\ Holds(C, N[i][1], N[i][2]) /\ ~(N[i][1] \in DOMAIN D.entries)
  <2>1. N[i] = <<N[i][1], N[i][2]>> /\ N[i][1] \in Key /\ N[i][2] \in Nat
    BY <1>5, PairIs
  <2>2. Among(N, Len(N), N[i][1], N[i][2])
    BY <2>1 DEF Among
  <2>3. QED
    BY <1>5, <2>1, <2>2
<1>17. ASSUME NEW i \in 1 .. Len(w.evicted), NEW h \in 1 .. Len(w.evicted),
              i < h, w.evicted[i][1] = w.evicted[h][1]
       PROVE  w.evicted[i][2] <= w.evicted[h][2]
  <2>1. CASE i \in 1 .. Len(O) /\ h \in 1 .. Len(O)
    <3>1. w.evicted[i] = O[i] /\ w.evicted[h] = O[h]
      BY <1>8, <2>1
    <3>2. QED
      BY <1>17, <2>1, <3>1 DEF Moved
  <2>2. ASSUME NEW b \in 1 .. Len(N), h = Len(O) + b, i \in 1 .. Len(O) PROVE w.evicted[i][2] <= w.evicted[h][2]
    <3>1. w.evicted[i] = O[i] /\ w.evicted[h] = N[b]
      BY <1>8, <2>2
    <3>2. Holds(C, O[i][1], N[b][2]) /\ N[b][2] \in Nat
      BY <1>16, <1>17, <3>1
    <3>3. O[i][2] <= N[b][2]
      BY <2>2, <3>2 DEF Moved
    <3>4. QED
      BY <3>1, <3>3
  <2>3. ASSUME NEW a \in 1 .. Len(N), NEW b \in 1 .. Len(N), i = Len(O) + a, h = Len(O) + b
        PROVE  w.evicted[i][2] <= w.evicted[h][2]
    <3>1. w.evicted[i] = N[a] /\ w.evicted[h] = N[b]
      BY <1>8, <2>3, Zenon
    <3>2. a # b
      <4>1. ~(i = h)
        BY <1>17
      <4>2. QED
        BY <2>3, <4>1
    <3>3. N[a][1] = N[b][1]
      BY <1>17, <3>1
    <3>4. QED
      BY <1>3, <3>2, <3>3 DEF Stored
  <2>4. ASSUME NEW a \in 1 .. Len(N), i = Len(O) + a, h \in 1 .. Len(O) PROVE FALSE
    BY <1>8, <1>17, <2>4
  <2>5. QED
    BY <1>8, <2>1, <2>2, <2>3, <2>4
<1>18. ASSUME NEW i \in 1 .. Len(w.evicted), NEW x \in Nat, Holds(w.cache, w.evicted[i][1], x)
       PROVE  w.evicted[i][2] <= x
  <2>1. CASE i \in 1 .. Len(O)
    <3>1. w.evicted[i] = O[i] /\ Holds(D, O[i][1], x)
      BY <1>4, <1>8, <1>18, <2>1
    <3>2. CASE O[i][1] = k
      <4>1. x = v
        BY <1>5, <3>1, <3>2
      <4>2. Had(c, s, n - 1, k, O[i][2]) /\ O[i][2] \in Nat
        BY <1>15, <2>1, <3>2
      <4>3. QED
        BY <1>9, <3>1, <4>1, <4>2
    <3>3. CASE O[i][1] # k
      <4>1. Holds(C, O[i][1], x)
        BY <1>5, <3>1, <3>3
      <4>2. QED
        BY <2>1, <3>1, <4>1 DEF Moved
    <3>4. QED
      BY <3>2, <3>3
  <2>2. ASSUME NEW a \in 1 .. Len(N), i = Len(O) + a PROVE FALSE
    <3>1. w.evicted[i] = N[a] /\ Holds(D, N[a][1], x)
      BY <1>4, <1>8, <1>18, <2>2
    <3>2. QED
      BY <1>16, <3>1 DEF Holds
  <2>3. QED
    BY <1>8, <2>1, <2>2
<1>19. Moved(c, s, n, w)
  BY <1>13, <1>14, <1>17, <1>18 DEF Moved
<1>20. QED
  BY <1>19 DEF w

PutStates(t) == {u \in [cache : Lru, evicted : Pairs] : PutState(u, t)}
PutSteps(c, t, s, f) ==
  /\ f[0] = [cache |-> c, evicted |-> <<>>]
  /\ \A i \in 1 .. Len(s) : f[i] = PutNext(f[i - 1], t, s[i])
  /\ put_all(c, t, s) = f[Len(s)]

LEMMA PutAllUnfolds ==
  ASSUME NEW t \in 1 .. 3, NEW c, Sane(c, t), NEW s \in Pairs
  PROVE  \E f : PutSteps(c, t, s, f)
<1> DEFINE base == [cache |-> c, evicted |-> <<>>]
           F == [p \in PutStates(t) \X (1 .. Len(s)) |-> PutNext(p[1], t, s[p[2]])]
           Body(h) == [i \in 0 .. Len(s) |->
                         IF i = 0 THEN [cache |-> c, evicted |-> <<>>]
                         ELSE LET one == put_with_evictions(h[i - 1].cache, t, s[i][1], s[i][2])
                              IN  [cache |-> one.cache, evicted |-> h[i - 1].evicted \o one.evicted]]
<1>1. Len(s) \in Nat /\ s \in Seq(Key \X Nat)
  BY DEF Pairs
<1>2. base \in PutStates(t)
  <2>1. c \in Lru /\ <<>> \in Pairs
    BY DEF Sane, Whole, Pairs
  <2>2. base.cache = c /\ base.evicted = <<>>
    OBVIOUS
  <2>3. PutState(base, t)
    BY <2>1, <2>2 DEF PutState
  <2>4. QED
    BY <2>1, <2>3 DEF PutStates
<1>3. \A u \in PutStates(t), i \in 1 .. Len(s) : PutNext(u, t, s[i]) \in PutStates(t)
  <2> SUFFICES ASSUME NEW u \in PutStates(t), NEW i \in 1 .. Len(s) PROVE PutNext(u, t, s[i]) \in PutStates(t)
    OBVIOUS
  <2> DEFINE w == PutNext(u, t, s[i])
  <2>1. PutState(u, t) /\ s[i] \in Key \X Nat
    BY <1>1 DEF PutStates
  <2>2. PutState(w, t)
    BY <2>1, PutNextState
  <2> HIDE DEF w
  <2>3. w = [cache |-> w.cache, evicted |-> w.evicted] /\ w.cache \in Lru /\ w.evicted \in Pairs
    BY <2>2 DEF PutState, Sane, Whole
  <2>4. w \in [cache : Lru, evicted : Pairs]
    BY <2>3
  <2>5. w \in PutStates(t)
    BY <2>2, <2>4 DEF PutStates
  <2>6. QED
    BY <2>5 DEF w
<1>4. F \in [PutStates(t) \X (1 .. Len(s)) -> PutStates(t)]
  BY <1>3
<1>5. \A u \in PutStates(t), i \in 1 .. Len(s) : F[<<u, i>>] = PutNext(u, t, s[i])
  OBVIOUS
<1> HIDE DEF F, base
<1>6. PICK h \in [0 .. Len(s) -> PutStates(t)] :
        h[0] = base /\ \A i \in 1 .. Len(s) : h[i] = F[<<h[i - 1], i>>]
  <2>1. Recursive(Len(s), PutStates(t), base, F)
    BY <1>1, <1>2, <1>4, RecursionExists
  <2>2. QED
    BY <2>1, Zenon DEF Recursive
<1>7. \A g : \A i \in 0 .. Len(s) : Body(g)[i] = IF i = 0 THEN base ELSE PutNext(g[i - 1], t, s[i])
  BY DEF base, PutNext
<1>8. \A g : Body(g) = [i \in 0 .. Len(s) |-> Body(g)[i]]
  OBVIOUS
<1> DEFINE f == CHOOSE w : w = Body(w)
<1>9. put_all(c, t, s) = f[Len(s)]
  BY Zenon DEF put_all
<1> HIDE DEF Body
<1>10. h = Body(h)
  <2>1. ASSUME NEW i \in 0 .. Len(s) PROVE h[i] = Body(h)[i]
    <3>1. CASE i = 0
      BY <1>6, <1>7, <3>1
    <3>2. CASE i # 0
      <4>1. i \in 1 .. Len(s) /\ i - 1 \in 0 .. Len(s)
        BY <1>1, <3>2
      <4>2. h[i] = PutNext(h[i - 1], t, s[i])
        BY <1>5, <1>6, <4>1
      <4>3. QED
        BY <1>7, <3>2, <4>2
    <3>3. QED
      BY <3>1, <3>2
  <2>2. h = [i \in 0 .. Len(s) |-> h[i]]
    BY <1>6
  <2>3. QED
    BY <1>8, <2>1, <2>2
<1>11. f = Body(f)
  BY <1>10, Zenon
<1> HIDE DEF f
<1>12. f[0] = base
  BY <1>1, <1>7, <1>11
<1>13. ASSUME NEW i \in 1 .. Len(s) PROVE f[i] = PutNext(f[i - 1], t, s[i])
  <2>1. i \in 0 .. Len(s) /\ i # 0
    BY <1>1
  <2>2. Body(f)[i] = PutNext(f[i - 1], t, s[i])
    BY <1>7, <2>1
  <2>3. QED
    BY <1>11, <2>2
<1>14. QED
  BY <1>9, <1>12, <1>13, Zenon DEF PutSteps, base

LEMMA MovedNothing ==
  ASSUME NEW c, NEW s
  PROVE  Moved(c, s, 0, [cache |-> c, evicted |-> <<>>])
<1> DEFINE u == [cache |-> c, evicted |-> <<>>]
<1>1. u.cache = c /\ u.evicted = <<>> /\ Len(u.evicted) = 0 /\ 1 .. 0 = {}
  OBVIOUS
<1> HIDE DEF u
<1>2. \A j, x : ~Among(s, 0, j, x) /\ ~Among(u.evicted, Len(u.evicted), j, x)
  BY <1>1 DEF Among
<1>3. \A j, x : Had(u.cache, u.evicted, Len(u.evicted), j, x) <=> Had(c, s, 0, j, x)
  BY <1>1, <1>2 DEF Had
<1>4. Moved(c, s, 0, u)
  BY <1>1, <1>3 DEF Moved
<1>5. QED
  BY <1>4 DEF u

LEMMA PutAllIs ==
  ASSUME NEW t \in 1 .. 3, NEW c, Sane(c, t), NEW s \in Pairs
  PROVE  /\ PutState(put_all(c, t, s), t)
         /\ Rising(c, s) => Moved(c, s, Len(s), put_all(c, t, s))
<1>1. PICK f : PutSteps(c, t, s, f)
  BY PutAllUnfolds
<1>2. /\ f[0] = [cache |-> c, evicted |-> <<>>]
      /\ \A i \in 1 .. Len(s) : f[i] = PutNext(f[i - 1], t, s[i])
      /\ put_all(c, t, s) = f[Len(s)]
  BY <1>1, Zenon DEF PutSteps
<1>3. Len(s) \in Nat /\ \A i \in 1 .. Len(s) : s[i] \in Key \X Nat
  BY DEF Pairs
<1> DEFINE Good(n) == PutState(f[n], t) /\ (Rising(c, s) => Moved(c, s, n, f[n]))
           P == {n \in 0 .. Len(s) : Good(n)}
<1>4. Good(0)
  <2>1. Moved(c, s, 0, f[0])
    BY <1>2, MovedNothing
  <2>2. PutState(f[0], t)
    <3>1. <<>> \in Pairs
      BY DEF Pairs
    <3>2. QED
      BY <1>2, <3>1 DEF PutState
  <2>3. QED
    BY <2>1, <2>2
<1>5. ASSUME NEW n \in 1 .. Len(s), Good(n - 1) PROVE Good(n)
  <2>1. f[n] = PutNext(f[n - 1], t, s[n]) /\ PutState(f[n - 1], t) /\ s[n] \in Key \X Nat
    BY <1>2, <1>3, <1>5
  <2>2. PutState(f[n], t)
    BY <2>1, PutNextState
  <2>3. ASSUME Rising(c, s) PROVE Moved(c, s, n, f[n])
    <3>1. Moved(c, s, n - 1, f[n - 1])
      BY <1>5, <2>3
    <3>2. Moved(c, s, n, PutNext(f[n - 1], t, s[n]))
      BY <2>1, <2>3, <3>1, MovedStep
    <3>3. QED
      BY <2>1, <3>2
  <2>4. QED
    BY <2>2, <2>3
<1> HIDE DEF Good
<1>6. 0 \in P /\ \A n \in 1 .. Len(s) : n - 1 \in P => n \in P
  BY <1>3, <1>4, <1>5
<1>7. Good(Len(s))
  <2> HIDE DEF P
  <2>1. \A n \in 0 .. Len(s) : n \in P
    BY <1>3, <1>6, IntervalInduction
  <2>2. QED
    BY <1>3, <2>1 DEF P
<1>8. QED
  BY <1>2, <1>7 DEF Good

(* Looking a key up and removing it.                                       *)
LEMMA LookIs ==
  ASSUME NEW t \in 1 .. 3, NEW c, Sane(c, t), NEW k \in DOMAIN c.entries
  PROVE  /\ Sane([c EXCEPT !.access_order = Touched(@, k)], t)
         /\ [c EXCEPT !.access_order = Touched(@, k)].entries = c.entries
<1> DEFINE q == Touched(c.access_order, k)
           r == [c EXCEPT !.access_order = Touched(@, k)]
<1>1. /\ c \in Lru /\ Lists(c.access_order, DOMAIN c.entries) /\ c.current_size = Total(c.entries)
      /\ Cardinality(DOMAIN c.entries) <= Capacity[t]
  BY DEF Sane, Whole
<1>2. Lists(q, DOMAIN c.entries)
  BY <1>1, ListsTouched
<1>3. q \in Seq(Key)
  BY <1>2 DEF Lists
<1>4. r = [c EXCEPT !.access_order = q]
  OBVIOUS
<1> HIDE DEF q
<1>5. r.entries = c.entries /\ r.access_order = q /\ r.current_size = c.current_size /\ r \in Lru
  BY <1>1, <1>3, <1>4 DEF Lru
<1> HIDE DEF r
<1>6. Sane(r, t)
  BY <1>1, <1>2, <1>5 DEF Sane, Whole
<1>7. QED
  BY <1>5, <1>6 DEF r

LEMMA RemovedIs ==
  ASSUME NEW t \in 1 .. 3, NEW c, Sane(c, t), NEW k
  PROVE  /\ Sane(Removed(c, k), t) /\ DOMAIN Removed(c, k).entries = DOMAIN c.entries \ {k}
         /\ \A j \in DOMAIN Removed(c, k).entries : Removed(c, k).entries[j] = c.entries[j]
<1> DEFINE r == Removed(c, k)
           q == Without(c.access_order, k)
<1>1. Whole(c) /\ Cardinality(DOMAIN c.entries) <= Capacity[t] /\ Lists(c.access_order, DOMAIN c.entries)
  BY DEF Sane, Whole
<1>2. CASE k \in DOMAIN c.entries
  <2>1. Lists(q, DOMAIN c.entries \ {k})
    BY <1>1, ListsWithout
  <2>2. r = Left(c, k, q)
    BY <1>2 DEF Removed, Left
  <2> HIDE DEF r, q
  <2>3. Lost(Left(c, k, q), c, k, q)
    BY <1>1, <1>2, <2>1, EntryLeaves
  <2>4. /\ Whole(r) /\ DOMAIN r.entries = DOMAIN c.entries \ {k}
        /\ \A j \in DOMAIN r.entries : r.entries[j] = c.entries[j]
    BY <2>2, <2>3 DEF Lost
  <2>5. Cardinality(DOMAIN c.entries \ {k}) <= Capacity[t]
    <3>1. IsFiniteSet(DOMAIN c.entries)
      BY <1>1, WholeIs
    <3>2. /\ Cardinality(DOMAIN c.entries \ {k}) <= Cardinality(DOMAIN c.entries)
          /\ IsFiniteSet(DOMAIN c.entries \ {k})
      BY <3>1, FS_Subset
    <3>3. Cardinality(DOMAIN c.entries \ {k}) \in Nat /\ Cardinality(DOMAIN c.entries) \in Nat
      BY <3>1, <3>2, FS_CardinalityType
    <3>4. QED
      BY <1>1, <3>2, <3>3, TierAssumption
  <2>6. QED
    BY <2>4, <2>5 DEF Sane, r
<1>3. CASE k \notin DOMAIN c.entries
  <2>1. r = c
    BY <1>3 DEF Removed
  <2>2. QED
    BY <1>3, <2>1
<1>4. QED
  BY <1>2, <1>3

LEMMA EmptyIs == \A t \in 1 .. 3 : Sane(EmptyTier, t) /\ DOMAIN EmptyTier.entries = {}
<1> SUFFICES ASSUME NEW t \in 1 .. 3 PROVE Sane(EmptyTier, t) /\ DOMAIN EmptyTier.entries = {}
  OBVIOUS
<1> DEFINE e == EmptyTier
<1>1. e.entries = <<>> /\ e.access_order = <<>> /\ e.current_size = 0
      /\ e = [entries |-> e.entries, access_order |-> e.access_order, current_size |-> e.current_size]
  BY DEF EmptyTier
<1> HIDE DEF e
<1>2. DOMAIN e.entries = {} /\ e.entries \in [{} -> Nat]
  BY <1>1
<1>3. e.entries \in Contents
  BY <1>2, ContentsIs
<1>4. Total(e.entries) = 0
  <2>1. Units(e.entries) = {}
    BY <1>2 DEF Units
  <2>2. QED
    BY <2>1, FS_EmptySet DEF Total
<1>5. Lists(<<>>, {})
  BY DEF Lists, IsInjective, Range
<1>6. e \in Lru
  <2>1. e.access_order \in Seq(Key) /\ e.current_size \in Int
    BY <1>1
  <2>2. QED
    BY <1>1, <1>3, <2>1 DEF Lru
<1>7. Cardinality(DOMAIN e.entries) = 0
  BY <1>2, FS_EmptySet
<1>8. Sane(e, t)
  BY <1>1, <1>2, <1>4, <1>5, <1>6, <1>7, TierAssumption DEF Sane, Whole
<1>9. QED
  BY <1>2, <1>8 DEF e

-----------------------------------------------------------------------------
(* TieredCache: the types, and each tier sane.                             *)
TieredPcs == {"idle", "l1", "l2", "l3", "return", "up1", "up2", "down2", "down3", "rm1", "rm2", "rm3"}

TieredTypes ==
  /\ tier = [t \in 1 .. 3 |-> tier[t]] /\ \A t \in 1 .. 3 : Sane(tier[t], t)
  /\ latest \in [Key -> Nat] /\ gone \in [Key -> BOOLEAN]
  /\ tpc \in [Thread -> TieredPcs] /\ key \in [Thread -> Key \cup {NoKey}]
  /\ carried \in [Thread -> Pairs] /\ got \in [Thread -> Nat]
  /\ overlap \in BOOLEAN /\ dropped \subseteq Key
  /\ \A c \in Thread :
       /\ tpc[c] # "idle" => key[c] \in Key
       /\ got[c] # 0 => tpc[c] \in {"up1", "up2", "down2", "down3", "return"}
       /\ carried[c] # <<>> => tpc[c] \in {"down2", "down3"}

LEMMA TieredWords ==
  /\ <<"l1", "l2", "l3">>[1] = "l1" /\ <<"l1", "l2", "l3">>[2] = "l2" /\ <<"l1", "l2", "l3">>[3] = "l3"
  /\ <<"return", "up1", "up2">>[1] = "return" /\ <<"return", "up1", "up2">>[2] = "up1"
  /\ <<"return", "up1", "up2">>[3] = "up2"
  /\ <<"l2", "l3", "return">>[1] = "l2" /\ <<"l2", "l3", "return">>[2] = "l3"
  /\ <<"l2", "l3", "return">>[3] = "return"
  /\ <<"up1", "up2">>[1] = "up1" /\ <<"up1", "up2">>[2] = "up2"
  /\ <<"down2", "down3">>[1] = "down2" /\ <<"down2", "down3">>[2] = "down3"
  /\ <<"none", "down2", "down3">>[2] = "down2" /\ <<"none", "down2", "down3">>[3] = "down3"
  /\ <<"rm1", "rm2", "rm3">>[1] = "rm1" /\ <<"rm1", "rm2", "rm3">>[2] = "rm2"
  /\ <<"rm1", "rm2", "rm3">>[3] = "rm3"
  /\ <<"rm2", "rm3", "return">>[1] = "rm2" /\ <<"rm2", "rm3", "return">>[2] = "rm3"
  /\ <<"rm2", "rm3", "return">>[3] = "return"
OBVIOUS

(* A tier is replaced.                                                     *)
LEMMA TierReplaced ==
  ASSUME TieredTypes, NEW t \in 1 .. 3, NEW r, tier' = [tier EXCEPT ![t] = r]
  PROVE  /\ tier' = [s \in 1 .. 3 |-> tier'[s]] /\ tier'[t] = r
         /\ \A s \in 1 .. 3 : s # t => tier'[s] = tier[s]
         /\ Sane(r, t) => \A s \in 1 .. 3 : Sane(tier'[s], s)
<1>1. tier = [s \in 1 .. 3 |-> tier[s]] /\ \A s \in 1 .. 3 : Sane(tier[s], s)
  BY DEF TieredTypes
<1>2. tier' = [s \in 1 .. 3 |-> IF s = t THEN r ELSE tier[s]]
  BY <1>1
<1>3. QED
  BY <1>1, <1>2

(* The three results of a put.                                             *)
PutOne(k) == put_with_evictions(tier[1], 1, k, latest[k] + 1)
PutTwo(k) == put_all(tier[2], 2, PutOne(k).evicted)
PutThree(k) == put_all(tier[3], 3, PutTwo(k).evicted)

LEMMA KeysOfIs ==
  ASSUME NEW s \in Pairs
  PROVE  /\ KeysOf(s) \subseteq Key
         /\ \A j, x : Among(s, Len(s), j, x) => j \in KeysOf(s)
<1>1. DOMAIN s = 1 .. Len(s)
  BY DEF Pairs
<1>2. \A i \in 1 .. Len(s) : s[i][1] \in Key
  BY PairIs
<1>3. KeysOf(s) \subseteq Key
  BY <1>1, <1>2 DEF KeysOf
<1>4. ASSUME NEW j, NEW x, Among(s, Len(s), j, x) PROVE j \in KeysOf(s)
  <2>1. PICK i \in 1 .. Len(s) : s[i] = <<j, x>>
    BY <1>4 DEF Among
  <2>2. s[i][1] = j
    BY <2>1
  <2>3. QED
    BY <1>1, <2>2 DEF KeysOf
<1>5. QED
  BY <1>3, <1>4

LEMMA PutResults ==
  ASSUME TieredTypes, NEW k \in Key
  PROVE  /\ Sane(PutOne(k).cache, 1) /\ Stored(tier[1], PutOne(k), k, latest[k] + 1)
         /\ PutOne(k).evicted \in Pairs
         /\ PutState(PutTwo(k), 2) /\ PutState(PutThree(k), 3)
         /\ Rising(tier[2], PutOne(k).evicted) =>
              Moved(tier[2], PutOne(k).evicted, Len(PutOne(k).evicted), PutTwo(k))
         /\ Rising(tier[3], PutTwo(k).evicted) =>
              Moved(tier[3], PutTwo(k).evicted, Len(PutTwo(k).evicted), PutThree(k))
<1>1. Sane(tier[1], 1) /\ Sane(tier[2], 2) /\ Sane(tier[3], 3) /\ latest[k] + 1 \in Nat
  <2>1. 1 \in 1 .. 3 /\ 2 \in 1 .. 3 /\ 3 \in 1 .. 3
    OBVIOUS
  <2>2. QED
    BY <2>1 DEF TieredTypes
<1>2. Sane(PutOne(k).cache, 1) /\ Stored(tier[1], PutOne(k), k, latest[k] + 1)
  <2>1. 1 \in 1 .. 3
    OBVIOUS
  <2>2. QED
    BY <1>1, <2>1, PutIs DEF PutOne
<1>3. PutOne(k).evicted \in Pairs
  BY <1>2 DEF Stored, Pairs
<1>4. /\ PutState(PutTwo(k), 2)
      /\ Rising(tier[2], PutOne(k).evicted) =>
           Moved(tier[2], PutOne(k).evicted, Len(PutOne(k).evicted), PutTwo(k))
  <2>1. 2 \in 1 .. 3
    OBVIOUS
  <2>2. QED
    BY <1>1, <1>3, <2>1, PutAllIs DEF PutTwo
<1>5. PutTwo(k).evicted \in Pairs
  BY <1>4 DEF PutState
<1>6. /\ PutState(PutThree(k), 3)
      /\ Rising(tier[3], PutTwo(k).evicted) =>
           Moved(tier[3], PutTwo(k).evicted, Len(PutTwo(k).evicted), PutThree(k))
  <2>1. 3 \in 1 .. 3
    OBVIOUS
  <2>2. QED
    BY <1>1, <1>5, <2>1, PutAllIs DEF PutThree
<1>7. QED
  BY <1>2, <1>3, <1>4, <1>6

LEMMA TieredPutTypes ==
  ASSUME TieredTypes, NEW k \in Key, TieredPut(k)
  PROVE  /\ TieredTypes' /\ tier'[1] = PutOne(k).cache /\ tier'[2] = PutTwo(k).cache
         /\ tier'[3] = PutThree(k).cache
<1>1. /\ tier' = <<PutOne(k).cache, PutTwo(k).cache, PutThree(k).cache>>
      /\ dropped' = (dropped \ {k}) \cup KeysOf(PutThree(k).evicted)
  BY Zenon DEF TieredPut, PutOne, PutTwo, PutThree
<1>2. tier'[1] = PutOne(k).cache /\ tier'[2] = PutTwo(k).cache /\ tier'[3] = PutThree(k).cache
      /\ tier' = [t \in 1 .. 3 |-> tier'[t]]
  BY <1>1
<1>3. Sane(PutOne(k).cache, 1) /\ PutState(PutTwo(k), 2) /\ PutState(PutThree(k), 3)
  BY PutResults
<1>4. \A t \in 1 .. 3 : Sane(tier'[t], t)
  <2>1. \A t \in 1 .. 3 : t = 1 \/ t = 2 \/ t = 3
    OBVIOUS
  <2>2. QED
    BY <1>2, <1>3, <2>1 DEF PutState
<1>5. dropped' \subseteq Key
  <2>1. KeysOf(PutThree(k).evicted) \subseteq Key
    BY <1>3, KeysOfIs DEF PutState
  <2>2. QED
    BY <1>1, <2>1 DEF TieredTypes
<1>6. latest' \in [Key -> Nat] /\ gone' \in [Key -> BOOLEAN]
  BY DEF TieredTypes, TieredPut
<1>7. UNCHANGED <<tpc, key, carried, got, overlap>>
  BY DEF TieredPut, thread
<1>8. TieredTypes'
  BY <1>2, <1>4, <1>5, <1>6, <1>7 DEF TieredTypes
<1>9. QED
  BY <1>2, <1>8

LEMMA TieredClearTypes ==
  ASSUME TieredTypes, TieredClear
  PROVE  TieredTypes' /\ \A t \in 1 .. 3 : DOMAIN tier'[t].entries = {}
<1>1. tier' = [t \in 1 .. 3 |-> EmptyTier]
  BY DEF TieredClear
<1>2. tier' = [t \in 1 .. 3 |-> tier'[t]] /\ \A t \in 1 .. 3 : tier'[t] = EmptyTier
  BY <1>1
<1>3. \A t \in 1 .. 3 : Sane(tier'[t], t) /\ DOMAIN tier'[t].entries = {}
  BY <1>2, EmptyIs
<1>4. gone' \in [Key -> BOOLEAN] /\ overlap' \in BOOLEAN /\ dropped' \subseteq Key
  BY DEF TieredClear
<1>5. UNCHANGED <<latest, tpc, key, carried, got>>
  BY DEF TieredClear, thread
<1>6. QED
  BY <1>2, <1>3, <1>4, <1>5 DEF TieredTypes

LEMMA TieredCallTypes ==
  ASSUME TieredTypes, NEW c \in Thread, NEW k \in Key, NEW l \in {"l1", "rm1"}, Call(c, k, l),
         gone' \in [Key -> BOOLEAN]
  PROVE  TieredTypes'
<1>1. tpc' = [tpc EXCEPT ![c] = l] /\ key' = [key EXCEPT ![c] = k]
      /\ overlap' = (overlap \/ ~Alone) /\ tpc[c] = "idle"
      /\ UNCHANGED <<tier, latest, carried, got, dropped>>
  BY DEF Call
<1>2. tpc' \in [Thread -> TieredPcs] /\ key' \in [Thread -> Key \cup {NoKey}]
      /\ tpc'[c] = l /\ key'[c] = k
      /\ \A d \in Thread : d # c => tpc'[d] = tpc[d] /\ key'[d] = key[d]
  BY <1>1 DEF TieredTypes, TieredPcs
<1>3. overlap' \in BOOLEAN
  BY <1>1
<1>4. got[c] = 0 /\ carried[c] = <<>>
  BY <1>1 DEF TieredTypes
<1>5. QED
  BY <1>1, <1>2, <1>3, <1>4 DEF TieredTypes

LEMMA LookInTypes ==
  ASSUME TieredTypes, NEW c \in Thread, NEW t \in 1 .. 3, LookIn(c, t)
  PROVE  TieredTypes' /\ \A s \in 1 .. 3 : tier'[s].entries = tier[s].entries
<1>1. tpc[c] \in {"l1", "l2", "l3"} /\ carried[c] = <<>> /\ got[c] = 0 /\ key[c] \in Key
  <2>1. tpc[c] \in {"l1", "l2", "l3"}
    <3>1. t = 1 \/ t = 2 \/ t = 3
      OBVIOUS
    <3>2. QED
      BY <3>1, TieredWords DEF LookIn
  <2>2. QED
    BY <2>1 DEF TieredTypes
<1>2. UNCHANGED <<latest, gone, key, carried, overlap, dropped>>
  BY DEF LookIn
<1>3. CASE Has(t, key[c])
  <2> DEFINE r == [tier[t] EXCEPT !.access_order = Touched(@, key[c])]
  <2>1. /\ tier' = [tier EXCEPT ![t].access_order = Touched(@, key[c])]
        /\ got' = [got EXCEPT ![c] = tier[t].entries[key[c]]]
        /\ tpc' = [tpc EXCEPT ![c] = <<"return", "up1", "up2">>[t]]
    BY <1>3 DEF LookIn
  <2>2. tier' = [tier EXCEPT ![t] = r]
    BY <2>1
  <2>3. Sane(tier[t], t) /\ key[c] \in DOMAIN tier[t].entries
    BY <1>3 DEF TieredTypes, Has
  <2>4. Sane(r, t) /\ r.entries = tier[t].entries
    BY <2>3, LookIs
  <2> HIDE DEF r
  <2>5. /\ tier' = [s \in 1 .. 3 |-> tier'[s]] /\ \A s \in 1 .. 3 : Sane(tier'[s], s)
        /\ \A s \in 1 .. 3 : tier'[s].entries = tier[s].entries
    BY <2>2, <2>4, TierReplaced
  <2>6. tier[t].entries[key[c]] \in Nat
    BY <2>3, WholeIs DEF Sane
  <2>7. <<"return", "up1", "up2">>[t] \in {"return", "up1", "up2"}
    <3>1. t = 1 \/ t = 2 \/ t = 3
      OBVIOUS
    <3>2. QED
      BY <3>1, TieredWords
  <2>8. got' \in [Thread -> Nat] /\ tpc' \in [Thread -> TieredPcs]
        /\ tpc'[c] \in {"return", "up1", "up2"}
        /\ \A d \in Thread : d # c => tpc'[d] = tpc[d] /\ got'[d] = got[d]
    BY <2>1, <2>6, <2>7 DEF TieredTypes, TieredPcs
  <2>9. QED
    BY <1>1, <1>2, <2>5, <2>8 DEF TieredTypes
<1>4. CASE ~Has(t, key[c])
  <2>1. tpc' = [tpc EXCEPT ![c] = <<"l2", "l3", "return">>[t]] /\ UNCHANGED <<tier, got>>
    BY <1>4 DEF LookIn
  <2>2. <<"l2", "l3", "return">>[t] \in {"l2", "l3", "return"}
    <3>1. t = 1 \/ t = 2 \/ t = 3
      OBVIOUS
    <3>2. QED
      BY <3>1, TieredWords
  <2>3. tpc' \in [Thread -> TieredPcs] /\ tpc'[c] \in {"l2", "l3", "return"}
        /\ \A d \in Thread : d # c => tpc'[d] = tpc[d]
    BY <2>1, <2>2 DEF TieredTypes, TieredPcs
  <2>4. QED
    BY <1>1, <1>2, <2>1, <2>3 DEF TieredTypes
<1>5. QED
  BY <1>3, <1>4

Promoted(c, t) == put_with_evictions(tier[t], t, key[c], got[c])

LEMMA PromoteTypes ==
  ASSUME TieredTypes, NEW c \in Thread, NEW t \in 1 .. 2, Promote(c, t)
  PROVE  /\ TieredTypes' /\ tier'[t] = Promoted(c, t).cache
         /\ \A s \in 1 .. 3 : s # t => tier'[s] = tier[s]
         /\ Stored(tier[t], Promoted(c, t), key[c], got[c])
         /\ tpc[c] \in {"up1", "up2"} /\ carried[c] = <<>>
<1>1. tpc[c] \in {"up1", "up2"} /\ carried[c] = <<>> /\ key[c] \in Key /\ got[c] \in Nat
  <2>1. tpc[c] \in {"up1", "up2"}
    <3>1. t = 1 \/ t = 2
      OBVIOUS
    <3>2. QED
      BY <3>1, TieredWords DEF Promote
  <2>2. QED
    BY <2>1 DEF TieredTypes
<1>2. UNCHANGED <<latest, gone, key, got, overlap, dropped>>
  BY DEF Promote
<1> DEFINE one == Promoted(c, t)
<1>3. /\ tier' = [tier EXCEPT ![t] = one.cache]
      /\ carried' = [carried EXCEPT ![c] = one.evicted]
      /\ tpc' = [tpc EXCEPT ![c] = IF one.evicted = <<>> THEN "return" ELSE <<"down2", "down3">>[t]]
  BY DEF Promote, Promoted
<1>4. t \in 1 .. 3
  OBVIOUS
<1>5. Sane(one.cache, t) /\ Stored(tier[t], one, key[c], got[c])
  BY <1>1, <1>4, PutIs DEF TieredTypes, Promoted
<1> HIDE DEF one
<1>6. one.evicted \in Pairs
  BY <1>5 DEF Stored, Pairs
<1>7. /\ tier' = [s \in 1 .. 3 |-> tier'[s]] /\ \A s \in 1 .. 3 : Sane(tier'[s], s)
      /\ tier'[t] = one.cache /\ \A s \in 1 .. 3 : s # t => tier'[s] = tier[s]
  BY <1>3, <1>4, <1>5, TierReplaced
<1>8. <<"down2", "down3">>[t] \in {"down2", "down3"}
  <2>1. t = 1 \/ t = 2
    OBVIOUS
  <2>2. QED
    BY <2>1, TieredWords
<1>9. /\ tpc' \in [Thread -> TieredPcs] /\ carried' \in [Thread -> Pairs]
      /\ tpc'[c] \in {"return", "down2", "down3"} /\ carried'[c] = one.evicted
      /\ (one.evicted # <<>> => tpc'[c] \in {"down2", "down3"})
      /\ \A d \in Thread : d # c => tpc'[d] = tpc[d] /\ carried'[d] = carried[d]
  BY <1>3, <1>6, <1>8 DEF TieredTypes, TieredPcs
<1>10. TieredTypes'
  BY <1>1, <1>2, <1>7, <1>9 DEF TieredTypes
<1>11. QED
  BY <1>1, <1>5, <1>7, <1>10 DEF one

Demoted(c, t) == put_all(tier[t], t, carried[c])

LEMMA DemoteTypes ==
  ASSUME TieredTypes, NEW c \in Thread, NEW t \in 1 .. 3, Demote(c, t)
  PROVE  /\ TieredTypes' /\ tier'[t] = Demoted(c, t).cache
         /\ \A s \in 1 .. 3 : s # t => tier'[s] = tier[s]
         /\ Demoted(c, t).evicted \in Pairs
         /\ Rising(tier[t], carried[c]) => Moved(tier[t], carried[c], Len(carried[c]), Demoted(c, t))
         /\ tpc[c] \in {"down2", "down3"} /\ t \in 2 .. 3
<1>1. tpc[c] \in {"down2", "down3"} /\ t \in 2 .. 3
  <2>1. t = 2 \/ t = 3
    BY DEF Demote
  <2>2. QED
    BY <2>1, TieredWords DEF Demote
<1>2. UNCHANGED <<latest, gone, key, got, overlap>>
  BY DEF Demote
<1> DEFINE all == Demoted(c, t)
<1>3. /\ tier' = [tier EXCEPT ![t] = all.cache] /\ dropped' = dropped \cup KeysOf(all.evicted)
      /\ carried' = [carried EXCEPT ![c] = <<>>] /\ tpc' = [tpc EXCEPT ![c] = "return"]
  BY DEF Demote, Demoted
<1>4. /\ PutState(all, t)
      /\ Rising(tier[t], carried[c]) => Moved(tier[t], carried[c], Len(carried[c]), all)
  BY PutAllIs DEF TieredTypes, Demoted
<1> HIDE DEF all
<1>5. Sane(all.cache, t) /\ all.evicted \in Pairs
  BY <1>4 DEF PutState
<1>6. /\ tier' = [s \in 1 .. 3 |-> tier'[s]] /\ \A s \in 1 .. 3 : Sane(tier'[s], s)
      /\ tier'[t] = all.cache /\ \A s \in 1 .. 3 : s # t => tier'[s] = tier[s]
  BY <1>3, <1>5, TierReplaced
<1>7. dropped' \subseteq Key
  <2>1. KeysOf(all.evicted) \subseteq Key
    BY <1>5, KeysOfIs
  <2>2. QED
    BY <1>3, <2>1 DEF TieredTypes
<1>8. /\ tpc' \in [Thread -> TieredPcs] /\ carried' \in [Thread -> Pairs]
      /\ tpc'[c] = "return" /\ carried'[c] = <<>>
      /\ \A d \in Thread : d # c => tpc'[d] = tpc[d] /\ carried'[d] = carried[d]
  <2>1. <<>> \in Pairs
    BY DEF Pairs
  <2>2. QED
    BY <1>3, <2>1 DEF TieredTypes, TieredPcs
<1>9. TieredTypes'
  BY <1>1, <1>2, <1>6, <1>7, <1>8 DEF TieredTypes
<1>10. QED
  BY <1>1, <1>4, <1>5, <1>6, <1>9 DEF all

LEMMA RemoveFromTypes ==
  ASSUME TieredTypes, NEW c \in Thread, NEW t \in 1 .. 3, RemoveFrom(c, t)
  PROVE  /\ TieredTypes' /\ DOMAIN tier'[t].entries = DOMAIN tier[t].entries \ {key[c]}
         /\ \A j \in DOMAIN tier'[t].entries : tier'[t].entries[j] = tier[t].entries[j]
         /\ \A s \in 1 .. 3 : s # t => tier'[s] = tier[s]
         /\ tpc[c] \in {"rm1", "rm2", "rm3"} /\ carried[c] = <<>> /\ got[c] = 0
<1>1. tpc[c] \in {"rm1", "rm2", "rm3"} /\ carried[c] = <<>> /\ got[c] = 0 /\ key[c] \in Key
  <2>1. tpc[c] \in {"rm1", "rm2", "rm3"}
    <3>1. t = 1 \/ t = 2 \/ t = 3
      OBVIOUS
    <3>2. QED
      BY <3>1, TieredWords DEF RemoveFrom
  <2>2. QED
    BY <2>1 DEF TieredTypes
<1>2. UNCHANGED <<latest, gone, key, carried, got, overlap, dropped>>
  BY DEF RemoveFrom
<1> DEFINE r == Removed(tier[t], key[c])
<1>3. tier' = [tier EXCEPT ![t] = r] /\ tpc' = [tpc EXCEPT ![c] = <<"rm2", "rm3", "return">>[t]]
  BY DEF RemoveFrom
<1>4. /\ Sane(r, t) /\ DOMAIN r.entries = DOMAIN tier[t].entries \ {key[c]}
      /\ \A j \in DOMAIN r.entries : r.entries[j] = tier[t].entries[j]
  BY RemovedIs DEF TieredTypes
<1> HIDE DEF r
<1>5. /\ tier' = [s \in 1 .. 3 |-> tier'[s]] /\ \A s \in 1 .. 3 : Sane(tier'[s], s)
      /\ tier'[t] = r /\ \A s \in 1 .. 3 : s # t => tier'[s] = tier[s]
  BY <1>3, <1>4, TierReplaced
<1>6. <<"rm2", "rm3", "return">>[t] \in {"rm2", "rm3", "return"}
  <2>1. t = 1 \/ t = 2 \/ t = 3
    OBVIOUS
  <2>2. QED
    BY <2>1, TieredWords
<1>7. /\ tpc' \in [Thread -> TieredPcs] /\ tpc'[c] \in {"rm2", "rm3", "return"}
      /\ \A d \in Thread : d # c => tpc'[d] = tpc[d]
  BY <1>3, <1>6 DEF TieredTypes, TieredPcs
<1>8. TieredTypes'
  BY <1>1, <1>2, <1>5, <1>7 DEF TieredTypes
<1>9. QED
  BY <1>1, <1>4, <1>5, <1>8

LEMMA ReturnOfTypes ==
  ASSUME TieredTypes, NEW c \in Thread, ReturnOf(c)
  PROVE  TieredTypes' /\ carried[c] = <<>>
<1>1. /\ tpc[c] = "return" /\ tpc' = [tpc EXCEPT ![c] = "idle"]
      /\ key' = [key EXCEPT ![c] = NoKey] /\ got' = [got EXCEPT ![c] = 0]
      /\ UNCHANGED <<tier, latest, gone, carried, overlap, dropped>>
  BY DEF ReturnOf
<1>2. /\ tpc' \in [Thread -> TieredPcs] /\ key' \in [Thread -> Key \cup {NoKey}] /\ got' \in [Thread -> Nat]
      /\ tpc'[c] = "idle" /\ got'[c] = 0 /\ carried[c] = <<>>
      /\ \A d \in Thread : d # c => tpc'[d] = tpc[d] /\ key'[d] = key[d] /\ got'[d] = got[d]
  BY <1>1 DEF TieredTypes, TieredPcs
<1>3. QED
  BY <1>1, <1>2 DEF TieredTypes

LEMMA TieredTypesInit == TieredInit => TieredTypes
<1> SUFFICES ASSUME TieredInit PROVE TieredTypes
  OBVIOUS
<1>1. /\ tier = [t \in 1 .. 3 |-> EmptyTier] /\ latest = [k \in Key |-> 0] /\ gone = [k \in Key |-> FALSE]
      /\ tpc = [c \in Thread |-> "idle"] /\ key = [c \in Thread |-> NoKey]
      /\ carried = [c \in Thread |-> <<>>] /\ got = [c \in Thread |-> 0]
      /\ overlap = FALSE /\ dropped = {}
  BY DEF TieredInit
<1>2. tier = [t \in 1 .. 3 |-> tier[t]] /\ \A t \in 1 .. 3 : Sane(tier[t], t)
  <2>1. \A t \in 1 .. 3 : tier[t] = EmptyTier
    BY <1>1
  <2>2. QED
    BY <1>1, <2>1, EmptyIs
<1>3. <<>> \in Pairs
  BY DEF Pairs
<1>4. carried \in [Thread -> Pairs]
  BY <1>1, <1>3
<1>5. QED
  BY <1>1, <1>2, <1>4 DEF TieredTypes, TieredPcs

LEMMA TieredTypesNext == TieredTypes /\ [TieredNext]_tieredVars => TieredTypes'
<1> SUFFICES ASSUME TieredTypes, [TieredNext]_tieredVars PROVE TieredTypes'
  OBVIOUS
<1>1. ASSUME NEW k \in Key, TieredPut(k) PROVE TieredTypes'
  BY <1>1, TieredPutTypes
<1>2. ASSUME NEW k \in Key, NEW c \in Thread, TieredGet(c, k) PROVE TieredTypes'
  <2>1. Call(c, k, "l1") /\ gone' \in [Key -> BOOLEAN]
    BY <1>2 DEF TieredGet, TieredTypes
  <2>2. QED
    BY <2>1, TieredCallTypes
<1>3. ASSUME NEW k \in Key, NEW c \in Thread, Invalidate(c, k) PROVE TieredTypes'
  <2>1. Call(c, k, "rm1") /\ gone' \in [Key -> BOOLEAN]
    BY <1>3 DEF Invalidate, TieredTypes
  <2>2. QED
    BY <2>1, TieredCallTypes
<1>4. ASSUME TieredClear PROVE TieredTypes'
  BY <1>4, TieredClearTypes
<1>5. ASSUME NEW c \in Thread, ReturnOf(c) PROVE TieredTypes'
  BY <1>5, ReturnOfTypes
<1>6. ASSUME NEW c \in Thread, NEW t \in 1 .. 3, LookIn(c, t) PROVE TieredTypes'
  BY <1>6, LookInTypes
<1>7. ASSUME NEW c \in Thread, NEW t \in 1 .. 3, Demote(c, t) PROVE TieredTypes'
  BY <1>7, DemoteTypes
<1>8. ASSUME NEW c \in Thread, NEW t \in 1 .. 3, RemoveFrom(c, t) PROVE TieredTypes'
  BY <1>8, RemoveFromTypes
<1>9. ASSUME NEW c \in Thread, NEW t \in 1 .. 2, Promote(c, t) PROVE TieredTypes'
  BY <1>9, PromoteTypes
<1>10. CASE UNCHANGED tieredVars
  BY <1>10 DEF TieredTypes, tieredVars
<1>11. QED
  BY <1>1, <1>2, <1>3, <1>4, <1>5, <1>6, <1>7, <1>8, <1>9, <1>10 DEF TieredNext

-----------------------------------------------------------------------------
(* TieredCache: while no two calls overlap.                                *)
Removing(c) == tpc[c] \in {"rm1", "rm2", "rm3"}
StillIn(c, t) == tpc[c] = "rm1" \/ (t >= 2 /\ tpc[c] = "rm2") \/ (t = 3 /\ tpc[c] = "rm3")

OneCall == \A c, d \in Thread : tpc[c] # "idle" /\ tpc[d] # "idle" => c = d

(* Copies of a key are older from tier to tier.                            *)
Descending ==
  /\ \A j \in Key, s, t \in 1 .. 3, x, y \in Nat :
       s < t /\ Holds(tier[s], j, x) /\ Holds(tier[t], j, y) => y <= x
  /\ \A j \in Key, s \in 1 .. 3, x \in Nat : Holds(tier[s], j, x) => x <= latest[j]

(* What a call has learned of its key.                                     *)
Learned(c) ==
  /\ tpc[c] \in {"l2", "l3", "up1", "up2"} => key[c] \notin DOMAIN tier[1].entries
  /\ tpc[c] \in {"l3", "up2"} => key[c] \notin DOMAIN tier[2].entries
  /\ tpc[c] = "up1" => Holds(tier[2], key[c], got[c])
  /\ tpc[c] = "up2" => Holds(tier[3], key[c], got[c])
  /\ Removing(c) => gone[key[c]]

(* What is carried down to tier t is between the copies above and below.   *)
Between(c, t) ==
  /\ \A i, h \in 1 .. Len(carried[c]) : carried[c][i][1] = carried[c][h][1] => i = h
  /\ \A j \in Key, x \in Nat : Among(carried[c], Len(carried[c]), j, x) =>
       /\ ~gone[j] /\ x <= latest[j]
       /\ \A s \in 1 .. 3, y \in Nat : Holds(tier[s], j, y) => IF s < t THEN x <= y ELSE y <= x
Carried(c) == (tpc[c] = "down2" => Between(c, 2)) /\ (tpc[c] = "down3" => Between(c, 3))

(* The version last put is somewhere.                                      *)
Somewhere(j, x) ==
  \/ \E t \in 1 .. 3 : Holds(tier[t], j, x)
  \/ \E c \in Thread : Among(carried[c], Len(carried[c]), j, x)
NotLost == \A j \in Key : j \notin dropped /\ ~gone[j] /\ latest[j] # 0 => Somewhere(j, latest[j])

(* A copy of an invalidated key is still to be removed.                    *)
Leaving ==
  \A j \in Key, t \in 1 .. 3 :
    gone[j] /\ j \in DOMAIN tier[t].entries => \E c \in Thread : key[c] = j /\ StillIn(c, t)

IsLatest(c) == got[c] # 0 /\ key[c] \notin dropped => got[c] = latest[key[c]]

Calm ==
  /\ OneCall /\ Descending /\ NotLost /\ Leaving
  /\ \A c \in Thread : Learned(c) /\ Carried(c) /\ IsLatest(c)

TieredInv == TieredTypes /\ (~overlap => Calm)

LEMMA Versions ==
  ASSUME TieredTypes
  PROVE  /\ \A t \in 1 .. 3 : \A j \in DOMAIN tier[t].entries :
              j \in Key /\ tier[t].entries[j] \in Nat /\ Holds(tier[t], j, tier[t].entries[j])
         /\ \A t \in 1 .. 3 : \A j, x : Holds(tier[t], j, x) => j \in DOMAIN tier[t].entries /\ j \in Key /\ x \in Nat
<1>1. ASSUME NEW t \in 1 .. 3, NEW j \in DOMAIN tier[t].entries
      PROVE  j \in Key /\ tier[t].entries[j] \in Nat /\ Holds(tier[t], j, tier[t].entries[j])
  <2>1. Whole(tier[t])
    BY DEF TieredTypes, Sane
  <2>2. tier[t].entries \in [DOMAIN tier[t].entries -> Nat] /\ DOMAIN tier[t].entries \subseteq Key
    BY <2>1, WholeIs
  <2>3. QED
    BY <2>2 DEF Holds
<1>2. QED
  BY <1>1 DEF Holds

LEMMA OthersRest ==
  ASSUME TieredTypes, Calm, NEW c \in Thread, tpc[c] # "idle"
  PROVE  /\ \A d \in Thread : d # c => tpc[d] = "idle" /\ carried[d] = <<>> /\ got[d] = 0
         /\ \A d \in Thread : \A j, x : Among(carried[d], Len(carried[d]), j, x) => d = c
         /\ ~Removing(c) => \A t \in 1 .. 3 : \A j \in DOMAIN tier[t].entries : ~gone[j]
<1>1. \A d \in Thread : d # c => tpc[d] = "idle" /\ carried[d] = <<>> /\ got[d] = 0
  BY DEF Calm, OneCall, TieredTypes
<1>2. ASSUME NEW d \in Thread, NEW j, NEW x, Among(carried[d], Len(carried[d]), j, x) PROVE d = c
  <2>1. ASSUME carried[d] = <<>> PROVE FALSE
    <3>1. 1 .. Len(carried[d]) = {}
      BY <2>1
    <3>2. QED
      BY <1>2, <3>1 DEF Among
  <2>2. QED
    BY <1>1, <2>1
<1>3. ASSUME ~Removing(c), NEW t \in 1 .. 3, NEW j \in DOMAIN tier[t].entries, gone[j] PROVE FALSE
  <2>1. j \in Key
    BY Versions
  <2>2. PICK d \in Thread : StillIn(d, t)
    BY <1>3, <2>1 DEF Calm, Leaving
  <2>3. tpc[d] # "idle"
    BY <2>2 DEF StillIn
  <2>4. QED
    BY <1>1, <1>3, <2>2, <2>3 DEF StillIn, Removing
<1>4. QED
  BY <1>1, <1>2, <1>3

LEMMA AloneRest ==
  ASSUME TieredTypes, Calm, Alone
  PROVE  /\ \A d \in Thread : carried[d] = <<>> /\ got[d] = 0
         /\ \A d \in Thread : \A j, x : ~Among(carried[d], Len(carried[d]), j, x)
         /\ \A t \in 1 .. 3 : \A j \in DOMAIN tier[t].entries : ~gone[j]
<1>1. \A d \in Thread : carried[d] = <<>> /\ got[d] = 0 /\ tpc[d] = "idle"
  BY DEF Alone, TieredTypes
<1>2. ASSUME NEW d \in Thread, NEW j, NEW x, Among(carried[d], Len(carried[d]), j, x) PROVE FALSE
  <2>1. 1 .. Len(carried[d]) = {}
    BY <1>1
  <2>2. QED
    BY <1>2, <2>1 DEF Among
<1>3. ASSUME NEW t \in 1 .. 3, NEW j \in DOMAIN tier[t].entries, gone[j] PROVE FALSE
  <2>1. j \in Key
    BY Versions
  <2>2. PICK d \in Thread : StillIn(d, t)
    BY <1>3, <2>1 DEF Calm, Leaving
  <2>3. QED
    BY <1>1, <2>2 DEF StillIn
<1>4. QED
  BY <1>1, <1>2, <1>3

LEMMA CalmClear ==
  ASSUME TieredTypes, TieredClear
  PROVE  Calm'
<1>1. TieredTypes' /\ \A t \in 1 .. 3 : DOMAIN tier'[t].entries = {}
  BY TieredClearTypes
<1>2. /\ \A c \in Thread : tpc'[c] = "idle" /\ got'[c] = 0
      /\ \A j \in Key : gone'[j]
  <2>1. UNCHANGED thread /\ Alone /\ gone' = [j \in Key |-> TRUE]
    BY DEF TieredClear
  <2>2. QED
    BY <2>1 DEF thread, Alone, TieredTypes
<1>3. \A t \in 1 .. 3 : \A j, x : ~Holds(tier'[t], j, x)
  BY <1>1 DEF Holds
<1>4. OneCall' /\ Descending' /\ NotLost' /\ Leaving'
  BY <1>1, <1>2, <1>3 DEF OneCall, Descending, NotLost, Leaving
<1>5. \A c \in Thread : Learned(c)' /\ Carried(c)' /\ IsLatest(c)'
  BY <1>2 DEF Learned, Carried, IsLatest, Removing
<1>6. QED
  BY <1>4, <1>5 DEF Calm

LEMMA CalmCall ==
  ASSUME TieredTypes, Calm, NEW c \in Thread, NEW k \in Key, NEW l \in {"l1", "rm1"}, Call(c, k, l), Alone,
         IF l = "l1" THEN gone' = gone ELSE gone' = [gone EXCEPT ![k] = TRUE]
  PROVE  Calm'
<1>1. tpc' = [tpc EXCEPT ![c] = l] /\ key' = [key EXCEPT ![c] = k]
      /\ UNCHANGED <<tier, latest, carried, got, dropped>>
  BY DEF Call
<1>2. /\ tpc'[c] = l /\ key'[c] = k
      /\ \A d \in Thread : d # c => tpc'[d] = "idle"
      /\ \A d \in Thread : got'[d] = 0
  BY <1>1, AloneRest DEF TieredTypes, Alone
<1>3. \A j \in Key : /\ gone[j] => gone'[j]
                     /\ gone'[j] => gone[j] \/ (j = k /\ l = "rm1")
                     /\ l = "rm1" => gone'[k]
  BY DEF TieredTypes
<1>4. OneCall'
  BY <1>2 DEF OneCall
<1>5. Descending'
  BY <1>1 DEF Calm, Descending
<1>6. NotLost'
  <2> SUFFICES ASSUME NEW j \in Key, j \notin dropped', ~gone'[j], latest'[j] # 0
               PROVE  Somewhere(j, latest[j])'
    BY DEF NotLost
  <2>1. Somewhere(j, latest[j])
    BY <1>1, <1>3 DEF Calm, NotLost
  <2>2. QED
    BY <1>1, <2>1 DEF Somewhere
<1>7. Leaving'
  <2> SUFFICES ASSUME NEW j \in Key, NEW t \in 1 .. 3, gone'[j], j \in DOMAIN tier'[t].entries
               PROVE  \E d \in Thread : key'[d] = j /\ StillIn(d, t)'
    BY DEF Leaving
  <2>1. ~gone[j]
    BY <1>1, AloneRest
  <2>2. j = k /\ l = "rm1"
    BY <1>3, <2>1
  <2>3. key'[c] = j /\ StillIn(c, t)'
    BY <1>2, <2>2 DEF StillIn
  <2>4. QED
    BY <2>3
<1>8. \A d \in Thread : Learned(d)' /\ Carried(d)' /\ IsLatest(d)'
  BY <1>2, <1>3 DEF Learned, Carried, IsLatest, Removing
<1>9. QED
  BY <1>4, <1>5, <1>6, <1>7, <1>8 DEF Calm

LEMMA CalmReturn ==
  ASSUME TieredTypes, Calm, NEW c \in Thread, ReturnOf(c)
  PROVE  Calm'
<1>1. /\ tpc[c] = "return" /\ tpc' = [tpc EXCEPT ![c] = "idle"]
      /\ key' = [key EXCEPT ![c] = NoKey] /\ got' = [got EXCEPT ![c] = 0]
      /\ UNCHANGED <<tier, latest, gone, carried, overlap, dropped>>
  BY DEF ReturnOf
<1>2. \A d \in Thread : tpc'[d] = "idle" /\ got'[d] = 0
  <2>1. \A d \in Thread : d # c => tpc[d] = "idle" /\ got[d] = 0
    BY <1>1, OthersRest
  <2>2. QED
    BY <1>1, <2>1 DEF TieredTypes
<1>3. OneCall' /\ \A d \in Thread : Learned(d)' /\ Carried(d)' /\ IsLatest(d)'
  BY <1>2 DEF OneCall, Learned, Carried, IsLatest, Removing
<1>4. Descending'
  BY <1>1 DEF Calm, Descending
<1>5. NotLost'
  <2>1. NotLost
    BY DEF Calm
  <2>2. QED
    BY <1>1, <2>1 DEF NotLost, Somewhere
<1>6. Leaving'
  <2>1. \A t \in 1 .. 3 : \A j \in DOMAIN tier[t].entries : ~gone[j]
    BY <1>1, OthersRest DEF Removing
  <2>2. QED
    BY <1>1, <2>1 DEF Leaving
<1>7. QED
  BY <1>3, <1>4, <1>5, <1>6 DEF Calm

LEMMA CalmLookIn ==
  ASSUME TieredTypes, Calm, NEW c \in Thread, NEW t \in 1 .. 3, LookIn(c, t)
  PROVE  Calm'
<1>1. /\ UNCHANGED <<latest, gone, key, carried, overlap, dropped>>
      /\ \A s \in 1 .. 3 : tier'[s].entries = tier[s].entries
  BY LookInTypes DEF LookIn
<1>2. \A s \in 1 .. 3 : \A j, x : Holds(tier'[s], j, x) <=> Holds(tier[s], j, x)
  BY <1>1 DEF Holds
<1>3. /\ (t = 1 /\ tpc[c] = "l1") \/ (t = 2 /\ tpc[c] = "l2") \/ (t = 3 /\ tpc[c] = "l3")
      /\ tpc[c] # "idle" /\ ~Removing(c)
  <2>1. (t = 1 /\ tpc[c] = "l1") \/ (t = 2 /\ tpc[c] = "l2") \/ (t = 3 /\ tpc[c] = "l3")
    <3>1. t = 1 \/ t = 2 \/ t = 3
      OBVIOUS
    <3>2. QED
      BY <3>1, TieredWords DEF LookIn
  <2>2. QED
    BY <2>1 DEF Removing
<1>4. /\ \A d \in Thread : d # c => tpc[d] = "idle" /\ got[d] = 0 /\ carried[d] = <<>>
      /\ \A s \in 1 .. 3 : \A j \in DOMAIN tier[s].entries : ~gone[j]
      /\ carried[c] = <<>> /\ got[c] = 0 /\ key[c] \in Key
  BY <1>3, OthersRest DEF TieredTypes
<1>5. \A s \in 1 .. 3 : s < t => key[c] \notin DOMAIN tier[s].entries
  <2>1. Learned(c)
    BY DEF Calm
  <2>2. QED
    BY <1>3, <2>1 DEF Learned
<1>6. \A d \in Thread : d # c => tpc'[d] = "idle" /\ got'[d] = 0
  <2>1. \A d \in Thread : d # c => tpc'[d] = tpc[d] /\ got'[d] = got[d]
    BY DEF LookIn, TieredTypes
  <2>2. QED
    BY <1>4, <2>1
<1>7. OneCall'
  BY <1>6 DEF OneCall
<1>8. Descending'
  BY <1>1, <1>2 DEF Calm, Descending
<1>9. NotLost'
  <2>1. NotLost
    BY DEF Calm
  <2>2. QED
    BY <1>1, <1>2, <2>1 DEF NotLost, Somewhere
<1>10. Leaving'
  BY <1>1, <1>4 DEF Leaving
<1>11. \A d \in Thread : d # c => Learned(d)' /\ Carried(d)' /\ IsLatest(d)'
  BY <1>6 DEF Learned, Carried, IsLatest, Removing
<1>12. Learned(c)' /\ Carried(c)' /\ IsLatest(c)'
  <2>1. CASE Has(t, key[c])
    <3> DEFINE x == tier[t].entries[key[c]]
    <3>1. /\ got' = [got EXCEPT ![c] = x] /\ tpc' = [tpc EXCEPT ![c] = <<"return", "up1", "up2">>[t]]
      BY <2>1 DEF LookIn
    <3>2. got'[c] = x /\ tpc'[c] = <<"return", "up1", "up2">>[t]
      BY <3>1 DEF TieredTypes
    <3>3. Holds(tier[t], key[c], x) /\ x \in Nat
      BY <2>1, Versions DEF Has
    <3> HIDE DEF x
    <3>4. /\ t = 1 => tpc'[c] = "return"
          /\ t = 2 => tpc'[c] = "up1"
          /\ t = 3 => tpc'[c] = "up2"
          /\ tpc'[c] \in {"return", "up1", "up2"}
      BY <1>3, <3>2, TieredWords
    <3>5. Learned(c)'
      BY <1>1, <1>2, <1>3, <1>5, <3>2, <3>3, <3>4 DEF Learned, Removing
    <3>6. Carried(c)'
      BY <3>4 DEF Carried
    <3>7. ASSUME x # 0, key[c] \notin dropped PROVE x = latest[key[c]]
      <4>1. x <= latest[key[c]] /\ latest[key[c]] \in Nat
        BY <1>4, <3>3 DEF Calm, Descending, TieredTypes
      <4>2. ~gone[key[c]] /\ latest[key[c]] # 0
        <5>1. key[c] \in DOMAIN tier[t].entries
          BY <2>1 DEF Has
        <5>2. QED
          BY <1>4, <3>3, <3>7, <4>1, <5>1
      <4>3. Somewhere(key[c], latest[key[c]])
        BY <1>4, <3>7, <4>2 DEF Calm, NotLost
      <4>4. PICK s \in 1 .. 3 : Holds(tier[s], key[c], latest[key[c]])
        <5>1. \A d \in Thread : carried[d] = <<>>
          BY <1>4
        <5>2. \A d \in Thread : 1 .. Len(carried[d]) = {}
          BY <5>1
        <5>3. \A d \in Thread : \A j, y : ~Among(carried[d], Len(carried[d]), j, y)
          BY <5>2 DEF Among
        <5>4. QED
          BY <4>3, <5>3 DEF Somewhere
      <4>5. ~(s < t)
        BY <1>5, <4>4 DEF Holds
      <4>6. CASE s = t
        BY <3>3, <4>4, <4>6 DEF Holds
      <4>7. CASE t < s
        <5>1. latest[key[c]] <= x
          BY <1>4, <3>3, <4>1, <4>4, <4>7 DEF Calm, Descending
        <5>2. QED
          BY <3>3, <4>1, <5>1
      <4>8. QED
        BY <4>5, <4>6, <4>7
    <3>8. IsLatest(c)'
      BY <1>1, <3>2, <3>7 DEF IsLatest
    <3>9. QED
      BY <3>5, <3>6, <3>8
  <2>2. CASE ~Has(t, key[c])
    <3>1. tpc' = [tpc EXCEPT ![c] = <<"l2", "l3", "return">>[t]] /\ UNCHANGED <<tier, got>>
      BY <2>2 DEF LookIn
    <3>2. got'[c] = 0 /\ tpc'[c] = <<"l2", "l3", "return">>[t]
      BY <1>4, <3>1 DEF TieredTypes
    <3>3. /\ t = 1 => tpc'[c] = "l2"
          /\ t = 2 => tpc'[c] = "l3"
          /\ t = 3 => tpc'[c] = "return"
      BY <3>2, TieredWords
    <3>4. key[c] \notin DOMAIN tier[t].entries
      BY <2>2 DEF Has
    <3>5. Learned(c)'
      BY <1>1, <1>3, <1>5, <3>3, <3>4 DEF Learned, Removing
    <3>6. Carried(c)' /\ IsLatest(c)'
      BY <1>3, <3>2, <3>3 DEF Carried, IsLatest
    <3>7. QED
      BY <3>5, <3>6
  <2>3. QED
    BY <2>1, <2>2
<1>13. QED
  BY <1>7, <1>8, <1>9, <1>10, <1>11, <1>12 DEF Calm

LEMMA CalmRemove ==
  ASSUME TieredTypes, Calm, NEW c \in Thread, NEW t \in 1 .. 3, RemoveFrom(c, t)
  PROVE  Calm'
<1>1. /\ DOMAIN tier'[t].entries = DOMAIN tier[t].entries \ {key[c]}
      /\ \A j \in DOMAIN tier'[t].entries : tier'[t].entries[j] = tier[t].entries[j]
      /\ \A s \in 1 .. 3 : s # t => tier'[s] = tier[s]
      /\ carried[c] = <<>> /\ got[c] = 0
      /\ UNCHANGED <<latest, gone, key, carried, got, overlap, dropped>>
  BY RemoveFromTypes DEF RemoveFrom
<1>2. /\ \A s \in 1 .. 3 : \A j, x : Holds(tier'[s], j, x) => Holds(tier[s], j, x)
      /\ \A s \in 1 .. 3 : \A j, x : Holds(tier[s], j, x) /\ j # key[c] => Holds(tier'[s], j, x)
      /\ \A s \in 1 .. 3 : DOMAIN tier'[s].entries \subseteq DOMAIN tier[s].entries
  BY <1>1 DEF Holds
<1>3. /\ (t = 1 /\ tpc[c] = "rm1" /\ tpc'[c] = "rm2") \/ (t = 2 /\ tpc[c] = "rm2" /\ tpc'[c] = "rm3")
           \/ (t = 3 /\ tpc[c] = "rm3" /\ tpc'[c] = "return")
      /\ \A d \in Thread : d # c => tpc'[d] = tpc[d]
  <2>1. t = 1 \/ t = 2 \/ t = 3
    OBVIOUS
  <2>2. tpc[c] = <<"rm1", "rm2", "rm3">>[t] /\ tpc' = [tpc EXCEPT ![c] = <<"rm2", "rm3", "return">>[t]]
    BY DEF RemoveFrom
  <2>3. tpc'[c] = <<"rm2", "rm3", "return">>[t] /\ \A d \in Thread : d # c => tpc'[d] = tpc[d]
    BY <2>2 DEF TieredTypes
  <2>4. QED
    BY <2>1, <2>2, <2>3, TieredWords
<1>4. \A d \in Thread : d # c => tpc'[d] = "idle" /\ got'[d] = 0
  BY <1>1, <1>3, OthersRest
<1>5. gone[key[c]] /\ Removing(c)
  BY <1>3 DEF Calm, Learned, Removing
<1>6. OneCall' /\ Descending'
  BY <1>1, <1>2, <1>4 DEF Calm, OneCall, Descending
<1>7. NotLost'
  <2> SUFFICES ASSUME NEW j \in Key, j \notin dropped', ~gone'[j], latest'[j] # 0
               PROVE  Somewhere(j, latest[j])'
    BY DEF NotLost
  <2>1. Somewhere(j, latest[j]) /\ j # key[c]
    BY <1>1, <1>5 DEF Calm, NotLost
  <2>2. QED
    BY <1>1, <1>2, <2>1 DEF Somewhere
<1>8. Leaving'
  <2> SUFFICES ASSUME NEW j \in Key, NEW s \in 1 .. 3, gone'[j], j \in DOMAIN tier'[s].entries
               PROVE  \E d \in Thread : key'[d] = j /\ StillIn(d, s)'
    BY DEF Leaving
  <2>1. PICK d \in Thread : key[d] = j /\ StillIn(d, s)
    BY <1>1, <1>2 DEF Calm, Leaving
  <2>2. d = c
    <3>1. tpc[d] # "idle" /\ tpc[c] # "idle"
      BY <1>3, <2>1 DEF StillIn
    <3>2. QED
      BY <3>1 DEF Calm, OneCall
  <2>3. s # t
    BY <1>1, <2>1, <2>2
  <2>4. StillIn(c, s)'
    BY <1>3, <2>1, <2>2, <2>3 DEF StillIn
  <2>5. QED
    BY <1>1, <2>1, <2>2, <2>4
<1>9. \A d \in Thread : d # c => Learned(d)' /\ Carried(d)' /\ IsLatest(d)'
  BY <1>4 DEF Learned, Carried, IsLatest, Removing
<1>10. Learned(c)' /\ Carried(c)' /\ IsLatest(c)'
  BY <1>1, <1>3, <1>5 DEF Learned, Carried, IsLatest, Removing
<1>11. QED
  BY <1>6, <1>7, <1>8, <1>9, <1>10 DEF Calm

LEMMA CalmPromote ==
  ASSUME TieredTypes, Calm, NEW c \in Thread, NEW t \in 1 .. 2, Promote(c, t)
  PROVE  Calm'
<1> DEFINE one == Promoted(c, t)
           k == key[c]
           v == got[c]
<1>1. /\ tier'[t] = one.cache /\ \A s \in 1 .. 3 : s # t => tier'[s] = tier[s]
      /\ Stored(tier[t], one, k, v) /\ carried[c] = <<>>
  BY PromoteTypes
<1>2. /\ carried' = [carried EXCEPT ![c] = one.evicted]
      /\ tpc' = [tpc EXCEPT ![c] = IF one.evicted = <<>> THEN "return" ELSE <<"down2", "down3">>[t]]
      /\ UNCHANGED <<latest, gone, key, got, overlap, dropped>>
  BY DEF Promote, Promoted
<1>3. /\ (t = 1 /\ tpc[c] = "up1") \/ (t = 2 /\ tpc[c] = "up2")
      /\ tpc[c] # "idle" /\ ~Removing(c) /\ k \in Key /\ v \in Nat
  <2>1. (t = 1 /\ tpc[c] = "up1") \/ (t = 2 /\ tpc[c] = "up2")
    <3>1. t = 1 \/ t = 2
      OBVIOUS
    <3>2. QED
      BY <3>1, TieredWords DEF Promote
  <2>2. QED
    BY <2>1 DEF Removing, TieredTypes
<1>4. Effect(tier[t], one, k, v)
  BY <1>1, StoredVersions
<1>5. \A i, h \in 1 .. Len(one.evicted) : one.evicted[i][1] = one.evicted[h][1] => i = h
  BY <1>1 DEF Stored
<1> HIDE DEF one
<1>6. /\ one.evicted \in Pairs /\ Holds(one.cache, k, v)
      /\ \A j, x : Holds(one.cache, j, x) => (j = k /\ x = v) \/ (j # k /\ Holds(tier[t], j, x))
      /\ \A j, x : Among(one.evicted, Len(one.evicted), j, x)
                     => j # k /\ Holds(tier[t], j, x) /\ ~(j \in DOMAIN one.cache.entries)
      /\ \A j, x : j # k /\ Holds(tier[t], j, x)
                     => Holds(one.cache, j, x) \/ Among(one.evicted, Len(one.evicted), j, x)
  BY <1>4, Zenon DEF Effect
<1>7. /\ carried'[c] = one.evicted /\ \A d \in Thread : d # c => carried'[d] = carried[d] /\ tpc'[d] = tpc[d]
      /\ tpc'[c] = "return" \/ (t = 1 /\ tpc'[c] = "down2") \/ (t = 2 /\ tpc'[c] = "down3")
  <2>1. t = 1 \/ t = 2
    OBVIOUS
  <2>2. /\ carried'[c] = one.evicted /\ \A d \in Thread : d # c => carried'[d] = carried[d] /\ tpc'[d] = tpc[d]
        /\ tpc'[c] = IF one.evicted = <<>> THEN "return" ELSE <<"down2", "down3">>[t]
    BY <1>2 DEF TieredTypes
  <2>3. QED
    BY <2>1, <2>2, TieredWords
<1>8. /\ \A d \in Thread : d # c => tpc[d] = "idle" /\ got[d] = 0
      /\ \A d \in Thread : \A j, x : ~Among(carried[d], Len(carried[d]), j, x)
      /\ \A s \in 1 .. 3 : \A j \in DOMAIN tier[s].entries : ~gone[j]
  <2>1. \A j, x : ~Among(carried[c], Len(carried[c]), j, x)
    <3>1. 1 .. Len(carried[c]) = {}
      BY <1>1
    <3>2. QED
      BY <3>1 DEF Among
  <2>2. QED
    BY <1>3, <2>1, OthersRest
<1>9. /\ t + 1 \in 1 .. 3 /\ t \in 1 .. 3 /\ Holds(tier[t + 1], k, v)
      /\ \A s \in 1 .. 3 : s <= t => k \notin DOMAIN tier[s].entries
  <2>1. Learned(c)
    BY DEF Calm
  <2>2. \A s \in 1 .. 3 : s = 1 \/ s = 2 \/ s = 3
    OBVIOUS
  <2>3. CASE t = 1 /\ tpc[c] = "up1"
    BY <2>1, <2>2, <2>3 DEF Learned
  <2>4. CASE t = 2 /\ tpc[c] = "up2"
    BY <2>1, <2>2, <2>4 DEF Learned
  <2>5. QED
    BY <1>3, <2>3, <2>4
<1>10. ~gone[k]
  BY <1>8, <1>9 DEF Holds
<1>11. \A s \in 1 .. 3 : \A j, x : Holds(tier'[s], j, x) =>
         \/ Holds(tier[s], j, x) /\ ~(s = t /\ j = k)
         \/ s = t /\ j = k /\ x = v
  BY <1>1, <1>6, <1>9 DEF Holds
<1>12. OneCall'
  BY <1>7, <1>8 DEF OneCall
<1>13. Descending'
  <2>1. ASSUME NEW j \in Key, NEW s \in 1 .. 3, NEW r \in 1 .. 3, NEW x \in Nat, NEW y \in Nat,
               s < r, Holds(tier'[s], j, x), Holds(tier'[r], j, y)
        PROVE  y <= x
    <3>1. CASE Holds(tier[s], j, x) /\ Holds(tier[r], j, y)
      BY <2>1, <3>1 DEF Calm, Descending
    <3>2. CASE s = t /\ j = k /\ x = v
      <4>1. Holds(tier[r], k, y)
        BY <1>11, <2>1, <3>2
      <4>2. CASE r = t + 1
        BY <1>9, <3>2, <4>1, <4>2 DEF Holds
      <4>3. CASE r # t + 1
        <5>1. t + 1 < r
          BY <2>1, <3>2, <4>3
        <5>2. QED
          BY <1>3, <1>9, <3>2, <4>1, <5>1 DEF Calm, Descending
      <4>4. QED
        BY <4>2, <4>3
    <3>3. CASE r = t /\ j = k /\ y = v
      <4>1. Holds(tier[s], k, x)
        BY <1>11, <2>1, <3>3
      <4>2. k \notin DOMAIN tier[s].entries
        BY <1>9, <2>1, <3>3
      <4>3. QED
        BY <4>1, <4>2 DEF Holds
    <3>4. QED
      BY <1>11, <2>1, <3>1, <3>2, <3>3
  <2>2. ASSUME NEW j \in Key, NEW s \in 1 .. 3, NEW x \in Nat, Holds(tier'[s], j, x) PROVE x <= latest'[j]
    <3>1. CASE Holds(tier[s], j, x)
      BY <1>2, <3>1 DEF Calm, Descending
    <3>2. CASE j = k /\ x = v
      BY <1>2, <1>9, <3>2 DEF Calm, Descending
    <3>3. QED
      BY <1>11, <2>2, <3>1, <3>2
  <2>3. QED
    BY <2>1, <2>2 DEF Descending
<1>14. NotLost'
  <2> SUFFICES ASSUME NEW j \in Key, j \notin dropped', ~gone'[j], latest'[j] # 0
               PROVE  Somewhere(j, latest[j])'
    BY DEF NotLost
  <2>1. Somewhere(j, latest[j])
    BY <1>2 DEF Calm, NotLost
  <2>2. PICK s \in 1 .. 3 : Holds(tier[s], j, latest[j])
    BY <1>8, <2>1 DEF Somewhere
  <2>3. CASE s # t
    <3>1. Holds(tier'[s], j, latest'[j])
      BY <1>1, <1>2, <2>2, <2>3
    <3>2. QED
      BY <3>1 DEF Somewhere
  <2>4. CASE s = t
    <3>1. j # k
      BY <1>9, <2>2, <2>4 DEF Holds
    <3>2. Holds(tier'[t], j, latest'[j]) \/ Among(carried'[c], Len(carried'[c]), j, latest'[j])
      BY <1>1, <1>2, <1>6, <1>7, <2>2, <2>4, <3>1
    <3>3. QED
      BY <1>9, <3>2 DEF Somewhere
  <2>5. QED
    BY <2>3, <2>4
<1>15. Leaving'
  <2> SUFFICES ASSUME NEW j \in Key, NEW s \in 1 .. 3, gone'[j], j \in DOMAIN tier'[s].entries PROVE FALSE
    BY DEF Leaving
  <2>1. Holds(tier'[s], j, tier'[s].entries[j])
    BY DEF Holds
  <2>2. j \in DOMAIN tier[s].entries \/ j = k
    BY <1>11, <2>1 DEF Holds
  <2>3. QED
    BY <1>2, <1>8, <1>10, <2>2
<1>16. \A d \in Thread : d # c => Learned(d)' /\ Carried(d)' /\ IsLatest(d)'
  BY <1>2, <1>7, <1>8 DEF Learned, Carried, IsLatest, Removing
<1>17. Learned(c)' /\ IsLatest(c)'
  <2>1. IsLatest(c)
    BY DEF Calm
  <2>2. QED
    BY <1>2, <1>7, <2>1 DEF Learned, IsLatest, Removing
<1>18. Between(c, t + 1)'
  <2>1. ASSUME NEW j \in Key, NEW x \in Nat, Among(one.evicted, Len(one.evicted), j, x)
        PROVE  /\ ~gone'[j] /\ x <= latest'[j]
               /\ \A s \in 1 .. 3, y \in Nat :
                    Holds(tier'[s], j, y) => IF s < t + 1 THEN x <= y ELSE y <= x
    <3>1. j # k /\ Holds(tier[t], j, x) /\ ~(j \in DOMAIN tier'[t].entries)
      BY <1>1, <1>6, <2>1
    <3>2. ~gone'[j] /\ x <= latest'[j]
      BY <1>2, <1>8, <1>9, <3>1 DEF Calm, Descending, Holds
    <3>3. ASSUME NEW s \in 1 .. 3, NEW y \in Nat, Holds(tier'[s], j, y)
          PROVE  IF s < t + 1 THEN x <= y ELSE y <= x
      <4>1. s # t
        BY <3>1, <3>3 DEF Holds
      <4>2. Holds(tier[s], j, y)
        BY <1>1, <3>3, <4>1
      <4>3. CASE s < t
        BY <1>9, <3>1, <4>2, <4>3 DEF Calm, Descending
      <4>4. CASE t < s
        BY <1>9, <3>1, <4>2, <4>4 DEF Calm, Descending
      <4>5. QED
        BY <4>1, <4>3, <4>4
    <3>4. QED
      BY <3>2, <3>3
  <2>2. QED
    BY <1>5, <1>7, <2>1 DEF Between
<1>19. Carried(c)'
  <2>1. CASE t = 1
    BY <1>7, <1>18, <2>1 DEF Carried
  <2>2. CASE t = 2
    BY <1>7, <1>18, <2>2 DEF Carried
  <2>3. QED
    BY <2>1, <2>2
<1>20. QED
  BY <1>12, <1>13, <1>14, <1>15, <1>16, <1>17, <1>19 DEF Calm

LEMMA CalmDemote ==
  ASSUME TieredTypes, Calm, NEW c \in Thread, NEW t \in 1 .. 3, Demote(c, t)
  PROVE  Calm'
<1> DEFINE all == Demoted(c, t)
           s0 == carried[c]
<1>1. /\ tier'[t] = all.cache /\ \A s \in 1 .. 3 : s # t => tier'[s] = tier[s]
      /\ all.evicted \in Pairs /\ t \in 2 .. 3
      /\ Rising(tier[t], s0) => Moved(tier[t], s0, Len(s0), all)
  BY DemoteTypes
<1>2. /\ dropped' = dropped \cup KeysOf(all.evicted) /\ carried' = [carried EXCEPT ![c] = <<>>]
      /\ tpc' = [tpc EXCEPT ![c] = "return"]
      /\ UNCHANGED <<latest, gone, key, got, overlap>>
  BY DEF Demote, Demoted
<1>3. /\ (t = 2 /\ tpc[c] = "down2") \/ (t = 3 /\ tpc[c] = "down3")
      /\ tpc[c] # "idle" /\ ~Removing(c) /\ s0 \in Pairs
  <2>1. (t = 2 /\ tpc[c] = "down2") \/ (t = 3 /\ tpc[c] = "down3")
    <3>1. t = 2 \/ t = 3
      BY <1>1
    <3>2. QED
      BY <3>1, TieredWords DEF Demote
  <2>2. QED
    BY <2>1 DEF Removing, TieredTypes
<1>4. /\ carried'[c] = <<>> /\ tpc'[c] = "return"
      /\ \A d \in Thread : d # c => carried'[d] = carried[d] /\ tpc'[d] = tpc[d]
  BY <1>2 DEF TieredTypes
<1>5. /\ \A d \in Thread : d # c => tpc[d] = "idle" /\ got[d] = 0
      /\ \A d \in Thread : \A j, x : Among(carried[d], Len(carried[d]), j, x) => d = c
      /\ \A s \in 1 .. 3 : \A j \in DOMAIN tier[s].entries : ~gone[j]
  BY <1>3, OthersRest
<1>6. Between(c, t)
  <2>1. Carried(c)
    BY DEF Calm
  <2>2. QED
    BY <1>3, <2>1 DEF Carried
<1>7. /\ \A i, h \in 1 .. Len(s0) : s0[i][1] = s0[h][1] => i = h
      /\ \A j \in Key, x \in Nat : Among(s0, Len(s0), j, x) =>
           /\ ~gone[j] /\ x <= latest[j]
           /\ \A s \in 1 .. 3, y \in Nat : Holds(tier[s], j, y) => IF s < t THEN x <= y ELSE y <= x
  BY <1>6 DEF Between
<1>8. Rising(tier[t], s0)
  <2>1. ASSUME NEW i \in 1 .. Len(s0), NEW x \in Nat, Holds(tier[t], s0[i][1], x) PROVE x <= s0[i][2]
    <3>1. s0[i] = <<s0[i][1], s0[i][2]>> /\ s0[i][1] \in Key /\ s0[i][2] \in Nat
      BY <1>3, PairIs
    <3>2. Among(s0, Len(s0), s0[i][1], s0[i][2])
      BY <3>1 DEF Among
    <3>3. QED
      BY <1>7, <2>1, <3>1, <3>2
  <2>2. QED
    BY <1>3, <1>7, <2>1 DEF Rising, Pairs
<1>9. Moved(tier[t], s0, Len(s0), all)
  BY <1>1, <1>8
<1>10. KeysOf(all.evicted) \subseteq Key /\ \A j, x : Among(all.evicted, Len(all.evicted), j, x) => j \in KeysOf(all.evicted)
  BY <1>1, KeysOfIs
<1>11. \A r \in 1 .. 3 : \A j, x : Holds(tier'[r], j, x) => j \in Key /\ x \in Nat
  <2>1. TieredTypes'
    BY DemoteTypes
  <2>2. ASSUME NEW r \in 1 .. 3, NEW j, NEW x, Holds(tier'[r], j, x) PROVE j \in Key /\ x \in Nat
    <3>1. Whole(tier'[r])
      BY <2>1 DEF TieredTypes, Sane
    <3>2. tier'[r].entries \in [DOMAIN tier'[r].entries -> Nat] /\ DOMAIN tier'[r].entries \subseteq Key
      BY <3>1, WholeIs
    <3>3. QED
      BY <2>2, <3>2 DEF Holds
  <2>3. QED
    BY <2>2
<1> HIDE DEF all, s0
<1>12. \A s \in 1 .. 3, j \in Key, x \in Nat : Holds(tier'[s], j, x) =>
         Holds(tier[s], j, x) \/ (s = t /\ Among(s0, Len(s0), j, x))
  BY <1>1, <1>9 DEF Moved, Had
<1>13. OneCall'
  BY <1>4, <1>5 DEF OneCall
<1>14. Descending'
  <2>1. ASSUME NEW j \in Key, NEW s \in 1 .. 3, NEW r \in 1 .. 3, NEW x \in Nat, NEW y \in Nat,
               s < r, Holds(tier'[s], j, x), Holds(tier'[r], j, y)
        PROVE  y <= x
    <3>1. CASE Holds(tier[s], j, x) /\ Holds(tier[r], j, y)
      BY <2>1, <3>1 DEF Calm, Descending
    <3>2. CASE s = t /\ Among(s0, Len(s0), j, x)
      <4>1. Holds(tier[r], j, y) /\ ~(r < t)
        BY <1>12, <2>1, <3>2
      <4>2. QED
        BY <1>7, <3>2, <4>1
    <3>3. CASE r = t /\ Among(s0, Len(s0), j, y)
      <4>1. Holds(tier[s], j, x) /\ s < t
        BY <1>12, <2>1, <3>3
      <4>2. QED
        BY <1>7, <3>3, <4>1
    <3>4. QED
      BY <1>12, <2>1, <3>1, <3>2, <3>3
  <2>2. ASSUME NEW j \in Key, NEW s \in 1 .. 3, NEW x \in Nat, Holds(tier'[s], j, x) PROVE x <= latest'[j]
    <3>1. CASE Holds(tier[s], j, x)
      BY <1>2, <3>1 DEF Calm, Descending
    <3>2. CASE Among(s0, Len(s0), j, x)
      BY <1>2, <1>7, <3>2
    <3>3. QED
      BY <1>12, <2>2, <3>1, <3>2
  <2>3. QED
    BY <2>1, <2>2 DEF Descending
<1>15. NotLost'
  <2> SUFFICES ASSUME NEW j \in Key, j \notin dropped', ~gone'[j], latest'[j] # 0
               PROVE  Somewhere(j, latest[j])'
    BY DEF NotLost
  <2>1. Somewhere(j, latest[j]) /\ latest'[j] = latest[j] /\ latest[j] \in Nat
    BY <1>2 DEF Calm, NotLost, TieredTypes
  <2>2. (\E s \in 1 .. 3 : s # t /\ Holds(tier[s], j, latest[j])) \/ Had(tier[t], s0, Len(s0), j, latest[j])
    <3>1. CASE \E s \in 1 .. 3 : Holds(tier[s], j, latest[j])
      BY <3>1 DEF Had
    <3>2. CASE \E d \in Thread : Among(carried[d], Len(carried[d]), j, latest[j])
      BY <1>5, <3>2 DEF Had, s0
    <3>3. QED
      BY <2>1, <3>1, <3>2 DEF Somewhere
  <2>3. CASE \E s \in 1 .. 3 : s # t /\ Holds(tier[s], j, latest[j])
    BY <1>1, <2>1, <2>3 DEF Somewhere
  <2>4. CASE Had(tier[t], s0, Len(s0), j, latest[j])
    <3>1. \A y \in Nat : Had(tier[t], s0, Len(s0), j, y) => y <= latest[j]
      BY <1>7 DEF Had, Calm, Descending
    <3>2. Had(all.cache, all.evicted, Len(all.evicted), j, latest[j])
      BY <1>9, <2>1, <2>4, <3>1 DEF Moved
    <3>3. Holds(tier'[t], j, latest'[j])
      BY <1>1, <1>2, <1>10, <2>1, <3>2 DEF Had
    <3>4. QED
      BY <3>3 DEF Somewhere
  <2>5. QED
    BY <2>2, <2>3, <2>4
<1>16. Leaving'
  <2> SUFFICES ASSUME NEW j \in Key, NEW s \in 1 .. 3, gone'[j], j \in DOMAIN tier'[s].entries PROVE FALSE
    BY DEF Leaving
  <2>1. Holds(tier'[s], j, tier'[s].entries[j])
    BY DEF Holds
  <2>2. tier'[s].entries[j] \in Nat
    BY <1>11, <2>1
  <2>3. j \in DOMAIN tier[s].entries \/ Among(s0, Len(s0), j, tier'[s].entries[j])
    BY <1>12, <2>1, <2>2 DEF Holds
  <2>4. QED
    BY <1>2, <1>5, <1>7, <2>2, <2>3
<1>17. \A d \in Thread : d # c => Learned(d)' /\ Carried(d)' /\ IsLatest(d)'
  BY <1>2, <1>4, <1>5 DEF Learned, Carried, IsLatest, Removing
<1>18. Learned(c)' /\ Carried(c)' /\ IsLatest(c)'
  <2>1. IsLatest(c)
    BY DEF Calm
  <2>2. QED
    BY <1>2, <1>4, <2>1 DEF Learned, Carried, IsLatest, Removing
<1>19. QED
  BY <1>13, <1>14, <1>15, <1>16, <1>17, <1>18 DEF Calm

LEMMA CalmPut ==
  ASSUME TieredTypes, Calm, NEW k \in Key, TieredPut(k)
  PROVE  Calm'
<1> DEFINE v == latest[k] + 1
           one == PutOne(k)
           two == PutTwo(k)
           three == PutThree(k)
<1>1. /\ TieredTypes' /\ tier'[1] = one.cache /\ tier'[2] = two.cache /\ tier'[3] = three.cache
      /\ Stored(tier[1], one, k, v) /\ one.evicted \in Pairs
      /\ two.evicted \in Pairs /\ three.evicted \in Pairs
      /\ Rising(tier[2], one.evicted) => Moved(tier[2], one.evicted, Len(one.evicted), two)
      /\ Rising(tier[3], two.evicted) => Moved(tier[3], two.evicted, Len(two.evicted), three)
  BY TieredPutTypes, PutResults DEF PutState
<1>2. /\ Alone /\ dropped' = (dropped \ {k}) \cup KeysOf(three.evicted)
      /\ latest' = [latest EXCEPT ![k] = @ + 1] /\ gone' = [gone EXCEPT ![k] = FALSE]
      /\ UNCHANGED <<tpc, key, carried, got, overlap>>
  BY DEF TieredPut, PutOne, PutTwo, PutThree, thread
<1>3. /\ latest'[k] = v /\ latest[k] \in Nat /\ v \in Nat /\ ~gone'[k]
      /\ \A j \in Key : j # k => latest'[j] = latest[j] /\ gone'[j] = gone[j]
      /\ \A j \in Key : latest[j] \in Nat /\ latest[j] <= latest'[j]
  BY <1>2 DEF TieredTypes
<1>4. /\ \A d \in Thread : tpc[d] = "idle" /\ got[d] = 0
      /\ \A d \in Thread : \A j, x : ~Among(carried[d], Len(carried[d]), j, x)
      /\ \A t \in 1 .. 3 : \A j \in DOMAIN tier[t].entries : ~gone[j]
  BY <1>2, AloneRest DEF Alone
<1>5. Effect(tier[1], one, k, v)
  BY <1>1, StoredVersions
<1>6. /\ Holds(one.cache, k, v)
      /\ \A j, x : Holds(one.cache, j, x) => (j = k /\ x = v) \/ (j # k /\ Holds(tier[1], j, x))
      /\ \A j, x : Among(one.evicted, Len(one.evicted), j, x)
                     => j # k /\ Holds(tier[1], j, x) /\ ~(j \in DOMAIN one.cache.entries)
      /\ \A j, x : j # k /\ Holds(tier[1], j, x)
                     => Holds(one.cache, j, x) \/ Among(one.evicted, Len(one.evicted), j, x)
  BY <1>5, Zenon DEF Effect
<1>7. \A i, h \in 1 .. Len(one.evicted) : one.evicted[i][1] = one.evicted[h][1] => i = h
  BY <1>1 DEF Stored
<1>8. KeysOf(three.evicted) \subseteq Key /\ \A j, x : Among(three.evicted, Len(three.evicted), j, x) => j \in KeysOf(three.evicted)
  BY <1>1, KeysOfIs
<1> HIDE DEF one, two, three, v
<1>9. /\ \A j \in Key, s, t \in 1 .. 3, x, y \in Nat :
           s < t /\ Holds(tier[s], j, x) /\ Holds(tier[t], j, y) => y <= x
      /\ \A j \in Key, s \in 1 .. 3, x \in Nat : Holds(tier[s], j, x) => x <= latest[j]
  BY DEF Calm, Descending
<1>10. Moved(tier[2], one.evicted, Len(one.evicted), two)
  <2>1. ASSUME NEW i \in 1 .. Len(one.evicted), NEW x \in Nat, Holds(tier[2], one.evicted[i][1], x)
        PROVE  x <= one.evicted[i][2]
    <3>1. one.evicted[i] = <<one.evicted[i][1], one.evicted[i][2]>> /\ one.evicted[i][1] \in Key /\ one.evicted[i][2] \in Nat
      BY <1>1, PairIs
    <3>2. Among(one.evicted, Len(one.evicted), one.evicted[i][1], one.evicted[i][2])
      BY <3>1 DEF Among
    <3>3. Holds(tier[1], one.evicted[i][1], one.evicted[i][2])
      BY <1>6, <3>2
    <3>4. QED
      BY <1>9, <2>1, <3>1, <3>3
  <2>2. \A i \in 1 .. Len(one.evicted) : one.evicted[i][2] <= one.evicted[i][2]
    BY <1>1, PairIs
  <2>3. Rising(tier[2], one.evicted)
    BY <1>7, <2>1, <2>2 DEF Rising
  <2>4. QED
    BY <1>1, <2>3
<1>11. \A j \in Key, x \in Nat : Had(two.cache, two.evicted, Len(two.evicted), j, x) =>
         \/ Holds(tier[2], j, x)
         \/ j # k /\ Holds(tier[1], j, x) /\ ~(j \in DOMAIN one.cache.entries)
  BY <1>6, <1>10 DEF Moved, Had
<1>12. Moved(tier[3], two.evicted, Len(two.evicted), three)
  <2>1. ASSUME NEW i \in 1 .. Len(two.evicted), NEW x \in Nat, Holds(tier[3], two.evicted[i][1], x)
        PROVE  x <= two.evicted[i][2]
    <3>1. two.evicted[i] = <<two.evicted[i][1], two.evicted[i][2]>> /\ two.evicted[i][1] \in Key /\ two.evicted[i][2] \in Nat
      BY <1>1, PairIs
    <3>2. Had(two.cache, two.evicted, Len(two.evicted), two.evicted[i][1], two.evicted[i][2])
      BY <3>1 DEF Among, Had
    <3>3. \E s \in 1 .. 2 : Holds(tier[s], two.evicted[i][1], two.evicted[i][2])
      BY <1>11, <3>1, <3>2
    <3>4. QED
      BY <1>9, <2>1, <3>1, <3>3
  <2>2. Rising(tier[3], two.evicted)
    BY <1>10, <2>1 DEF Rising, Moved
  <2>3. QED
    BY <1>1, <2>2
<1>13. \A j \in Key, x \in Nat : Had(three.cache, three.evicted, Len(three.evicted), j, x) =>
         Holds(tier[3], j, x) \/ Among(two.evicted, Len(two.evicted), j, x)
  BY <1>12 DEF Moved, Had
<1>14. \A j \in Key, s \in 1 .. 3, x \in Nat : Holds(tier'[s], j, x) =>
         (s = 1 /\ j = k /\ x = v) \/ \E r \in 1 .. 3 : Holds(tier[r], j, x)
  <2>1. \A s \in 1 .. 3 : s = 1 \/ s = 2 \/ s = 3
    OBVIOUS
  <2>2. QED
    BY <1>1, <1>6, <1>11, <1>13, <2>1 DEF Had
<1>15. OneCall'
  BY <1>2, <1>4 DEF OneCall
<1>16. Descending'
  <2>1. ASSUME NEW j \in Key, NEW s \in 1 .. 3, NEW r \in 1 .. 3, NEW x \in Nat, NEW y \in Nat,
               s < r, Holds(tier'[s], j, x), Holds(tier'[r], j, y)
        PROVE  y <= x
    <3>1. (s = 1 /\ r \in 2 .. 3) \/ (s = 2 /\ r = 3)
      BY <2>1
    <3>2. PICK q \in 1 .. 3 : Holds(tier[q], j, y)
      BY <1>14, <2>1, <3>1
    <3>3. r = 2 \/ r = 3
      BY <3>1
    <3>4. \/ r = 2 /\ Holds(tier[2], j, y)
          \/ r = 3 /\ (Holds(tier[3], j, y) \/ Among(two.evicted, Len(two.evicted), j, y))
          \/ r = 2 /\ j # k /\ Holds(tier[1], j, y) /\ ~(j \in DOMAIN one.cache.entries)
      BY <1>1, <1>11, <1>13, <2>1, <3>3 DEF Had
    <3>5. CASE s = 1
      <4>1. CASE j = k /\ x = v
        BY <1>3, <1>9, <3>2, <4>1 DEF v
      <4>2. CASE j # k /\ Holds(tier[1], j, x)
        <5>1. j \in DOMAIN one.cache.entries
          BY <1>1, <2>1, <3>5 DEF Holds
        <5>2. Holds(tier[2], j, y) \/ Holds(tier[3], j, y)
          BY <1>11, <3>4, <5>1 DEF Had
        <5>3. QED
          BY <1>9, <4>2, <5>2
      <4>3. QED
        BY <1>1, <1>6, <2>1, <3>5, <4>1, <4>2
    <3>6. CASE s = 2 /\ r = 3
      <4>1. Holds(two.cache, j, x) /\ (Holds(tier[2], j, x) \/ Holds(tier[1], j, x))
        BY <1>1, <1>11, <2>1, <3>6 DEF Had
      <4>2. CASE Holds(tier[3], j, y)
        BY <1>9, <4>1, <4>2
      <4>3. CASE Among(two.evicted, Len(two.evicted), j, y)
        <5>1. PICK i \in 1 .. Len(two.evicted) : two.evicted[i] = <<j, y>>
          BY <4>3 DEF Among
        <5>2. two.evicted[i][1] = j /\ two.evicted[i][2] = y
          BY <5>1
        <5>3. \A h \in 1 .. Len(two.evicted), w \in Nat : Holds(two.cache, two.evicted[h][1], w) => two.evicted[h][2] <= w
          BY <1>10 DEF Moved
        <5>4. QED
          BY <4>1, <5>2, <5>3
      <4>4. QED
        BY <3>4, <3>6, <4>2, <4>3
    <3>7. QED
      BY <3>1, <3>5, <3>6
  <2>2. ASSUME NEW j \in Key, NEW s \in 1 .. 3, NEW x \in Nat, Holds(tier'[s], j, x) PROVE x <= latest'[j]
    <3>1. CASE \E r \in 1 .. 3 : Holds(tier[r], j, x)
      <4>1. x <= latest[j]
        BY <1>9, <3>1
      <4>2. latest'[j] \in Nat
        BY <1>1 DEF TieredTypes
      <4>3. QED
        BY <1>3, <4>1, <4>2
    <3>2. CASE j = k /\ x = v
      BY <1>3, <3>2
    <3>3. QED
      BY <1>14, <2>2, <3>1, <3>2
  <2>3. QED
    BY <2>1, <2>2 DEF Descending
<1>17. NotLost'
  <2> SUFFICES ASSUME NEW j \in Key, j \notin dropped', ~gone'[j], latest'[j] # 0
               PROVE  \E t \in 1 .. 3 : Holds(tier'[t], j, latest'[j])
    BY DEF NotLost, Somewhere
  <2>1. CASE j = k
    BY <1>1, <1>3, <1>6, <2>1
  <2>2. CASE j # k
    <3> DEFINE x == latest[j]
    <3>1. latest'[j] = x /\ x \in Nat /\ j \notin dropped /\ ~gone[j] /\ j \notin KeysOf(three.evicted)
      BY <1>2, <1>3, <2>2
    <3>2. Somewhere(j, x)
      BY <3>1 DEF Calm, NotLost
    <3>3. \E t \in 1 .. 3 : Holds(tier[t], j, x)
      BY <1>4, <3>2 DEF Somewhere
    <3> HIDE DEF x
    <3>4. \A s \in 1 .. 3, y \in Nat : Holds(tier[s], j, y) => y <= x
      BY <1>9 DEF x
    <3>5. Holds(one.cache, j, x) \/ Had(tier[2], one.evicted, Len(one.evicted), j, x) \/ Holds(tier[3], j, x)
      <4>1. Holds(tier[1], j, x) \/ Holds(tier[2], j, x) \/ Holds(tier[3], j, x)
        BY <3>3
      <4>2. QED
        BY <1>6, <2>2, <4>1 DEF Had
    <3>6. \A y \in Nat : Had(tier[2], one.evicted, Len(one.evicted), j, y) => y <= x
      BY <1>6, <3>4 DEF Had
    <3>7. Had(tier[2], one.evicted, Len(one.evicted), j, x) =>
            Holds(two.cache, j, x) \/ Among(two.evicted, Len(two.evicted), j, x)
      BY <1>10, <3>1, <3>6 DEF Moved, Had
    <3>8. \A y \in Nat : Had(tier[3], two.evicted, Len(two.evicted), j, y) => y <= x
      BY <1>11, <3>4 DEF Had
    <3>9. Had(tier[3], two.evicted, Len(two.evicted), j, x) =>
            Holds(three.cache, j, x) \/ Among(three.evicted, Len(three.evicted), j, x)
      BY <1>12, <3>1, <3>8 DEF Moved, Had
    <3>10. Holds(one.cache, j, x) \/ Holds(two.cache, j, x) \/ Holds(three.cache, j, x)
      BY <1>8, <3>1, <3>5, <3>7, <3>9 DEF Had
    <3>11. QED
      BY <1>1, <3>1, <3>10
  <2>3. QED
    BY <2>1, <2>2
<1>18. Leaving'
  <2> SUFFICES ASSUME NEW j \in Key, NEW s \in 1 .. 3, gone'[j], j \in DOMAIN tier'[s].entries PROVE FALSE
    BY DEF Leaving
  <2>1. j # k /\ gone[j]
    BY <1>3
  <2>2. Holds(tier'[s], j, tier'[s].entries[j])
    BY DEF Holds
  <2>3. tier'[s].entries[j] \in Nat
    <3>1. Whole(tier'[s])
      BY <1>1 DEF TieredTypes, Sane
    <3>2. tier'[s].entries \in [DOMAIN tier'[s].entries -> Nat]
      BY <3>1, WholeIs
    <3>3. QED
      BY <3>2
  <2>4. PICK r \in 1 .. 3 : Holds(tier[r], j, tier'[s].entries[j])
    BY <1>14, <2>1, <2>2, <2>3
  <2>5. QED
    BY <1>4, <2>1, <2>4 DEF Holds
<1>19. \A d \in Thread : Learned(d)' /\ Carried(d)' /\ IsLatest(d)'
  BY <1>2, <1>4 DEF Learned, Carried, IsLatest, Removing
<1>20. QED
  BY <1>15, <1>16, <1>17, <1>18, <1>19 DEF Calm

LEMMA TieredInvInit == TieredInit => TieredInv
<1> SUFFICES ASSUME TieredInit PROVE TieredInv
  OBVIOUS
<1>1. TieredTypes
  BY TieredTypesInit
<1>2. /\ \A t \in 1 .. 3 : DOMAIN tier[t].entries = {}
      /\ \A c \in Thread : tpc[c] = "idle" /\ got[c] = 0
      /\ \A j \in Key : latest[j] = 0
  BY EmptyIs DEF TieredInit
<1>3. \A t \in 1 .. 3 : \A j, x : ~Holds(tier[t], j, x)
  BY <1>2 DEF Holds
<1>4. OneCall /\ Descending /\ NotLost /\ Leaving
  BY <1>2, <1>3 DEF OneCall, Descending, NotLost, Leaving
<1>5. \A c \in Thread : Learned(c) /\ Carried(c) /\ IsLatest(c)
  BY <1>2 DEF Learned, Carried, IsLatest, Removing
<1>6. QED
  BY <1>1, <1>4, <1>5 DEF TieredInv, Calm

LEMMA TieredInvNext == TieredInv /\ [TieredNext]_tieredVars => TieredInv'
<1> SUFFICES ASSUME TieredInv, [TieredNext]_tieredVars, ~overlap' PROVE Calm'
  BY TieredTypesNext DEF TieredInv
<1>1. TieredTypes
  BY DEF TieredInv
<1>2. ASSUME NEW k \in Key, TieredPut(k) PROVE Calm'
  <2>1. ~overlap
    BY <1>2 DEF TieredPut
  <2>2. QED
    BY <1>1, <1>2, <2>1, CalmPut DEF TieredInv
<1>3. ASSUME NEW c \in Thread, NEW k \in Key, TieredGet(c, k) \/ Invalidate(c, k) PROVE Calm'
  <2>1. CASE TieredGet(c, k)
    <3>1. Call(c, k, "l1") /\ gone' = gone
      BY <2>1 DEF TieredGet
    <3>2. Alone /\ Calm
      BY <3>1 DEF Call, TieredInv
    <3>3. QED
      BY <1>1, <3>1, <3>2, CalmCall
  <2>2. CASE Invalidate(c, k)
    <3>1. Call(c, k, "rm1") /\ gone' = [gone EXCEPT ![k] = TRUE]
      BY <2>2 DEF Invalidate
    <3>2. Alone /\ Calm
      BY <3>1 DEF Call, TieredInv
    <3>3. QED
      BY <1>1, <3>1, <3>2, CalmCall
  <2>3. QED
    BY <1>3, <2>1, <2>2
<1>4. CASE TieredClear
  BY <1>1, <1>4, CalmClear
<1>5. ASSUME NEW c \in Thread, ReturnOf(c) PROVE Calm'
  <2>1. Calm
    BY <1>5 DEF ReturnOf, TieredInv
  <2>2. QED
    BY <1>1, <1>5, <2>1, CalmReturn
<1>6. ASSUME NEW c \in Thread, NEW t \in 1 .. 3, LookIn(c, t) PROVE Calm'
  <2>1. Calm
    BY <1>6 DEF LookIn, TieredInv
  <2>2. QED
    BY <1>1, <1>6, <2>1, CalmLookIn
<1>7. ASSUME NEW c \in Thread, NEW t \in 1 .. 3, Demote(c, t) PROVE Calm'
  <2>1. Calm
    BY <1>7 DEF Demote, TieredInv
  <2>2. QED
    BY <1>1, <1>7, <2>1, CalmDemote
<1>8. ASSUME NEW c \in Thread, NEW t \in 1 .. 3, RemoveFrom(c, t) PROVE Calm'
  <2>1. Calm
    BY <1>8 DEF RemoveFrom, TieredInv
  <2>2. QED
    BY <1>1, <1>8, <2>1, CalmRemove
<1>9. ASSUME NEW c \in Thread, NEW t \in 1 .. 2, Promote(c, t) PROVE Calm'
  <2>1. Calm
    BY <1>9 DEF Promote, TieredInv
  <2>2. QED
    BY <1>1, <1>9, <2>1, CalmPromote
<1>10. CASE UNCHANGED tieredVars
  <2>1. Calm
    BY <1>10 DEF TieredInv, tieredVars
  <2>2. QED
    BY <1>10, <2>1 DEF tieredVars, Calm, OneCall, Descending, NotLost, Somewhere, Leaving, Learned, Carried,
                       Between, IsLatest, Removing, StillIn
<1>11. QED
  BY <1>2, <1>3, <1>4, <1>5, <1>6, <1>7, <1>8, <1>9, <1>10 DEF TieredNext

LEMMA TieredInvSound == TieredInv => TieredIsSound
<1> SUFFICES ASSUME TieredInv PROVE TieredIsSound
  OBVIOUS
<1>1. TieredTypes
  BY DEF TieredInv
<1>2. LruIsConsistent
  BY <1>1, SaneIsTidy DEF TieredTypes, LruIsConsistent
<1>3. NewestIsOnTop
  <2> SUFFICES ASSUME ~overlap, Alone, NEW k \in Key
               PROVE  /\ \A s, t \in 1 .. 3 :
                           s < t /\ Has(s, k) /\ Has(t, k) => tier[s].entries[k] >= tier[t].entries[k]
                      /\ gone[k] => \A t \in 1 .. 3 : ~Has(t, k)
    BY DEF NewestIsOnTop
  <2>1. Calm
    BY DEF TieredInv
  <2>2. ASSUME NEW s \in 1 .. 3, NEW t \in 1 .. 3, s < t, Has(s, k), Has(t, k)
        PROVE  tier[s].entries[k] >= tier[t].entries[k]
    <3> DEFINE x == tier[s].entries[k]
               y == tier[t].entries[k]
    <3>1. x \in Nat /\ y \in Nat /\ Holds(tier[s], k, x) /\ Holds(tier[t], k, y)
      BY <1>1, <2>2, Versions DEF Has
    <3> HIDE DEF x, y
    <3>2. y <= x
      BY <2>1, <2>2, <3>1 DEF Calm, Descending
    <3>3. QED
      BY <3>1, <3>2 DEF x, y
  <2>3. gone[k] => \A t \in 1 .. 3 : ~Has(t, k)
    BY <1>1, <2>1, AloneRest DEF Has
  <2>4. QED
    BY <2>2, <2>3
<1>4. GetIsLatest
  BY DEF GetIsLatest, TieredInv, Calm, IsLatest
<1>5. QED
  BY <1>2, <1>3, <1>4 DEF TieredIsSound

(* Any number of threads and keys, tiers of any size: after every locked   *)
(* section of get, put, invalidate and clear each LruCache's entries,      *)
(* order and size agree; while no calls overlap a copy above is newer than *)
(* one below, an invalidated key is in no tier, and a get answers with the *)
(* version last put unless a copy of the key was dropped since.            *)
THEOREM TieredIsSoundHolds == TieredSpec => []TieredIsSound
<1>1. TieredSpec => []TieredInv
  BY TieredInvInit, TieredInvNext, PTL DEF TieredSpec
<1>2. QED
  BY <1>1, TieredInvSound, PTL
=============================================================================
