--------------------------- MODULE ServicesProofs ---------------------------
(***************************************************************************)
(* What is proved of the services around a build that MCServices checks:   *)
(* the counters of the gateway, `fish watch`, the set of the file watcher, *)
(* the tree of the virtual file system, what a timeout kills, the calls of *)
(* the cluster and the answers of its coordinator, for any number of       *)
(* requests, targets, files, readers, processes, tasks and workers.        *)
(***************************************************************************)
EXTENDS Gateway, Watch, DirtySet, Vfs, ProcessExecutor, Cluster, Coordinator, FiniteSetTheorems,
  TLAPS

-----------------------------------------------------------------------------
(* The elements of a queue when one comes and when one goes.               *)
LEMMA AppendElements ==
  ASSUME NEW S, NEW s \in Seq(S), NEW e \in S
  PROVE  ToSet(Append(s, e)) = ToSet(s) \cup {e}
  <1>1. \A i \in 1 .. Len(s) + 1 : Append(s, e)[i] = IF i = Len(s) + 1 THEN e ELSE s[i]
    OBVIOUS
  <1>2. DOMAIN Append(s, e) = 1 .. Len(s) + 1 /\ DOMAIN s = 1 .. Len(s) /\ Len(s) \in Nat
    OBVIOUS
  <1>3. ASSUME NEW x \in ToSet(s) PROVE x \in ToSet(Append(s, e))
    <2>1. PICK i \in 1 .. Len(s) : s[i] = x
      BY <1>3 DEF ToSet
    <2>2. i \in 1 .. Len(s) + 1 /\ Append(s, e)[i] = x
      BY <1>1, <2>1
    <2>3. QED
      BY <1>2, <2>2 DEF ToSet
  <1>4. e \in ToSet(Append(s, e))
    <2>1. Len(s) + 1 \in 1 .. Len(s) + 1 /\ Append(s, e)[Len(s) + 1] = e
      BY <1>1, <1>2
    <2>2. QED
      BY <1>2, <2>1 DEF ToSet
  <1>5. ASSUME NEW x \in ToSet(Append(s, e)), x # e PROVE x \in ToSet(s)
    <2>1. PICK i \in 1 .. Len(s) + 1 : Append(s, e)[i] = x
      BY <1>2, <1>5 DEF ToSet
    <2>2. i \in 1 .. Len(s) /\ s[i] = x
      BY <1>1, <1>2, <1>5, <2>1
    <2>3. QED
      BY <1>2, <2>2 DEF ToSet
  <1>6. QED
    BY <1>3, <1>4, <1>5

LEMMA TailElements ==
  ASSUME NEW S, NEW s \in Seq(S), s # <<>>
  PROVE  ToSet(s) \subseteq {Head(s)} \cup ToSet(Tail(s))
  <1>1. SUFFICES ASSUME NEW i \in 1 .. Len(s), s[i] # Head(s) PROVE s[i] \in ToSet(Tail(s))
    BY DEF ToSet
  <1>2. i # 1
    BY <1>1
  <1>3. i - 1 \in 1 .. Len(s) - 1 /\ DOMAIN Tail(s) = 1 .. Len(s) - 1
    BY <1>2
  <1>4. Tail(s)[i - 1] = s[i]
    <2>1. \A j \in 1 .. Len(s) - 1 : Tail(s)[j] = s[j + 1]
      OBVIOUS
    <2>2. Tail(s)[i - 1] = s[(i - 1) + 1]
      BY <1>3, <2>1
    <2>3. (i - 1) + 1 = i
      OBVIOUS
    <2>4. QED
      BY <2>2, <2>3
  <1>5. QED
    BY <1>3, <1>4 DEF ToSet

-----------------------------------------------------------------------------
(* Gateway.  A target that somebody holds is registered, or its name was   *)
(* removed meanwhile; what least loaded first compares stays registered,   *)
(* for the list is locked.                                                 *)
holders == [t \in Target |-> {r \in Request : chosen[r] = <<t>>}]

BalancerTypes ==
  /\ targets \in Seq(Target) /\ active_ops \in [Target -> Int]
  /\ gpc \in [Request -> {"idle", "least", "serving"}]
  /\ seen \in [Request -> Seq(Target)] /\ chosen \in [Request -> Seq(Target)]

Held ==
  \A r \in Request :
    /\ gpc[r] # "serving" => chosen[r] = NoTarget
    /\ gpc[r] = "serving" => \E t \in Target : chosen[r] = <<t>> /\ (Contains(targets, t) \/ t \in reused)
    /\ gpc[r] = "least" =>
         seen[r] # <<>> /\ \A i \in DOMAIN seen[r] : Contains(targets, seen[r][i])

Exact ==
  \A t \in Target \ reused : Contains(targets, t) => active_ops[t] = Cardinality(holders[t])

BalancerInv == BalancerTypes /\ Held /\ (\A t \in Target : IsFiniteSet(holders[t])) /\ Exact

(* The tokens left and those granted come from the bucket and the refills. *)
LimiterInv ==
  /\ now \in Nat /\ lastRefill \in Nat /\ lastRefill <= now
  /\ tokens \in Nat /\ granted \in Nat
  /\ granted + tokens <= Capacity_ + Rate_ * lastRefill

LEMMA GatewayInitInv == GatewayInit => BalancerInv /\ LimiterInv
  <1> SUFFICES ASSUME GatewayInit PROVE BalancerInv /\ LimiterInv
    OBVIOUS
  <1>1. \A t \in Target : holders[t] = {}
    BY DEF GatewayInit, holders, NoTarget
  <1>2. \A t \in Target : ~Contains(targets, t)
    BY DEF GatewayInit, Contains
  <1>3. BalancerTypes /\ Held
    BY DEF GatewayInit, BalancerTypes, Held, NoTarget
  <1>4. BalancerInv
    BY <1>1, <1>2, <1>3, FS_EmptySet DEF BalancerInv, Exact
  <1>5. LimiterInv
    BY LimiterAssumption DEF GatewayInit, LimiterInit, LimiterInv
  <1>6. QED
    BY <1>4, <1>5

(* A target that is added has no request yet, or its name had one before.  *)
LEMMA AddTargetInv ==
  ASSUME BalancerInv, NEW t \in Target, AddTarget(t)
  PROVE  BalancerInv'
  <1> USE DEF BalancerInv, BalancerTypes
  <1>1. holders' = holders
    BY DEF AddTarget, holders
  <1>2. /\ gpc' = gpc /\ chosen' = chosen /\ seen' = seen /\ reused' = reused
        /\ \A r \in Request : gpc[r] # "least"
    BY DEF AddTarget, Locked
  <1>3. CASE Contains(targets, t)
    <2>1. targets' = targets /\ active_ops' = active_ops
      BY <1>3 DEF AddTarget
    <2>2. Held'
      <3>1. \A u : Contains(targets, u)' <=> Contains(targets, u)
        BY <2>1 DEF Contains
      <3>2. QED
        BY <1>2, <3>1 DEF Held
    <2>3. Exact'
      BY <1>1, <1>2, <2>1 DEF Exact, Contains
    <2>4. QED
      BY <1>1, <1>2, <2>1, <2>2, <2>3
  <1>4. CASE ~Contains(targets, t)
    <2>1. targets' = Append(targets, t) /\ active_ops' = [active_ops EXCEPT ![t] = 0]
      BY <1>4 DEF AddTarget
    <2>2. BalancerTypes'
      BY <1>2, <2>1
    <2>3. \A u \in Target : Contains(targets, u) => Contains(targets, u)'
      BY <2>1 DEF Contains
    <2>4. \A u \in Target : Contains(targets, u)' => Contains(targets, u) \/ u = t
      BY <2>1 DEF Contains
    <2>5. Held'
      BY <1>2, <2>3 DEF Held
    <2>6. ASSUME t \notin reused PROVE holders[t] = {}
      <3>1. SUFFICES ASSUME NEW r \in Request, chosen[r] = <<t>> PROVE FALSE
        BY DEF holders
      <3>2. gpc[r] = "serving"
        <4>1. <<t>> # <<>>
          OBVIOUS
        <4>2. QED
          BY <3>1, <4>1 DEF Held, NoTarget
      <3>3. PICK u \in Target : chosen[r] = <<u>> /\ (Contains(targets, u) \/ u \in reused)
        BY <3>2 DEF Held
      <3>4. u = t
        BY <3>1, <3>3
      <3>5. QED
        BY <1>4, <2>6, <3>3, <3>4
    <2>7. Exact'
      <3>1. SUFFICES ASSUME NEW u \in Target, u \notin reused, Contains(targets, u)'
                     PROVE  active_ops'[u] = Cardinality(holders[u])
        BY <1>1, <1>2 DEF Exact
      <3>2. CASE u = t
        BY <2>1, <2>6, <3>1, <3>2, FS_EmptySet
      <3>3. CASE u # t
        BY <2>1, <2>4, <3>1, <3>3 DEF Exact
      <3>4. QED
        BY <3>2, <3>3
    <2>8. QED
      BY <1>1, <2>2, <2>5, <2>7
  <1>5. QED
    BY <1>3, <1>4

(* What RemoveAt leaves. *)
LEMMA RemoveAtKeeps ==
  ASSUME NEW S, NEW s \in Seq(S), NEW i \in 1 .. Len(s)
  PROVE  /\ RemoveAt(s, i) \in Seq(S)
         /\ \A u : Contains(RemoveAt(s, i), u) => Contains(s, u)
         /\ \A u : u # s[i] /\ Contains(s, u) => Contains(RemoveAt(s, i), u)
  <1> DEFINE a == SubSeq(s, 1, i - 1)
             b == SubSeq(s, i + 1, Len(s))
             c == RemoveAt(s, i)
  <1>1. a \in Seq(S) /\ Len(a) = i - 1 /\ \A j \in 1 .. i - 1 : a[j] = s[j]
    OBVIOUS
  <1>2. b \in Seq(S) /\ Len(b) = Len(s) - i /\ \A j \in 1 .. Len(s) - i : b[j] = s[i + j]
    OBVIOUS
  <1>3. c = a \o b
    BY DEF RemoveAt
  <1> HIDE DEF a, b, c
  <1>4. /\ c \in Seq(S) /\ Len(c) = Len(s) - 1
        /\ \A j \in 1 .. Len(s) - 1 : c[j] = IF j < i THEN s[j] ELSE s[j + 1]
    <2>1. c \in Seq(S) /\ Len(c) = Len(s) - 1
      BY <1>1, <1>2, <1>3
    <2>2. ASSUME NEW j \in 1 .. Len(s) - 1 PROVE c[j] = IF j < i THEN s[j] ELSE s[j + 1]
      <3>1. CASE j < i
        BY <1>1, <1>2, <1>3, <3>1
      <3>2. CASE j >= i
        <4>1. c[j] = b[j - Len(a)]
          BY <1>1, <1>2, <1>3, <3>2
        <4>2. j - (i - 1) \in 1 .. Len(s) - i /\ i + (j - (i - 1)) = j + 1
          BY <3>2
        <4>3. b[j - (i - 1)] = s[j + 1]
          BY <1>2, <4>2
        <4>4. QED
          BY <1>1, <3>2, <4>1, <4>3
      <3>3. QED
        BY <3>1, <3>2
    <2>3. QED
      BY <2>1, <2>2
  <1>5. ASSUME NEW u, Contains(c, u) PROVE Contains(s, u)
    BY <1>4, <1>5 DEF Contains
  <1>6. ASSUME NEW u, u # s[i], Contains(s, u) PROVE Contains(c, u)
    <2>1. PICK j \in 1 .. Len(s) : s[j] = u
      BY <1>6 DEF Contains
    <2>2. CASE j < i
      BY <1>4, <2>1, <2>2 DEF Contains
    <2>3. CASE j > i
      <3>1. j - 1 \in 1 .. Len(c) /\ c[j - 1] = u
        BY <1>4, <2>1, <2>3
      <3>2. QED
        BY <3>1 DEF Contains
    <2>4. QED
      BY <1>6, <2>1, <2>2, <2>3
  <1>7. QED
    BY <1>4, <1>5, <1>6 DEF c

LEMMA RemoveTargetInv ==
  ASSUME BalancerInv, NEW t \in Target, RemoveTarget(t)
  PROVE  BalancerInv'
  <1> USE DEF BalancerInv, BalancerTypes
  <1>1. holders' = holders
    BY DEF RemoveTarget, holders
  <1>2. PICK i \in 1 .. Len(targets) : targets[i] = t /\ targets' = RemoveAt(targets, i)
    BY DEF RemoveTarget
  <1>3. /\ targets' \in Seq(Target)
        /\ \A u \in Target : Contains(targets, u)' => Contains(targets, u)
        /\ \A u \in Target : u # t /\ Contains(targets, u) => Contains(targets, u)'
    BY <1>2, RemoveAtKeeps
  <1>4. reused \subseteq reused' /\ (holders[t] # {} => t \in reused')
    BY DEF RemoveTarget, holders
  <1>5. /\ gpc' = gpc /\ chosen' = chosen /\ seen' = seen /\ active_ops' = active_ops
        /\ \A r \in Request : gpc[r] # "least"
    BY DEF RemoveTarget, Locked
  <1>6. Held'
    <2>1. ASSUME NEW r \in Request, gpc[r] = "serving"
          PROVE  \E u \in Target : chosen[r] = <<u>> /\ (Contains(targets, u)' \/ u \in reused')
      <3>1. PICK u \in Target : chosen[r] = <<u>> /\ (Contains(targets, u) \/ u \in reused)
        BY <2>1 DEF Held
      <3>2. CASE u = t
        BY <1>4, <3>1, <3>2 DEF holders
      <3>3. CASE u # t
        BY <1>3, <1>4, <3>1, <3>3
      <3>4. QED
        BY <3>2, <3>3
    <2>2. QED
      BY <1>5, <2>1 DEF Held
  <1>7. Exact'
    BY <1>1, <1>3, <1>4, <1>5 DEF Exact
  <1>8. QED
    BY <1>1, <1>3, <1>5, <1>6, <1>7

(* A request that has chosen a target is one more that holds it. *)
LEMMA TakeInv ==
  ASSUME BalancerInv, NEW r \in Request, NEW t \in Target, Contains(targets, t), Take(r, t),
         gpc[r] # "serving", seen' \in [Request -> Seq(Target)],
         \A q \in Request \ {r} : seen'[q] = seen[q], UNCHANGED <<targets, reused>>
  PROVE  BalancerInv'
  <1> USE DEF BalancerInv, BalancerTypes
  <1>1. /\ active_ops' = [active_ops EXCEPT ![t] = active_ops[t] + 1]
        /\ chosen' = [chosen EXCEPT ![r] = <<t>>] /\ gpc' = [gpc EXCEPT ![r] = "serving"]
    BY DEF Take
  <1>2. BalancerTypes'
    <2>1. <<t>> \in Seq(Target)
      OBVIOUS
    <2>2. QED
      BY <1>1, <2>1
  <1>3. chosen[r] = NoTarget
    BY DEF Held
  <1>4. r \notin holders[t] /\ holders'[t] = holders[t] \cup {r}
    BY <1>1, <1>3 DEF holders, NoTarget
  <1>5. \A u \in Target : u # t => holders'[u] = holders[u]
    BY <1>1, <1>3 DEF holders, NoTarget
  <1>6. Held'
    BY <1>1 DEF Held, NoTarget
  <1>7. \A u \in Target : IsFiniteSet(holders'[u])
    <2>1. IsFiniteSet(holders[t] \cup {r})
      BY FS_AddElement
    <2>2. QED
      BY <1>4, <1>5, <2>1
  <1>8. Cardinality(holders'[t]) = Cardinality(holders[t]) + 1
    <2>1. Cardinality(holders[t] \cup {r}) = Cardinality(holders[t]) + 1
      BY <1>4, FS_AddElement
    <2>2. QED
      BY <1>4, <2>1
  <1>9. Exact'
    <2>1. SUFFICES ASSUME NEW u \in Target, u \notin reused, Contains(targets, u)
                   PROVE  active_ops'[u] = Cardinality(holders'[u])
      BY DEF Exact, Contains
    <2>2. active_ops[u] = Cardinality(holders[u])
      BY <2>1 DEF Exact
    <2>3. QED
      BY <1>1, <1>5, <1>8, <2>2
  <1>10. QED
    BY <1>2, <1>6, <1>7, <1>9

(* A release takes from the target that has the name, if there is one.     *)
LEMMA ReleaseInv ==
  ASSUME BalancerInv, NEW r \in Request, Release(r)
  PROVE  BalancerInv'
  <1> USE DEF BalancerInv, BalancerTypes
  <1>1. PICK t \in Target : chosen[r] = <<t>> /\ (Contains(targets, t) \/ t \in reused)
    BY DEF Release, Held
  <1>2. /\ active_ops' = IF Contains(targets, t)
                         THEN [active_ops EXCEPT ![t] = active_ops[t] - 1] ELSE active_ops
        /\ chosen' = [chosen EXCEPT ![r] = NoTarget] /\ gpc' = [gpc EXCEPT ![r] = "idle"]
        /\ targets' = targets /\ seen' = seen /\ reused' = reused
    BY <1>1 DEF Release
  <1>3. r \in holders[t] /\ holders'[t] = holders[t] \ {r}
    BY <1>1, <1>2 DEF holders, NoTarget
  <1>4. \A u \in Target : u # t => holders'[u] = holders[u]
    <2>1. ASSUME NEW u \in Target, u # t, NEW q \in Request PROVE chosen'[q] = <<u>> <=> chosen[q] = <<u>>
      BY <1>1, <1>2, <2>1 DEF NoTarget
    <2>2. QED
      BY <2>1 DEF holders
  <1>5. BalancerTypes'
    BY <1>2 DEF NoTarget
  <1>6. Held'
    BY <1>2 DEF Held, NoTarget, Contains
  <1>7. \A u \in Target : IsFiniteSet(holders'[u])
    <2>1. IsFiniteSet(holders'[t])
      BY <1>3, FS_RemoveElement
    <2>2. QED
      BY <1>4, <2>1
  <1>8. Cardinality(holders'[t]) = Cardinality(holders[t]) - 1
    <2>1. Cardinality(holders[t] \ {r}) = Cardinality(holders[t]) - 1
      BY <1>3, FS_RemoveElement
    <2>2. QED
      BY <1>3, <2>1
  <1>9. Exact'
    <2>1. SUFFICES ASSUME NEW u \in Target, u \notin reused, Contains(targets, u)
                   PROVE  active_ops'[u] = Cardinality(holders'[u])
      BY <1>2 DEF Exact, Contains
    <2>2. active_ops[u] = Cardinality(holders[u])
      BY <2>1 DEF Exact
    <2>3. QED
      BY <1>2, <1>4, <1>8, <2>1, <2>2
  <1>10. QED
    BY <1>5, <1>6, <1>7, <1>9

(* A step that neither gives nor takes a target leaves the counts exact.   *)
LEMMA Undisturbed ==
  ASSUME BalancerInv, BalancerTypes', Held', UNCHANGED <<targets, active_ops, chosen, reused>>
  PROVE  BalancerInv'
  <1>1. holders' = holders
    BY DEF holders
  <1>2. Exact'
    BY <1>1 DEF BalancerInv, Exact, Contains
  <1>3. QED
    BY <1>1, <1>2 DEF BalancerInv

LEMMA BalancerStep ==
  ASSUME BalancerInv, Balancer
  PROVE  BalancerInv'
  <1> USE DEF BalancerInv, BalancerTypes
  <1>1. ASSUME NEW t \in Target, AddTarget(t) \/ RemoveTarget(t) PROVE BalancerInv'
    BY <1>1, AddTargetInv, RemoveTargetInv
  <1>2. ASSUME NEW t \in Target, NEW good \in BOOLEAN, SetHealth(t, good) PROVE BalancerInv'
    BY <1>2, Undisturbed DEF SetHealth, Held, Contains
  <1>3. ASSUME NEW r \in Request, LookAtTargets(r) PROVE BalancerInv'
    <2>1. PICK i \in Healthy : seen' = [seen EXCEPT ![r] = <<targets[i]>>]
      BY <1>3 DEF LookAtTargets
    <2>2. targets[i] \in Target /\ Contains(targets, targets[i])
      BY <2>1 DEF Healthy, Contains
    <2>3. <<targets[i]>> \in Seq(Target)
      BY <2>2
    <2>4. BalancerTypes'
      BY <1>3, <2>1, <2>3 DEF LookAtTargets
    <2>5. \A j \in DOMAIN <<targets[i]>> : <<targets[i]>>[j] = targets[i]
      OBVIOUS
    <2>6. Held'
      <3>1. \A u : Contains(targets, u)' <=> Contains(targets, u)
        BY <1>3 DEF LookAtTargets, Contains
      <3>2. seen'[r] # <<>> /\ \A j \in DOMAIN seen'[r] : Contains(targets, seen'[r][j])
        BY <2>1, <2>2, <2>5
      <3>3. \A q \in Request \ {r} : seen'[q] = seen[q]
        BY <2>1
      <3>4. QED
        BY <1>3, <3>1, <3>2, <3>3 DEF LookAtTargets, Held
    <2>7. QED
      BY <1>3, <2>4, <2>6, Undisturbed DEF LookAtTargets
  <1>4. ASSUME NEW r \in Request, CompareNext(r) PROVE BalancerInv'
    <2>1. Last(seen[r]) \in Target /\ Contains(targets, Last(seen[r]))
      BY <1>4 DEF CompareNext, Held, Last
    <2>2. PICK i \in Healthy :
            seen' = [seen EXCEPT ![r] = Append(seen[r], IF active_ops[targets[i]] < active_ops[Last(seen[r])]
                                                        THEN targets[i] ELSE Last(seen[r]))]
      BY <1>4 DEF CompareNext
    <2>3. targets[i] \in Target /\ Contains(targets, targets[i])
      BY <2>2 DEF Healthy, Contains
    <2>4. PICK t \in Target : Contains(targets, t) /\ seen' = [seen EXCEPT ![r] = Append(seen[r], t)]
      BY <2>1, <2>2, <2>3
    <2>5. seen'[r] = Append(seen[r], t) /\ \A q \in Request \ {r} : seen'[q] = seen[q]
      BY <2>4
    <2>6. Held'
      <3>1. \A u : Contains(targets, u)' <=> Contains(targets, u)
        BY <1>4 DEF CompareNext, Contains
      <3>2. seen'[r] # <<>> /\ \A j \in DOMAIN seen'[r] : Contains(targets, seen'[r][j])
        <4>1. \A j \in DOMAIN seen[r] : Contains(targets, seen[r][j])
          BY <1>4 DEF CompareNext, Held
        <4>2. \A j \in DOMAIN Append(seen[r], t) :
                Append(seen[r], t)[j] = t \/ (j \in DOMAIN seen[r] /\ Append(seen[r], t)[j] = seen[r][j])
          OBVIOUS
        <4>3. Append(seen[r], t) # <<>>
          <5>1. t \in ToSet(Append(seen[r], t))
            <6>1. seen[r] \in Seq(Target)
              OBVIOUS
            <6>2. QED
              BY <6>1, AppendElements
          <5>2. ToSet(<<>>) = {}
            BY DEF ToSet
          <5>3. QED
            BY <5>1, <5>2, Zenon
        <4>4. QED
          BY <2>4, <2>5, <4>1, <4>2, <4>3
      <3>3. QED
        BY <1>4, <2>5, <3>1, <3>2 DEF CompareNext, Held
    <2>7. BalancerTypes'
      BY <1>4, <2>4 DEF CompareNext
    <2>8. QED
      BY <1>4, <2>6, <2>7, Undisturbed DEF CompareNext
  <1>5. ASSUME NEW r \in Request, SelectLeastLoaded(r) PROVE BalancerInv'
    <2>1. Last(seen[r]) \in Target /\ Contains(targets, Last(seen[r]))
      BY <1>5 DEF SelectLeastLoaded, Held, Last
    <2>2. seen' \in [Request -> Seq(Target)] /\ \A q \in Request \ {r} : seen'[q] = seen[q]
      BY <1>5 DEF SelectLeastLoaded
    <2>3. QED
      BY <1>5, <2>1, <2>2, TakeInv DEF SelectLeastLoaded
  <1>6. ASSUME NEW r \in Request, SelectRoundRobin(r) PROVE BalancerInv'
    <2>1. PICK i \in Healthy : Take(r, targets[i])
      BY <1>6 DEF SelectRoundRobin
    <2>2. i \in 1 .. Len(targets) /\ targets[i] \in Target /\ Contains(targets, targets[i])
      BY DEF Healthy, Contains
    <2>3. QED
      BY <1>6, <2>1, <2>2, TakeInv DEF SelectRoundRobin
  <1>7. ASSUME NEW r \in Request, Release(r) PROVE BalancerInv'
    BY <1>7, ReleaseInv
  <1>8. QED
    BY <1>1, <1>2, <1>3, <1>4, <1>5, <1>6, <1>7 DEF Balancer

(* What a refill adds is what the time since the last one gives, at most,  *)
(* whether the request is granted or refused.                              *)
LEMMA LimiterStep ==
  ASSUME LimiterInv, LimiterNext
  PROVE  LimiterInv'
  <1> USE LimiterAssumption DEF LimiterInv
  <1>1. CASE Tick
    BY <1>1 DEF Tick
  <1>2. ASSUME NEW n \in 1 .. Capacity_ + 1, AllowN(n) PROVE LimiterInv'
    <2>1. DEFINE gain == (now - lastRefill) * Rate_
    <2>2. now - lastRefill \in Nat /\ gain \in Nat
      OBVIOUS
    <2>3. Rate_ * now = Rate_ * lastRefill + gain /\ Rate_ * now \in Nat /\ Rate_ * lastRefill \in Nat
      OBVIOUS
    <2>4. Refilled \in Nat /\ Refilled <= tokens + gain
      BY <2>2 DEF Refilled
    <2>5. now' = now /\ lastRefill' = now /\ tokens' \in Nat /\ granted' \in Nat
          /\ granted' + tokens' = granted + Refilled
      BY <1>2, <2>4 DEF AllowN
    <2> HIDE DEF gain
    <2>6. granted' + tokens' <= Capacity_ + Rate_ * now
      <3>1. \A a, b, c, d, e, f \in Int : a + b <= c + d /\ e <= b + f => a + e <= c + (d + f)
        OBVIOUS
      <3>2. granted + Refilled <= Capacity_ + (Rate_ * lastRefill + gain)
        BY <2>2, <2>3, <2>4, <3>1
      <3>3. QED
        BY <2>3, <2>5, <3>2
    <2>7. granted' + tokens' <= Capacity_ + Rate_ * lastRefill'
      BY <2>5, <2>6
    <2>8. now' \in Nat /\ lastRefill' \in Nat /\ lastRefill' <= now'
      BY <2>5
    <2>9. QED
      BY <2>5, <2>7, <2>8
  <1>3. QED
    BY <1>1, <1>2 DEF LimiterNext

(* LoadBalancer and RateLimiter: the active operations of a target are the *)
(* requests that hold it, and the limiter grants what it has.              *)
THEOREM GatewayCountsHold == GatewaySpec => []GatewayCounts
  <1>1. BalancerInv /\ LimiterInv /\ [Balancer \/ LimiterNext]_gatewayVars => (BalancerInv /\ LimiterInv)'
    <2> SUFFICES ASSUME BalancerInv, LimiterInv, [Balancer \/ LimiterNext]_gatewayVars
                 PROVE  BalancerInv' /\ LimiterInv'
      OBVIOUS
    <2>1. UNCHANGED balancer => BalancerInv'
      BY Undisturbed DEF balancer, BalancerInv, BalancerTypes, Held, Contains
    <2>2. UNCHANGED limiter => LimiterInv'
      BY DEF limiter, LimiterInv
    <2>3. QED
      BY <2>1, <2>2, BalancerStep, LimiterStep DEF gatewayVars, Balancer, LimiterNext
  <1>2. BalancerInv /\ LimiterInv => GatewayCounts
    <2>1. LimiterInv => TokenBudget
      <3> SUFFICES ASSUME LimiterInv PROVE TokenBudget
        OBVIOUS
      <3>1. (now - lastRefill) * Rate_ \in Nat /\ Rate_ * now = Rate_ * lastRefill + (now - lastRefill) * Rate_
            /\ Rate_ * lastRefill \in Nat /\ Rate_ * now \in Nat
        BY LimiterAssumption DEF LimiterInv
      <3>2. QED
        BY <3>1, LimiterAssumption DEF LimiterInv, TokenBudget
    <2>2. BalancerInv => ActiveOpsAreExact
      BY DEF BalancerInv, Exact, holders, ActiveOpsAreExact
    <2>3. QED
      BY <2>1, <2>2 DEF GatewayCounts
  <1>3. QED
    BY <1>1, <1>2, GatewayInitInv, PTL DEF GatewaySpec
-----------------------------------------------------------------------------
(* `fish watch`.  An edit made since the watch was installed is in the     *)
(* channel, or among the changed paths, or is about to be read by the      *)
(* build under way, or was read by the last one.                           *)
Pending(f) ==
  \/ f \in ToSet(events)
  \/ f \in changed
  \/ wpc = "build" /\ f \in unread

WatchInv ==
  /\ edits \in [Source \cup Other -> Nat] /\ built \in [Source -> Nat]
  /\ wpc \in {"build", "recv", "debounce"} /\ events \in Seq(Source \cup Other)
  /\ changed \subseteq Source /\ unread \subseteq Source
  /\ wpc # "debounce" => changed = {}
  /\ ~installed => wpc = "build"
  /\ \A f \in Source \ blind : edits[f] > 0 => installed /\ (Pending(f) \/ built[f] = edits[f])

(* run_watch builds again whatever was edited behind its back, as long as  *)
(* the watch was there to see it.                                          *)
THEOREM QuietMeansBuiltHolds == WatchSpec => []QuietMeansBuilt
  <1>1. WatchInit => WatchInv
    BY DEF WatchInit, WatchInv
  <1>2. WatchInv /\ [WatchNext]_watchVars => WatchInv'
    <2> SUFFICES ASSUME WatchInv, [WatchNext]_watchVars PROVE WatchInv'
      OBVIOUS
    <2> USE DEF WatchInv, Pending
    <2>1. ASSUME NEW f \in Source \cup Other, Edit(f) PROVE WatchInv'
      <3>1. CASE installed
        <4>1. events' = Append(events, f) /\ events' \in Seq(Source \cup Other)
          BY <2>1, <3>1 DEF Edit
        <4>2. ToSet(events') = ToSet(events) \cup {f}
          <5>1. events \in Seq(Source \cup Other)
            OBVIOUS
          <5>2. ToSet(Append(events, f)) = ToSet(events) \cup {f}
            BY <5>1, AppendElements
          <5>3. QED
            BY <4>1, <5>2, Zenon
        <4>3. QED
          BY <2>1, <3>1, <4>1, <4>2 DEF Edit
      <3>2. CASE ~installed
        BY <2>1, <3>2 DEF Edit
      <3>3. QED
        BY <3>1, <3>2
    <2>2. ASSUME NEW f \in Source, BuildReads(f) PROVE WatchInv'
      BY <2>2 DEF BuildReads
    <2>3. CASE BuildEnds
      BY <2>3 DEF BuildEnds
    <2>4. CASE Recv \/ RecvTimeout
      <3>1. events # <<>> /\ events' = Tail(events) /\ changed' = changed \cup ({Head(events)} \cap Source)
        BY <2>4 DEF Recv, RecvTimeout
      <3>2. events' \in Seq(Source \cup Other) /\ Head(events) \in Source \cup Other
        BY <3>1
      <3>3. ToSet(events) \subseteq {Head(events)} \cup ToSet(events')
        BY <3>1, TailElements
      <3>4. QED
        BY <2>4, <3>1, <3>2, <3>3 DEF Recv, RecvTimeout
    <2>5. CASE DebounceEnds
      BY <2>5 DEF DebounceEnds
    <2>6. CASE UNCHANGED watchVars
      BY <2>6 DEF watchVars
    <2>7. QED
      BY <2>1, <2>2, <2>3, <2>4, <2>5, <2>6 DEF WatchNext
  <1>3. WatchInv => QuietMeansBuilt
    BY DEF WatchInv, Pending, QuietMeansBuilt, ToSet
  <1>4. QED
    BY <1>1, <1>2, <1>3, PTL DEF WatchSpec

-----------------------------------------------------------------------------
(* FsWatcherDaemon. *)
DirtyInv ==
  /\ changes \in [Tracked \cup Ignored -> Nat] /\ known \in [Tracked -> Nat]
  /\ reported \in Seq(Tracked \cup Ignored)
  /\ \A f \in Tracked : known[f] <= changes[f]
  /\ NoChangeIsLost

(* take_invalidated_targets, the events and mark_clean, key by key: a      *)
(* change is on its way, in the set, in the list, or known.                *)
THEOREM NoChangeIsLostHolds == DirtySpec => []NoChangeIsLost
  <1>1. DirtyInit => DirtyInv
    BY DEF DirtyInit, DirtyInv, NoChangeIsLost
  <1>2. DirtyInv /\ [DirtyNext]_dirtyVars => DirtyInv'
    <2> SUFFICES ASSUME DirtyInv, [DirtyNext]_dirtyVars PROVE DirtyInv'
      OBVIOUS
    <2> USE DEF DirtyInv, NoChangeIsLost
    <2>1. ASSUME NEW f \in Tracked \cup Ignored, Change(f) PROVE DirtyInv'
      <3>1. reported' = Append(reported, f) /\ reported' \in Seq(Tracked \cup Ignored)
        BY <2>1 DEF Change
      <3>2. ToSet(reported') = ToSet(reported) \cup {f}
        <4>1. reported \in Seq(Tracked \cup Ignored)
          OBVIOUS
        <4>2. ToSet(Append(reported, f)) = ToSet(reported) \cup {f}
          BY <4>1, AppendElements
        <4>3. QED
          BY <3>1, <4>2, Zenon
      <3>3. QED
        BY <2>1, <3>1, <3>2 DEF Change
    <2>2. CASE HandleEvent
      <3>1. reported # <<>> /\ reported' = Tail(reported) /\ reported' \in Seq(Tracked \cup Ignored)
        BY <2>2 DEF HandleEvent
      <3>2. ToSet(reported) \subseteq ToSet(reported') \cup {Head(reported)}
        BY <3>1, TailElements
      <3>3. /\ Head(reported) \in Tracked => invalidated_targets' = invalidated_targets \cup {Head(reported)}
            /\ invalidated_targets \subseteq invalidated_targets'
        BY <2>2 DEF HandleEvent, insert
      <3>4. changes' = changes /\ known' = known /\ list' = list
        BY <2>2 DEF HandleEvent
      <3>5. QED
        BY <3>1, <3>2, <3>3, <3>4
    <2>3. CASE TakeKeys \/ KeysCopied
      BY <2>3 DEF TakeKeys, KeysCopied
    <2>4. CASE TakeReturns
      BY <2>4 DEF TakeReturns
    <2>5. ASSUME NEW f \in Tracked, mark_dirty(f) \/ RemoveKey(f) PROVE DirtyInv'
      BY <2>5 DEF mark_dirty, insert, RemoveKey
    <2>6. ASSUME NEW f \in Tracked, mark_clean(f) PROVE DirtyInv'
      BY <2>6 DEF mark_clean
    <2>7. CASE UNCHANGED dirtyVars
      BY <2>7 DEF dirtyVars
    <2>8. QED
      BY <2>1, <2>2, <2>3, <2>4, <2>5, <2>6, <2>7 DEF DirtyNext
  <1>3. DirtyInv => NoChangeIsLost
    BY DEF DirtyInv
  <1>4. QED
    BY <1>1, <1>2, <1>3, PTL DEF DirtySpec

-----------------------------------------------------------------------------
(* VirtualFileSystem.  A read under way has what its path had since it     *)
(* began, and `before` has what it has now.                                *)
VfsInv ==
  /\ vpc \in [Reader -> {"idle", "tree", "memoize"}]
  /\ vcontent \in [Reader -> Nat] /\ before \in [Reader -> SUBSET Nat]
  /\ DOMAIN vpath = Reader /\ vpath = [r \in Reader |-> vpath[r]]
  /\ \A p \in DOMAIN root : root[p] \in Nat
  /\ TreeIsATree /\ ReadsAreAtomic
  /\ \A r \in Reader :
       /\ vpc[r] # "memoize" => vcontent[r] = 0
       /\ vpc[r] # "idle" => ContentAt(root, vpath[r]) \in before[r]

(* The end of a read forgets its path, what it read and what it might have *)
(* read, and leaves the tree and the other reads alone.                    *)
LEMMA EndReadKeeps ==
  ASSUME VfsInv, NEW r \in Reader, EndRead(r), root' = root
  PROVE  VfsInv'
  <1>1. /\ vpc' = [vpc EXCEPT ![r] = "idle"] /\ vpath' = [vpath EXCEPT ![r] = <<>>]
        /\ vcontent' = [vcontent EXCEPT ![r] = 0] /\ before' = [before EXCEPT ![r] = {}]
    BY DEF EndRead
  <1>2. /\ vpc' \in [Reader -> {"idle", "tree", "memoize"}]
        /\ vcontent' \in [Reader -> Nat] /\ before' \in [Reader -> SUBSET Nat]
        /\ DOMAIN vpath' = Reader /\ vpath' = [q \in Reader |-> vpath'[q]]
    BY <1>1 DEF VfsInv
  <1>3. /\ vpc'[r] = "idle" /\ vcontent'[r] = 0
        /\ \A q \in Reader \ {r} :
             vpc'[q] = vpc[q] /\ vpath'[q] = vpath[q] /\ vcontent'[q] = vcontent[q] /\ before'[q] = before[q]
    BY <1>1 DEF VfsInv
  <1>4. TreeIsATree' /\ \A p \in DOMAIN root' : root'[p] \in Nat
    BY DEF VfsInv, TreeIsATree
  <1>5. \A q \in Reader :
          /\ vcontent'[q] # 0 => vcontent'[q] \in before'[q]
          /\ vpc'[q] # "memoize" => vcontent'[q] = 0
          /\ vpc'[q] # "idle" => ContentAt(root', vpath'[q]) \in before'[q]
    BY <1>3 DEF VfsInv, ReadsAreAtomic
  <1>6. QED
    BY <1>2, <1>4, <1>5 DEF VfsInv, ReadsAreAtomic

(* write_file puts a file where none is above it, and takes away all that  *)
(* were below: the tree stays one.  read_file returns, and remembers, what *)
(* the path had during the read, whatever was written meanwhile.           *)
LEMMA VfsStep == VfsInv /\ [VfsNext]_vfsVars => VfsInv'
  <1> SUFFICES ASSUME VfsInv, [VfsNext]_vfsVars PROVE VfsInv'
    OBVIOUS
  <1> USE ContentAssumption DEF VfsInv
  <1>1. ASSUME NEW p \in Path, NEW v \in Content, write_file(p, v) PROVE VfsInv'
    <2>1. /\ \A q \in DOMAIN root' : q = p \/ (q \in DOMAIN root /\ ~Below(p, q) /\ root'[q] = root[q])
          /\ root'[p] = v
      BY <1>1 DEF write_file, With, Restrict
    <2>2. TreeIsATree'
      <3>1. ~Below(p, p)
        BY DEF Below, IsStrictPrefix
      <3>2. \A q \in DOMAIN root : ~Below(q, p)
        BY <1>1 DEF write_file
      <3>3. QED
        BY <2>1, <3>1, <3>2 DEF TreeIsATree, Below
    <2>3. \A q \in DOMAIN root' : root'[q] \in Nat
      BY <2>1
    <2>4. \A q : ContentAt(root', q) \in Nat
      BY <2>3 DEF ContentAt
    <2>5. QED
      BY <1>1, <2>2, <2>3, <2>4 DEF write_file, ReadsAreAtomic
  <1>2. CASE clear_cache
    BY <1>2 DEF clear_cache, TreeIsATree, ReadsAreAtomic, ContentAt
  <1>3. ASSUME NEW r \in Reader, NEW p \in Path, MissCache(r, p) PROVE VfsInv'
    BY <1>3 DEF MissCache, TreeIsATree, ReadsAreAtomic, ContentAt
  <1>4. ASSUME NEW r \in Reader, ReadTree(r) PROVE VfsInv'
    <2>1. vpc[r] = "tree" /\ root' = root
      BY <1>4 DEF ReadTree
    <2>2. TreeIsATree' /\ \A q : ContentAt(root, q)' = ContentAt(root, q)
      BY <2>1 DEF TreeIsATree, ContentAt
    <2>3. CASE vpath[r] \in DOMAIN root
      <3>1. /\ vcontent' = [vcontent EXCEPT ![r] = root[vpath[r]]]
            /\ vpc' = [vpc EXCEPT ![r] = "memoize"] /\ vpath' = vpath /\ before' = before
        BY <1>4, <2>3 DEF ReadTree
      <3>2. root[vpath[r]] \in Nat /\ root[vpath[r]] \in before[r]
        BY <2>1, <2>3 DEF ContentAt
      <3>3. QED
        BY <2>1, <2>2, <3>1, <3>2 DEF ReadsAreAtomic
    <2>4. CASE vpath[r] \notin DOMAIN root
      BY <1>4, <2>1, <2>4, EndReadKeeps DEF ReadTree
    <2>5. QED
      BY <2>3, <2>4
  <1>5. ASSUME NEW r \in Reader, Memoize(r) PROVE VfsInv'
    BY <1>5, EndReadKeeps DEF Memoize
  <1>6. CASE UNCHANGED vfsVars
    BY <1>6 DEF vfsVars, TreeIsATree, ReadsAreAtomic, ContentAt
  <1>7. QED
    BY <1>1, <1>2, <1>3, <1>4, <1>5, <1>6 DEF VfsNext

LEMMA VfsInitInv == VfsInit => VfsInv
  BY DEF VfsInit, VfsInv, TreeIsATree, ReadsAreAtomic

(* The cache: the bytes of a path that is not there are added to those     *)
(* that are.                                                               *)
LEMMA BytesAdded ==
  ASSUME NEW f, IsFiniteSet(BytesOf(f)), NEW p, p \notin DOMAIN f, NEW v \in Nat
  PROVE  /\ IsFiniteSet(BytesOf(With(f, p, v)))
         /\ Cardinality(BytesOf(With(f, p, v))) = Cardinality(BytesOf(f)) + v
  <1> DEFINE new == {p} \X (1 .. v)
  <1>1. IsFiniteSet(new) /\ Cardinality(new) = v
    <2>1. IsFiniteSet({p}) /\ Cardinality({p}) = 1
      BY FS_Singleton
    <2>2. IsFiniteSet(1 .. v) /\ Cardinality(1 .. v) = v
      BY FS_Interval
    <2>3. IsFiniteSet({p} \X (1 .. v))
          /\ Cardinality({p} \X (1 .. v)) = Cardinality({p}) * Cardinality(1 .. v)
      BY <2>1, <2>2, FS_Product, Zenon
    <2>4. QED
      BY <2>1, <2>2, <2>3
  <1>2. BytesOf(With(f, p, v)) = BytesOf(f) \cup new
    BY DEF BytesOf, With
  <1>3. BytesOf(f) \cap new = {}
    BY DEF BytesOf
  <1> HIDE DEF new
  <1>4. /\ IsFiniteSet(BytesOf(f) \cup new)
        /\ Cardinality(BytesOf(f) \cup new)
             = Cardinality(BytesOf(f)) + Cardinality(new) - Cardinality(BytesOf(f) \cap new)
    BY <1>1, FS_Union, Zenon
  <1>5. Cardinality({}) = 0 /\ Cardinality(BytesOf(f)) \in Nat
    BY FS_EmptySet, FS_CardinalityType
  <1>6. Cardinality(BytesOf(f) \cap new) = 0
    BY <1>3, <1>5, Zenon
  <1>7. Cardinality(BytesOf(f) \cup new) = Cardinality(BytesOf(f)) + v
    BY <1>1, <1>4, <1>5, <1>6
  <1>8. QED
    BY <1>2, <1>4, <1>7, Zenon

CacheInv == IsFiniteSet(BytesOf(entries)) /\ CacheBytesAreExact

LEMMA NoBytes == BytesOf(<<>>) = {} /\ IsFiniteSet({}) /\ Cardinality({}) = 0
  <1>1. BytesOf(<<>>) = {}
    BY DEF BytesOf
  <1>2. QED
    BY <1>1, FS_EmptySet

LEMMA CacheStep == VfsInv /\ CacheInv /\ [VfsNext]_vfsVars => CacheInv'
  <1> SUFFICES ASSUME VfsInv, CacheInv, [VfsNext]_vfsVars PROVE CacheInv'
    OBVIOUS
  <1>1. CASE UNCHANGED <<entries, total_bytes>>
    BY <1>1 DEF CacheInv, CacheBytesAreExact
  <1>2. CASE clear_cache
    <2>1. BytesOf(entries') = {} /\ total_bytes' = 0
      BY <1>2, NoBytes DEF clear_cache
    <2>2. QED
      BY <2>1, NoBytes, ContentAssumption DEF CacheInv, CacheBytesAreExact
  <1>3. ASSUME NEW r \in Reader, Memoize(r),
               vpath[r] \notin DOMAIN entries, total_bytes + vcontent[r] <= MaxCacheBytes
        PROVE  CacheInv'
    <2> DEFINE with == With(entries, vpath[r], vcontent[r])
    <2>1. entries' = with /\ total_bytes' = total_bytes + vcontent[r]
      BY <1>3 DEF Memoize
    <2>2. vcontent[r] \in Nat
      BY DEF VfsInv
    <2>3. IsFiniteSet(BytesOf(with)) /\ Cardinality(BytesOf(with)) = total_bytes + vcontent[r]
      BY <1>3, <2>2, BytesAdded DEF CacheInv, CacheBytesAreExact
    <2> HIDE DEF with
    <2>4. QED
      BY <1>3, <2>1, <2>3 DEF CacheInv, CacheBytesAreExact
  <1>4. QED
    BY <1>1, <1>2, <1>3 DEF VfsNext, vfsVars, write_file, MissCache, ReadTree, Memoize

(* And the bytes it counts are those of its entries, whatever reads of the *)
(* same path and clears interleave between the lock of the tree and its    *)
(* own, and within the budget.                                             *)
THEOREM VfsCorrect == VfsSpec => []VfsIsSound
  <1>1. VfsInit => VfsInv /\ CacheInv
    BY VfsInitInv, NoBytes, ContentAssumption DEF VfsInit, CacheInv, CacheBytesAreExact
  <1>2. VfsInv /\ CacheInv /\ [VfsNext]_vfsVars => (VfsInv /\ CacheInv)'
    BY VfsStep, CacheStep
  <1>3. VfsInv /\ CacheInv => VfsIsSound
    BY DEF VfsInv, CacheInv, VfsIsSound
  <1>4. QED
    BY <1>1, <1>2, <1>3, PTL DEF VfsSpec

-----------------------------------------------------------------------------
(* ProcessExecutor *)

Frame == [pid : Nat, todo : SUBSET Nat, child : Nat]

(* The processes the walk may miss, and those it may not.                  *)
Missed == WithDescendants((born \ onList) \cup slipped \cup orphaned)

ExecutorTypes ==
  /\ parent \in Seq(Nat) /\ mother \in Seq(Nat)
  /\ Len(mother) = Len(parent)
  /\ epc = "start" => parent = <<>>
  /\ alive \subseteq born /\ onList \subseteq born
  /\ slipped \subseteq born /\ orphaned \subseteq born
  /\ frames \in Seq(Frame)

(* Every process descends from the command. *)
OneFamily ==
  \A S \in SUBSET born :
    1 \in S /\ (\A q \in born : mother[q] \in S => q \in S) => S = born

(* A call deals with the child whose own call is the next inner one; the   *)
(* outermost call is that of the command.                                  *)
CallsAreNested ==
  /\ epc = "walk" <=> frames # <<>>
  /\ \A i \in 2 .. Len(frames) : frames[i].child = frames[i - 1].pid
  /\ frames # <<>> => frames[1].child = Outside /\ frames[Len(frames)].pid = 1

(* A process that the walk should not miss has been walked, is on a list,  *)
(* or has a parent that has not been walked.                               *)
Expected(p) ==
  \/ p \in Walked
  \/ \E i \in DOMAIN frames : p \in frames[i].todo
  \/ mother[p] \in alive /\ parent[p] = mother[p] /\ mother[p] \notin Walked

WalkIsThorough ==
  IF epc = "timeout" THEN alive \subseteq Missed
  ELSE \A p \in alive : p = 1 \/ p \in Missed \/ Expected(p)

ExecutorInv == ExecutorTypes /\ OneFamily /\ CallsAreNested /\ WalkIsThorough

LEMMA MissedRoots ==
  ASSUME NEW p \in born, p \notin onList \/ p \in slipped \/ p \in orphaned
  PROVE  p \in Missed
  BY DEF Missed, WithDescendants

LEMMA MissedChildren ==
  ASSUME NEW p \in born, mother[p] \in Missed
  PROVE  p \in Missed
  BY DEF Missed, WithDescendants

(* Who is missed stays missed, whatever is born or orphaned. *)
LEMMA MissedGrows ==
  ASSUME born \subseteq born', \A q \in born : mother'[q] = mother[q],
         onList' \cap born \subseteq onList, slipped \subseteq slipped', orphaned \subseteq orphaned'
  PROVE  Missed \subseteq Missed'
  <1>1. SUFFICES ASSUME NEW p \in Missed, NEW S \in SUBSET born',
                        ((born' \ onList') \cup slipped' \cup orphaned') \cap born' \subseteq S,
                        \A q \in born' : mother'[q] \in S => q \in S
                 PROVE  p \in S
    BY DEF Missed, WithDescendants
  <1> DEFINE T == S \cap born
  <1>2. T \in SUBSET born
    OBVIOUS
  <1>3. ((born \ onList) \cup slipped \cup orphaned) \cap born \subseteq T
    BY <1>1
  <1>4. ASSUME NEW q \in born, mother[q] \in T PROVE q \in T
    BY <1>1, <1>4
  <1>5. QED
    <2> HIDE DEF T
    <2>1. p \in T
      BY <1>2, <1>3, <1>4 DEF Missed, WithDescendants
    <2>2. QED
      BY <2>1 DEF T

(* A step that adds no process, and changes none of these sets but the     *)
(* orphans.                                                                *)
LEMMA NoBirth ==
  ASSUME born' = born, mother' = mother, onList' = onList, slipped \subseteq slipped',
         orphaned \subseteq orphaned'
  PROVE  Missed \subseteq Missed' /\ (OneFamily => OneFamily')
  <1>1. Missed \subseteq Missed'
    BY MissedGrows
  <1>2. OneFamily => OneFamily'
    BY DEF OneFamily
  <1>3. QED
    BY <1>1, <1>2

LEMMA SpawnInv == ExecutorInv /\ Spawn => ExecutorInv'
  <1> SUFFICES ASSUME ExecutorInv, Spawn PROVE ExecutorInv'
    OBVIOUS
  <1>1. parent' = <<0>> /\ mother' = <<0>> /\ alive' = {1} /\ onList' = {1}
    BY DEF Spawn, Outside
  <1>2. born' = {1}
    BY <1>1 DEF born
  <1>3. parent = <<>> /\ born = {} /\ slipped = {} /\ orphaned = {}
    BY DEF Spawn, ExecutorInv, ExecutorTypes, born
  <1>4. frames' = frames /\ frames = <<>> /\ slipped' = {} /\ orphaned' = {} /\ epc' = "wait"
    BY <1>3 DEF Spawn, ExecutorInv, CallsAreNested
  <1>5. ExecutorTypes'
    <2>1. parent' \in Seq(Nat) /\ mother' \in Seq(Nat) /\ Len(parent') = 1 /\ Len(mother') = 1
      BY <1>1
    <2>2. QED
      BY <1>1, <1>2, <1>4, <2>1 DEF ExecutorInv, ExecutorTypes
  <1>6. OneFamily'
    BY <1>2 DEF OneFamily
  <1>7. CallsAreNested' /\ WalkIsThorough'
    BY <1>1, <1>4 DEF CallsAreNested, WalkIsThorough
  <1>8. QED
    BY <1>5, <1>6, <1>7 DEF ExecutorInv

(* The child is one more process; its mother is a living one. *)
LEMMA ForkInv ==
  ASSUME ExecutorInv, NEW p \in alive, Fork(p)
  PROVE  ExecutorInv'
  <1>0. PICK q : q = Len(parent) + 1
    OBVIOUS
  <1>1. /\ parent \in Seq(Nat) /\ mother \in Seq(Nat) /\ Len(mother) = Len(parent)
        /\ p \in born /\ p \in Nat /\ Len(parent) \in Nat
    BY DEF ExecutorInv, ExecutorTypes, born
  <1>2. /\ parent' = Append(parent, p) /\ mother' = Append(mother, p)
        /\ alive' = alive \cup {q} /\ onList' \subseteq onList \cup {q}
        /\ onList \subseteq onList'
        /\ slipped' \in {slipped, slipped \cup {q}} /\ orphaned' = orphaned
        /\ p \in Walked => q \in slipped'
        /\ frames' = frames /\ epc' = epc
    BY <1>0 DEF Fork
  <1>3. /\ born = 1 .. Len(parent) /\ born' = 1 .. q /\ q \notin born /\ born' = born \cup {q}
        /\ mother'[q] = p /\ parent'[q] = p
        /\ \A r \in born : mother'[r] = mother[r] /\ parent'[r] = parent[r]
        /\ parent' \in Seq(Nat) /\ mother' \in Seq(Nat) /\ Len(mother') = Len(parent')
    BY <1>0, <1>1, <1>2 DEF born
  <1>4. ExecutorTypes'
    <2>1. epc' # "start"
      BY <1>1, <1>2 DEF ExecutorInv, ExecutorTypes, born
    <2>2. QED
      BY <1>2, <1>3, <2>1 DEF ExecutorInv, ExecutorTypes
  <1>5. OneFamily'
    <2>1. SUFFICES ASSUME NEW S \in SUBSET born', 1 \in S,
                          \A r \in born' : mother'[r] \in S => r \in S
                   PROVE  S = born'
      BY DEF OneFamily
    <2>2. 1 \in born /\ born \subseteq Nat
      BY <1>1, <1>3
    <2> DEFINE T == S \cap born
    <2>3. T \in SUBSET born /\ 1 \in T
      BY <2>1, <2>2
    <2>4. \A r \in born : mother[r] \in T => r \in T
      BY <1>3, <2>1
    <2>5. T = born
      <3> HIDE DEF T
      <3>1. QED
        BY <2>3, <2>4 DEF ExecutorInv, OneFamily
    <2>6. p \in S /\ q \in S
      BY <1>1, <1>3, <2>1, <2>5
    <2>7. born \subseteq S
      BY <2>5
    <2>8. QED
      <3> HIDE DEF T
      <3>1. QED
        BY <1>3, <2>1, <2>6, <2>7
  <1>6. CallsAreNested'
    BY <1>2 DEF ExecutorInv, CallsAreNested
  <1>7. Missed \subseteq Missed'
    <2>1. onList' \cap born \subseteq onList
      BY <1>2, <1>3
    <2>2. QED
      BY <1>2, <1>3, <2>1, MissedGrows
  <1>8. \A r \in born' : mother'[r] \in Missed' => r \in Missed'
    BY DEF Missed, WithDescendants
  <1>9. \A r \in born' : r \in slipped' => r \in Missed'
    BY DEF Missed, WithDescendants
  <1>10. WalkIsThorough'
    <2>1. CASE epc = "timeout"
      <3>1. alive \subseteq Missed'
        BY <1>7, <2>1 DEF ExecutorInv, WalkIsThorough
      <3>2. q \in Missed'
        BY <1>3, <1>8, <3>1
      <3>3. QED
        BY <1>2, <2>1, <3>1, <3>2 DEF WalkIsThorough
    <2>2. CASE epc # "timeout"
      <3>1. Walked' = Walked
        BY <1>2 DEF Walked
      <3>2. ASSUME NEW r \in alive PROVE r = 1 \/ r \in Missed' \/ Expected(r)'
        <4>1. r = 1 \/ r \in Missed \/ Expected(r)
          BY <2>2 DEF ExecutorInv, WalkIsThorough
        <4>2. r \in born
          BY DEF ExecutorInv, ExecutorTypes
        <4>3. ASSUME Expected(r) PROVE Expected(r)'
          BY <1>2, <1>3, <3>1, <4>2, <4>3 DEF Expected
        <4>4. QED
          BY <1>7, <4>1, <4>3
      <3>3. q \in Missed' \/ Expected(q)'
        <4>1. CASE p \in Walked
          BY <1>2, <1>3, <1>9, <4>1
        <4>2. CASE p \notin Walked
          BY <1>2, <1>3, <3>1, <4>2 DEF Expected
        <4>3. QED
          BY <4>1, <4>2
      <3>4. QED
        BY <1>2, <2>2, <3>2, <3>3 DEF WalkIsThorough
    <2>3. QED
      BY <2>1, <2>2
  <1>11. QED
    BY <1>4, <1>5, <1>6, <1>10 DEF ExecutorInv

(* What an end does to the rest: nobody else leaves, and the children that *)
(* are not the dead process's keep their parent.                           *)
LEMMA EndKeeps ==
  ASSUME ExecutorTypes, NEW p, Ends(p)
  PROVE  /\ alive' = alive \ {p} /\ born' = born
         /\ parent' \in Seq(Nat) /\ Len(parent') = Len(parent)
         /\ \A q \in born : parent[q] # p => parent'[q] = parent[q]
         /\ epc = "start" => parent' = <<>>
  <1>1. born = 1 .. Len(parent) /\ Len(parent) \in Nat
    BY DEF ExecutorTypes, born
  <1>2. parent' = [q \in 1 .. Len(parent) |-> IF parent[q] = p THEN 0 ELSE parent[q]]
    BY <1>1 DEF Ends, Outside
  <1>3. \A q \in 1 .. Len(parent) : parent[q] \in Nat
    BY <1>1 DEF ExecutorTypes
  <1>4. parent' \in Seq(Nat) /\ Len(parent') = Len(parent)
    BY <1>1, <1>2, <1>3
  <1>5. born' = born
    BY <1>1, <1>2 DEF born
  <1>6. epc = "start" => parent' = <<>>
    BY <1>1, <1>2, <1>4 DEF ExecutorTypes
  <1>7. QED
    BY <1>1, <1>2, <1>4, <1>5, <1>6 DEF Ends

(* A process that ends by itself leaves children behind that the walk will *)
(* miss, unless it has read their numbers already.                         *)
LEMMA ExitInv ==
  ASSUME ExecutorInv, NEW p \in alive, Exit(p)
  PROVE  ExecutorInv'
  <1>1. /\ alive' = alive \ {p} /\ born' = born
        /\ parent' \in Seq(Nat) /\ Len(parent') = Len(parent)
        /\ \A q \in born : parent[q] # p => parent'[q] = parent[q]
        /\ epc = "start" => parent' = <<>>
    BY EndKeeps DEF ExecutorInv, Exit
  <1>2. /\ orphaned' = IF p \in Walked THEN orphaned ELSE orphaned \cup ChildrenOf(p)
        /\ mother' = mother /\ onList' = onList /\ slipped' = slipped
        /\ frames' = frames /\ epc' = epc
    BY DEF Exit
  <1>3. orphaned \subseteq orphaned' /\ orphaned' \subseteq born
    BY <1>2 DEF ChildrenOf, ExecutorInv, ExecutorTypes
  <1>4. Missed \subseteq Missed' /\ OneFamily'
    BY <1>1, <1>2, <1>3, NoBirth DEF ExecutorInv
  <1>5. ExecutorTypes'
    BY <1>1, <1>2, <1>3 DEF ExecutorInv, ExecutorTypes
  <1>6. CallsAreNested'
    BY <1>2 DEF ExecutorInv, CallsAreNested
  <1>7. Walked' = Walked
    BY <1>2 DEF Walked
  <1>8. \A r \in born : r \in orphaned' => r \in Missed'
    BY <1>1 DEF Missed, WithDescendants
  <1>9. WalkIsThorough'
    <2>1. CASE epc = "timeout"
      BY <1>1, <1>2, <1>4, <2>1 DEF ExecutorInv, WalkIsThorough
    <2>2. CASE epc # "timeout"
      <3>1. ASSUME NEW r \in alive', r # 1, r \notin Missed' PROVE Expected(r)'
        <4>1. r \in alive /\ r \in born /\ Expected(r)
          BY <1>1, <1>4, <2>2, <3>1 DEF ExecutorInv, WalkIsThorough, ExecutorTypes
        <4>2. CASE r \in Walked \/ \E i \in DOMAIN frames : r \in frames[i].todo
          BY <1>2, <1>7, <4>2 DEF Expected
        <4>3. CASE mother[r] \in alive /\ parent[r] = mother[r] /\ mother[r] \notin Walked
          <5>1. mother[r] # p
            BY <1>2, <1>8, <3>1, <4>1, <4>3 DEF ChildrenOf
          <5>2. QED
            BY <1>1, <1>2, <1>7, <4>1, <4>3, <5>1 DEF Expected
        <4>4. QED
          BY <4>1, <4>2, <4>3 DEF Expected
      <3>2. QED
        BY <1>2, <2>2, <3>1 DEF WalkIsThorough
    <2>3. QED
      BY <2>1, <2>2
  <1>10. QED
    BY <1>4, <1>5, <1>6, <1>9 DEF ExecutorInv

(* The timeout: the walk begins with the children of the command.          *)
LEMMA TimedOutInv == ExecutorInv /\ TimedOut => ExecutorInv'
  <1> SUFFICES ASSUME ExecutorInv, TimedOut PROVE ExecutorInv'
    OBVIOUS
  <1> DEFINE f == [pid |-> 1, todo |-> ChildrenOf(1) \cap onList, child |-> 0]
  <1>1. /\ epc = "wait" /\ epc' = "walk" /\ frames = <<>> /\ frames' = <<f>>
        /\ UNCHANGED treeVars
    BY DEF TimedOut, Call, Outside, ExecutorInv, CallsAreNested
  <1>2. /\ alive' = alive /\ parent' = parent /\ mother' = mother /\ onList' = onList
        /\ slipped' = slipped /\ orphaned' = orphaned /\ born' = born
    BY <1>1 DEF treeVars, born
  <1>3. born \subseteq Nat /\ alive \subseteq born
    BY DEF ExecutorInv, ExecutorTypes, born
  <1>4. f \in Frame
    BY <1>3 DEF Frame, ChildrenOf
  <1>5. f.pid = 1 /\ f.child = 0 /\ f.todo = ChildrenOf(1) \cap onList
    OBVIOUS
  <1> HIDE DEF f
  <1>6. frames' \in Seq(Frame) /\ Len(frames') = 1 /\ frames'[1] = f
    BY <1>1, <1>4
  <1>7. ExecutorTypes'
    BY <1>1, <1>2, <1>6 DEF ExecutorInv, ExecutorTypes
  <1>8. Missed \subseteq Missed' /\ OneFamily'
    BY <1>2, NoBirth DEF ExecutorInv
  <1>9. CallsAreNested'
    BY <1>1, <1>5, <1>6 DEF CallsAreNested, Outside
  <1>10. Walked = {} /\ Walked' = {1} /\ DOMAIN frames' = {1}
    BY <1>1, <1>5, <1>6 DEF Walked
  <1>11. ASSUME NEW r \in alive, r # 1, r \notin Missed' PROVE Expected(r)'
    <2>1. r \in born /\ r \in onList
      BY <1>3, <1>8, <1>11, MissedRoots
    <2>2. Expected(r)
      BY <1>1, <1>8, <1>11 DEF ExecutorInv, WalkIsThorough
    <2>3. mother[r] \in alive /\ parent[r] = mother[r]
      BY <1>1, <1>10, <2>2 DEF Expected
    <2>4. CASE mother[r] = 1
      <3>1. r \in frames'[1].todo
        BY <1>5, <1>6, <2>1, <2>3, <2>4, <1>11 DEF ChildrenOf
      <3>2. QED
        BY <1>10, <3>1 DEF Expected
    <2>5. CASE mother[r] # 1
      BY <1>2, <1>10, <2>3, <2>5 DEF Expected
    <2>6. QED
      BY <2>4, <2>5
  <1>12. WalkIsThorough'
    BY <1>1, <1>2, <1>11 DEF WalkIsThorough
  <1>13. QED
    BY <1>7, <1>8, <1>9, <1>12 DEF ExecutorInv

(* What the loop of a call makes of its frame.                             *)
LEMMA TakeChild ==
  ASSUME NEW f \in Frame, NEW c
  PROVE [f EXCEPT !.todo = @ \ {c}, !.child = c] = [pid |-> f.pid, todo |-> f.todo \ {c}, child |-> c]
  <1> DEFINE g == [f EXCEPT !.todo = @ \ {c}]
  <1>1. g = [pid |-> f.pid, todo |-> f.todo \ {c}, child |-> f.child]
    BY DEF Frame
  <1>2. [g EXCEPT !.child = c] = [f EXCEPT !.todo = @ \ {c}, !.child = c]
    OBVIOUS
  <1> HIDE DEF g
  <1>3. [g EXCEPT !.child = c] = [pid |-> f.pid, todo |-> f.todo \ {c}, child |-> c]
    BY <1>1
  <1>4. QED
    BY <1>2, <1>3

(* Going down to a child: it is walked, and its children are on a list.    *)
LEMMA DescendInv == ExecutorInv /\ Descend => ExecutorInv'
  <1> SUFFICES ASSUME ExecutorInv, Descend PROVE ExecutorInv'
    OBVIOUS
  <1>1. frames \in Seq(Frame) /\ frames # <<>> /\ epc = "walk" /\ epc' = epc
    BY DEF ExecutorInv, ExecutorTypes, Descend
  <1>2. PICK c \in frames[1].todo :
          frames' = <<Call(c), [frames[1] EXCEPT !.todo = @ \ {c}, !.child = c]>> \o Tail(frames)
    BY DEF Descend
  <1>3. /\ alive' = alive /\ parent' = parent /\ mother' = mother /\ onList' = onList
        /\ slipped' = slipped /\ orphaned' = orphaned /\ born' = born
    BY DEF Descend, treeVars, born
  <1>4. born \subseteq Nat /\ alive \subseteq born
    BY DEF ExecutorInv, ExecutorTypes, born
  <1>5. Len(frames) \in Nat /\ Len(frames) >= 1 /\ frames[1] \in Frame /\ c \in Nat
    <2>1. Len(frames) \in Nat /\ Len(frames) >= 1 /\ frames[1] \in Frame
      BY <1>1
    <2>2. QED
      BY <2>1 DEF Frame
  <1> DEFINE f == [pid |-> c, todo |-> ChildrenOf(c) \cap onList, child |-> 0]
             g == [pid |-> frames[1].pid, todo |-> frames[1].todo \ {c}, child |-> c]
  <1>6. f \in Frame /\ g \in Frame
    BY <1>4, <1>5 DEF Frame, ChildrenOf
  <1>7. frames' = <<f, g>> \o Tail(frames)
    <2>1. [frames[1] EXCEPT !.todo = @ \ {c}, !.child = c] = g
      BY <1>5, TakeChild
    <2>2. QED
      BY <1>2, <2>1 DEF Call, Outside
  <1>8. f.pid = c /\ f.child = 0 /\ f.todo = ChildrenOf(c) \cap onList
    OBVIOUS
  <1>9. g.pid = frames[1].pid /\ g.child = c /\ g.todo = frames[1].todo \ {c}
    OBVIOUS
  <1> HIDE DEF f, g
  <1>10. /\ frames' \in Seq(Frame) /\ Len(frames') = Len(frames) + 1
         /\ frames'[1] = f /\ frames'[2] = g
         /\ \A i \in 3 .. Len(frames) + 1 : frames'[i] = frames[i - 1]
    BY <1>1, <1>5, <1>6, <1>7
  <1>11. ExecutorTypes'
    BY <1>1, <1>3, <1>10 DEF ExecutorInv, ExecutorTypes
  <1>12. Missed \subseteq Missed' /\ OneFamily'
    BY <1>3, NoBirth DEF ExecutorInv
  <1>13. CallsAreNested'
    <2>1. \A i \in 2 .. Len(frames') : frames'[i].child = frames'[i - 1].pid
      <3>1. SUFFICES ASSUME NEW i \in 2 .. Len(frames) + 1
                     PROVE  frames'[i].child = frames'[i - 1].pid
        BY <1>10
      <3>2. CASE i = 2
        BY <1>8, <1>9, <1>10, <3>2
      <3>3. CASE i = 3
        BY <1>5, <1>9, <1>10, <3>1, <3>3 DEF ExecutorInv, CallsAreNested
      <3>4. CASE i > 3
        <4>1. i - 1 \in 2 .. Len(frames) /\ i - 1 \in 3 .. Len(frames) + 1 /\ i \in 3 .. Len(frames) + 1
          BY <1>5, <3>1, <3>4
        <4>2. frames[i - 1].child = frames[i - 2].pid
          <5>1. (i - 1) - 1 = i - 2
            BY <3>1
          <5>2. QED
            BY <4>1, <5>1 DEF ExecutorInv, CallsAreNested
        <4>3. frames'[i] = frames[i - 1] /\ frames'[i - 1] = frames[i - 2]
          <5>1. (i - 1) - 1 = i - 2
            BY <3>1
          <5>2. QED
            BY <1>10, <4>1, <5>1
        <4>4. QED
          BY <4>2, <4>3
      <3>5. QED
        BY <3>1, <3>2, <3>3, <3>4
    <2>2. frames'[Len(frames')].pid = 1
      <3>1. frames[Len(frames)].pid = 1
        BY <1>1 DEF ExecutorInv, CallsAreNested
      <3>2. CASE Len(frames) = 1
        BY <1>9, <1>10, <3>1, <3>2
      <3>3. CASE Len(frames) > 1
        <4>1. Len(frames) + 1 \in 3 .. Len(frames) + 1 /\ (Len(frames) + 1) - 1 = Len(frames)
          BY <1>5, <3>3
        <4>2. frames'[Len(frames) + 1] = frames[Len(frames)]
          BY <1>10, <4>1
        <4>3. QED
          BY <1>10, <3>1, <4>2
      <3>4. Len(frames) = 1 \/ Len(frames) > 1
        <4>1. PICK n \in Nat : n = Len(frames) /\ n >= 1
          BY <1>5
        <4>2. n = 1 \/ n > 1
          BY <4>1
        <4>3. QED
          BY <4>1, <4>2
      <3>5. QED
        BY <3>2, <3>3, <3>4
    <2>3. frames' # <<>>
      BY <1>5, <1>10
    <2>4. QED
      BY <1>1, <1>8, <1>10, <2>1, <2>2, <2>3 DEF CallsAreNested, Outside
  <1>14. Walked' = Walked \cup {c}
    <2>1. DOMAIN frames = 1 .. Len(frames) /\ DOMAIN frames' = 1 .. Len(frames) + 1
      BY <1>1, <1>10
    <2>2. \A i \in 1 .. Len(frames) : frames[i].pid = frames'[i + 1].pid
      <3>1. SUFFICES ASSUME NEW i \in 1 .. Len(frames) PROVE frames[i].pid = frames'[i + 1].pid
        OBVIOUS
      <3>2. CASE i = 1
        BY <1>9, <1>10, <3>2
      <3>3. CASE i > 1
        <4>1. i + 1 \in 3 .. Len(frames) + 1 /\ (i + 1) - 1 = i
          BY <1>5, <3>1, <3>3
        <4>2. QED
          BY <1>10, <4>1
      <3>4. QED
        BY <3>1, <3>2, <3>3
    <2>3. ASSUME NEW x \in Walked PROVE x \in Walked'
      <3>1. PICK i \in 1 .. Len(frames) : x = frames[i].pid
        BY <2>1, <2>3 DEF Walked
      <3>2. i + 1 \in 1 .. Len(frames) + 1
        BY <1>5, <3>1
      <3>3. QED
        BY <2>1, <2>2, <3>1, <3>2 DEF Walked
    <2>4. c \in Walked'
      BY <1>5, <1>8, <1>10, <2>1 DEF Walked
    <2>5. ASSUME NEW x \in Walked', x # c PROVE x \in Walked
      <3>1. PICK j \in 1 .. Len(frames) + 1 : x = frames'[j].pid
        BY <2>1, <2>5 DEF Walked
      <3>2. j # 1
        BY <1>8, <1>10, <2>5, <3>1
      <3>3. j - 1 \in 1 .. Len(frames) /\ (j - 1) + 1 = j
        BY <1>5, <3>1, <3>2
      <3>4. QED
        BY <2>1, <2>2, <3>1, <3>3 DEF Walked
    <2>6. QED
      BY <2>3, <2>4, <2>5
  <1>15. ASSUME NEW r \in alive, r # 1, r \notin Missed' PROVE Expected(r)'
    <2>1. r \in born /\ r \in onList
      BY <1>4, <1>12, <1>15, MissedRoots
    <2>2. Expected(r)
      BY <1>1, <1>12, <1>15 DEF ExecutorInv, WalkIsThorough
    <2>3. CASE r \in Walked \/ r = c
      BY <1>14, <2>3 DEF Expected
    <2>4. CASE r # c /\ \E i \in DOMAIN frames : r \in frames[i].todo
      <3>1. PICK i \in 1 .. Len(frames) : r \in frames[i].todo
        BY <1>1, <2>4
      <3>2. CASE i = 1
        <4>1. r \in frames'[2].todo
          BY <1>9, <1>10, <2>4, <3>1, <3>2
        <4>2. 2 \in DOMAIN frames'
          BY <1>5, <1>10
        <4>3. QED
          BY <4>1, <4>2 DEF Expected
      <3>3. CASE i > 1
        <4>1. i + 1 \in 3 .. Len(frames) + 1 /\ (i + 1) - 1 = i
          BY <1>5, <3>1, <3>3
        <4>2. r \in frames'[i + 1].todo /\ i + 1 \in DOMAIN frames'
          BY <1>10, <3>1, <4>1
        <4>3. QED
          BY <4>2 DEF Expected
      <3>4. QED
        BY <3>1, <3>2, <3>3
    <2>5. CASE mother[r] \in alive /\ parent[r] = mother[r] /\ mother[r] \notin Walked
      <3>1. CASE mother[r] = c
        <4>1. r \in frames'[1].todo
          BY <1>8, <1>10, <1>15, <2>1, <2>5, <3>1 DEF ChildrenOf
        <4>2. 1 \in DOMAIN frames'
          BY <1>5, <1>10
        <4>3. QED
          BY <4>1, <4>2 DEF Expected
      <3>2. CASE mother[r] # c
        BY <1>3, <1>14, <2>5, <3>2 DEF Expected
      <3>3. QED
        BY <3>1, <3>2
    <2>6. QED
      BY <2>2, <2>3, <2>4, <2>5 DEF Expected
  <1>16. WalkIsThorough'
    BY <1>1, <1>3, <1>15 DEF WalkIsThorough
  <1>17. QED
    BY <1>11, <1>12, <1>13, <1>16 DEF ExecutorInv

(* What returning makes of the caller's frame. *)
LEMMA ChildDone ==
  ASSUME NEW f \in Frame
  PROVE  [f EXCEPT !.child = 0] = [pid |-> f.pid, todo |-> f.todo, child |-> 0]
  BY DEF Frame

(* Coming back from a child, whose list is empty: it is killed, or slips,  *)
(* and its children have all been walked or are on a list further out.     *)
LEMMA ReturnAndKillInv == ExecutorInv /\ ReturnAndKill => ExecutorInv'
  <1> SUFFICES ASSUME ExecutorInv, ReturnAndKill PROVE ExecutorInv'
    OBVIOUS
  <1>1. /\ frames \in Seq(Frame) /\ Len(frames) > 1 /\ Len(frames) \in Nat
        /\ epc = "walk" /\ epc' = epc /\ frames[1].todo = {}
    BY DEF ExecutorInv, ExecutorTypes, ReturnAndKill
  <1>2. PICK c : c = frames[2].child
    OBVIOUS
  <1>3. /\ mother' = mother /\ onList' = onList /\ orphaned' = orphaned
        /\ \/ Ends(c) /\ slipped' = slipped
           \/ c \in alive /\ slipped' = slipped \cup {c} /\ alive' = alive /\ parent' = parent
    BY <1>2 DEF ReturnAndKill
  <1>4. c = frames[1].pid
    <2>1. 2 \in 2 .. Len(frames) /\ 2 - 1 = 1
      BY <1>1
    <2>2. QED
      BY <1>2, <2>1 DEF ExecutorInv, CallsAreNested
  <1>5. /\ alive' \subseteq alive /\ born' = born
        /\ parent' \in Seq(Nat) /\ Len(parent') = Len(parent)
        /\ \A q \in born : parent[q] # c => parent'[q] = parent[q]
        /\ \A q \in born : q # c => (q \in alive' <=> q \in alive)
        /\ c \in alive' => c \in slipped'
        /\ slipped \subseteq slipped' /\ slipped' \subseteq born
    <2>1. CASE Ends(c) /\ slipped' = slipped
      BY <1>3, <2>1, EndKeeps DEF ExecutorInv, ExecutorTypes
    <2>2. CASE c \in alive /\ slipped' = slipped \cup {c} /\ alive' = alive /\ parent' = parent
      BY <1>3, <2>2 DEF ExecutorInv, ExecutorTypes, born
    <2>3. QED
      BY <1>3, <2>1, <2>2
  <1>6. alive \subseteq born
    BY DEF ExecutorInv, ExecutorTypes
  <1>7. frames[2] \in Frame
    BY <1>1
  <1> DEFINE f == [pid |-> frames[2].pid, todo |-> frames[2].todo, child |-> 0]
  <1>8. f \in Frame /\ f.pid = frames[2].pid /\ f.todo = frames[2].todo /\ f.child = 0
    BY <1>7 DEF Frame
  <1>9. frames' = <<f>> \o Tail(Tail(frames))
    <2>1. frames' = <<[frames[2] EXCEPT !.child = 0]>> \o Tail(Tail(frames))
      BY DEF ReturnAndKill, Outside
    <2>2. [frames[2] EXCEPT !.child = 0] = f
      BY <1>7, ChildDone
    <2>3. QED
      BY <2>1, <2>2
  <1> HIDE DEF f
  <1>10. /\ frames' \in Seq(Frame) /\ Len(frames') = Len(frames) - 1
         /\ frames'[1] = f
         /\ \A i \in 2 .. Len(frames) - 1 : frames'[i] = frames[i + 1]
    <2> DEFINE t == Tail(frames)
               u == Tail(t)
    <2>1. /\ t \in Seq(Frame) /\ Len(t) = Len(frames) - 1
          /\ \A i \in 1 .. Len(frames) - 1 : t[i] = frames[i + 1]
      BY <1>1
    <2> HIDE DEF t
    <2>2. /\ u \in Seq(Frame) /\ Len(u) = Len(frames) - 2
          /\ \A i \in 1 .. Len(frames) - 2 : u[i] = t[i + 1]
      BY <1>1, <2>1
    <2>3. frames' = <<f>> \o u
      BY <1>9 DEF t
    <2> HIDE DEF u
    <2>4. /\ frames' \in Seq(Frame) /\ Len(frames') = Len(frames) - 1
          /\ frames'[1] = f
          /\ \A i \in 2 .. Len(frames) - 1 : frames'[i] = u[i - 1]
      BY <1>1, <1>8, <2>2, <2>3
    <2>5. ASSUME NEW i \in 2 .. Len(frames) - 1 PROVE frames'[i] = frames[i + 1]
      <3>1. i - 1 \in 1 .. Len(frames) - 2 /\ (i - 1) + 1 = i /\ i \in 1 .. Len(frames) - 1
        BY <1>1, <2>5
      <3>2. u[i - 1] = t[i] /\ t[i] = frames[i + 1]
        BY <2>1, <2>2, <3>1
      <3>3. QED
        BY <2>4, <3>2
    <2>6. QED
      BY <2>4, <2>5
  <1>11. ExecutorTypes'
    BY <1>1, <1>3, <1>5, <1>10 DEF ExecutorInv, ExecutorTypes
  <1>12. Missed \subseteq Missed' /\ OneFamily'
    BY <1>3, <1>5, NoBirth DEF ExecutorInv
  <1>13. CallsAreNested'
    <2>1. ASSUME NEW i \in 2 .. Len(frames) - 1
          PROVE  frames'[i].child = frames'[i - 1].pid
      <3>1. i + 1 \in 2 .. Len(frames) /\ (i + 1) - 1 = i
        BY <1>1, <2>1
      <3>2. frames[i + 1].child = frames[i].pid
        BY <3>1 DEF ExecutorInv, CallsAreNested
      <3>3. frames'[i].child = frames[i].pid
        BY <1>10, <2>1, <3>2
      <3>4. CASE i = 2
        BY <1>8, <1>10, <3>3, <3>4
      <3>5. CASE i > 2
        <4>1. i - 1 \in 2 .. Len(frames) - 1 /\ (i - 1) + 1 = i
          BY <1>1, <2>1, <3>5
        <4>2. frames'[i - 1] = frames[i]
          BY <1>10, <4>1
        <4>3. QED
          BY <3>3, <4>2
      <3>6. QED
        BY <2>1, <3>4, <3>5
    <2>2. frames'[Len(frames')].pid = 1
      <3>1. frames[Len(frames)].pid = 1
        BY <1>1 DEF ExecutorInv, CallsAreNested
      <3>2. CASE Len(frames) = 2
        <4>1. Len(frames') = 1
          BY <1>10, <3>2
        <4>2. QED
          BY <1>8, <1>10, <3>1, <3>2, <4>1
      <3>3. CASE Len(frames) > 2
        <4>1. Len(frames) - 1 \in 2 .. Len(frames) - 1 /\ (Len(frames) - 1) + 1 = Len(frames)
          BY <1>1, <3>3
        <4>2. frames'[Len(frames) - 1] = frames[Len(frames)]
          BY <1>10, <4>1
        <4>3. QED
          BY <1>10, <3>1, <4>2
      <3>4. Len(frames) = 2 \/ Len(frames) > 2
        <4>1. PICK n \in Nat : n = Len(frames) /\ n > 1
          BY <1>1
        <4>2. n = 2 \/ n > 2
          BY <4>1
        <4>3. QED
          BY <4>1, <4>2
      <3>5. QED
        BY <3>2, <3>3, <3>4
    <2>3. frames # <<>> /\ frames' # <<>>
      BY <1>1, <1>10
    <2>4. QED
      BY <1>1, <1>8, <1>10, <2>1, <2>2, <2>3 DEF ExecutorInv, CallsAreNested, Outside
  <1>14. DOMAIN frames = 1 .. Len(frames) /\ DOMAIN frames' = 1 .. Len(frames) - 1
    BY <1>1, <1>10
  <1>15. \A i \in 2 .. Len(frames) :
            /\ i - 1 \in DOMAIN frames'
            /\ frames'[i - 1].pid = frames[i].pid /\ frames'[i - 1].todo = frames[i].todo
    <2>1. SUFFICES ASSUME NEW i \in 2 .. Len(frames)
                   PROVE  /\ i - 1 \in DOMAIN frames'
                          /\ frames'[i - 1].pid = frames[i].pid /\ frames'[i - 1].todo = frames[i].todo
      OBVIOUS
    <2>2. i - 1 \in DOMAIN frames'
      BY <1>1, <1>14, <2>1
    <2>3. CASE i = 2
      BY <1>8, <1>10, <2>2, <2>3
    <2>4. CASE i > 2
      <3>1. i - 1 \in 2 .. Len(frames) - 1 /\ (i - 1) + 1 = i
        BY <1>1, <2>1, <2>4
      <3>2. frames'[i - 1] = frames[i]
        BY <1>10, <3>1
      <3>3. QED
        BY <2>2, <3>2
    <2>5. QED
      BY <2>1, <2>3, <2>4
  <1>16. Walked' \subseteq Walked
    <2>1. SUFFICES ASSUME NEW j \in DOMAIN frames' PROVE frames'[j].pid \in Walked
      BY DEF Walked
    <2>2. j + 1 \in 2 .. Len(frames) /\ j + 1 \in DOMAIN frames /\ (j + 1) - 1 = j
      BY <1>1, <1>14, <2>1
    <2>3. frames'[j].pid = frames[j + 1].pid
      BY <1>15, <2>2
    <2>4. QED
      BY <2>2, <2>3 DEF Walked
  <1>17. ASSUME NEW r \in Walked, r # c PROVE r \in Walked'
    <2>1. PICK i \in DOMAIN frames : frames[i].pid = r
      BY <1>17 DEF Walked
    <2>2. i \in 2 .. Len(frames)
      BY <1>1, <1>4, <1>14, <1>17, <2>1
    <2>3. QED
      BY <1>15, <2>1, <2>2 DEF Walked
  <1>18. ASSUME NEW r \in alive', r # 1, r \notin Missed' PROVE Expected(r)'
    <2>1. r \in alive /\ r # c /\ r \in born
      <3>1. \A q \in born : q \in slipped' => q \in Missed'
        BY <1>5 DEF Missed, WithDescendants
      <3>2. QED
        BY <1>5, <1>6, <1>18, <3>1
    <2>2. Expected(r)
      BY <1>1, <1>12, <1>18, <2>1 DEF ExecutorInv, WalkIsThorough
    <2>3. CASE r \in Walked
      BY <1>17, <2>1, <2>3 DEF Expected
    <2>4. CASE \E i \in DOMAIN frames : r \in frames[i].todo
      <3>1. PICK i \in DOMAIN frames : r \in frames[i].todo
        BY <2>4
      <3>2. i \in 2 .. Len(frames)
        BY <1>1, <1>14, <3>1
      <3>3. i - 1 \in DOMAIN frames' /\ r \in frames'[i - 1].todo
        BY <1>15, <3>1, <3>2
      <3>4. QED
        BY <3>3 DEF Expected
    <2>5. CASE mother[r] \in alive /\ parent[r] = mother[r] /\ mother[r] \notin Walked
      <3>1. c \in Walked
        BY <1>1, <1>4, <1>14 DEF Walked
      <3>2. mother[r] # c
        BY <2>5, <3>1
      <3>3. QED
        BY <1>3, <1>5, <1>6, <1>16, <2>1, <2>5, <3>2 DEF Expected
    <2>6. QED
      BY <2>2, <2>3, <2>4, <2>5 DEF Expected
  <1>19. WalkIsThorough'
    BY <1>1, <1>18 DEF WalkIsThorough
  <1>20. QED
    BY <1>11, <1>12, <1>13, <1>19 DEF ExecutorInv

(* At the end only the command is walked and no list is left: a process    *)
(* that is still there and not missed would have such a mother, and its    *)
(* descent from the command leads to a contradiction.                      *)
LEMMA KillCommandInv == ExecutorInv /\ KillCommand => ExecutorInv'
  <1> SUFFICES ASSUME ExecutorInv, KillCommand PROVE ExecutorInv'
    OBVIOUS
  <1>1. /\ frames \in Seq(Frame) /\ Len(frames) = 1 /\ frames[1].todo = {}
        /\ epc = "walk" /\ epc' = "timeout" /\ frames' = <<>>
        /\ Ends(1) /\ mother' = mother /\ onList' = onList /\ slipped' = slipped /\ orphaned' = orphaned
    BY DEF ExecutorInv, ExecutorTypes, KillCommand
  <1>2. /\ alive' = alive \ {1} /\ born' = born
        /\ parent' \in Seq(Nat) /\ Len(parent') = Len(parent)
    BY <1>1, EndKeeps DEF ExecutorInv
  <1>3. alive \subseteq born
    BY DEF ExecutorInv, ExecutorTypes
  <1>4. frames # <<>> /\ DOMAIN frames = {1} /\ frames[1].pid = 1
    BY <1>1 DEF ExecutorInv, CallsAreNested
  <1>5. Walked = {1}
    BY <1>4 DEF Walked
  <1>6. ASSUME NEW r \in alive, r # 1, r \notin Missed
        PROVE  mother[r] \in alive /\ mother[r] # 1 /\ mother[r] \notin Missed
    <2>1. Expected(r)
      BY <1>1, <1>6 DEF ExecutorInv, WalkIsThorough
    <2>2. mother[r] \in alive /\ mother[r] # 1
      BY <1>1, <1>4, <1>5, <1>6, <2>1 DEF Expected
    <2>3. QED
      BY <1>3, <1>6, <2>2, MissedChildren
  <1> DEFINE S == Missed \cup {1} \cup (born \ alive)
  <1>7. Missed \subseteq born
    BY DEF Missed, WithDescendants
  <1>8. alive \subseteq Missed \cup {1}
    <2>1. CASE 1 \in born
      <3>1. S \in SUBSET born /\ 1 \in S
        BY <1>7, <2>1
      <3>2. ASSUME NEW q \in born, mother[q] \in S PROVE q \in S
        BY <1>6, <3>2
      <3>3. S = born
        <4> HIDE DEF S
        <4>1. QED
          BY <3>1, <3>2 DEF ExecutorInv, OneFamily
      <3>4. QED
        BY <1>3, <3>3
    <2>2. CASE 1 \notin born
      <3>1. born = {}
        BY <2>2 DEF ExecutorInv, ExecutorTypes, born
      <3>2. QED
        BY <1>3, <3>1
    <2>3. QED
      BY <2>1, <2>2
  <1>9. Missed \subseteq Missed' /\ OneFamily'
    BY <1>1, <1>2, NoBirth DEF ExecutorInv
  <1>10. ExecutorTypes'
    BY <1>1, <1>2 DEF ExecutorInv, ExecutorTypes
  <1>11. CallsAreNested' /\ WalkIsThorough'
    BY <1>1, <1>2, <1>8, <1>9 DEF CallsAreNested, WalkIsThorough
  <1>12. QED
    BY <1>9, <1>10, <1>11 DEF ExecutorInv

(* The other steps leave the processes and the walk alone. *)
LEMMA QuietStep ==
  ASSUME ExecutorInv,
         UNCHANGED <<alive, parent, mother, onList, slipped, orphaned, frames>>,
         \/ epc' = epc
         \/ epc \notin {"walk", "timeout"} /\ epc' \notin {"start", "walk", "timeout"}
  PROVE  ExecutorInv'
  <1>1. born' = born /\ Walked' = Walked /\ Missed' = Missed
    BY DEF born, Walked, Missed, WithDescendants
  <1>2. ExecutorTypes' /\ OneFamily' /\ CallsAreNested'
    BY <1>1 DEF ExecutorInv, ExecutorTypes, OneFamily, CallsAreNested
  <1>3. \A r \in alive : Expected(r)' <=> Expected(r)
    BY <1>1 DEF Expected
  <1>4. WalkIsThorough'
    BY <1>1, <1>3 DEF ExecutorInv, WalkIsThorough
  <1>5. QED
    BY <1>2, <1>4 DEF ExecutorInv

(* After a timeout the only processes of the command that go on are those  *)
(* the walk of /proc could not meet or kill could not end: for any number  *)
(* of processes, in any tree, forking and exiting in any order.            *)
THEOREM TimeoutKillsTreeHolds == ExecutorSpec => []TimeoutKillsTree
  <1>1. ExecutorInit => ExecutorInv
    <2> SUFFICES ASSUME ExecutorInit PROVE ExecutorInv
      OBVIOUS
    <2>1. born = {} /\ frames = <<>> /\ alive = {} /\ epc = "start"
      BY DEF ExecutorInit, born
    <2>2. ExecutorTypes
      BY <2>1 DEF ExecutorInit, ExecutorTypes
    <2>3. QED
      BY <2>1, <2>2 DEF ExecutorInv, OneFamily, CallsAreNested, WalkIsThorough
  <1>2. ExecutorInv /\ [ExecutorNext]_executorVars => ExecutorInv'
    <2> SUFFICES ASSUME ExecutorInv, [ExecutorNext]_executorVars PROVE ExecutorInv'
      OBVIOUS
    <2>1. CASE Spawn
      BY <2>1, SpawnInv
    <2>2. CASE SpawnFails \/ WaitFails \/ WaitReturns \/ Join
      <3>1. UNCHANGED <<alive, parent, mother, onList, slipped, orphaned, frames>>
        BY <2>2 DEF SpawnFails, WaitFails, WaitReturns, Join, treeVars
      <3>2. epc \notin {"walk", "timeout"} /\ epc' \notin {"start", "walk", "timeout"}
        BY <2>2 DEF SpawnFails, WaitFails, WaitReturns, Join
      <3>3. QED
        BY <3>1, <3>2, QuietStep
    <2>3. CASE TimedOut
      BY <2>3, TimedOutInv
    <2>4. CASE Descend
      BY <2>4, DescendInv
    <2>5. CASE ReturnAndKill
      BY <2>5, ReturnAndKillInv
    <2>6. CASE KillCommand
      BY <2>6, KillCommandInv
    <2>7. ASSUME NEW p \in alive, Fork(p) PROVE ExecutorInv'
      BY <2>7, ForkInv
    <2>8. ASSUME NEW p \in alive, Exit(p) PROVE ExecutorInv'
      BY <2>8, ExitInv
    <2>9. ASSUME NEW p \in alive, CloseOutput(p) \/ Write(p) PROVE ExecutorInv'
      <3>1. UNCHANGED <<epc, alive, parent, mother, onList, slipped, orphaned, frames>>
        BY <2>9 DEF CloseOutput, Write, treeVars
      <3>2. UNCHANGED <<alive, parent, mother, onList, slipped, orphaned, frames>>
        BY <3>1
      <3>3. epc' = epc
        BY <3>1
      <3>4. QED
        BY <3>2, <3>3, QuietStep
    <2>10. CASE ReadPipe \/ ReadEnd \/ UNCHANGED executorVars
      <3>1. UNCHANGED <<epc, alive, parent, mother, onList, slipped, orphaned, frames>>
        BY <2>10 DEF ReadPipe, ReadEnd, treeVars, executorVars
      <3>2. UNCHANGED <<alive, parent, mother, onList, slipped, orphaned, frames>>
        BY <3>1
      <3>3. epc' = epc
        BY <3>1
      <3>4. QED
        BY <3>2, <3>3, QuietStep
    <2>11. QED
      BY <2>1, <2>2, <2>3, <2>4, <2>5, <2>6, <2>7, <2>8, <2>9, <2>10 DEF ExecutorNext
  <1>3. ExecutorInv => TimeoutKillsTree
    BY DEF ExecutorInv, WalkIsThorough, TimeoutKillsTree, Missed
  <1>4. QED
    BY <1>1, <1>2, <1>3, PTL DEF ExecutorSpec

(* A reader that has ended has nothing more to read, and nobody can write. *)
PipeInv ==
  /\ written \in Nat /\ piped \in Nat /\ read \in Nat
  /\ read + piped = written
  /\ writers \subseteq alive
  /\ reader = "ended" => piped = 0 /\ writers = {}
  /\ reader \in {"reading", "ended"}
  /\ epc = "start" => writers = {} /\ reader = "reading"
  /\ epc = "ok" => reader = "ended"

(* A task that ends in time is reported with the whole output of all its   *)
(* processes, and nobody is ever stuck before a pipe that is not drained.  *)
THEOREM OutputIsWholeHolds == ExecutorSpec => []OutputIsWhole
  <1>1. ExecutorInit => PipeInv
    BY DEF ExecutorInit, PipeInv
  <1>2. PipeInv /\ [ExecutorNext]_executorVars => PipeInv'
    <2> SUFFICES ASSUME PipeInv, [ExecutorNext]_executorVars PROVE PipeInv'
      OBVIOUS
    <2>1. CASE Spawn
      BY <2>1 DEF Spawn, PipeInv, pipeVars
    <2>2. CASE SpawnFails \/ WaitFails \/ WaitReturns \/ Join \/ TimedOut \/ Descend
      BY <2>2 DEF SpawnFails, WaitFails, WaitReturns, Join, TimedOut, Descend, PipeInv, pipeVars, treeVars
    <2>3. CASE ReadPipe
      BY <2>3 DEF ReadPipe, PipeInv, treeVars
    <2>4. CASE ReadEnd
      BY <2>4 DEF ReadEnd, PipeInv, treeVars
    <2>5. CASE ReturnAndKill \/ KillCommand
      BY <2>5 DEF ReturnAndKill, KillCommand, Ends, PipeInv, pipeVars
    <2>6. ASSUME NEW p \in alive, Fork(p) PROVE PipeInv'
      BY <2>6 DEF Fork, PipeInv, pipeVars
    <2>7. ASSUME NEW p \in alive, Exit(p) \/ CloseOutput(p) PROVE PipeInv'
      BY <2>7 DEF Exit, CloseOutput, Ends, PipeInv, pipeVars
    <2>8. ASSUME NEW p \in alive, Write(p) PROVE PipeInv'
      BY <2>8 DEF Write, PipeInv, treeVars
    <2>9. CASE UNCHANGED executorVars
      BY <2>9 DEF executorVars, PipeInv
    <2>10. QED
      BY <2>1, <2>2, <2>3, <2>4, <2>5, <2>6, <2>7, <2>8, <2>9 DEF ExecutorNext
  <1>3. PipeInv => OutputIsWhole
    BY DEF PipeInv, OutputIsWhole
  <1>4. QED
    BY <1>1, <1>2, <1>3, PTL DEF ExecutorSpec

(* Both promises of execute, as MCServices checks them.                    *)
THEOREM ExecuteIsSoundHolds == ExecutorSpec => []ExecuteIsSound
  BY TimeoutKillsTreeHolds, OutputIsWholeHolds, PTL DEF ExecuteIsSound
-----------------------------------------------------------------------------
(* Cluster.  The jobs that a worker counts; a worker that a call has still *)
(* to ask has heard nothing of the call, so that each counts once.         *)
jobsAt == [w \in Worker |-> {t \in Task : job[t][w] \in {"running", "leaked"}}]

LoadIsExact ==
  \A w \in Worker : IsFiniteSet(jobsAt[w]) /\ active[w] = Cardinality(jobsAt[w])

unasked ==
  [t \in Task |->
     {w \in Worker :
        \/ cpc[t] \in {"idle", "ping"}
        \/ cpc[t] = "send" /\ \E i \in attempt[t] .. N : order[t][i] = w
        \/ cpc[t] = "wait" /\ \E i \in attempt[t] + 1 .. N : order[t][i] = w}]

Asking ==
  \A t \in Task :
    /\ cpc[t] = "ping" => N > 0
    /\ cpc[t] # "returned" => outcome[t] = "none"
    /\ cpc[t] \in {"send", "wait"} => order[t] \in Orders /\ attempt[t] \in 1 .. N

Unheard == \A t \in Task : \A w \in Worker : w \in unasked[t] => job[t][w] = "none"

ClusterInv == ClusterTypeOK /\ LoadIsExact /\ Asking /\ Unheard

LEMMA OrderFacts ==
  ASSUME NEW o \in Orders
  PROVE  /\ o \in [1 .. N -> Worker] /\ o \in Seq(Worker) /\ Len(o) = N
         /\ \A i, j \in 1 .. N : o[i] = o[j] => i = j
         /\ \A w \in Worker : \E i \in 1 .. N : o[i] = w
  <1>1. o \in [1 .. N -> Worker]
    BY DEF Orders, Bijection, Injection, Surjection
  <1>2. o \in Seq(Worker) /\ Len(o) = N
    BY <1>1, ClusterAssumption
  <1>3. \A i, j \in 1 .. N : o[i] = o[j] => i = j
    BY <1>1 DEF Orders, Bijection, Injection, IsInjective
  <1>4. \A w \in Worker : \E i \in 1 .. N : o[i] = w
    BY DEF Orders, Bijection, Surjection
  <1>5. QED
    BY <1>1, <1>2, <1>3, <1>4

LEMMA ClusterInitInv == ClusterInit => ClusterInv
  <1> SUFFICES ASSUME ClusterInit PROVE ClusterInv
    OBVIOUS
  <1>1. ClusterTypeOK
    BY ClusterAssumption DEF ClusterInit, ClusterTypeOK, Job
  <1>2. \A w \in Worker : jobsAt[w] = {}
    BY DEF ClusterInit, jobsAt
  <1>3. LoadIsExact
    BY <1>2, FS_EmptySet DEF ClusterInit, LoadIsExact
  <1>4. Asking /\ Unheard
    BY DEF ClusterInit, Asking, Unheard
  <1>5. QED
    BY <1>1, <1>3, <1>4 DEF ClusterInv

(* A change of one request, by what it adds to the load of the worker.     *)
LEMMA OneJob ==
  ASSUME ClusterTypeOK, LoadIsExact, NEW t \in Task, NEW w \in Worker, NEW v \in Job,
         job' = [job EXCEPT ![t][w] = v],
         active' = [active EXCEPT ![w] =
           @ + (IF v \in {"running", "leaked"} THEN 1 ELSE 0)
             - (IF job[t][w] \in {"running", "leaked"} THEN 1 ELSE 0)]
  PROVE  LoadIsExact' /\ job' \in [Task -> [Worker -> Job]] /\ active' \in [Worker -> Nat]
  <1>1. job' \in [Task -> [Worker -> Job]]
    BY DEF ClusterTypeOK
  <1>2. \A u \in Task : \A x \in Worker : job'[u][x] = IF u = t /\ x = w THEN v ELSE job[u][x]
    BY DEF ClusterTypeOK
  <1>3. \A x \in Worker : x # w => jobsAt'[x] = jobsAt[x] /\ active'[x] = active[x]
    BY <1>2 DEF jobsAt, ClusterTypeOK
  <1>4. jobsAt'[w] = IF v \in {"running", "leaked"} THEN jobsAt[w] \cup {t} ELSE jobsAt[w] \ {t}
    BY <1>2 DEF jobsAt
  <1>5. t \in jobsAt[w] <=> job[t][w] \in {"running", "leaked"}
    BY DEF jobsAt
  <1>6. IsFiniteSet(jobsAt[w]) /\ active[w] = Cardinality(jobsAt[w]) /\ Cardinality(jobsAt[w]) \in Nat
    BY FS_CardinalityType DEF LoadIsExact
  <1>7. active'[w] = active[w] + (IF v \in {"running", "leaked"} THEN 1 ELSE 0)
                     - (IF job[t][w] \in {"running", "leaked"} THEN 1 ELSE 0)
    BY DEF ClusterTypeOK
  <1>8. IsFiniteSet(jobsAt'[w]) /\ active'[w] = Cardinality(jobsAt'[w])
    <2>1. CASE v \in {"running", "leaked"}
      <3>1. IsFiniteSet(jobsAt[w] \cup {t})
            /\ Cardinality(jobsAt[w] \cup {t}) =
                 IF t \in jobsAt[w] THEN Cardinality(jobsAt[w]) ELSE Cardinality(jobsAt[w]) + 1
        BY <1>6, FS_AddElement
      <3>2. QED
        BY <1>4, <1>5, <1>6, <1>7, <2>1, <3>1
    <2>2. CASE v \notin {"running", "leaked"}
      <3>1. IsFiniteSet(jobsAt[w] \ {t})
            /\ Cardinality(jobsAt[w] \ {t}) =
                 IF t \in jobsAt[w] THEN Cardinality(jobsAt[w]) - 1 ELSE Cardinality(jobsAt[w])
        BY <1>6, FS_RemoveElement
      <3>2. QED
        BY <1>4, <1>5, <1>6, <1>7, <2>2, <3>1
    <2>3. QED
      BY <2>1, <2>2
  <1>9. LoadIsExact'
    BY <1>3, <1>8 DEF LoadIsExact
  <1>10. active' \in [Worker -> Nat]
    <2>1. \A x \in Worker : active'[x] \in Nat
      BY <1>3, <1>8, FS_CardinalityType DEF ClusterTypeOK
    <2>2. QED
      BY <2>1 DEF ClusterTypeOK
  <1>11. QED
    BY <1>1, <1>9, <1>10

LEMMA AcceptInv ==
  ASSUME ClusterInv, NEW t \in Task, NEW w \in Worker, Accept(t, w), UNCHANGED <<config, rr, breaker, callers>>
  PROVE  ClusterInv'
  <1> USE DEF ClusterInv
  <1>1. PICK v \in {"Failed", "running", "leaked"} :
          /\ job' = [job EXCEPT ![t][w] = v]
          /\ active' = [active EXCEPT ![w] = @ + (IF v \in {"running", "leaked"} THEN 1 ELSE 0)
               - (IF job[t][w] \in {"running", "leaked"} THEN 1 ELSE 0)]
    <2>1. job[t][w] = "sent" /\ active[w] \in Nat
      BY DEF Accept, ClusterTypeOK
    <2>2. CASE job' = [job EXCEPT ![t][w] = "Failed"] /\ UNCHANGED active
      BY <2>1, <2>2 DEF ClusterTypeOK
    <2>3. CASE \E v \in {"running", "leaked"} :
                 job' = [job EXCEPT ![t][w] = v] /\ active' = [active EXCEPT ![w] = @ + 1]
      <3>1. PICK v \in {"running", "leaked"} :
              job' = [job EXCEPT ![t][w] = v] /\ active' = [active EXCEPT ![w] = @ + 1]
        BY <2>3
      <3>2. (IF v \in {"running", "leaked"} THEN 1 ELSE 0) = 1
            /\ (IF job[t][w] \in {"running", "leaked"} THEN 1 ELSE 0) = 0
        BY <2>1
      <3>3. active[w] + 1 = active[w] + 1 - 0
        BY <2>1
      <3>4. QED
        BY <3>1, <3>2, <3>3
    <2>4. QED
      BY <2>2, <2>3 DEF Accept
  <1>2. v \in Job /\ job[t][w] = "sent"
    BY <1>1 DEF Job, Accept
  <1>3. LoadIsExact' /\ job' \in [Task -> [Worker -> Job]] /\ active' \in [Worker -> Nat]
    BY <1>1, <1>2, OneJob
  <1>4. ClusterTypeOK'
    BY <1>3 DEF ClusterTypeOK, Accept, breaker, callers
  <1>5. Asking' /\ unasked' = unasked
    BY DEF Asking, unasked, callers
  <1>6. Unheard'
    <2>1. \A u \in Task : \A x \in Worker : job'[u][x] = IF u = t /\ x = w THEN v ELSE job[u][x]
      BY <1>1 DEF ClusterTypeOK
    <2>2. QED
      BY <1>2, <1>5, <2>1 DEF Unheard
  <1>7. QED
    BY <1>3, <1>4, <1>5, <1>6

LEMMA FinishInv ==
  ASSUME ClusterInv, NEW t \in Task, NEW w \in Worker, Finish(t, w), UNCHANGED <<config, rr, breaker, callers>>
  PROVE  ClusterInv'
  <1> USE DEF ClusterInv
  <1>1. PICK v \in {"Executed", "Failed", "gone"} : job' = [job EXCEPT ![t][w] = v]
    BY DEF Finish
  <1>2. v \in Job /\ job[t][w] = "running"
    BY <1>1 DEF Job, Finish
  <1>3. active' = [active EXCEPT ![w] = @ + (IF v \in {"running", "leaked"} THEN 1 ELSE 0)
               - (IF job[t][w] \in {"running", "leaked"} THEN 1 ELSE 0)]
    <2>1. active' = [active EXCEPT ![w] = @ - 1] /\ active[w] \in Nat
      BY DEF Finish, ClusterTypeOK
    <2>2. (IF v \in {"running", "leaked"} THEN 1 ELSE 0) = 0
          /\ (IF job[t][w] \in {"running", "leaked"} THEN 1 ELSE 0) = 1
      BY <1>1, <1>2
    <2>3. active[w] - 1 = active[w] + 0 - 1
      BY <2>1
    <2>4. QED
      BY <2>1, <2>2, <2>3
  <1>4. LoadIsExact' /\ job' \in [Task -> [Worker -> Job]] /\ active' \in [Worker -> Nat]
    BY <1>1, <1>2, <1>3, OneJob
  <1>5. ClusterTypeOK'
    BY <1>4 DEF ClusterTypeOK, Finish, breaker, callers
  <1>6. Asking' /\ unasked' = unasked
    BY DEF Asking, unasked, callers
  <1>7. Unheard'
    <2>1. \A u \in Task : \A x \in Worker : job'[u][x] = IF u = t /\ x = w THEN v ELSE job[u][x]
      BY <1>1 DEF ClusterTypeOK
    <2>2. QED
      BY <1>2, <1>6, <2>1 DEF Unheard
  <1>8. QED
    BY <1>4, <1>5, <1>6, <1>7

LEMMA CrashInv ==
  ASSUME ClusterInv, NEW w \in Worker, CrashWorker(w), UNCHANGED <<config, rr, breaker, callers>>
  PROVE  ClusterInv'
  <1> USE DEF ClusterInv
  <1>1. \A u \in Task : \A x \in Worker : job'[u][x] =
          IF x = w /\ job[u][w] \in {"sent", "running", "leaked"} THEN "gone" ELSE job[u][x]
    BY DEF ClusterTypeOK, CrashWorker
  <1>2. job' \in [Task -> [Worker -> Job]]
    BY DEF ClusterTypeOK, CrashWorker, Job
  <1>3. active' = [active EXCEPT ![w] = 0] /\ active' \in [Worker -> Nat]
    BY DEF ClusterTypeOK, CrashWorker
  <1>4. jobsAt'[w] = {} /\ \A x \in Worker : x # w => jobsAt'[x] = jobsAt[x]
    BY <1>1 DEF jobsAt
  <1>5. LoadIsExact'
    <2>1. active'[w] = 0 /\ \A x \in Worker : x # w => active'[x] = active[x]
      BY <1>3 DEF ClusterTypeOK
    <2>2. QED
      BY <1>4, <2>1, FS_EmptySet DEF LoadIsExact
  <1>6. ClusterTypeOK'
    <2>1. crashes' \in 0 .. MaxCrashes /\ up' \in [Worker -> BOOLEAN]
      BY ClusterAssumption DEF ClusterTypeOK, CrashWorker
    <2>2. QED
      BY <1>2, <1>3, <2>1 DEF ClusterTypeOK, breaker, callers
  <1>7. Asking' /\ unasked' = unasked
    BY DEF Asking, unasked, callers
  <1>8. Unheard'
    BY <1>1, <1>7 DEF Unheard
  <1>9. QED
    BY <1>5, <1>6, <1>7, <1>8

(* What the callers do to a request: none that counts comes or goes.       *)
LEMMA SameLoad ==
  ASSUME ClusterTypeOK, LoadIsExact, NEW t \in Task, NEW w \in Worker,
         NEW v \in Job \ {"running", "leaked"}, job[t][w] \notin {"running", "leaked"},
         job' = [job EXCEPT ![t][w] = v], active' = active
  PROVE  LoadIsExact' /\ job' \in [Task -> [Worker -> Job]]
  <1>1. job' \in [Task -> [Worker -> Job]]
    BY DEF ClusterTypeOK
  <1>2. \A u \in Task : \A x \in Worker : job'[u][x] = IF u = t /\ x = w THEN v ELSE job[u][x]
    BY DEF ClusterTypeOK
  <1>3. jobsAt' = jobsAt
    BY <1>2 DEF jobsAt
  <1>4. QED
    BY <1>1, <1>3 DEF LoadIsExact

LEMMA ExecuteInv ==
  ASSUME ClusterInv, NEW t \in Task, ClusterExecute(t), UNCHANGED config
  PROVE  ClusterInv'
  <1> USE DEF ClusterInv
  <1>1. cpc' \in [Task -> {"idle", "ping", "send", "wait", "local", "returned"}]
        /\ outcome' \in [Task -> {"none", "Executed", "Failed", "Err"}]
    BY DEF ClusterExecute, ClusterTypeOK
  <1>2. ClusterTypeOK'
    BY <1>1 DEF ClusterExecute, ClusterTypeOK, breaker, server
  <1>3. LoadIsExact'
    BY DEF ClusterExecute, LoadIsExact, jobsAt, server
  <1>4. \A u \in Task : u # t => cpc'[u] = cpc[u] /\ outcome'[u] = outcome[u]
    BY DEF ClusterExecute, ClusterTypeOK
  <1>5. cpc[t] = "idle" /\ cpc'[t] \in {"ping", "local", "returned"}
        /\ (cpc'[t] = "ping" => N > 0)
        /\ (cpc'[t] # "returned" => outcome'[t] = outcome[t])
    BY ClusterAssumption DEF ClusterExecute, ClusterTypeOK
  <1>6. order' = order /\ attempt' = attempt /\ job' = job
    BY DEF ClusterExecute, server
  <1>7. Asking'
    BY <1>4, <1>5, <1>6 DEF Asking
  <1>8. \A u \in Task : unasked'[u] \subseteq unasked[u]
    BY <1>4, <1>5, <1>6 DEF unasked
  <1>9. Unheard'
    BY <1>6, <1>8 DEF Unheard
  <1>10. QED
    BY <1>2, <1>3, <1>7, <1>9

LEMMA PingInv ==
  ASSUME ClusterInv, NEW t \in Task, Ping(t), UNCHANGED config
  PROVE  ClusterInv'
  <1> USE DEF ClusterInv
  <1>1. pings' \in [Task -> Seq(Nat \X Nat)]
    <2>1. pings[t] \in Seq(Nat \X Nat) /\ Len(pings[t]) \in Nat /\ Len(pings[t]) < N
      BY DEF Ping, ClusterTypeOK
    <2>2. Len(pings[t]) + 1 \in Worker
      BY <2>1, ClusterAssumption DEF Worker
    <2>3. PICK load \in {IF up[Len(pings[t]) + 1] THEN active[Len(pings[t]) + 1] ELSE Unreachable, Unreachable} :
            pings' = [pings EXCEPT ![t] = Append(@, <<failures[Len(pings[t]) + 1], load>>)]
      BY DEF Ping
    <2>4. <<failures[Len(pings[t]) + 1], load>> \in Nat \X Nat
      BY <2>2, <2>3 DEF ClusterTypeOK, Unreachable
    <2>5. Append(pings[t], <<failures[Len(pings[t]) + 1], load>>) \in Seq(Nat \X Nat)
      BY <2>1, <2>4
    <2>6. QED
      BY <2>3, <2>5 DEF ClusterTypeOK
  <1>2. ClusterTypeOK'
    BY <1>1 DEF Ping, ClusterTypeOK, breaker, server
  <1>3. LoadIsExact' /\ Asking' /\ Unheard'
    BY DEF Ping, LoadIsExact, jobsAt, Asking, Unheard, unasked, server
  <1>4. QED
    BY <1>2, <1>3

LEMMA SelectInv ==
  ASSUME ClusterInv, NEW t \in Task, Select(t), UNCHANGED config
  PROVE  ClusterInv'
  <1> USE DEF ClusterInv
  <1>1. PICK o \in Orders : order' = [order EXCEPT ![t] = o]
    BY DEF Select, CandidateOrders
  <1>2. o \in Seq(Worker)
    BY OrderFacts
  <1>3. cpc[t] = "ping" /\ N > 0 /\ N \in Nat
    BY ClusterAssumption DEF Select, Asking
  <1>4. cpc' = [cpc EXCEPT ![t] = "send"] /\ attempt' = [attempt EXCEPT ![t] = 1]
        /\ pings' = [pings EXCEPT ![t] = <<>>]
        /\ UNCHANGED <<failures, cooling, outcome, up, active, crashes, job>>
    BY DEF Select, breaker, server
  <1>5. rr' \in 0 .. N
    <2>1. (rr + 1) % N \in 0 .. N
      BY <1>3 DEF ClusterTypeOK
    <2>2. QED
      BY <2>1 DEF Select, ClusterTypeOK
  <1>6. ClusterTypeOK'
    BY <1>1, <1>2, <1>3, <1>4, <1>5 DEF ClusterTypeOK
  <1>7. LoadIsExact'
    BY <1>4 DEF LoadIsExact, jobsAt
  <1>8. \A u \in Task : u # t => cpc'[u] = cpc[u] /\ order'[u] = order[u] /\ attempt'[u] = attempt[u]
    BY <1>1, <1>4 DEF ClusterTypeOK
  <1>9. cpc'[t] = "send" /\ order'[t] = o /\ attempt'[t] = 1
    BY <1>1, <1>4 DEF ClusterTypeOK
  <1>10. Asking'
    BY <1>3, <1>4, <1>8, <1>9 DEF Asking
  <1>11. \A u \in Task : unasked'[u] \subseteq unasked[u]
    BY <1>3, <1>8, <1>9 DEF unasked
  <1>12. Unheard'
    BY <1>4, <1>11 DEF Unheard
  <1>13. QED
    BY <1>6, <1>7, <1>10, <1>12

LEMMA SendInv ==
  ASSUME ClusterInv, NEW t \in Task, Send(t), UNCHANGED config
  PROVE  ClusterInv'
  <1> USE DEF ClusterInv
  <1> DEFINE w == order[t][attempt[t]]
  <1>1. cpc[t] = "send" /\ order[t] \in Orders /\ attempt[t] \in 1 .. N /\ N \in Nat
    BY ClusterAssumption DEF Send, Asking
  <1>2. w \in Worker /\ w \in unasked[t]
    <2>1. w \in Worker
      BY <1>1, OrderFacts
    <2>2. attempt[t] \in attempt[t] .. N
      BY <1>1
    <2>3. QED
      BY <1>1, <2>1, <2>2 DEF unasked
  <1>3. job[t][w] = "none"
    BY <1>2 DEF Unheard
  <1>4. job' = [job EXCEPT ![t][w] = "sent"] /\ cpc' = [cpc EXCEPT ![t] = "wait"]
        /\ UNCHANGED <<rr, failures, cooling, pings, order, attempt, outcome, up, active, crashes>>
    BY DEF Send, Candidate, breaker
  <1>5. LoadIsExact' /\ job' \in [Task -> [Worker -> Job]]
    <2>1. "sent" \in Job \ {"running", "leaked"} /\ job[t][w] \notin {"running", "leaked"}
      BY <1>3 DEF Job
    <2>2. QED
      BY <1>2, <1>4, <2>1, SameLoad
  <1>6. ClusterTypeOK'
    BY <1>4, <1>5 DEF ClusterTypeOK
  <1>7. \A u \in Task : u # t => cpc'[u] = cpc[u] /\ unasked'[u] = unasked[u]
    BY <1>4 DEF ClusterTypeOK, unasked
  <1>8. cpc'[t] = "wait"
    BY <1>4 DEF ClusterTypeOK
  <1>9. Asking'
    BY <1>1, <1>4, <1>7, <1>8 DEF Asking
  <1>10. unasked'[t] \subseteq unasked[t] \ {w}
    <2>1. SUFFICES ASSUME NEW x \in unasked'[t] PROVE x \in unasked[t] \ {w}
      OBVIOUS
    <2>2. PICK i \in attempt[t] + 1 .. N : order[t][i] = x
      BY <1>4, <1>8, <2>1 DEF unasked
    <2>3. i \in attempt[t] .. N /\ i \in 1 .. N /\ i # attempt[t]
      BY <1>1, <2>2
    <2>4. x # w
      BY <1>1, <2>2, <2>3, OrderFacts
    <2>5. x \in Worker
      BY <2>1 DEF unasked
    <2>6. QED
      BY <1>1, <2>2, <2>3, <2>4, <2>5 DEF unasked
  <1>11. Unheard'
    <2>1. \A u \in Task : \A x \in Worker : job'[u][x] = IF u = t /\ x = w THEN "sent" ELSE job[u][x]
      BY <1>4 DEF ClusterTypeOK
    <2>2. QED
      BY <1>7, <1>10, <2>1 DEF Unheard
  <1>12. QED
    BY <1>5, <1>6, <1>9, <1>11

(* The end of a call: nothing is left to ask. *)
LEMMA ReturnFacts ==
  ASSUME ClusterTypeOK, Asking, NEW t \in Task,
         NEW o \in {"Executed", "Failed", "Err"}, Return(t, o)
  PROVE  /\ cpc' \in [Task -> {"idle", "ping", "send", "wait", "local", "returned"}]
         /\ outcome' \in [Task -> {"none", "Executed", "Failed", "Err"}]
         /\ order' \in [Task -> Seq(Worker)] /\ attempt' \in [Task -> 0 .. N]
         /\ pings' = pings /\ Asking'
         /\ \A u \in Task : unasked'[u] \subseteq unasked[u]
         /\ outcome'[t] = o /\ cpc'[t] = "returned"
         /\ \A u \in Task : u # t => outcome'[u] = outcome[u] /\ cpc'[u] = cpc[u]
  <1>1. /\ cpc' = [cpc EXCEPT ![t] = "returned"] /\ outcome' = [outcome EXCEPT ![t] = o]
        /\ order' = [order EXCEPT ![t] = <<>>] /\ attempt' = [attempt EXCEPT ![t] = 0]
        /\ pings' = pings
    BY DEF Return
  <1>2. /\ cpc' \in [Task -> {"idle", "ping", "send", "wait", "local", "returned"}]
        /\ outcome' \in [Task -> {"none", "Executed", "Failed", "Err"}]
        /\ order' \in [Task -> Seq(Worker)] /\ attempt' \in [Task -> 0 .. N]
    BY <1>1, ClusterAssumption DEF ClusterTypeOK
  <1>3. cpc'[t] = "returned" /\ outcome'[t] = o
    BY <1>1 DEF ClusterTypeOK
  <1>4. \A u \in Task : u # t => /\ cpc'[u] = cpc[u] /\ outcome'[u] = outcome[u]
                                 /\ order'[u] = order[u] /\ attempt'[u] = attempt[u]
    BY <1>1 DEF ClusterTypeOK
  <1>5. Asking'
    BY <1>3, <1>4 DEF Asking
  <1>6. \A u \in Task : unasked'[u] \subseteq unasked[u]
    BY <1>3, <1>4 DEF unasked
  <1>7. QED
    BY <1>1, <1>2, <1>3, <1>4, <1>5, <1>6

(* An attempt that fails: the next worker is one not asked before, or all  *)
(* have been.                                                              *)
LEMMA AttemptFailsFacts ==
  ASSUME ClusterInv, NEW t \in Task, cpc[t] \in {"send", "wait"}, AttemptFails(t), UNCHANGED <<config, server>>
  PROVE  /\ ClusterInv'
         /\ cpc'[t] = "local" \/ outcome'[t] = "Err" => \A w \in Worker : \E i \in 1 .. attempt[t] : order[t][i] = w
         /\ \A u \in Task : u # t => cpc'[u] = cpc[u] /\ outcome'[u] = outcome[u]
  <1> USE DEF ClusterInv
  <1>1. order[t] \in Orders /\ attempt[t] \in 1 .. N /\ N \in Nat /\ outcome[t] = "none"
    BY ClusterAssumption DEF Asking
  <1>2. Len(order[t]) = N /\ Candidate(t) \in Worker
    BY <1>1, OrderFacts DEF Candidate
  <1>3. failures' \in [Worker -> Nat] /\ cooling' \in [Worker -> BOOLEAN] /\ rr' = rr
    <2>1. /\ failures' = [failures EXCEPT ![Candidate(t)] = @ + 1]
          /\ cooling' = [cooling EXCEPT ![Candidate(t)] = TRUE] /\ rr' = rr
      BY DEF AttemptFails
    <2>2. failures \in [Worker -> Nat] /\ cooling \in [Worker -> BOOLEAN]
      BY DEF ClusterTypeOK
    <2>3. failures' \in [Worker -> Nat]
      BY <1>2, <2>1, <2>2
    <2>4. QED
      BY <2>1, <2>2, <2>3
  <1>4. job' = job /\ active' = active /\ up' = up /\ crashes' = crashes
    BY DEF server
  <1>5. LoadIsExact'
    BY <1>4 DEF LoadIsExact, jobsAt
  <1>6. CASE attempt[t] < N
    <2>1. /\ cpc' = [cpc EXCEPT ![t] = "send"] /\ attempt' = [attempt EXCEPT ![t] = @ + 1]
          /\ UNCHANGED <<pings, order, outcome>>
      BY <1>2, <1>6 DEF AttemptFails
    <2>2. attempt[t] + 1 \in 1 .. N
      BY <1>1, <1>6
    <2>3. ClusterTypeOK'
      BY <1>3, <1>4, <2>1, <2>2 DEF ClusterTypeOK
    <2>4. cpc'[t] = "send" /\ attempt'[t] = attempt[t] + 1
      BY <2>1 DEF ClusterTypeOK
    <2>5. \A u \in Task : u # t => cpc'[u] = cpc[u] /\ attempt'[u] = attempt[u]
      BY <2>1 DEF ClusterTypeOK
    <2>6. Asking'
      BY <1>1, <2>1, <2>2, <2>4, <2>5 DEF Asking
    <2>7. \A u \in Task : unasked'[u] \subseteq unasked[u]
      <3>1. unasked'[t] \subseteq unasked[t]
        <4>1. SUFFICES ASSUME NEW x \in unasked'[t] PROVE x \in unasked[t]
          OBVIOUS
        <4>2. x \in Worker /\ \E i \in attempt[t] + 1 .. N : order[t][i] = x
          BY <2>1, <2>4 DEF unasked
        <4>3. \A i \in attempt[t] + 1 .. N : i \in attempt[t] .. N
          BY <1>1
        <4>4. QED
          BY <4>2, <4>3 DEF unasked
      <3>2. QED
        BY <2>1, <2>5, <3>1 DEF unasked
    <2>8. Unheard'
      BY <1>4, <2>7 DEF Unheard
    <2>9. QED
      BY <1>1, <1>5, <2>1, <2>3, <2>4, <2>5, <2>6, <2>8
  <1>7. CASE attempt[t] = N
    <2>1. \A w \in Worker : \E i \in 1 .. attempt[t] : order[t][i] = w
      BY <1>1, <1>7, OrderFacts
    <2>2. CASE config.local
      <3>1. cpc' = [cpc EXCEPT ![t] = "local"] /\ UNCHANGED <<pings, order, attempt, outcome>>
        BY <1>1, <1>2, <1>7, <2>2 DEF AttemptFails
      <3>2. ClusterTypeOK'
        BY <1>3, <1>4, <3>1 DEF ClusterTypeOK
      <3>3. cpc'[t] = "local" /\ \A u \in Task : u # t => cpc'[u] = cpc[u]
        BY <3>1 DEF ClusterTypeOK
      <3>4. Asking' /\ \A u \in Task : unasked'[u] \subseteq unasked[u]
        BY <1>1, <3>1, <3>3 DEF Asking, unasked
      <3>5. Unheard'
        BY <1>4, <3>4 DEF Unheard
      <3>6. QED
        BY <1>5, <2>1, <3>1, <3>2, <3>3, <3>4, <3>5
    <2>3. CASE ~config.local
      <3>1. Return(t, "Err")
        BY <1>1, <1>2, <1>7, <2>3 DEF AttemptFails
      <3>2. ClusterTypeOK'
        BY <1>3, <1>4, <3>1, ReturnFacts DEF ClusterTypeOK
      <3>3. Asking' /\ \A u \in Task : unasked'[u] \subseteq unasked[u]
        BY <3>1, ReturnFacts
      <3>4. Unheard'
        BY <1>4, <3>3 DEF Unheard
      <3>5. QED
        BY <1>5, <2>1, <3>1, <3>2, <3>3, <3>4, ReturnFacts
    <2>4. QED
      BY <2>2, <2>3
  <1>8. QED
    BY <1>1, <1>6, <1>7

LEMMA AnswerInv ==
  ASSUME ClusterInv, NEW t \in Task, Answer(t), UNCHANGED config
  PROVE  /\ ClusterInv'
         /\ cpc'[t] = "returned" /\ outcome'[t] # "Err"
         /\ \A u \in Task : u # t => cpc'[u] = cpc[u] /\ outcome'[u] = outcome[u]
  <1> USE DEF ClusterInv
  <1> DEFINE w == order[t][attempt[t]]
  <1>1. w \in Worker
    BY OrderFacts DEF Answer, Asking
  <1>2. PICK o \in {"Executed", "Failed"} : job[t][w] = o
    BY DEF Answer, Candidate
  <1>3. Return(t, o)
    BY <1>2 DEF Answer, Candidate
  <1>4. job' = [job EXCEPT ![t][w] = "gone"] /\ UNCHANGED <<rr, up, active, crashes>>
    BY DEF Answer, Candidate
  <1>5. failures' \in [Worker -> Nat] /\ cooling' \in [Worker -> BOOLEAN]
    BY <1>1 DEF Answer, Candidate, ClusterTypeOK
  <1>6. LoadIsExact' /\ job' \in [Task -> [Worker -> Job]]
    <2>1. "gone" \in Job \ {"running", "leaked"} /\ job[t][w] \notin {"running", "leaked"}
      BY <1>2 DEF Job
    <2>2. QED
      BY <1>1, <1>4, <2>1, SameLoad
  <1>7. ClusterTypeOK'
    BY <1>3, <1>4, <1>5, <1>6, ReturnFacts DEF ClusterTypeOK
  <1>8. Unheard'
    <2>1. \A u \in Task : \A x \in Worker : job'[u][x] = IF u = t /\ x = w THEN "gone" ELSE job[u][x]
      BY <1>4 DEF ClusterTypeOK
    <2>2. \A u \in Task : unasked'[u] \subseteq unasked[u]
      BY <1>3, ReturnFacts
    <2>3. job[t][w] # "none"
      BY <1>2
    <2>4. QED
      BY <1>1, <2>1, <2>2, <2>3 DEF Unheard
  <1>9. QED
    BY <1>3, <1>6, <1>7, <1>8, ReturnFacts

LEMMA RunLocallyInv ==
  ASSUME ClusterInv, NEW t \in Task, RunLocally(t), UNCHANGED config
  PROVE  /\ ClusterInv' /\ cpc[t] = "local"
         /\ \A u \in Task : u # t => cpc'[u] = cpc[u] /\ outcome'[u] = outcome[u]
  <1> USE DEF ClusterInv
  <1>1. PICK o \in {"Executed", "Failed", "Err"} : Return(t, o)
    BY DEF RunLocally
  <1>2. cpc[t] = "local" /\ UNCHANGED <<rr, failures, cooling, up, active, crashes, job>>
    BY DEF RunLocally, breaker, server
  <1>3. ClusterTypeOK'
    BY <1>1, <1>2, ReturnFacts DEF ClusterTypeOK
  <1>4. LoadIsExact'
    BY <1>2 DEF LoadIsExact, jobsAt
  <1>5. Unheard'
    BY <1>1, <1>2, ReturnFacts DEF Unheard
  <1>6. QED
    BY <1>1, <1>2, <1>3, <1>4, <1>5, ReturnFacts

LEMMA OtherServerInv ==
  ASSUME ClusterInv,
         NEW w \in Worker,
         \/ RestartWorker(w) /\ UNCHANGED <<config, rr, breaker, callers>>
         \/ CoolDown(w) /\ UNCHANGED config
  PROVE  ClusterInv' /\ cpc' = cpc /\ outcome' = outcome
  <1> USE DEF ClusterInv
  <1>1. UNCHANGED <<config, rr, failures, cpc, pings, order, attempt, outcome, active, crashes, job>>
    BY DEF RestartWorker, CoolDown, breaker, callers, server
  <1>2. up' \in [Worker -> BOOLEAN] /\ cooling' \in [Worker -> BOOLEAN]
    BY DEF RestartWorker, CoolDown, breaker, server, ClusterTypeOK
  <1>3. ClusterTypeOK'
    BY <1>1, <1>2 DEF ClusterTypeOK
  <1>4. LoadIsExact' /\ Asking' /\ Unheard'
    BY <1>1 DEF LoadIsExact, jobsAt, Asking, Unheard, unasked
  <1>5. QED
    BY <1>1, <1>3, <1>4

LEMMA ClusterNextInv ==
  ASSUME ClusterInv, ClusterNext
  PROVE  ClusterInv'
  <1>1. config' = config
    BY DEF ClusterNext
  <1>2. ASSUME NEW t \in Task, ClusterExecute(t) PROVE ClusterInv'
    BY <1>1, <1>2, ExecuteInv
  <1>3. ASSUME NEW t \in Task, Caller(t) PROVE ClusterInv'
    <2>1. CASE Ping(t)
      BY <1>1, <2>1, PingInv
    <2>2. CASE Select(t)
      BY <1>1, <2>2, SelectInv
    <2>3. CASE Send(t)
      BY <1>1, <2>3, SendInv
    <2>4. CASE SendFails(t)
      BY <1>1, <2>4, AttemptFailsFacts DEF SendFails
    <2>5. CASE Answer(t)
      BY <1>1, <2>5, AnswerInv
    <2>6. CASE NoAnswer(t)
      BY <1>1, <2>6, AttemptFailsFacts DEF NoAnswer
    <2>7. CASE RunLocally(t)
      BY <1>1, <2>7, RunLocallyInv
    <2>8. QED
      BY <1>3, <2>1, <2>2, <2>3, <2>4, <2>5, <2>6, <2>7 DEF Caller
  <1>4. ASSUME NEW w \in Worker, CoolDown(w) PROVE ClusterInv'
    BY <1>1, <1>4, OtherServerInv
  <1>5. CASE Server
    <2>1. UNCHANGED <<config, rr, breaker, callers>>
      BY <1>1, <1>5 DEF Server
    <2>2. ASSUME NEW w \in Worker, NEW t \in Task, Accept(t, w) \/ Finish(t, w) PROVE ClusterInv'
      BY <2>1, <2>2, AcceptInv, FinishInv
    <2>3. ASSUME NEW w \in Worker, CrashWorker(w) \/ RestartWorker(w) PROVE ClusterInv'
      BY <2>1, <2>3, CrashInv, OtherServerInv
    <2>4. QED
      BY <1>5, <2>2, <2>3 DEF Server
  <1>6. QED
    BY <1>2, <1>3, <1>4, <1>5 DEF ClusterNext

LEMMA ClusterStutters ==
  ASSUME ClusterInv, UNCHANGED clusterVars
  PROVE  ClusterInv'
  <1> USE DEF ClusterInv
  <1>1. UNCHANGED <<config, rr, failures, cooling, cpc, pings, order, attempt, outcome, up, active, crashes, job>>
    BY DEF clusterVars, breaker, callers, server
  <1>2. ClusterTypeOK'
    BY <1>1 DEF ClusterTypeOK
  <1>3. LoadIsExact'
    BY <1>1 DEF LoadIsExact, jobsAt
  <1>4. Asking' /\ Unheard'
    BY <1>1 DEF Asking, Unheard, unasked
  <1>5. QED
    BY <1>2, <1>3, <1>4

LEMMA ClusterSpecInv == ClusterSpec => []ClusterInv
  BY ClusterInitInv, ClusterNextInv, ClusterStutters, PTL DEF ClusterSpec

(* Whatever is lost, given up or crashes, a worker counts exactly the jobs *)
(* it has and those it forgot when their sources could not be unpacked.    *)
THEOREM ActiveJobsAreAccountedHolds == ClusterSpec => []ActiveJobsAreAccounted
  <1>1. ClusterInv => ActiveJobsAreAccounted
    BY DEF ClusterInv, LoadIsExact, jobsAt, ActiveJobsAreAccounted
  <1>2. QED
    BY <1>1, ClusterSpecInv, PTL

(* No step of another call, of a worker or of a breaker ends a call; its   *)
(* own steps do once the last worker has failed it.                        *)
THEOREM GivesUpAfterAllHolds == ClusterSpec => GivesUpAfterAll
  <1>1. ASSUME ClusterInv, ClusterNext, NEW t \in Task, cpc[t] \in {"send", "wait"},
               cpc'[t] = "local" \/ outcome'[t] = "Err"
        PROVE  \A w \in Worker : \E i \in 1 .. attempt[t] : order[t][i] = w
    <2>1. config' = config
      BY <1>1 DEF ClusterNext
    <2>2. outcome[t] = "none"
      BY <1>1 DEF ClusterInv, Asking
    <2>3. ASSUME cpc'[t] = cpc[t], outcome'[t] = outcome[t] PROVE FALSE
      BY <1>1, <2>2, <2>3
    <2>4. ASSUME NEW u \in Task, ClusterExecute(u) PROVE cpc'[t] = cpc[t] /\ outcome'[t] = outcome[t]
      <3>1. u # t
        BY <1>1, <2>4 DEF ClusterExecute
      <3>2. QED
        BY <1>1, <2>4, <3>1 DEF ClusterExecute, ClusterInv, ClusterTypeOK
    <2>5. ASSUME NEW u \in Task, Caller(u), u # t PROVE cpc'[t] = cpc[t] /\ outcome'[t] = outcome[t]
      <3>1. CASE Ping(u)
        BY <3>1 DEF Ping
      <3>2. CASE Select(u) \/ Send(u)
        BY <1>1, <2>5, <3>2 DEF Select, Send, ClusterInv, ClusterTypeOK
      <3>3. CASE SendFails(u) \/ NoAnswer(u)
        BY <1>1, <2>1, <2>5, <3>3, AttemptFailsFacts DEF SendFails, NoAnswer
      <3>4. CASE Answer(u)
        BY <1>1, <2>1, <2>5, <3>4, AnswerInv
      <3>5. CASE RunLocally(u)
        BY <1>1, <2>1, <2>5, <3>5, RunLocallyInv
      <3>6. QED
        BY <2>5, <3>1, <3>2, <3>3, <3>4, <3>5 DEF Caller
    <2>6. ASSUME Caller(t) PROVE \A w \in Worker : \E i \in 1 .. attempt[t] : order[t][i] = w
      <3>1. CASE SendFails(t) \/ NoAnswer(t)
        BY <1>1, <2>1, <3>1, AttemptFailsFacts DEF SendFails, NoAnswer
      <3>2. CASE Send(t)
        BY <1>1, <2>2, <3>2 DEF Send, ClusterInv, ClusterTypeOK
      <3>3. CASE Answer(t)
        BY <1>1, <2>1, <3>3, AnswerInv
      <3>4. QED
        BY <1>1, <2>6, <3>1, <3>2, <3>3 DEF Caller, Ping, Select, RunLocally
    <2>7. ASSUME NEW w \in Worker, CoolDown(w) PROVE FALSE
      BY <2>3, <2>7 DEF CoolDown, callers
    <2>8. CASE Server
      BY <2>3, <2>8 DEF Server, callers
    <2>9. QED
      BY <1>1, <2>3, <2>4, <2>5, <2>6, <2>7, <2>8 DEF ClusterNext
  <1>2. ClusterInv /\ [ClusterNext]_clusterVars =>
          [\A t \in Task :
             cpc[t] \in {"send", "wait"} /\ (cpc'[t] = "local" \/ outcome'[t] = "Err")
             => \A w \in Worker : \E i \in 1 .. attempt[t] : order[t][i] = w]_clusterVars
    BY <1>1
  <1>3. QED
    BY <1>2, ClusterSpecInv, PTL DEF ClusterSpec, GivesUpAfterAll

-----------------------------------------------------------------------------
(* The coordinator: its registry.                                          *)
RegistryType ==
  /\ workers \in [DOMAIN workers -> 0 .. MaxLoad]
  /\ HealthyAreRegistered

RegistryInv == RegistryType /\ BestSoFar

LEMMA RegistryInitInv == CoordinatorInit => RegistryInv
  <1> SUFFICES ASSUME CoordinatorInit PROVE RegistryInv
    OBVIOUS
  <1>1. workers = <<>> /\ fresh = {} /\ spc = "idle"
    BY DEF CoordinatorInit
  <1>2. <<>> \in [{} -> 0 .. MaxLoad] /\ DOMAIN <<>> = {}
    OBVIOUS
  <1>3. QED
    BY <1>1, <1>2 DEF RegistryInv, RegistryType, HealthyAreRegistered, BestSoFar

(* The comparison of one more worker.                                      *)
LEMMA CompareStep ==
  ASSUME RegistryInv, NEW w, Compare(w)
  PROVE  RegistryInv'
  <1> USE DEF RegistryInv, RegistryType, HealthyAreRegistered
  <1>0. /\ w \in DOMAIN listed /\ spc = "compare"
        /\ UNCHANGED <<workers, fresh, spc, wanted, steady>>
        /\ listed' = [x \in DOMAIN listed \ {w} |-> listed[x]]
    BY DEF Compare, Without
  <1>1. RegistryType'
    BY <1>0
  <1>2. ASSUME steady PROVE BestSoFar'
    <2>1. /\ DOMAIN listed \subseteq DOMAIN workers
          /\ \A x \in DOMAIN listed : listed[x]
          /\ best # NoBest => best[1] \in DOMAIN workers /\ best[2]
          /\ \A v \in fresh \ DOMAIN listed : Supports(v, wanted) =>
               best # NoBest /\ workers[best[1]] <= workers[v]
      BY <1>0, <1>2 DEF BestSoFar
    <2>2. listed[w] = TRUE /\ w \in DOMAIN workers
      BY <1>0, <2>1
    <2>3. DOMAIN listed' = DOMAIN listed \ {w} /\ \A x \in DOMAIN listed' : listed'[x]
      BY <1>0, <2>1
    <2>4. fresh \ DOMAIN listed' \subseteq (fresh \ DOMAIN listed) \cup {w}
      BY <2>3
    <2>5. <<w, TRUE>> # NoBest
      BY DEF NoBest
    <2>6. \A v \in DOMAIN workers : workers[v] \in Int
      BY CoordinatorAssumption
    <2>7. CASE Supports(w, wanted) /\ best = NoBest /\ best' = <<w, listed[w]>>
      <3>1. best' = <<w, TRUE>> /\ best'[1] = w /\ best'[2] = TRUE
        BY <2>2, <2>7
      <3>2. \A v \in fresh \ DOMAIN listed' : Supports(v, wanted) => v = w
        BY <2>1, <2>4, <2>7
      <3>3. \A v \in fresh \ DOMAIN listed' : Supports(v, wanted) =>
              best' # NoBest /\ workers[best'[1]] <= workers[v]
        <4>1. best' # NoBest /\ workers[best'[1]] = workers[w]
          BY <2>5, <3>1
        <4>2. workers[w] <= workers[w]
          BY <2>2, <2>6
        <4>3. QED
          BY <3>2, <4>1, <4>2
      <3>4. /\ DOMAIN listed' \subseteq DOMAIN workers'
            /\ best'[1] \in DOMAIN workers' /\ best'[2]
        BY <1>0, <2>1, <2>2, <2>3, <3>1
      <3>5. QED
        BY <1>0, <2>3, <3>3, <3>4 DEF BestSoFar, Supports, NoBest
    <2>8. CASE /\ Supports(w, wanted) /\ best # NoBest
               /\ \E load \in Loads(w, listed[w]), least \in Loads(best[1], best[2]) :
                    best' = IF load < least THEN <<w, listed[w]>> ELSE best
      <3>1. best[1] \in DOMAIN workers /\ best[2]
        BY <2>1, <2>8
      <3>2. Loads(w, listed[w]) = {workers[w]} /\ Loads(best[1], best[2]) = {workers[best[1]]}
        BY <2>2, <3>1 DEF Loads
      <3>3. best' = IF workers[w] < workers[best[1]] THEN <<w, TRUE>> ELSE best
        BY <2>2, <2>8, <3>2
      <3>4. CASE workers[w] < workers[best[1]]
        <4>1. best' = <<w, TRUE>> /\ best'[1] = w /\ best'[2] = TRUE
          BY <3>3, <3>4
        <4>2. \A v \in fresh \ DOMAIN listed' : Supports(v, wanted) =>
                best' # NoBest /\ workers[best'[1]] <= workers[v]
          <5>1. best' # NoBest /\ workers[best'[1]] = workers[w]
            BY <2>5, <4>1
          <5>2. \A v \in fresh \ DOMAIN listed' : Supports(v, wanted) =>
                  v = w \/ workers[best[1]] <= workers[v]
            BY <2>1, <2>4
          <5>3. \A v \in fresh : workers[v] \in Int
            BY <2>6
          <5>4. workers[w] \in Int /\ workers[best[1]] \in Int
            BY <2>2, <2>6, <3>1
          <5>5. \A v \in fresh \ DOMAIN listed' : Supports(v, wanted) =>
                  workers[w] <= workers[v]
            BY <3>4, <5>2, <5>3, <5>4
          <5>6. QED
            BY <5>1, <5>5
        <4>3. /\ DOMAIN listed' \subseteq DOMAIN workers'
              /\ best'[1] \in DOMAIN workers' /\ best'[2]
          BY <1>0, <2>1, <2>2, <2>3, <4>1
        <4>4. QED
          BY <1>0, <2>3, <4>2, <4>3 DEF BestSoFar, Supports, NoBest
      <3>5. CASE ~(workers[w] < workers[best[1]])
        <4>1. best' = best
          BY <3>3, <3>5
        <4>2. \A v \in fresh \ DOMAIN listed' : Supports(v, wanted) =>
                best' # NoBest /\ workers[best'[1]] <= workers[v]
          BY <2>1, <2>2, <2>4, <2>6, <2>8, <3>1, <3>5, <4>1
        <4>3. QED
          BY <1>0, <2>1, <2>3, <3>1, <4>1, <4>2 DEF BestSoFar, Supports, NoBest
      <3>6. QED
        BY <3>4, <3>5
    <2>9. CASE ~Supports(w, wanted) /\ UNCHANGED best
      <3>1. \A v \in fresh \ DOMAIN listed' : Supports(v, wanted) =>
              best # NoBest /\ workers[best[1]] <= workers[v]
        BY <2>1, <2>4, <2>9
      <3>2. QED
        BY <1>0, <2>1, <2>3, <2>9, <3>1 DEF BestSoFar, Supports, NoBest
    <2>10. QED
      BY <2>7, <2>8, <2>9 DEF Compare
  <1>3. ~steady => BestSoFar'
    BY <1>0 DEF BestSoFar
  <1>4. QED
    BY <1>1, <1>2, <1>3

LEMMA RegistryStep ==
  ASSUME RegistryInv, [CoordinatorNext]_coordinatorVars
  PROVE  RegistryInv'
  <1> USE DEF RegistryInv, RegistryType, HealthyAreRegistered
  <1>1. CASE UNCHANGED registry
    BY <1>1 DEF registry, BestSoFar, Supports, NoBest
  <1>2. ASSUME NEW w \in Node, Register(w) PROVE RegistryInv'
    <2>1. PICK load \in 0 .. MaxLoad : workers' = Put(workers, w, load)
      BY <1>2 DEF Register
    <2>2. RegistryType'
      BY <1>2, <2>1 DEF Register, Put
    <2>3. QED
      BY <1>2, <2>2 DEF Register, BestSoFar
  <1>3. ASSUME NEW w \in Node, Deregister(w) PROVE RegistryInv'
    <2>1. RegistryType'
      BY <1>3 DEF Deregister, Without
    <2>2. QED
      BY <1>3, <2>1 DEF Deregister, BestSoFar
  <1>4. ASSUME NEW w \in Node, Heartbeat(w) PROVE RegistryInv'
    <2>1. PICK load \in 0 .. MaxLoad : workers' = [workers EXCEPT ![w] = load]
      BY <1>4 DEF Heartbeat
    <2>2. RegistryType'
      BY <1>4, <2>1 DEF Heartbeat
    <2>3. QED
      BY <1>4, <2>2 DEF Heartbeat, BestSoFar
  <1>5. ASSUME NEW w \in Node, Expire(w) PROVE RegistryInv'
    <2>1. RegistryType' /\ fresh' \subseteq fresh
      BY <1>5 DEF Expire
    <2>2. UNCHANGED <<workers, spc, wanted, listed, best, steady>>
      BY <1>5 DEF Expire
    <2>3. BestSoFar'
      BY <2>1, <2>2 DEF BestSoFar, Supports, NoBest
    <2>4. QED
      BY <2>1, <2>3
  <1>6. CASE PruneExpired
    <2>1. RegistryType'
      BY <1>6 DEF PruneExpired, Without
    <2>2. QED
      BY <1>6, <2>1 DEF PruneExpired, BestSoFar
  <1>7. CASE ListHealthy
    <2>1. RegistryType'
      BY <1>7 DEF ListHealthy
    <2>2. /\ UNCHANGED <<workers, fresh>>
          /\ listed' = [w \in fresh |-> TRUE] /\ best' = NoBest
      BY <1>7 DEF ListHealthy
    <2>3. DOMAIN listed' = fresh /\ \A w \in DOMAIN listed' : listed'[w]
      BY <2>2
    <2>4. fresh' \ DOMAIN listed' = {}
      BY <2>2, <2>3
    <2>5. QED
      BY <2>1, <2>2, <2>3, <2>4 DEF BestSoFar, NoBest
  <1>8. CASE Selected
    <2>1. RegistryType'
      BY <1>8 DEF Selected
    <2>2. spc' = "idle"
      BY <1>8 DEF Selected
    <2>3. QED
      BY <2>1, <2>2 DEF BestSoFar
  <1>9. CASE Registry
    BY <1>2, <1>3, <1>4, <1>5, <1>6, <1>7, <1>8, <1>9, CompareStep DEF Registry
  <1>10. QED
    BY <1>1, <1>9 DEF CoordinatorNext, TaskQueue, coordinatorVars

(* What is answered at the end.                                            *)
LEMMA SelectedIsLeast ==
  ASSUME RegistryInv, [CoordinatorNext]_coordinatorVars
  PROVE  ChoiceIsLeastLoaded
  <1> SUFFICES ASSUME spc = "compare", spc' = "idle", steady
               PROVE  \A w \in fresh : Supports(w, wanted) =>
                        best # NoBest /\ (best[2] => workers[best[1]] <= workers[w])
    BY DEF ChoiceIsLeastLoaded
  <1>1. Selected
    <2>1. spc' # spc
      OBVIOUS
    <2>2. Registry
      BY <2>1 DEF CoordinatorNext, TaskQueue, coordinatorVars, registry
    <2>3. QED
      BY <2>1, <2>2 DEF Registry, Register, Deregister, Heartbeat, Expire, Compare,
                        PruneExpired, ListHealthy
  <1>2. DOMAIN listed = {}
    BY <1>1 DEF Selected
  <1>3. QED
    BY <1>2 DEF RegistryInv, BestSoFar

-----------------------------------------------------------------------------
(* The queue of the coordinator.  What RemoveAt leaves.                    *)
LEMMA RemoveAtProperties ==
  ASSUME NEW S, NEW s \in Seq(S), NEW i \in DOMAIN s
  PROVE  /\ RemoveAt(s, i) \in Seq(S)
         /\ DOMAIN RemoveAt(s, i) = 1 .. Len(s) - 1
         /\ \A k \in 1 .. Len(s) - 1 : RemoveAt(s, i)[k] = IF k < i THEN s[k] ELSE s[k + 1]
  <1> DEFINE a == SubSeq(s, 1, i - 1)
             b == SubSeq(s, i + 1, Len(s))
  <1>1. i \in 1 .. Len(s) /\ Len(s) \in Nat
    OBVIOUS
  <1>2. a \in Seq(S) /\ Len(a) = i - 1 /\ \A k \in 1 .. i - 1 : a[k] = s[k]
    BY <1>1
  <1>3. b \in Seq(S) /\ Len(b) = Len(s) - i /\ \A k \in 1 .. Len(s) - i : b[k] = s[k + i]
    BY <1>1
  <1>4. RemoveAt(s, i) = a \o b
    BY DEF RemoveAt
  <1> HIDE DEF a, b
  <1>5. a \o b \in Seq(S) /\ Len(a \o b) = Len(s) - 1
    BY <1>1, <1>2, <1>3
  <1>6. \A k \in 1 .. Len(s) - 1 : (a \o b)[k] = IF k < i THEN s[k] ELSE s[k + 1]
    <2> TAKE k \in 1 .. Len(s) - 1
    <2>1. (a \o b)[k] = IF k <= Len(a) THEN a[k] ELSE b[k - Len(a)]
      BY <1>1, <1>2, <1>3
    <2>2. CASE k < i
      BY <1>1, <1>2, <2>1, <2>2
    <2>3. CASE ~(k < i)
      <3>1. k - (i - 1) \in 1 .. Len(s) - i /\ k - (i - 1) + i = k + 1
        BY <1>1, <2>3
      <3>2. ~(k <= Len(a)) /\ k - Len(a) = k - (i - 1)
        BY <1>1, <1>2, <2>3
      <3>3. b[k - (i - 1)] = s[k + 1]
        BY <1>3, <3>1
      <3>4. QED
        BY <2>1, <2>3, <3>2, <3>3
    <2>4. QED
      BY <2>2, <2>3
  <1>7. DOMAIN (a \o b) = 1 .. Len(a \o b)
    BY <1>5
  <1>8. QED
    BY <1>4, <1>5, <1>6, <1>7

(* The queue and what is handed out hold tasks, and the queue is sorted    *)
(* after every operation.                                                  *)
Entry == JobId \X Nat
JobsType ==
  /\ tasks \in Seq(Entry) /\ handed \in Seq(Entry)
  /\ retired \in [JobId -> Nat] /\ pushes \in [JobId -> Nat]

QueueInv == JobsType /\ QueueIsSorted

LEMMA RemovedStaysSorted ==
  ASSUME QueueInv, NEW i \in DOMAIN tasks, tasks' = RemoveAt(tasks, i)
  PROVE  QueueIsSorted'
  <1>1. tasks \in Seq(Entry) /\ DOMAIN tasks = 1 .. Len(tasks) /\ Len(tasks) \in Nat
    BY DEF QueueInv, JobsType
  <1>2. /\ DOMAIN tasks' = 1 .. Len(tasks) - 1
        /\ \A k \in 1 .. Len(tasks) - 1 : tasks'[k] = IF k < i THEN tasks[k] ELSE tasks[k + 1]
    BY <1>1, RemoveAtProperties
  <1> SUFFICES ASSUME NEW m \in 1 .. Len(tasks) - 1, NEW n \in 1 .. Len(tasks) - 1, m < n
               PROVE  ~Higher(tasks'[n], tasks'[m])
    BY <1>2 DEF QueueIsSorted
  <1> DEFINE shift(k) == IF k < i THEN k ELSE k + 1
  <1>3. shift(m) \in DOMAIN tasks /\ shift(n) \in DOMAIN tasks /\ shift(m) < shift(n)
    BY <1>1
  <1>4. tasks'[m] = tasks[shift(m)] /\ tasks'[n] = tasks[shift(n)]
    BY <1>2
  <1> HIDE DEF shift
  <1>5. ~Higher(tasks[shift(n)], tasks[shift(m)])
    BY <1>3 DEF QueueInv, QueueIsSorted
  <1>6. QED
    BY <1>4, <1>5

(* Sorting permutes: the tasks are the same and in order.                  *)
LEMMA SortedProperties ==
  ASSUME NEW s \in Seq(Entry), NEW t \in Sorted(s)
  PROVE  /\ t \in Seq(Entry) /\ Len(t) = Len(s)
         /\ \A i, j \in DOMAIN t : i < j => ~Higher(t[j], t[i])
         /\ \E p \in [DOMAIN s -> DOMAIN s] :
              /\ \A a, b \in DOMAIN s : p[a] = p[b] => a = b
              /\ t = [i \in DOMAIN s |-> s[p[i]]]
  <1>1. PICK p \in [DOMAIN s -> DOMAIN s] : IsInjective(p) /\ t = [i \in DOMAIN s |-> s[p[i]]]
    BY DEF Sorted
  <1>2. \A i, j \in DOMAIN t : i < j => ~Higher(t[j], t[i])
    BY DEF Sorted
  <1>3. DOMAIN s = 1 .. Len(s) /\ Len(s) \in Nat
    OBVIOUS
  <1>4. t \in [1 .. Len(s) -> Entry]
    BY <1>1, <1>3
  <1>5. t \in Seq(Entry) /\ Len(t) = Len(s)
    BY <1>3, <1>4
  <1>6. \A a, b \in DOMAIN s : p[a] = p[b] => a = b
    BY <1>1 DEF IsInjective
  <1>7. QED
    BY <1>1, <1>2, <1>5, <1>6

LEMMA JobsTypeStep ==
  ASSUME JobsType, TaskQueue
  PROVE  JobsType'
  <1>1. ASSUME NEW j \in JobId, NEW n \in Nat, push(<<j, n>>) PROVE tasks' \in Seq(Entry)
    <2>1. Append(tasks, <<j, n>>) \in Seq(Entry)
      BY DEF JobsType, Entry
    <2>2. QED
      BY <1>1, <2>1, SortedProperties DEF push
  <1>2. ASSUME NEW j \in JobId, Push(j) PROVE JobsType'
    <2>1. tasks' \in Seq(Entry)
      BY <1>1, <1>2 DEF Push
    <2>2. pushes' \in [JobId -> Nat]
      BY <1>2 DEF Push, JobsType
    <2>3. QED
      BY <1>2, <2>1, <2>2 DEF Push, JobsType
  <1>3. ASSUME NEW j \in JobId, DeadlineOver(j) PROVE JobsType'
    BY <1>3 DEF DeadlineOver, JobsType
  <1>4. ASSUME NEW j \in JobId, Cancel(j) PROVE JobsType'
    <2>1. PICK i \in DOMAIN tasks : tasks' = RemoveAt(tasks, i)
      BY <1>4 DEF Cancel
    <2>2. tasks' \in Seq(Entry)
      BY <2>1, RemoveAtProperties DEF JobsType
    <2>3. retired' \in [JobId -> Nat]
      BY <1>4 DEF Cancel, Retire, JobsType
    <2>4. QED
      BY <1>4, <2>2, <2>3 DEF Cancel, JobsType
  <1>5. CASE PopForToolchain
    <2>1. PICK i \in DOMAIN tasks :
            handed' = Append(handed, tasks[i]) /\ tasks' = RemoveAt(tasks, i)
      BY <1>5 DEF PopForToolchain
    <2>2. tasks' \in Seq(Entry)
      BY <2>1, RemoveAtProperties DEF JobsType
    <2>3. handed' \in Seq(Entry)
      BY <2>1 DEF JobsType
    <2>4. QED
      BY <1>5, <2>2, <2>3 DEF PopForToolchain, JobsType
  <1>6. ASSUME NEW i \in DOMAIN handed
        PROVE  RemoveAt(handed, i) \in Seq(Entry) /\ handed[i] \in Entry
    BY <1>6, RemoveAtProperties DEF JobsType
  <1>7. \A j \in JobId : Retire(j) => retired' \in [JobId -> Nat]
    BY DEF Retire, JobsType
  <1>8. CASE Done
    <2>1. PICK i \in DOMAIN handed : handed' = RemoveAt(handed, i) /\ Retire(handed[i][1])
      BY <1>8 DEF Done
    <2>2. handed[i][1] \in JobId
      BY <1>6 DEF Entry
    <2>3. QED
      BY <1>6, <1>7, <1>8, <2>1, <2>2 DEF Done, JobsType
  <1>9. CASE RequeueWithBackoff
    <2>1. PICK i \in DOMAIN handed :
            /\ handed' = RemoveAt(handed, i)
            /\ \/ Retire(handed[i][1]) /\ UNCHANGED tasks
               \/ push(<<handed[i][1], handed[i][2] + 1>>) /\ UNCHANGED retired
      BY <1>9 DEF RequeueWithBackoff
    <2>2. handed[i][1] \in JobId /\ handed[i][2] + 1 \in Nat
      BY <1>6 DEF Entry
    <2>3. tasks' \in Seq(Entry) /\ retired' \in [JobId -> Nat]
      BY <1>1, <1>7, <2>1, <2>2 DEF JobsType
    <2>4. QED
      BY <1>6, <1>9, <2>1, <2>3 DEF RequeueWithBackoff, JobsType
  <1>10. CASE Clear
    <2>1. \A j \in JobId : Copies(tasks, j) \in Nat
      <3> TAKE j \in JobId
      <3>1. DOMAIN tasks = 1 .. Len(tasks) /\ Len(tasks) \in Nat
        BY DEF JobsType
      <3>2. IsFiniteSet(DOMAIN tasks)
        BY <3>1, FS_Interval
      <3>3. IsFiniteSet({i \in DOMAIN tasks : tasks[i][1] = j})
        BY <3>2, FS_Subset
      <3>4. QED
        BY <3>3, FS_CardinalityType DEF Copies
    <2>2. tasks' \in Seq(Entry) /\ retired' \in [JobId -> Nat]
      BY <1>10, <2>1 DEF Clear, JobsType
    <2>3. QED
      BY <1>10, <2>2 DEF Clear, JobsType
  <1>11. QED
    BY <1>2, <1>3, <1>4, <1>5, <1>8, <1>9, <1>10 DEF TaskQueue

LEMMA QueueStep ==
  ASSUME QueueInv, [CoordinatorNext]_coordinatorVars
  PROVE  QueueInv'
  <1>1. CASE UNCHANGED jobs
    BY <1>1 DEF QueueInv, JobsType, QueueIsSorted, Higher, jobs
  <1>2. CASE TaskQueue
    <2>1. JobsType'
      BY <1>2, JobsTypeStep DEF QueueInv
    <2>2. ASSUME NEW t \in Entry, push(t) PROVE QueueIsSorted'
      <3>1. Append(tasks, t) \in Seq(Entry)
        BY DEF QueueInv, JobsType
      <3>2. QED
        BY <2>2, <3>1, SortedProperties DEF push, QueueIsSorted
    <2>3. UNCHANGED tasks => QueueIsSorted'
      BY DEF QueueInv, QueueIsSorted, Higher
    <2>4. ASSUME NEW j \in JobId, Push(j) \/ DeadlineOver(j) \/ Cancel(j) PROVE QueueIsSorted'
      <3>1. CASE Push(j)
        BY <2>2, <3>1 DEF Push, Entry
      <3>2. CASE DeadlineOver(j)
        BY <2>3, <3>2 DEF DeadlineOver
      <3>3. CASE Cancel(j)
        BY <3>3, RemovedStaysSorted DEF Cancel
      <3>4. QED
        BY <2>4, <3>1, <3>2, <3>3
    <2>5. ASSUME PopForToolchain PROVE QueueIsSorted'
      BY <2>5, RemovedStaysSorted DEF PopForToolchain
    <2>6. ASSUME Done PROVE QueueIsSorted'
      BY <2>3, <2>6 DEF Done
    <2>7. ASSUME RequeueWithBackoff PROVE QueueIsSorted'
      <3>1. PICK i \in DOMAIN handed :
              \/ UNCHANGED tasks
              \/ push(<<handed[i][1], handed[i][2] + 1>>)
        BY <2>7 DEF RequeueWithBackoff
      <3>2. <<handed[i][1], handed[i][2] + 1>> \in Entry
        BY DEF QueueInv, JobsType, Entry
      <3>3. QED
        BY <2>2, <2>3, <3>1, <3>2
    <2>8. ASSUME Clear PROVE QueueIsSorted'
      BY <2>8 DEF Clear, QueueIsSorted
    <2>9. QED
      BY <1>2, <2>1, <2>4, <2>5, <2>6, <2>7, <2>8 DEF TaskQueue, QueueInv
  <1>3. QED
    BY <1>1, <1>2 DEF CoordinatorNext, Registry, coordinatorVars

LEMMA QueueInitInv == CoordinatorInit => QueueInv
  BY DEF CoordinatorInit, QueueInv, JobsType, QueueIsSorted

(* What is popped.                                                         *)
LEMMA PoppedIsBest ==
  ASSUME QueueInv, [CoordinatorNext]_coordinatorVars
  PROVE  PopsTheBest
  <1> SUFFICES ASSUME Len(handed') > Len(handed), NEW k \in DOMAIN tasks,
                      tasks[k][1] \notin late,
                      JobTool[tasks[k][1]] \in {JobTool[Last(handed')[1]], AnyTool}
               PROVE  ~Higher(tasks[k], Last(handed'))
    BY DEF PopsTheBest
  <1>0. handed \in Seq(Entry) /\ tasks \in Seq(Entry) /\ Len(handed) \in Nat
    BY DEF QueueInv, JobsType
  <1>1. PopForToolchain
    <2>1. handed' # handed
      BY <1>0
    <2>2. TaskQueue
      BY <2>1 DEF CoordinatorNext, Registry, coordinatorVars, jobs
    <2>3. ASSUME NEW i \in DOMAIN handed, handed' = RemoveAt(handed, i) PROVE FALSE
      <3>1. handed' \in Seq(Entry) /\ DOMAIN handed' = 1 .. Len(handed) - 1
        BY <1>0, <2>3, RemoveAtProperties
      <3>2. i \in 1 .. Len(handed)
        BY <1>0
      <3>3. Len(handed') = Len(handed) - 1
        BY <1>0, <3>1, <3>2
      <3>4. QED
        BY <1>0, <3>3
    <2>4. ~Done /\ ~RequeueWithBackoff
      BY <2>3 DEF Done, RequeueWithBackoff
    <2>5. QED
      BY <2>1, <2>2, <2>4 DEF TaskQueue, Push, DeadlineOver, Cancel, Clear
  <1>2. PICK tool \in Tool \cup {AnyTool} : \E i \in DOMAIN tasks :
          /\ Eligible(tasks[i], tool)
          /\ \A n \in 1 .. i - 1 : ~Eligible(tasks[n], tool)
          /\ handed' = Append(handed, tasks[i])
    BY <1>1 DEF PopForToolchain
  <1>3. PICK i \in DOMAIN tasks :
          /\ Eligible(tasks[i], tool)
          /\ \A n \in 1 .. i - 1 : ~Eligible(tasks[n], tool)
          /\ handed' = Append(handed, tasks[i])
    BY <1>2
  <1>4. tasks[i] \in Entry /\ i \in Nat /\ k \in Nat /\ DOMAIN tasks = 1 .. Len(tasks)
    BY <1>0
  <1>5. Last(handed') = tasks[i]
    BY <1>0, <1>3, <1>4 DEF Last
  <1>6. CASE i < k
    BY <1>5, <1>6 DEF QueueInv, QueueIsSorted
  <1>7. CASE i = k
    <2>1. Rank[tasks[i][1]] \in Int \X Int
      BY <1>4, CoordinatorAssumption DEF Entry
    <2>2. QED
      BY <1>5, <1>7, <2>1 DEF Higher
  <1>8. ~(k < i)
    <2>1. SUFFICES ASSUME k < i PROVE FALSE
      OBVIOUS
    <2>2. ~Eligible(tasks[k], tool)
      BY <1>3, <1>4, <2>1
    <2>3. tool # AnyTool /\ JobTool[tasks[k][1]] \notin {tool, AnyTool}
      BY <2>2 DEF Eligible
    <2>4. JobTool[tasks[i][1]] \in {tool, AnyTool}
      BY <1>3, <2>3 DEF Eligible
    <2>5. QED
      BY <1>5, <2>3, <2>4
  <1>9. QED
    BY <1>4, <1>6, <1>7, <1>8

(* The worker chosen is the least loaded of those that suit, unless loads  *)
(* changed meanwhile (SelectWorkerWithTags), and the task popped is the    *)
(* best for its toolchain (PopForToolchain): the queue is sorted after     *)
(* every operation, and what was compared so far is never less than the    *)
(* best.                                                                   *)
THEOREM CoordinatorAnswersBest == CoordinatorSpec => AnswersAreBest
  <1>1. CoordinatorInit => RegistryInv /\ QueueInv
    BY RegistryInitInv, QueueInitInv
  <1>2. RegistryInv /\ QueueInv /\ [CoordinatorNext]_coordinatorVars
        => (RegistryInv /\ QueueInv)'
    BY RegistryStep, QueueStep
  <1>3. RegistryInv /\ QueueInv /\ [CoordinatorNext]_coordinatorVars
        => ChoiceIsLeastLoaded /\ PopsTheBest
    BY SelectedIsLeast, PoppedIsBest
  <1>4. QED
    BY <1>1, <1>2, <1>3, PTL DEF CoordinatorSpec, AnswersAreBest

-----------------------------------------------------------------------------
(* The copies of a job in a queue: when one comes, when one goes and when  *)
(* the queue is sorted.                                                    *)
Where(s, j) == {i \in DOMAIN s : s[i][1] = j}

LEMMA CopiesType ==
  ASSUME NEW s \in Seq(Entry), NEW j
  PROVE  /\ IsFiniteSet(Where(s, j)) /\ Copies(s, j) = Cardinality(Where(s, j))
         /\ Copies(s, j) \in Nat
  <1>1. DOMAIN s = 1 .. Len(s) /\ Len(s) \in Nat
    OBVIOUS
  <1>2. IsFiniteSet(DOMAIN s)
    BY <1>1, FS_Interval
  <1>3. IsFiniteSet(Where(s, j))
    BY <1>2, FS_Subset DEF Where
  <1>4. QED
    BY <1>3, FS_CardinalityType DEF Copies, Where

LEMMA CopiesAppend ==
  ASSUME NEW s \in Seq(Entry), NEW e \in Entry, NEW j
  PROVE  Copies(Append(s, e), j) = Copies(s, j) + IF e[1] = j THEN 1 ELSE 0
  <1> DEFINE t == Append(s, e)
             n == Len(s) + 1
  <1>1. /\ t \in Seq(Entry) /\ DOMAIN t = 1 .. n /\ DOMAIN s = 1 .. Len(s) /\ n \notin 1 .. Len(s)
        /\ \A i \in 1 .. n : t[i] = IF i = n THEN e ELSE s[i]
    OBVIOUS
  <1>2. 1 .. n = (1 .. Len(s)) \cup {n}
    OBVIOUS
  <1>3. n \notin Where(s, j)
    BY <1>1 DEF Where
  <1> HIDE DEF t, n
  <1>4. Where(t, j) = IF e[1] = j THEN Where(s, j) \cup {n} ELSE Where(s, j)
    BY <1>1, <1>2 DEF Where
  <1>5. Cardinality(Where(s, j) \cup {n}) = Cardinality(Where(s, j)) + 1
    BY <1>3, CopiesType, FS_AddElement
  <1>6. Copies(t, j) = Cardinality(Where(t, j))
    BY <1>1, CopiesType
  <1>7. Copies(s, j) = Cardinality(Where(s, j)) /\ Copies(s, j) \in Nat
    BY CopiesType
  <1>8. Copies(t, j) = Copies(s, j) + IF e[1] = j THEN 1 ELSE 0
    BY <1>4, <1>5, <1>6, <1>7
  <1>9. QED
    BY <1>8 DEF t

LEMMA CopiesRemoveAt ==
  ASSUME NEW s \in Seq(Entry), NEW i \in DOMAIN s, NEW j
  PROVE  Copies(s, j) = Copies(RemoveAt(s, i), j) + IF s[i][1] = j THEN 1 ELSE 0
  <1> DEFINE r == RemoveAt(s, i)
             shift(k) == IF k < i THEN k ELSE k + 1
             f == [k \in Where(r, j) |-> shift(k)]
             T == Where(s, j) \ {i}
  <1>1. /\ DOMAIN s = 1 .. Len(s) /\ Len(s) \in Nat /\ i \in 1 .. Len(s)
    OBVIOUS
  <1>2. /\ r \in Seq(Entry) /\ DOMAIN r = 1 .. Len(s) - 1
        /\ \A k \in 1 .. Len(s) - 1 : r[k] = s[shift(k)]
    BY RemoveAtProperties
  <1> HIDE DEF r
  <1>3. \A k \in Where(r, j) : shift(k) \in T
    BY <1>1, <1>2 DEF Where
  <1>4. \A k, m \in Where(r, j) : shift(k) = shift(m) => k = m
    BY <1>1, <1>2 DEF Where
  <1>5. \A m \in T : \E k \in Where(r, j) : shift(k) = m
    <2> TAKE m \in T
    <2>1. m \in 1 .. Len(s) /\ m # i /\ s[m][1] = j
      BY <1>1 DEF Where
    <2> DEFINE k == IF m < i THEN m ELSE m - 1
    <2>2. k \in 1 .. Len(s) - 1 /\ shift(k) = m
      BY <1>1, <2>1
    <2> HIDE DEF k
    <2>3. r[k][1] = j
      BY <1>2, <2>1, <2>2
    <2>4. k \in Where(r, j)
      BY <1>2, <2>2, <2>3 DEF Where
    <2>5. QED
      BY <2>2, <2>4
  <1>6. f \in [Where(r, j) -> T] /\ \A k \in Where(r, j) : f[k] = shift(k)
    BY <1>3
  <1> HIDE DEF f, shift, T
  <1>7. f \in Bijection(Where(r, j), T)
    BY <1>4, <1>5, <1>6 DEF Bijection, Injection, Surjection, IsInjective
  <1>8. ExistsBijection(Where(r, j), T)
    BY <1>7 DEF ExistsBijection
  <1>9. IsFiniteSet(Where(r, j)) /\ Copies(r, j) = Cardinality(Where(r, j))
    BY <1>2, CopiesType
  <1>10. Cardinality(T) = Cardinality(Where(r, j))
    BY <1>8, <1>9, FS_Bijection
  <1>11. IsFiniteSet(Where(s, j)) /\ Copies(s, j) = Cardinality(Where(s, j)) /\ Copies(s, j) \in Nat
    BY CopiesType
  <1>12. Cardinality(T) = IF i \in Where(s, j) THEN Copies(s, j) - 1 ELSE Copies(s, j)
    BY <1>11, FS_RemoveElement DEF T
  <1>13. i \in Where(s, j) <=> s[i][1] = j
    BY DEF Where
  <1>14. QED
    BY <1>9, <1>10, <1>11, <1>12, <1>13 DEF r

LEMMA CopiesSorted ==
  ASSUME NEW s \in Seq(Entry), NEW t \in Sorted(s), NEW j
  PROVE  Copies(t, j) = Copies(s, j)
  <1>1. PICK p \in [DOMAIN s -> DOMAIN s] :
          /\ \A a, b \in DOMAIN s : p[a] = p[b] => a = b
          /\ t = [i \in DOMAIN s |-> s[p[i]]]
    BY SortedProperties
  <1>2. DOMAIN s = 1 .. Len(s) /\ Len(s) \in Nat
    OBVIOUS
  <1>3. IsFiniteSet(DOMAIN s)
    BY <1>2, FS_Interval
  <1>4. p \in Injection(DOMAIN s, DOMAIN s)
    BY <1>1 DEF Injection, IsInjective
  <1>5. p \in Surjection(DOMAIN s, DOMAIN s)
    BY <1>3, <1>4, FS_Injection
  <1>6. \A m \in DOMAIN s : \E k \in DOMAIN s : p[k] = m
    BY <1>5 DEF Surjection
  <1> DEFINE f == [k \in Where(t, j) |-> p[k]]
  <1>7. \A k \in DOMAIN s : k \in Where(t, j) <=> p[k] \in Where(s, j)
    BY <1>1 DEF Where
  <1>8. Where(t, j) \subseteq DOMAIN s /\ Where(s, j) \subseteq DOMAIN s
    BY <1>1 DEF Where
  <1>9. f \in [Where(t, j) -> Where(s, j)] /\ \A k \in Where(t, j) : f[k] = p[k]
    BY <1>7, <1>8
  <1> HIDE DEF f
  <1>10. f \in Bijection(Where(t, j), Where(s, j))
    <2>1. \A a, b \in Where(t, j) : f[a] = f[b] => a = b
      BY <1>1, <1>8, <1>9
    <2>2. \A m \in Where(s, j) : \E k \in Where(t, j) : f[k] = m
      BY <1>6, <1>7, <1>8, <1>9
    <2>3. QED
      BY <1>9, <2>1, <2>2 DEF Bijection, Injection, Surjection, IsInjective
  <1>11. ExistsBijection(Where(t, j), Where(s, j))
    BY <1>10 DEF ExistsBijection
  <1>12. t \in Seq(Entry)
    BY SortedProperties
  <1>13. IsFiniteSet(Where(t, j)) /\ Copies(t, j) = Cardinality(Where(t, j))
    BY <1>12, CopiesType
  <1>14. Copies(s, j) = Cardinality(Where(s, j))
    BY CopiesType
  <1>15. QED
    BY <1>11, <1>13, <1>14, FS_Bijection

(* Each push is somewhere, and no task is beyond its retries.              *)
Accounted(j) == pushes[j] = Copies(tasks, j) + Copies(handed, j) + retired[j]
Fits(t) == MaxRetries[t[1]] > 0 => t[2] <= MaxRetries[t[1]]
AllFit(s) == \A i \in DOMAIN s : Fits(s[i])

ConservedInv ==
  /\ JobsType
  /\ \A j \in JobId : Accounted(j)
  /\ AllFit(tasks) /\ AllFit(handed)

LEMMA FitStays ==
  ASSUME NEW s \in Seq(Entry), AllFit(s)
  PROVE  /\ \A i \in DOMAIN s : AllFit(RemoveAt(s, i))
         /\ \A e \in Entry : Fits(e) => AllFit(Append(s, e))
         /\ \A t \in Sorted(s) : AllFit(t)
  <1>1. DOMAIN s = 1 .. Len(s) /\ Len(s) \in Nat
    OBVIOUS
  <1>2. ASSUME NEW i \in DOMAIN s PROVE AllFit(RemoveAt(s, i))
    <2>1. /\ DOMAIN RemoveAt(s, i) = 1 .. Len(s) - 1
          /\ \A k \in 1 .. Len(s) - 1 : RemoveAt(s, i)[k] = IF k < i THEN s[k] ELSE s[k + 1]
      BY RemoveAtProperties
    <2>2. \A k \in 1 .. Len(s) - 1 : k \in DOMAIN s /\ k + 1 \in DOMAIN s
      BY <1>1
    <2>3. QED
      BY <2>1, <2>2 DEF AllFit
  <1>3. ASSUME NEW e \in Entry, Fits(e) PROVE AllFit(Append(s, e))
    <2>1. /\ DOMAIN Append(s, e) = 1 .. Len(s) + 1
          /\ \A k \in 1 .. Len(s) + 1 : Append(s, e)[k] = IF k = Len(s) + 1 THEN e ELSE s[k]
      OBVIOUS
    <2>2. \A k \in 1 .. Len(s) + 1 : k # Len(s) + 1 => k \in DOMAIN s
      BY <1>1
    <2>3. QED
      BY <1>3, <2>1, <2>2 DEF AllFit
  <1>4. ASSUME NEW t \in Sorted(s) PROVE AllFit(t)
    <2>1. PICK p \in [DOMAIN s -> DOMAIN s] : t = [i \in DOMAIN s |-> s[p[i]]]
      BY SortedProperties
    <2>2. QED
      BY <2>1 DEF AllFit
  <1>5. QED
    BY <1>2, <1>3, <1>4

(* A queue that takes a task and is sorted.                                *)
LEMMA PushCounts ==
  ASSUME JobsType, AllFit(tasks), NEW e \in Entry, Fits(e), push(e)
  PROVE  /\ AllFit(tasks')
         /\ \A j \in JobId : Copies(tasks', j) = Copies(tasks, j) + IF e[1] = j THEN 1 ELSE 0
  <1>1. tasks \in Seq(Entry) /\ Append(tasks, e) \in Seq(Entry)
    BY DEF JobsType
  <1>2. PICK t \in Sorted(Append(tasks, e)) : tasks' = t
    BY DEF push
  <1>3. AllFit(Append(tasks, e))
    BY <1>1, FitStays
  <1>4. AllFit(t)
    BY <1>1, <1>3, FitStays
  <1>5. \A j \in JobId : Copies(t, j) = Copies(Append(tasks, e), j)
    BY <1>1, CopiesSorted
  <1>6. \A j \in JobId : Copies(t, j) = Copies(tasks, j) + IF e[1] = j THEN 1 ELSE 0
    BY <1>1, <1>5, CopiesAppend
  <1>7. QED
    BY <1>2, <1>4, <1>6

(* A task that leaves a queue.                                             *)
LEMMA RemovalCounts ==
  ASSUME NEW s \in Seq(Entry), NEW i \in DOMAIN s, NEW r, r = RemoveAt(s, i), AllFit(s)
  PROVE  /\ AllFit(r) /\ Fits(s[i]) /\ s[i] \in Entry
         /\ \A j \in JobId : Copies(s, j) = Copies(r, j) + IF s[i][1] = j THEN 1 ELSE 0
  BY FitStays, CopiesRemoveAt DEF AllFit

LEMMA ConservedStep ==
  ASSUME ConservedInv, TaskQueue
  PROVE  ConservedInv'
  <1>1. JobsType' /\ JobsType
    BY JobsTypeStep DEF ConservedInv
  <1>2. /\ tasks \in Seq(Entry) /\ handed \in Seq(Entry) /\ tasks' \in Seq(Entry)
        /\ handed' \in Seq(Entry) /\ AllFit(tasks) /\ AllFit(handed)
    BY <1>1 DEF ConservedInv, JobsType
  <1>3. /\ pushes \in [JobId -> Nat] /\ retired \in [JobId -> Nat]
        /\ \A j \in JobId : pushes[j] = Copies(tasks, j) + Copies(handed, j) + retired[j]
    BY <1>1 DEF ConservedInv, JobsType, Accounted
  <1>4. \A j \in JobId : /\ Copies(tasks, j) \in Nat /\ Copies(handed, j) \in Nat
                         /\ Copies(tasks', j) \in Nat /\ Copies(handed', j) \in Nat
    BY <1>2, CopiesType
  <1> SUFFICES /\ AllFit(tasks') /\ AllFit(handed')
               /\ \A j \in JobId :
                    pushes'[j] = Copies(tasks', j) + Copies(handed', j) + retired'[j]
    BY <1>1 DEF ConservedInv, Accounted
  <1> DEFINE Goal == /\ AllFit(tasks') /\ AllFit(handed')
                     /\ \A j \in JobId :
                          pushes'[j] = Copies(tasks', j) + Copies(handed', j) + retired'[j]
  <1>5. UNCHANGED tasks => AllFit(tasks') /\ \A j \in JobId : Copies(tasks', j) = Copies(tasks, j)
    BY <1>2
  <1>6. UNCHANGED handed =>
          AllFit(handed') /\ \A j \in JobId : Copies(handed', j) = Copies(handed, j)
    BY <1>2
  <1>7. ASSUME NEW i \in DOMAIN tasks, tasks' = RemoveAt(tasks, i)
        PROVE  /\ AllFit(tasks') /\ Fits(tasks[i]) /\ tasks[i] \in Entry
               /\ \A j \in JobId :
                    Copies(tasks, j) = Copies(tasks', j) + IF tasks[i][1] = j THEN 1 ELSE 0
    BY <1>2, <1>7, RemovalCounts
  <1>8. ASSUME NEW i \in DOMAIN handed, handed' = RemoveAt(handed, i)
        PROVE  /\ AllFit(handed') /\ Fits(handed[i]) /\ handed[i] \in Entry
               /\ \A j \in JobId :
                    Copies(handed, j) = Copies(handed', j) + IF handed[i][1] = j THEN 1 ELSE 0
    BY <1>2, <1>8, RemovalCounts
  <1>9. ASSUME NEW j \in JobId, Retire(j)
        PROVE  \A k \in JobId : retired'[k] = retired[k] + IF j = k THEN 1 ELSE 0
    BY <1>3, <1>9 DEF Retire
  <1>10. ASSUME NEW j \in JobId, Push(j) PROVE Goal
    <2>1. <<j, 0>> \in Entry /\ <<j, 0>>[1] = j /\ Fits(<<j, 0>>)
      BY CoordinatorAssumption DEF Entry, Fits
    <2>2. push(<<j, 0>>) /\ UNCHANGED handed /\ UNCHANGED retired
      BY <1>10 DEF Push
    <2>3. /\ AllFit(tasks')
          /\ \A k \in JobId : Copies(tasks', k) = Copies(tasks, k) + IF j = k THEN 1 ELSE 0
      BY <1>1, <1>2, <2>1, <2>2, PushCounts
    <2>4. \A k \in JobId : pushes'[k] = pushes[k] + IF j = k THEN 1 ELSE 0
      BY <1>3, <1>10 DEF Push
    <2>5. QED
      BY <1>3, <1>4, <1>6, <2>2, <2>3, <2>4
  <1>11. ASSUME NEW j \in JobId, DeadlineOver(j) PROVE Goal
    <2>1. UNCHANGED tasks /\ UNCHANGED handed /\ UNCHANGED retired /\ UNCHANGED pushes
      BY <1>11 DEF DeadlineOver
    <2>2. QED
      BY <1>3, <1>5, <1>6, <2>1
  <1>12. ASSUME NEW j \in JobId, Cancel(j) PROVE Goal
    <2>1. PICK i \in DOMAIN tasks : tasks[i][1] = j /\ tasks' = RemoveAt(tasks, i)
      BY <1>12 DEF Cancel
    <2>2. Retire(j) /\ UNCHANGED handed /\ UNCHANGED pushes
      BY <1>12 DEF Cancel
    <2>3. \A k \in JobId : retired'[k] = retired[k] + IF j = k THEN 1 ELSE 0
      BY <1>9, <2>2
    <2>4. /\ AllFit(tasks')
          /\ \A k \in JobId : Copies(tasks, k) = Copies(tasks', k) + IF j = k THEN 1 ELSE 0
      BY <1>7, <2>1
    <2>5. QED
      BY <1>3, <1>4, <1>6, <2>2, <2>3, <2>4
  <1>13. ASSUME PopForToolchain PROVE Goal
    <2>1. PICK i \in DOMAIN tasks :
            handed' = Append(handed, tasks[i]) /\ tasks' = RemoveAt(tasks, i)
      BY <1>13 DEF PopForToolchain
    <2>2. /\ AllFit(tasks') /\ Fits(tasks[i]) /\ tasks[i] \in Entry
          /\ \A k \in JobId :
               Copies(tasks, k) = Copies(tasks', k) + IF tasks[i][1] = k THEN 1 ELSE 0
      BY <1>7, <2>1
    <2>3. AllFit(handed')
      BY <1>2, <2>1, <2>2, FitStays
    <2>4. \A k \in JobId :
            Copies(handed', k) = Copies(handed, k) + IF tasks[i][1] = k THEN 1 ELSE 0
      BY <1>2, <2>1, <2>2, CopiesAppend
    <2>5. UNCHANGED retired /\ UNCHANGED pushes
      BY <1>13 DEF PopForToolchain
    <2>6. QED
      BY <1>3, <1>4, <2>2, <2>3, <2>4, <2>5
  <1>14. ASSUME Done PROVE Goal
    <2>1. PICK i \in DOMAIN handed : handed' = RemoveAt(handed, i) /\ Retire(handed[i][1])
      BY <1>14 DEF Done
    <2>2. /\ AllFit(handed') /\ handed[i] \in Entry
          /\ \A k \in JobId :
               Copies(handed, k) = Copies(handed', k) + IF handed[i][1] = k THEN 1 ELSE 0
      BY <1>8, <2>1
    <2>3. \A k \in JobId : retired'[k] = retired[k] + IF handed[i][1] = k THEN 1 ELSE 0
      BY <1>9, <2>1, <2>2 DEF Entry
    <2>4. UNCHANGED tasks /\ UNCHANGED pushes
      BY <1>14 DEF Done
    <2>5. QED
      BY <1>3, <1>4, <1>5, <2>2, <2>3, <2>4
  <1>15. ASSUME RequeueWithBackoff PROVE Goal
    <2>1. PICK i \in DOMAIN handed :
            /\ handed' = RemoveAt(handed, i)
            /\ IF GivenUp(handed[i][1], handed[i][2])
               THEN Retire(handed[i][1]) /\ UNCHANGED tasks
               ELSE push(<<handed[i][1], handed[i][2] + 1>>) /\ UNCHANGED retired
      BY <1>15 DEF RequeueWithBackoff
    <2>2. /\ AllFit(handed') /\ handed[i] \in Entry
          /\ \A k \in JobId :
               Copies(handed, k) = Copies(handed', k) + IF handed[i][1] = k THEN 1 ELSE 0
      BY <1>8, <2>1
    <2>3. handed[i][1] \in JobId /\ handed[i][2] \in Nat
      BY <2>2 DEF Entry
    <2>4. UNCHANGED pushes
      BY <1>15 DEF RequeueWithBackoff
    <2>5. CASE GivenUp(handed[i][1], handed[i][2])
      <3>1. Retire(handed[i][1]) /\ UNCHANGED tasks
        BY <2>1, <2>5
      <3>2. \A k \in JobId : retired'[k] = retired[k] + IF handed[i][1] = k THEN 1 ELSE 0
        BY <1>9, <2>3, <3>1
      <3>3. QED
        BY <1>3, <1>4, <1>5, <2>2, <2>4, <3>1, <3>2
    <2>6. CASE ~GivenUp(handed[i][1], handed[i][2])
      <3> DEFINE e == <<handed[i][1], handed[i][2] + 1>>
      <3>1. push(e) /\ UNCHANGED retired
        BY <2>1, <2>6
      <3>2. e \in Entry /\ e[1] = handed[i][1] /\ e[2] = handed[i][2] + 1
        BY <2>3 DEF Entry
      <3>3. Fits(e)
        <4>1. MaxRetries[handed[i][1]] \in Nat
          BY <2>3, CoordinatorAssumption
        <4>2. QED
          BY <2>3, <2>6, <3>2, <4>1 DEF GivenUp, Fits
      <3> HIDE DEF e
      <3>4. /\ AllFit(tasks')
            /\ \A k \in JobId :
                 Copies(tasks', k) = Copies(tasks, k) + IF handed[i][1] = k THEN 1 ELSE 0
        BY <1>1, <1>2, <3>1, <3>2, <3>3, PushCounts
      <3>5. QED
        BY <1>3, <1>4, <2>2, <2>4, <3>1, <3>4
    <2>7. QED
      BY <2>5, <2>6
  <1>16. ASSUME Clear PROVE Goal
    <2>1. tasks' = <<>> /\ UNCHANGED handed /\ UNCHANGED pushes
      BY <1>16 DEF Clear
    <2>2. \A k \in JobId : retired'[k] = retired[k] + Copies(tasks, k)
      BY <1>16 DEF Clear
    <2>3. \A k \in JobId : Copies(tasks', k) = 0
      <3>1. \A k \in JobId : Where(<<>>, k) = {}
        BY DEF Where
      <3>2. <<>> \in Seq(Entry)
        OBVIOUS
      <3>3. \A k \in JobId : Copies(<<>>, k) = 0
        BY <3>1, <3>2, CopiesType, FS_EmptySet
      <3>4. QED
        BY <2>1, <3>3
    <2>4. AllFit(tasks')
      BY <2>1 DEF AllFit
    <2>5. QED
      BY <1>3, <1>4, <1>6, <2>1, <2>2, <2>3, <2>4
  <1>17. QED
    BY <1>10, <1>11, <1>12, <1>13, <1>14, <1>15, <1>16 DEF TaskQueue

(* No task is lost or doubled by the queue, and none is handed out beyond  *)
(* its retries (Push, PopForToolchain, Cancel, RequeueWithBackoff, Clear): *)
(* each operation moves one copy from one place to another.                *)
THEOREM NoTaskIsLost == CoordinatorSpec => []TasksAreConserved
  <1>1. CoordinatorInit => ConservedInv
    <2> SUFFICES ASSUME CoordinatorInit PROVE ConservedInv
      OBVIOUS
    <2>1. tasks = <<>> /\ handed = <<>>
      BY DEF CoordinatorInit
    <2>2. JobsType
      BY DEF CoordinatorInit, JobsType
    <2>3. \A j \in JobId : Copies(tasks, j) = 0 /\ Copies(handed, j) = 0
      <3>1. \A j \in JobId : Where(<<>>, j) = {}
        BY DEF Where
      <3>2. <<>> \in Seq(Entry)
        OBVIOUS
      <3>3. \A j \in JobId : Copies(<<>>, j) = 0
        BY <3>1, <3>2, CopiesType, FS_EmptySet
      <3>4. QED
        BY <2>1, <3>3
    <2>4. \A j \in JobId : pushes[j] = 0 /\ retired[j] = 0
      BY DEF CoordinatorInit
    <2>5. \A j \in JobId : Accounted(j)
      BY <2>3, <2>4 DEF Accounted
    <2>6. AllFit(tasks) /\ AllFit(handed)
      BY <2>1 DEF AllFit
    <2>7. QED
      BY <2>2, <2>5, <2>6 DEF ConservedInv
  <1>2. ConservedInv /\ [CoordinatorNext]_coordinatorVars => ConservedInv'
    <2> SUFFICES ASSUME ConservedInv, [CoordinatorNext]_coordinatorVars PROVE ConservedInv'
      OBVIOUS
    <2>1. CASE TaskQueue
      BY <2>1, ConservedStep
    <2>2. CASE UNCHANGED jobs
      <3>1. UNCHANGED tasks /\ UNCHANGED handed /\ UNCHANGED retired /\ UNCHANGED pushes
        BY <2>2 DEF jobs
      <3>2. JobsType' /\ AllFit(tasks)' /\ AllFit(handed)'
        BY <3>1 DEF ConservedInv, JobsType, AllFit, Fits
      <3>3. \A j \in JobId : Accounted(j)'
        BY <3>1 DEF ConservedInv, Accounted, Copies
      <3>4. QED
        BY <3>2, <3>3 DEF ConservedInv
    <2>3. QED
      BY <2>1, <2>2 DEF CoordinatorNext, Registry, coordinatorVars
  <1>3. ConservedInv => TasksAreConserved
    <2> SUFFICES ASSUME ConservedInv PROVE TasksAreConserved
      OBVIOUS
    <2>1. \A j \in JobId : pushes[j] = Copies(tasks, j) + Copies(handed, j) + retired[j]
      BY DEF ConservedInv, Accounted
    <2>2. \A t \in ToSet(tasks) : Fits(t)
      BY DEF ConservedInv, AllFit, ToSet
    <2>3. \A t \in ToSet(handed) : Fits(t)
      BY DEF ConservedInv, AllFit, ToSet
    <2>4. QED
      BY <2>1, <2>2, <2>3 DEF TasksAreConserved, Fits
  <1>4. QED
    BY <1>1, <1>2, <1>3, PTL DEF CoordinatorSpec
=============================================================================
