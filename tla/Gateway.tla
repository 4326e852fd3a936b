------------------------------- MODULE Gateway ------------------------------
(***************************************************************************)
(* go/pkg/gateway: the load balancer (balancer.go) and the rate limiter    *)
(* (limiter.go).  Requests choose a target under a read lock, so that      *)
(* several choose at once and only the counters are atomic; the targets    *)
(* are changed under the write lock.  A target that was removed and added  *)
(* again is another object under the same name.                            *)
(*                                                                         *)
(* Limiter: time and tokens are whole numbers of ticks and of tokens.      *)
(***************************************************************************)
EXTENDS Integers, Sequences, FiniteSets, SequencesExt

CONSTANTS
  Target,
  Request,
  Capacity_, Rate_,  \* of the limiter
  MaxTime            \* bound on the clock

ASSUME LimiterAssumption == Capacity_ \in Nat /\ Rate_ \in Nat /\ MaxTime \in Nat

VARIABLES
  targets,    \* the list of targets
  active_ops, \* of the object each name stands for
  healthy,
  counter,    \* of the round robin, modulo the product of the possible lengths
  gpc,        \* where each request is
  seen,       \* the targets least loaded first has compared, as loads
  chosen,     \* the target it was given
  reused      \* history: names that were removed while a request had them

balancer == <<targets, active_ops, healthy, counter, gpc, seen, chosen, reused>>

VARIABLES
  now, tokens, lastRefill,
  granted     \* history: the tokens granted since the start

limiter == <<now, tokens, lastRefill, granted>>
gatewayVars == <<balancer, limiter>>

LimiterInit == now = 0 /\ tokens = Capacity_ /\ lastRefill = 0 /\ granted = 0

NoTarget == <<>>

GatewayInit ==
  /\ targets = <<>> /\ active_ops = [t \in Target |-> 0] /\ healthy = {} /\ counter = 0
  /\ gpc = [r \in Request |-> "idle"] /\ seen = [r \in Request |-> <<>>]
  /\ chosen = [r \in Request |-> NoTarget] /\ reused = {}
  /\ LimiterInit

-----------------------------------------------------------------------------
Locked == \E r \in Request : gpc[r] = "least"

AddTarget(t) ==
  /\ ~Locked
  /\ healthy' = healthy \cup {t}
  /\ IF Contains(targets, t)
     THEN UNCHANGED <<targets, active_ops>>
     ELSE targets' = Append(targets, t) /\ active_ops' = [active_ops EXCEPT ![t] = 0]
  /\ UNCHANGED <<counter, gpc, seen, chosen, reused>>

RemoveTarget(t) ==
  /\ ~Locked
  /\ \E i \in DOMAIN targets : targets[i] = t /\ targets' = RemoveAt(targets, i)
  /\ healthy' = healthy \ {t}
  /\ reused' = IF \E r \in Request : chosen[r] = <<t>> THEN reused \cup {t} ELSE reused
  /\ UNCHANGED <<active_ops, counter, gpc, seen, chosen>>

SetHealth(t, good) ==
  /\ ~Locked /\ Contains(targets, t)
  /\ healthy' = IF good THEN healthy \cup {t} ELSE healthy \ {t}
  /\ UNCHANGED <<targets, active_ops, counter, gpc, seen, chosen, reused>>

(* The positions of the healthy targets, and how many come before one. *)
Healthy == {i \in DOMAIN targets : targets[i] \in healthy}
Before(i) == Cardinality({j \in Healthy : j < i})

Take(r, t) ==
  /\ active_ops' = [active_ops EXCEPT ![t] = @ + 1]
  /\ chosen' = [chosen EXCEPT ![r] = <<t>>]
  /\ gpc' = [gpc EXCEPT ![r] = "serving"]

(* SelectLeastLoaded reads the counters of the healthy targets in turn,    *)
(* that of the best so far again each time, and raises that of the best.   *)
LookAtTargets(r) ==
  /\ gpc[r] = "idle"
  /\ gpc' = [gpc EXCEPT ![r] = "least"]
  /\ \E i \in Healthy : Before(i) = 0 /\ seen' = [seen EXCEPT ![r] = <<targets[i]>>]
  /\ UNCHANGED <<targets, active_ops, healthy, counter, chosen, reused>>

CompareNext(r) ==
  /\ gpc[r] = "least"
  /\ \E i \in Healthy :
       /\ Before(i) = Len(seen[r])
       /\ LET t == targets[i]
              best == Last(seen[r])
          IN  seen' = [seen EXCEPT ![r] = Append(@, IF active_ops[t] < active_ops[best] THEN t ELSE best)]
  /\ UNCHANGED <<targets, active_ops, healthy, counter, gpc, chosen, reused>>

SelectLeastLoaded(r) ==
  /\ gpc[r] = "least" /\ Len(seen[r]) = Cardinality(Healthy)
  /\ Take(r, Last(seen[r]))
  /\ seen' = [seen EXCEPT ![r] = <<>>]
  /\ UNCHANGED <<targets, healthy, counter, reused>>

(* The counter only matters modulo the number of healthy targets, which is *)
(* at most that of all: it is kept modulo their factorial.                 *)
Cycle == LET f[n \in 0 .. Cardinality(Target)] == IF n = 0 THEN 1 ELSE n * f[n - 1] IN f[Cardinality(Target)]

SelectRoundRobin(r) ==
  /\ gpc[r] = "idle"
  /\ counter' = (counter + 1) % Cycle
  /\ \E i \in Healthy : Before(i) = counter' % Cardinality(Healthy) /\ Take(r, targets[i])
  /\ UNCHANGED <<targets, healthy, seen, reused>>

(* By name: of the target that has it now, if any. *)
Release(r) ==
  /\ gpc[r] = "serving"
  /\ active_ops' = IF Contains(targets, chosen[r][1])
                   THEN [active_ops EXCEPT ![chosen[r][1]] = @ - 1] ELSE active_ops
  /\ chosen' = [chosen EXCEPT ![r] = NoTarget]
  /\ gpc' = [gpc EXCEPT ![r] = "idle"]
  /\ UNCHANGED <<targets, healthy, counter, seen, reused>>

Balancer ==
  /\ \/ \E t \in Target : AddTarget(t) \/ RemoveTarget(t) \/ \E good \in BOOLEAN : SetHealth(t, good)
     \/ \E r \in Request :
          LookAtTargets(r) \/ CompareNext(r) \/ SelectLeastLoaded(r) \/ SelectRoundRobin(r) \/ Release(r)
  /\ UNCHANGED limiter

-----------------------------------------------------------------------------
Tick == now < MaxTime /\ now' = now + 1 /\ UNCHANGED <<tokens, lastRefill, granted>>

Refilled ==
  LET full == tokens + (now - lastRefill) * Rate_
  IN  IF full < Capacity_ THEN full ELSE Capacity_

\* Slip: a request that is refused does not move lastRefill.
AllowN_Refused(n) ==
  /\ lastRefill' = IF Refilled >= n THEN now ELSE lastRefill
  /\ IF Refilled >= n
     THEN tokens' = Refilled - n /\ granted' = granted + n
     ELSE tokens' = Refilled /\ UNCHANGED granted
  /\ UNCHANGED now

AllowN(n) ==
  /\ lastRefill' = now
  /\ IF Refilled >= n
     THEN tokens' = Refilled - n /\ granted' = granted + n
     ELSE tokens' = Refilled /\ UNCHANGED granted
  /\ UNCHANGED now

LimiterNext == (Tick \/ \E n \in 1 .. Capacity_ + 1 : AllowN(n)) /\ UNCHANGED balancer

LimiterSpec == LimiterInit /\ [][Tick \/ \E n \in Nat \ {0} : AllowN(n)]_limiter

GatewaySpec == GatewayInit /\ [][Balancer \/ LimiterNext]_gatewayVars

-----------------------------------------------------------------------------
(* A target counts exactly the requests that have it and have not released *)
(* it, healthy or not, unless its name was removed while one had it: a     *)
(* release then takes from whatever has the name, or from nothing.         *)
ActiveOpsAreExact ==
  \A t \in Target \ reused :
    Contains(targets, t) =>
      active_ops[t] = Cardinality({r \in Request : chosen[r] = <<t>>})

(* Whatever is asked for and when, no more is granted than the bucket      *)
(* holds at first and the rate gives since.                                *)
TokenBudget == granted <= Capacity_ + Rate_ * now

(* What LoadBalancer and RateLimiter count, under any calls.               *)
GatewayCounts == ActiveOpsAreExact /\ TokenBudget
=============================================================================
