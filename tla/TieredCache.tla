----------------------------- MODULE TieredCache ----------------------------
(***************************************************************************)
(* fish-cache: TieredCache, three LruCaches on top of one another          *)
(* (strategies.rs).  get and invalidate borrow the cache and take the lock *)
(* of one tier after the other, so calls of several threads interleave     *)
(* between the locks; put and clear borrow it mutably and run alone.       *)
(* SpinLockLruCache has the same algorithm under spin locks.               *)
(*                                                                         *)
(* The value put under a key is its version, 1, 2, ..., and takes as many  *)
(* bytes.                                                                  *)
(***************************************************************************)
EXTENDS Integers, Sequences, FiniteSets, SequencesExt, Functions

CONSTANTS
  Key, NoKey,
  Thread,
  MaxVersion,  \* bound on the puts of a key
  Capacity,    \* of each tier: entries
  TierBytes    \*               max_size

ASSUME TierAssumption == \A t \in 1 .. 3 : Capacity[t] \in Nat \ {0} /\ TierBytes[t] \in Nat

VARIABLES
  tier,    \* [entries, access_order (most recent first), current_size] of each
  latest,  \* history: the versions put of each key so far
  gone,    \* history: was the key invalidated since its last put?
  tpc,     \* where the get or the invalidate of each thread is
  key,
  carried, \* the entries it holds between two locks: <<key, version>>
  got,     \* the version that the get under way found, 0 for none yet
  overlap, \* history: have two calls overlapped since the cache was empty?
  dropped  \* history: keys of which a copy was dropped since their last put

tieredVars == <<tier, latest, gone, tpc, key, carried, got, overlap, dropped>>
thread == <<tpc, key, carried, got>>

EmptyTier == [entries |-> <<>>, access_order |-> <<>>, current_size |-> 0]

TieredInit ==
  /\ tier = [t \in 1 .. 3 |-> EmptyTier]
  /\ latest = [k \in Key |-> 0] /\ gone = [k \in Key |-> FALSE]
  /\ tpc = [c \in Thread |-> "idle"] /\ key = [c \in Thread |-> NoKey]
  /\ carried = [c \in Thread |-> <<>>] /\ got = [c \in Thread |-> 0]
  /\ overlap = FALSE /\ dropped = {}

-----------------------------------------------------------------------------
(* LruCache *)
Has(t, k) == k \in DOMAIN tier[t].entries

(* The order without a key. *)
Without(order, k) ==
  LET rest[i \in 0 .. Len(order)] ==
        IF i = 0 THEN <<>>
        ELSE IF order[i] = k THEN rest[i - 1] ELSE Append(rest[i - 1], order[i])
  IN  rest[Len(order)]

\* Slip: the key is not taken from its old place.
Touched_Twice(order, k) == IF Contains(order, k) THEN <<k>> \o order ELSE order

Touched(order, k) == IF Contains(order, k) THEN <<k>> \o Without(order, k) ELSE order

PopOldest(c) ==
  LET k == Last(c.access_order)
      short == Front(c.access_order)
  IN  IF k \in DOMAIN c.entries
      THEN [entries |-> Restrict(c.entries, DOMAIN c.entries \ {k}), access_order |-> short,
            current_size |-> c.current_size - c.entries[k]]
      ELSE [c EXCEPT !.access_order = short]

MustEvict(c, t, size) ==
  /\ Cardinality(DOMAIN c.entries) >= Capacity[t] \/ c.current_size + size > TierBytes[t]
  /\ c.access_order # <<>>

(* The cache after the eviction loop of a put, and what it evicted. *)
Evict(c, t, size) ==
  LET after[n \in 0 .. Len(c.access_order)] ==
        IF n = 0 THEN c
        ELSE IF MustEvict(after[n - 1], t, size) THEN PopOldest(after[n - 1]) ELSE after[n - 1]
      rest == after[Len(c.access_order)]
      count == Len(c.access_order) - Len(rest.access_order)
  IN  [cache |-> rest,
       evicted |-> [i \in 1 .. count |->
                      LET k == c.access_order[Len(c.access_order) + 1 - i] IN <<k, c.entries[k]>>]]

put_with_evictions(c, t, k, v) ==
  IF k \in DOMAIN c.entries
  THEN [cache |-> [entries |-> [c.entries EXCEPT ![k] = v], access_order |-> Touched(c.access_order, k),
                   current_size |-> c.current_size - c.entries[k] + v],
        evicted |-> <<>>]
  ELSE LET room == Evict(c, t, v)
       IN  [cache |-> [entries |-> [j \in DOMAIN room.cache.entries \cup {k} |->
                                      IF j = k THEN v ELSE room.cache.entries[j]],
                       access_order |-> <<k>> \o room.cache.access_order,
                       current_size |-> room.cache.current_size + v],
            evicted |-> room.evicted]

(* The entries of a list put one after the other. *)
put_all(c, t, list) ==
  LET up[i \in 0 .. Len(list)] ==
        IF i = 0 THEN [cache |-> c, evicted |-> <<>>]
        ELSE LET one == put_with_evictions(up[i - 1].cache, t, list[i][1], list[i][2])
             IN  [cache |-> one.cache, evicted |-> up[i - 1].evicted \o one.evicted]
  IN  up[Len(list)]

KeysOf(list) == {list[i][1] : i \in DOMAIN list}

Removed(c, k) ==
  IF k \in DOMAIN c.entries
  THEN [entries |-> Restrict(c.entries, DOMAIN c.entries \ {k}),
        access_order |-> Without(c.access_order, k),
        current_size |-> c.current_size - c.entries[k]]
  ELSE c

-----------------------------------------------------------------------------
Alone == \A c \in Thread : tpc[c] = "idle"

(* &mut self: evictions of a tier go to the next one, those of the third   *)
(* are dropped.                                                            *)
TieredPut(k) ==
  /\ Alone /\ latest[k] < MaxVersion
  /\ LET one == put_with_evictions(tier[1], 1, k, latest[k] + 1)
         two == put_all(tier[2], 2, one.evicted)
         three == put_all(tier[3], 3, two.evicted)
     IN  /\ tier' = <<one.cache, two.cache, three.cache>>
         /\ dropped' = (dropped \ {k}) \cup KeysOf(three.evicted)
  /\ latest' = [latest EXCEPT ![k] = @ + 1] /\ gone' = [gone EXCEPT ![k] = FALSE]
  /\ UNCHANGED <<thread, overlap>>

TieredClear ==
  /\ Alone
  /\ tier' = [t \in 1 .. 3 |-> EmptyTier]
  /\ gone' = [k \in Key |-> TRUE] /\ overlap' = FALSE /\ dropped' = {}
  /\ UNCHANGED <<latest, thread>>

Call(c, k, l) ==
  /\ tpc[c] = "idle"
  /\ overlap' = (overlap \/ ~Alone)
  /\ tpc' = [tpc EXCEPT ![c] = l] /\ key' = [key EXCEPT ![c] = k]
  /\ UNCHANGED <<tier, latest, carried, got, dropped>>

TieredGet(c, k) == Call(c, k, "l1") /\ UNCHANGED gone
Invalidate(c, k) == Call(c, k, "rm1") /\ gone' = [gone EXCEPT ![k] = TRUE]

(* get_with_size of each tier in turn. *)
LookIn(c, t) ==
  /\ tpc[c] = <<"l1", "l2", "l3">>[t]
  /\ IF Has(t, key[c])
     THEN /\ tier' = [tier EXCEPT ![t].access_order = Touched(@, key[c])]
          /\ got' = [got EXCEPT ![c] = tier[t].entries[key[c]]]
          /\ tpc' = [tpc EXCEPT ![c] = <<"return", "up1", "up2">>[t]]
     ELSE /\ tpc' = [tpc EXCEPT ![c] = <<"l2", "l3", "return">>[t]]
          /\ UNCHANGED <<tier, got>>
  /\ UNCHANGED <<latest, gone, key, carried, overlap, dropped>>

(* A hit of the tier below is put in t as well. *)
Promote(c, t) ==
  /\ tpc[c] = <<"up1", "up2">>[t]
  /\ LET one == put_with_evictions(tier[t], t, key[c], got[c])
     IN  /\ tier' = [tier EXCEPT ![t] = one.cache]
         /\ carried' = [carried EXCEPT ![c] = one.evicted]
         /\ tpc' = [tpc EXCEPT ![c] = IF one.evicted = <<>> THEN "return" ELSE <<"down2", "down3">>[t]]
  /\ UNCHANGED <<latest, gone, key, got, overlap, dropped>>

(* What the promotion evicted goes back down; what that evicts is dropped. *)
Demote(c, t) ==
  /\ t > 1 /\ tpc[c] = <<"none", "down2", "down3">>[t]
  /\ LET all == put_all(tier[t], t, carried[c])
     IN  tier' = [tier EXCEPT ![t] = all.cache] /\ dropped' = dropped \cup KeysOf(all.evicted)
  /\ carried' = [carried EXCEPT ![c] = <<>>]
  /\ tpc' = [tpc EXCEPT ![c] = "return"]
  /\ UNCHANGED <<latest, gone, key, got, overlap>>

RemoveFrom(c, t) ==
  /\ tpc[c] = <<"rm1", "rm2", "rm3">>[t]
  /\ tier' = [tier EXCEPT ![t] = Removed(@, key[c])]
  /\ tpc' = [tpc EXCEPT ![c] = <<"rm2", "rm3", "return">>[t]]
  /\ UNCHANGED <<latest, gone, key, carried, got, overlap, dropped>>

ReturnOf(c) ==
  /\ tpc[c] = "return"
  /\ tpc' = [tpc EXCEPT ![c] = "idle"]
  /\ key' = [key EXCEPT ![c] = NoKey] /\ got' = [got EXCEPT ![c] = 0]
  /\ UNCHANGED <<tier, latest, gone, carried, overlap, dropped>>

TieredNext ==
  \/ \E k \in Key : TieredPut(k) \/ \E c \in Thread : TieredGet(c, k) \/ Invalidate(c, k)
  \/ TieredClear
  \/ \E c \in Thread : ReturnOf(c)
  \/ \E c \in Thread, t \in 1 .. 3 : LookIn(c, t) \/ Demote(c, t) \/ RemoveFrom(c, t)
  \/ \E c \in Thread, t \in 1 .. 2 : Promote(c, t)

TieredSpec == TieredInit /\ [][TieredNext]_tieredVars

-----------------------------------------------------------------------------
(* What the entries take together: one pair for each of their bytes.       *)
BytesOf(entries) == Cardinality(UNION {{k} \X (1 .. entries[k]) : k \in DOMAIN entries})

(* The three structures of a tier agree: a key is in the order once for    *)
(* its entry, the size is the sum of the entries' (so that it never        *)
(* underflows and eviction ends with room), and the capacity holds.        *)
Tidy(c, t) ==
  /\ IsInjective(c.access_order) /\ Range(c.access_order) = DOMAIN c.entries
  /\ c.current_size = BytesOf(c.entries)
  /\ Cardinality(DOMAIN c.entries) <= Capacity[t]

(* So it is in every tier after every locked section.                      *)
LruIsConsistent == \A t \in 1 .. 3 : Tidy(tier[t], t)

(* While no two calls overlap, of two copies of a key the one in the       *)
(* higher tier is the newer, whatever was promoted, demoted and evicted in *)
(* between, and an invalidated key is in none.                             *)
NewestIsOnTop ==
  ~overlap /\ Alone =>
    \A k \in Key :
      /\ \A s, t \in 1 .. 3 : s < t /\ Has(s, k) /\ Has(t, k) => tier[s].entries[k] >= tier[t].entries[k]
      /\ gone[k] => \A t \in 1 .. 3 : ~Has(t, k)

(* Then a get answers with the value last put, or with none: the copies    *)
(* below are stale, but none comes to light unless the one above it was    *)
(* dropped, as the third tier does when it is full and a promotion does    *)
(* when the tier it demotes to is.                                         *)
GetIsLatest ==
  \A c \in Thread :
    got[c] # 0 /\ ~overlap /\ key[c] \notin dropped => got[c] = latest[key[c]]

(* TieredCache and its three LruCaches, after every locked section of get, *)
(* put, invalidate and clear.                                              *)
TieredIsSound == LruIsConsistent /\ NewestIsOnTop /\ GetIsLatest
=============================================================================
