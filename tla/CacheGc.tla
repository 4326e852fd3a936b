------------------------------- MODULE CacheGc ------------------------------
(***************************************************************************)
(* fish-cache: BackgroundCacheGc::scan_and_evict (gc.rs), a collection of  *)
(* one directory: files past their time to live go at once, and if what is *)
(* left is above the high watermark, files in the order of the policy go   *)
(* until it is at the low one.  Others may write and remove files in the   *)
(* same directory meanwhile.                                               *)
(***************************************************************************)
EXTENDS Integers, Sequences, FiniteSets, SequencesExt, Functions

CONSTANTS
  GcFile,
  Sizes, Ages,   \* of files; an age of Ttl or more is past the time to live
  Ttl,
  HighWatermark, LowWatermark,
  MaxTouched,    \* bound on the files that others change during a collection
  Policies       \* "Lru", "SmallestFirst", "TtlOnly"

ASSUME WatermarkAssumption ==
  /\ LowWatermark \in Nat /\ HighWatermark \in Nat /\ LowWatermark <= HighWatermark
  /\ Sizes \subseteq Nat /\ Ages \subseteq Nat /\ Ttl \in Nat /\ IsFiniteSet(GcFile)

VARIABLES
  policy,
  dir,          \* the files that are there: [size, age]
  first,        \* history: the directory when the collection began
  gcpc,        \* where it is
  toScan,       \* the entries still to look at
  file_entries, \* <<file, size, age>>
  current_size,
  freed_bytes,
  touched       \* history: the files that others wrote or removed since it began

gcVars == <<policy, dir, first, gcpc, toScan, file_entries, current_size, freed_bytes, touched>>

FileState == [size : Sizes, age : Ages]
(* The sum of sizes: how many bytes there are, one by one. *)
Units(sizes) == UNION {{x} \X (1 .. sizes[x]) : x \in DOMAIN sizes}
Total(sizes) == Cardinality(Units(sizes))
Bytes(d) == Total([f \in DOMAIN d |-> d[f].size])
Listed(s) == Total([i \in DOMAIN s |-> s[i][2]])

GcStart ==
  /\ first = dir /\ gcpc = "scan" /\ toScan = DOMAIN dir /\ file_entries = <<>>
  /\ current_size = 0 /\ freed_bytes = 0 /\ touched = {}

GcInit ==
  /\ policy \in Policies
  /\ dir \in UNION {[S -> FileState] : S \in SUBSET GcFile}
  /\ GcStart

Keep(S) == Restrict(dir, S)

(* One entry, in the order of the directory: any.  Its metadata is gone if *)
(* the file is.                                                            *)
Scan(f) ==
  /\ gcpc = "scan" /\ f \in toScan
  /\ toScan' = toScan \ {f}
  /\ IF f \notin DOMAIN dir
     THEN UNCHANGED <<dir, file_entries, freed_bytes>>
     ELSE IF dir[f].age >= Ttl
     THEN /\ dir' = Keep(DOMAIN dir \ {f}) /\ freed_bytes' = freed_bytes + dir[f].size
          /\ UNCHANGED file_entries
     ELSE /\ file_entries' = Append(file_entries, <<f, dir[f].size, dir[f].age>>)
          /\ UNCHANGED <<dir, freed_bytes>>
  /\ UNCHANGED <<policy, first, gcpc, current_size, touched>>

(* sort_by_key: oldest first, or smallest first; TtlOnly leaves the order. *)
GoesBefore(s, t) ==
  \/ policy = "Lru" /\ s[3] > t[3]
  \/ policy = "SmallestFirst" /\ s[2] < t[2]

\* Slip: the files are removed in the order of the directory.
Arranged_Not == file_entries

(* The sort is stable.                                                     *)
place(i) ==
  Cardinality({j \in DOMAIN file_entries :
    \/ GoesBefore(file_entries[j], file_entries[i])
    \/ j <= i /\ ~GoesBefore(file_entries[i], file_entries[j])})
Arranged ==
  [k \in DOMAIN file_entries |-> file_entries[CHOOSE i \in DOMAIN file_entries : place(i) = k]]

Judge ==
  /\ gcpc = "scan" /\ toScan = {}
  /\ current_size' = Listed(file_entries)
  /\ IF current_size' > HighWatermark
     THEN gcpc' = "evict" /\ file_entries' = Arranged
     ELSE gcpc' = "done" /\ UNCHANGED file_entries
  /\ UNCHANGED <<policy, dir, first, toScan, freed_bytes, touched>>

EvictFile ==
  /\ gcpc = "evict"
  /\ IF file_entries = <<>> \/ current_size <= LowWatermark
     THEN gcpc' = "done" /\ UNCHANGED <<dir, file_entries, current_size, freed_bytes>>
     ELSE LET e == Head(file_entries)
          IN  /\ file_entries' = Tail(file_entries) /\ UNCHANGED gcpc
              /\ IF e[1] \in DOMAIN dir
                 THEN /\ dir' = Keep(DOMAIN dir \ {e[1]})
                      /\ freed_bytes' = freed_bytes + e[2]
                      /\ current_size' = IF current_size > e[2] THEN current_size - e[2] ELSE 0
                 ELSE UNCHANGED <<dir, freed_bytes, current_size>>
  /\ UNCHANGED <<policy, first, toScan, touched>>

(* Another process writes a file, or removes one; MaxTouched files at most *)
(* in one collection, each once.                                           *)
OthersChange ==
  /\ gcpc # "done" /\ Cardinality(touched) < MaxTouched
  /\ \E f \in GcFile \ touched, s \in Sizes :
     /\ touched' = touched \cup {f}
     /\ \/ dir' = [g \in DOMAIN dir \cup {f} |-> IF g = f THEN [size |-> s, age |-> 0] ELSE dir[g]]
        \/ dir' = Keep(DOMAIN dir \ {f})
  /\ UNCHANGED <<policy, first, gcpc, toScan, file_entries, current_size, freed_bytes>>

GcReturns == gcpc = "done" /\ UNCHANGED gcVars

GcNext == (\E f \in GcFile : Scan(f)) \/ Judge \/ EvictFile \/ OthersChange \/ GcReturns

GcSpec == GcInit /\ [][GcNext]_gcVars

-----------------------------------------------------------------------------
Lives == {f \in DOMAIN first : first[f].age < Ttl}
Entry(f) == <<f, first[f].size, first[f].age>>
Evicted == Lives \ DOMAIN dir

(* The last of the evicted files was one too many to keep. *)
JustEnough ==
  \E last \in Evicted :
    /\ Bytes(dir) + first[last].size > LowWatermark
    /\ \A f \in Evicted : ~GoesBefore(Entry(last), Entry(f))

(* Whatever others do meanwhile, of the files they leave alone those that  *)
(* expired are gone, and under a policy that evicts the rest is within the *)
(* high watermark.  With nobody else at work nothing else is gone unless   *)
(* the rest was above that mark, and then, under such a policy, just so    *)
(* much, in its order, that the rest is down to the low one; and the bytes *)
(* reported are those that are gone.                                       *)
CollectionIsExact ==
  gcpc = "done" =>
    LET left == DOMAIN dir \ touched
    IN  /\ left \subseteq Lives
        /\ policy # "TtlOnly" => Bytes(Keep(left)) <= HighWatermark
        /\ touched = {} =>
             /\ freed_bytes = Bytes(first) - Bytes(dir)
             /\ IF Bytes(Restrict(first, Lives)) <= HighWatermark THEN Evicted = {}
                ELSE policy # "TtlOnly" =>
                     /\ Bytes(dir) <= LowWatermark /\ JustEnough
                     /\ \A f \in Evicted, g \in DOMAIN dir : ~GoesBefore(Entry(g), Entry(f))

(* "Only remove entries whose time-to-live has expired": a collection      *)
(* under TtlOnly leaves every file that has not expired, whatever the      *)
(* watermarks.                                                             *)
OnlyExpiredGo ==
  gcpc = "done" /\ policy = "TtlOnly" /\ touched = {} => Lives \subseteq DOMAIN dir

(* Inductive.  What nobody else touched is as it was, and listed once it   *)
(* is scanned; with nobody else at work the list is what is there.         *)
ListFollows ==
  /\ \A i, j \in DOMAIN file_entries : file_entries[i][1] = file_entries[j][1] => i = j
  /\ \A i \in DOMAIN file_entries : file_entries[i][1] \notin toScan
  /\ \A f \in DOMAIN dir \ touched :
       /\ f \in DOMAIN first /\ dir[f] = first[f]
       /\ f \notin toScan =>
            f \in Lives /\ \E i \in DOMAIN file_entries : file_entries[i] = Entry(f)
  /\ touched = {} =>
       /\ freed_bytes = Bytes(first) - Bytes(dir)
       /\ \A i \in DOMAIN file_entries :
            file_entries[i][1] \in DOMAIN dir /\ file_entries[i] = Entry(file_entries[i][1])
       /\ gcpc = "scan" => Evicted = {}

(* While it evicts, the list is in order and no larger than the size it    *)
(* reckons with.                                                           *)
EvictionFollows ==
  /\ toScan = {} /\ Listed(file_entries) <= current_size
  /\ \A i, j \in DOMAIN file_entries : i < j => ~GoesBefore(file_entries[j], file_entries[i])
  /\ touched = {} =>
       /\ Listed(file_entries) = current_size
       /\ Bytes(Restrict(first, Lives)) > HighWatermark
       /\ \A f \in Evicted, i \in DOMAIN file_entries : ~GoesBefore(file_entries[i], Entry(f))
       /\ Evicted = {} \/ JustEnough

CollectionFollows ==
  /\ gcpc \in {"scan", "evict"} => ListFollows
  /\ gcpc = "evict" => EvictionFollows
=============================================================================
