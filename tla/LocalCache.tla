----------------------------- MODULE LocalCache -----------------------------
(***************************************************************************)
(* fish-cache/src/lib.rs: one cache directory, the builds that look tasks  *)
(* up in it and record what they executed, and the prune command.  Each    *)
(* process has opened the cache for itself and keeps the records it has    *)
(* seen in memory; the files are shared, and nothing locks them.           *)
(*                                                                         *)
(* A step is one operation on the file system or on the memory of one      *)
(* process.  Every record and every object has size 1.  Temporary files    *)
(* are not modelled: a write takes effect when its file is renamed.        *)
(***************************************************************************)
EXTENDS Integers, FiniteSets

CONSTANTS
  Key, Fingerprint, Object,
  None,           \* no record, no object
  Client,         \* the builds: one thread each, of one process or of several
  Process,
  Home,           \* the process of each client
  PruneHome,      \* the process that prunes
  PruneOptions,   \* the arguments prune may be given: [age, max]
  Age,            \* older_than, when it is given
  MaxTime,        \* bound on the clock
  MaxPrunes,      \* bound on the number of prunes
  Faults,         \* may writing a file fail?
  Crashes,        \* may a process end in the middle of a build?
  PartialOutputs  \* may a command that fails change the outputs?

ASSUME CacheAssumption ==
  /\ IsFiniteSet(Key) /\ IsFiniteSet(Object)
  /\ None \notin Object
  /\ Home \in [Client -> Process] /\ PruneHome \in Process
  /\ PruneOptions \subseteq [age : BOOLEAN, max : Nat]
  /\ Age \in Nat /\ MaxTime \in Nat /\ MaxPrunes \in Nat
  /\ Faults \in BOOLEAN /\ Crashes \in BOOLEAN /\ PartialOutputs \in BOOLEAN

Time == 0 .. MaxTime
Record == [fp : Fingerprint, at : Time, obj : Object \cup {None}]
Entry == [key : Key, rec : Record]

ASSUME NoneAssumption == None \notin Record

VARIABLES
  now,      \* the clock, in seconds
  disk,     \* the record file of each key
  objects,  \* the modification time of each object file
  memory,   \* memory_cache of each process
  client,   \* where each client is in execute
  prune,    \* where prune is
  built,    \* history: what was executed successfully, with its artifact
  outputs,  \* history: what the outputs of each key were made from
  before    \* history: the files when prune began, None once a client wrote

vars == <<now, disk, objects, memory, client, prune, built, outputs, before>>

IdleClient == [pc |-> "idle"]

(* The local variables of prune: the snapshots it works from, the objects  *)
(* it has removed, what it thinks is left and what it reports as freed.    *)
IdlePrune ==
  [pc |-> "idle", runs |-> 0, opt |-> [age |-> FALSE, max |-> 0], at |-> 0,
   todo |-> {}, found |-> {}, refs |-> [o \in Object |-> 0], known |-> {}, removed |-> {},
   total |-> 0, freed |-> 0, victim |-> None]

Init ==
  /\ now = 0
  /\ disk = [k \in Key |-> None]
  /\ objects = [o \in Object |-> None]
  /\ memory = [p \in Process |-> [k \in Key |-> None]]
  /\ client = [c \in Client |-> IdleClient]
  /\ prune = IdlePrune
  /\ built = {}
  /\ outputs = [k \in Key |-> None]
  /\ before = None

(* A tick is long enough for any put or prune to be over. *)
Tick ==
  /\ now < MaxTime
  /\ prune.pc = "idle" /\ \A c \in Client : client[c].pc \notin {"store", "put", "write"}
  /\ now' = now + 1
  /\ UNCHANGED <<disk, objects, memory, client, prune, built, outputs, before>>

-----------------------------------------------------------------------------
(* CachingExecutor.execute: matches, and on a miss the command and a put.  *)

Goto(c, pc) == client' = [client EXCEPT ![c].pc = pc]
Remember(c, k, r) == memory' = [memory EXCEPT ![Home[c]][k] = r]
Quiet == UNCHANGED <<now, disk, objects, prune, built, outputs, before>>

Execute(c, k, f) ==
  /\ client[c].pc = "idle"
  /\ client' = [client EXCEPT ![c] = [pc |-> "exists", key |-> k, fp |-> f, rec |-> None]]
  /\ UNCHANGED memory
  /\ Quiet

(* The last line of matches. *)
Decide(c, r) == Goto(c, IF r.fp = client[c].fp THEN "hit" ELSE "miss")

(* if !path.exists() *)
CheckExists(c) ==
  /\ client[c].pc = "exists"
  /\ IF disk[client[c].key] = None
     THEN Remember(c, client[c].key, None) /\ Goto(c, "miss")
     ELSE UNCHANGED memory /\ Goto(c, "memory")
  /\ Quiet

ReadMemory(c) ==
  /\ client[c].pc = "memory"
  /\ LET r == memory[Home[c]][client[c].key]
     IN  IF r = None THEN Goto(c, "read") ELSE Decide(c, r)
  /\ UNCHANGED memory
  /\ Quiet

ReadDisk(c) ==
  /\ client[c].pc = "read"
  /\ LET r == disk[client[c].key]
     IN  IF r = None
         THEN Remember(c, client[c].key, None) /\ Goto(c, "miss")
         ELSE /\ client' = [client EXCEPT ![c].rec = r, ![c].pc = "remember"]
              /\ UNCHANGED memory
  /\ Quiet

RememberRead(c) ==
  /\ client[c].pc = "remember"
  /\ Remember(c, client[c].key, client[c].rec)
  /\ Decide(c, client[c].rec)
  /\ Quiet

(* The outcome is Cached. *)
Cached(c) ==
  /\ client[c].pc = "hit"
  /\ client' = [client EXCEPT ![c] = IdleClient]
  /\ UNCHANGED memory
  /\ Quiet

(* inner.execute, when the command is executed and leaves the artifact o.  *)
RunOk(c, o) ==
  /\ client[c].pc = "miss"
  /\ outputs' = [outputs EXCEPT ![client[c].key] = client[c].fp]
  /\ built' = built \cup {<<client[c].key, client[c].fp, o>>}
  /\ client' = [client EXCEPT ![c].rec = [fp |-> client[c].fp, at |-> 0, obj |-> o],
                              ![c].pc = IF o = None THEN "put" ELSE "store"]
  /\ UNCHANGED <<now, disk, objects, memory, prune, before>>

\* Slip: whatever the command did, its fingerprint is recorded.
RunFails_Recorded(c) ==
  /\ client[c].pc = "miss"
  /\ client' = [client EXCEPT ![c].rec = [fp |-> client[c].fp, at |-> 0, obj |-> None],
                              ![c].pc = "put"]
  /\ UNCHANGED <<now, disk, objects, memory, prune, built, outputs, before>>

(* The command fails, or cannot be started: nothing is recorded. *)
RunFails(c) ==
  /\ client[c].pc = "miss"
  /\ outputs' \in {outputs} \cup
       IF PartialOutputs THEN {[outputs EXCEPT ![client[c].key] = None]} ELSE {}
  /\ client' = [client EXCEPT ![c] = IdleClient]
  /\ UNCHANGED <<now, disk, objects, memory, prune, built, before>>

(* put_object; its result is ignored. *)
PutObject(c) ==
  /\ client[c].pc = "store"
  /\ objects' \in {[objects EXCEPT ![client[c].rec.obj] = now]} \cup
       IF Faults THEN {objects} ELSE {}
  /\ Goto(c, "put")
  /\ before' = None
  /\ UNCHANGED <<now, disk, memory, prune, built, outputs>>

\* Slip: a put leaves the record the process already remembers.
PutMemory_Keep(c) ==
  /\ client[c].pc = "put"
  /\ client' = [client EXCEPT ![c].rec.at = now, ![c].pc = "write"]
  /\ UNCHANGED memory
  /\ Quiet

(* put_with_artifact: the record enters the memory before the file; if the *)
(* directory of that file cannot be made, it enters neither.               *)
PutMemory(c) ==
  /\ client[c].pc = "put"
  /\ \/ LET r == [client[c].rec EXCEPT !.at = now]
        IN  /\ Remember(c, client[c].key, r)
            /\ client' = [client EXCEPT ![c].rec = r, ![c].pc = "write"]
     \/ /\ Faults
        /\ client' = [client EXCEPT ![c] = IdleClient]
        /\ UNCHANGED memory
  /\ Quiet

PutDisk(c) ==
  /\ client[c].pc = "write"
  /\ disk' \in {[disk EXCEPT ![client[c].key] = client[c].rec]} \cup
       IF Faults THEN {disk} ELSE {}
  /\ client' = [client EXCEPT ![c] = IdleClient]
  /\ before' = None
  /\ UNCHANGED <<now, objects, memory, prune, built, outputs>>

ClientStep(c) ==
  \/ \E k \in Key, f \in Fingerprint : Execute(c, k, f)
  \/ CheckExists(c) \/ ReadMemory(c) \/ ReadDisk(c) \/ RememberRead(c) \/ Cached(c)
  \/ \E o \in Object \cup {None} : RunOk(c, o)
  \/ RunFails(c) \/ PutObject(c) \/ PutMemory(c) \/ PutDisk(c)

(* A process ends and is started again with nothing in memory. *)
Restart(p) ==
  /\ \/ Crashes
     \/ /\ \A c \in Client : Home[c] = p => client[c].pc = "idle"
        /\ p = PruneHome => prune.pc = "idle"
  /\ memory' = [memory EXCEPT ![p] = [k \in Key |-> None]]
  /\ client' = [c \in Client |-> IF Home[c] = p THEN IdleClient ELSE client[c]]
  /\ prune' = IF p = PruneHome THEN [IdlePrune EXCEPT !.runs = prune.runs] ELSE prune
  /\ before' = IF p = PruneHome THEN None ELSE before
  /\ UNCHANGED <<now, disk, objects, built, outputs>>

-----------------------------------------------------------------------------
(* prune(older_than, max_size).  It lists the files again and again, and   *)
(* trusts each list while the files change.                                *)

Size(d, os) ==
  Cardinality({k \in Key : d[k] # None}) + Cardinality({o \in Object : os[o] # None})

Entries == {e \in Entry : disk[e.key] = e.rec}

ref_counts == [o \in Object |-> Cardinality({e \in Entries : e.rec.obj = o})]

\* Slip: a plain subtraction.
Less_Plain(n, m) == n - m

Less(n, m) == IF n > m THEN n - m ELSE 0  \* saturating_sub

IsOld(at) == Less(prune.at, at) >= Age

PruneOnly == UNCHANGED <<now, client, built, outputs>>

PruneBegin(opt) ==
  /\ prune.pc = "idle" /\ prune.runs < MaxPrunes
  /\ prune' = [IdlePrune EXCEPT !.pc = IF opt.age THEN "count" ELSE "list2",
                                !.runs = prune.runs + 1, !.opt = opt, !.at = now]
  /\ before' = [disk |-> disk, objects |-> objects]
  /\ UNCHANGED <<disk, objects, memory>>
  /\ PruneOnly

(* Phase 1: the references, then the records, are read from the files. *)
CountReferences ==
  /\ prune.pc \in {"count", "count2"}
  /\ prune' = [prune EXCEPT !.refs = ref_counts,
                            !.known = {o \in Object : ref_counts[o] > 0},
                            !.pc = IF prune.pc = "count" THEN "list" ELSE "capacity"]
  /\ UNCHANGED <<disk, objects, memory, before>>
  /\ PruneOnly

ListRecords ==
  /\ prune.pc = "list"
  /\ prune' = [prune EXCEPT !.todo = {e \in Entries : IsOld(e.rec.at)}, !.pc = "age"]
  /\ UNCHANGED <<disk, objects, memory, before>>
  /\ PruneOnly

(* The record the loop takes next: any of those too old, then the oldest   *)
(* while the cache is too large.                                           *)
Chosen(e) ==
  /\ e \in prune.todo
  /\ prune.victim = None
  /\ \/ prune.pc = "age"
     \/ /\ prune.pc = "capacity" /\ prune.total > prune.opt.max
        /\ \A d \in prune.todo : e.rec.at <= d.rec.at

\* Slip: the object goes with the first of its records.
LastReference_Any(o) == TRUE

LastReference(o) == prune.refs[o] <= 1

(* drop_record_and_cascade: the file of the record goes, whatever is in it *)
(* by now, and then its object if no other record is known to need it.     *)
DropRecord(e) ==
  /\ Chosen(e)
  /\ IF disk[e.key] = None
     THEN prune' = [prune EXCEPT !.todo = @ \ {e}] /\ UNCHANGED disk
     ELSE LET o == e.rec.obj
              cascade == o # None /\ LastReference(o) /\ o \notin prune.removed
          IN  /\ disk' = [disk EXCEPT ![e.key] = None]
              /\ prune' = [prune EXCEPT
                   !.todo = @ \ {e},
                   !.freed = @ + 1,
                   !.total = Less(@, 1),
                   !.refs = IF o = None THEN @ ELSE [@ EXCEPT ![o] = Less(prune.refs[o], 1)],
                   !.removed = IF cascade THEN @ \cup {o} ELSE @,
                   !.victim = IF cascade THEN o ELSE None]
  /\ UNCHANGED <<objects, memory, before>>
  /\ PruneOnly

(* Its size is taken off the total but not added to what is reported.      *)
Cascade ==
  /\ prune.victim # None
  /\ objects' = [objects EXCEPT ![prune.victim] = None]
  /\ prune' = [prune EXCEPT !.victim = None,
                            !.total = IF objects[prune.victim] = None THEN @ ELSE Less(@, 1)]
  /\ UNCHANGED <<disk, memory, before>>
  /\ PruneOnly

ListObjects ==
  /\ prune.pc = "age" /\ prune.todo = {} /\ prune.victim = None
  /\ prune' = [prune EXCEPT !.found = {o \in Object : objects[o] # None}, !.pc = "sweep"]
  /\ UNCHANGED <<disk, objects, memory, before>>
  /\ PruneOnly

(* An old object that had no record when they were counted is an orphan.   *)
SweepObject(o) ==
  /\ prune.pc = "sweep" /\ o \in prune.found
  /\ IF /\ objects[o] # None /\ o \notin prune.removed /\ o \notin prune.known
        /\ IsOld(objects[o])
     THEN /\ objects' = [objects EXCEPT ![o] = None]
          /\ prune' = [prune EXCEPT !.found = @ \ {o}, !.removed = @ \cup {o},
                                    !.freed = @ + 1]
     ELSE prune' = [prune EXCEPT !.found = @ \ {o}] /\ UNCHANGED objects
  /\ UNCHANGED <<disk, memory, before>>
  /\ PruneOnly

(* Phase 2 lists everything again, with its total size. *)
ListAll ==
  /\ prune.pc = "list2" \/ (prune.pc = "sweep" /\ prune.found = {})
  /\ prune' = [prune EXCEPT !.todo = Entries,
                            !.found = {<<o, objects[o]>> : o \in {x \in Object : objects[x] # None}},
                            !.total = Size(disk, [o \in Object |->
                              IF o \in prune.removed THEN None ELSE objects[o]]),
                            !.pc = "count2"]
  /\ UNCHANGED <<disk, objects, memory, before>>
  /\ PruneOnly

(* With the records gone, the oldest objects go too, referenced or not.    *)
EvictObject(f) ==
  /\ prune.pc = "capacity" /\ prune.todo = {} /\ prune.victim = None
  /\ prune.total > prune.opt.max
  /\ f \in prune.found /\ \A g \in prune.found : f[2] <= g[2]
  /\ IF objects[f[1]] # None /\ f[1] \notin prune.removed
     THEN /\ objects' = [objects EXCEPT ![f[1]] = None]
          /\ prune' = [prune EXCEPT !.found = @ \ {f}, !.removed = @ \cup {f[1]},
                                    !.freed = @ + 1, !.total = Less(@, 1)]
     ELSE prune' = [prune EXCEPT !.found = @ \ {f}] /\ UNCHANGED objects
  /\ UNCHANGED <<disk, memory, before>>
  /\ PruneOnly

PruneEnd ==
  /\ prune.pc = "capacity" /\ prune.victim = None
  /\ prune.total <= prune.opt.max \/ (prune.todo = {} /\ prune.found = {})
  /\ prune' = [prune EXCEPT !.pc = "done", !.todo = {}, !.found = {}]
  /\ memory' = [memory EXCEPT ![PruneHome] = [k \in Key |-> None]]
  /\ UNCHANGED <<disk, objects, before>>
  /\ PruneOnly

(* The report is returned. *)
PruneReturn ==
  /\ prune.pc = "done"
  /\ prune' = [IdlePrune EXCEPT !.runs = prune.runs]
  /\ before' = None
  /\ UNCHANGED <<disk, objects, memory>>
  /\ PruneOnly

PruneStep ==
  \/ \E opt \in PruneOptions : PruneBegin(opt)
  \/ CountReferences \/ ListRecords \/ ListObjects \/ ListAll \/ PruneEnd \/ PruneReturn
  \/ \E e \in prune.todo : DropRecord(e)
  \/ Cascade
  \/ \E x \in prune.found : SweepObject(x) \/ EvictObject(x)

Next ==
  \/ Tick
  \/ \E c \in Client : ClientStep(c)
  \/ \E p \in Process : Restart(p)
  \/ PruneStep

Spec == Init /\ [][Next]_vars

-----------------------------------------------------------------------------
ClientState ==
  [pc : {"idle"}] \cup
  [pc : {"exists", "memory", "read", "remember", "hit", "miss", "store", "put", "write"},
   key : Key, fp : Fingerprint, rec : Record \cup {None}]

(* The values the variables take. *)
TypeOK ==
  /\ now \in Time
  /\ disk \in [Key -> Record \cup {None}]
  /\ objects \in [Object -> Time \cup {None}]
  /\ memory \in [Process -> [Key -> Record \cup {None}]]
  /\ client \in [Client -> ClientState]
  /\ built \subseteq Key \X Fingerprint \X (Object \cup {None})
  /\ outputs \in [Key -> Fingerprint \cup {None}]
  /\ prune.todo \subseteq Entry /\ prune.removed \subseteq Object
  /\ prune.total \in Nat /\ prune.freed \in Nat /\ prune.at \in Time
  /\ prune.victim \in Object \cup {None}

(* No fingerprint is on record, on disk or in a memory or on its way to    *)
(* either, unless its task was executed with it and left that artifact:    *)
(* what matches answers yes to was built once, whatever crashed or failed. *)
Justified(k, r) == r # None => <<k, r.fp, r.obj>> \in built

NothingUnbuiltIsServed ==
  /\ \A k \in Key : Justified(k, disk[k])
  /\ \A p \in Process, k \in Key : Justified(k, memory[p][k])
  /\ \A c \in Client : client[c].pc # "idle" => Justified(client[c].key, client[c].rec)
  /\ \A c \in Client : client[c].pc = "hit" =>
       \E o \in Object \cup {None} : <<client[c].key, client[c].fp, o>> \in built

(* A build that is told Cached has the outputs of these very inputs.  This *)
(* holds for one build at a time, when no write fails, no build is killed  *)
(* and a command that fails leaves the outputs alone; it needs the memory  *)
(* to follow every put and the record to be read again after a prune.      *)
HitIsCurrent ==
  \A c \in Client : client[c].pc = "hit" => outputs[client[c].key] = client[c].fp

(* That is when Alone holds.  The inductive strengthening of HitIsCurrent: *)
(* the file and the remembered record of a key are about its outputs,      *)
(* unless its command was executed and the put is not over; and so is the  *)
(* record a build carries.                                                 *)
Alone == (\A c, d \in Client : c = d) /\ ~Faults /\ ~Crashes /\ ~PartialOutputs

Current(k, r) == r # None => r.fp = outputs[k]

Puts(x) == x.pc \in {"store", "put", "write"}

RecordsFollow ==
  \A c \in Client :
    LET x == client[c]
        m == memory[Home[c]]
    IN  /\ \A k \in Key : (Puts(x) /\ k = x.key) \/ (Current(k, disk[k]) /\ Current(k, m[k]))
        /\ Puts(x) \/ x.pc = "remember" => x.rec # None /\ Current(x.key, x.rec)
        /\ x.pc = "write" => Current(x.key, m[x.key])
        /\ x.pc = "hit" => outputs[x.key] = x.fp

Present(d, o) == \E k \in Key : d[k] # None /\ d[k].obj = o

(* What prune should leave when nobody writes meanwhile: by age, it drops  *)
(* the old records, the objects only they needed and the old orphans.      *)
RecordsByAge(b) ==
  [k \in Key |-> IF prune.opt.age /\ b.disk[k] # None /\ IsOld(b.disk[k].at) THEN None
                 ELSE b.disk[k]]

ObjectsByAge(b) ==
  [o \in Object |->
     IF /\ prune.opt.age /\ b.objects[o] # None
        /\ ~Present(RecordsByAge(b), o)
        /\ Present(b.disk, o) \/ IsOld(b.objects[o])
     THEN None ELSE b.objects[o]]

(* If that is not small enough, the oldest records go until it is, and no  *)
(* record that stays loses its object.                                     *)
PruneIsExact ==
  prune.pc = "done" /\ before # None =>
    LET records == RecordsByAge(before)
        rest == ObjectsByAge(before)
    IN  /\ Size(disk, objects) <= prune.opt.max
        /\ Size(records, rest) <= prune.opt.max => disk = records /\ objects = rest
        /\ \A k \in Key : disk[k] \in {records[k], None}
        /\ \A k, l \in Key : records[k] # None /\ disk[k] = None /\ disk[l] # None
                             => records[k].at <= records[l].at
        /\ \A k \in Key : disk[k] # None /\ disk[k].obj # None
                          => objects[disk[k].obj] = before.objects[disk[k].obj]

(* Its inductive strengthening, while no build writes.  In every phase     *)
(* the objects are those of before without the removed ones, and no record *)
(* that is left needs a removed one; the references that prune counted are *)
(* those of the files; phase 1 takes old records, then orphans, until the  *)
(* files are as the age says; and phase 2 knows their size and goes        *)
(* through them from the oldest.                                           *)
Refers(o) == {e \in Entries : e.rec.obj = o}

Stored(os) == {<<o, os[o]>> : o \in {x \in Object : os[x] # None}}

Counted ==
  prune.pc \in {"list", "age", "capacity"} =>
    \A o \in Object : prune.refs[o] = Cardinality(Refers(o))

ByAgeSoFar(b) ==
  /\ prune.opt.age
  /\ prune.pc \in {"list", "age", "sweep"} => prune.known = {o \in Object : Present(b.disk, o)}
  /\ prune.pc \in {"count", "list"} => disk = b.disk /\ prune.removed = {}
  /\ prune.pc = "age" =>
       /\ prune.todo = {e \in Entries : IsOld(e.rec.at)}
       /\ \A k \in Key : disk[k] = b.disk[k]
                         \/ (disk[k] = None /\ RecordsByAge(b)[k] = None)
       /\ prune.removed = {o \in Object : Present(b.disk, o) /\ ~Present(disk, o)}
  /\ prune.pc = "sweep" =>
       /\ disk = RecordsByAge(b)
       /\ \A o \in prune.removed : ObjectsByAge(b)[o] = None
       /\ \A o \in Object : ObjectsByAge(b)[o] = None
                           => b.objects[o] = None \/ o \in prune.removed
                              \/ o \in prune.found \ prune.known

BySizeSoFar(b) ==
  LET records == RecordsByAge(b)
      rest == ObjectsByAge(b)
  IN  /\ prune.pc = "list2" => prune.removed = {}
      /\ prune.pc \in {"list2", "count2"} => disk = records /\ objects = rest
      /\ prune.pc = "count2" => prune.found = Stored(objects)
      /\ prune.pc \in {"count2", "capacity"} =>
           prune.todo = Entries /\ prune.total = Size(disk, objects)
      /\ prune.pc = "capacity" =>
           /\ Size(records, rest) <= prune.opt.max
                => disk = records /\ objects = rest /\ prune.victim = None
           /\ \A o \in Object : objects[o] # None => \E f \in prune.found : f[1] = o
           /\ \A k \in Key : disk[k] \in {records[k], None}
           /\ \A k, l \in Key : records[k] # None /\ disk[k] = None /\ disk[l] # None
                                => records[k].at <= records[l].at

FilesFollow ==
  before # None =>
    /\ prune.pc # "idle"
    /\ prune.victim # None =>
         prune.pc \in {"age", "capacity"} /\ prune.victim \in prune.removed
    /\ objects = [o \in Object |-> IF o \in prune.removed \ {prune.victim} THEN None
                                   ELSE before.objects[o]]
    /\ \A o \in prune.removed : ~Present(disk, o)
    /\ Counted
    /\ prune.pc \in {"count", "list", "age", "sweep"} => ByAgeSoFar(before)
    /\ prune.pc \in {"list2", "count2", "capacity"} => BySizeSoFar(before)
    /\ PruneIsExact

(* "Objects referenced by multiple records are kept until their last       *)
(* referencing record disappears": the age-based phase of prune removes no *)
(* object that a record on disk refers to.                                 *)
SharedObjectsAreKept ==
  [][\A o \in Object : objects[o] # None /\ objects'[o] = None /\ prune.pc \in {"age", "sweep"}
                         => ~Present(disk, o)]_vars
=============================================================================
