-------------------------- MODULE LocalCacheProofs --------------------------
(***************************************************************************)
(* What the local cache answers yes to was built: proved for any number of *)
(* processes, builds, keys and objects, with every fault, kill and prune.  *)
(*                                                                         *)
(* A record is followed from the command that justifies it, through the    *)
(* build that carries it, into the memory and the file, and through every  *)
(* lookup that carries it from a file into another memory.  Nothing else   *)
(* makes a record; prune and restarts only forget some.                    *)
(*                                                                         *)
(* Then what it answers yes to is current, for one build at a time that    *)
(* nothing disturbs but prune; and what prune leaves, whoever looks tasks  *)
(* up meanwhile, as long as nobody writes.                                 *)
(***************************************************************************)
EXTENDS LocalCache, FiniteSetTheorems, TLAPS

Stage == {"exists", "memory", "read", "remember", "hit", "miss", "store", "put", "write"}
Busy == [pc : Stage, key : Key, fp : Fingerprint, rec : Record \cup {None}]

(* The record r of key k is of something in b, what was built. *)
Made(k, r, b) == r # None => <<k, r.fp, r.obj>> \in b

(* A build carries no record, or one that was made; it reports a hit for a *)
(* fingerprint that was built, and has a record when it is about to        *)
(* remember, store or put one.                                             *)
Sound(x, b) ==
  x.pc # "idle" =>
    /\ x \in Busy
    /\ Made(x.key, x.rec, b)
    /\ x.pc = "hit" => \E o \in Object \cup {None} : <<x.key, x.fp, o>> \in b
    /\ x.pc \in {"remember", "store", "put", "write"} => x.rec # None

Files == [Key -> Record \cup {None}]

SoundFiles(d, b) == d \in Files /\ \A k \in Key : Made(k, d[k], b)

IInv ==
  /\ now \in Time
  /\ SoundFiles(disk, built)
  /\ memory \in [Process -> Files] /\ \A p \in Process : SoundFiles(memory[p], built)
  /\ client \in [Client -> ClientState] /\ \A c \in Client : Sound(client[c], built)

-----------------------------------------------------------------------------
(* The cache is opened empty. *)
LEMMA InitInv == Init => IInv
  <1> SUFFICES ASSUME Init PROVE IInv
    OBVIOUS
  <1>1. now \in Time /\ SoundFiles(disk, built)
    BY CacheAssumption DEF Init, Time, SoundFiles, Files, Made
  <1>2. memory \in [Process -> Files] /\ \A p \in Process : SoundFiles(memory[p], built)
    BY DEF Init, SoundFiles, Files, Made
  <1>3. client \in [Client -> ClientState] /\ \A c \in Client : Sound(client[c], built)
    BY DEF Init, IdleClient, ClientState, Sound
  <1>4. QED
    BY <1>1, <1>2, <1>3 DEF IInv

(* It says what the model checker checks. *)
LEMMA InvServes == IInv => NothingUnbuiltIsServed
  BY DEF IInv, SoundFiles, Files, Sound, Busy, Made, Justified, NothingUnbuiltIsServed

(* More may have been built by the time one looks. *)
LEMMA StaySound ==
  ASSUME NEW a, NEW b, a \subseteq b
  PROVE  /\ \A d : SoundFiles(d, a) => SoundFiles(d, b)
         /\ \A x : Sound(x, a) => Sound(x, b)
  BY DEF SoundFiles, Sound, Made

LEMMA Forget ==
  ASSUME NEW d, SoundFiles(d, built), NEW k
  PROVE  SoundFiles([d EXCEPT ![k] = None], built)
  BY DEF SoundFiles, Files, Made

LEMMA Put ==
  ASSUME NEW d, SoundFiles(d, built), NEW k \in Key, NEW r \in Record, Made(k, r, built)
  PROVE  SoundFiles([d EXCEPT ![k] = r], built)
  BY DEF SoundFiles, Files, Made

-----------------------------------------------------------------------------
(* How a step changes the local variables of a build. *)
LEMMA BusyBuild ==
  ASSUME IInv, NEW c \in Client, client[c].pc # "idle"
  PROVE  client[c] \in Busy /\ Sound(client[c], built)
  BY DEF IInv, Sound

LEMMA Moves ==
  ASSUME IInv, NEW c \in Client, client[c].pc # "idle", NEW l \in Stage, Goto(c, l)
  PROVE  client' = [client EXCEPT ![c] =
           [pc |-> l, key |-> client[c].key, fp |-> client[c].fp, rec |-> client[c].rec]]
  <1>1. client[c] \in Busy
    BY BusyBuild
  <1>2. [client[c] EXCEPT !.pc = l] =
          [pc |-> l, key |-> client[c].key, fp |-> client[c].fp, rec |-> client[c].rec]
    BY <1>1 DEF Busy
  <1>3. client' = [client EXCEPT ![c] = [client[c] EXCEPT !.pc = l]]
    BY DEF Goto
  <1>4. QED
    BY <1>2, <1>3

LEMMA TakesRecord ==
  ASSUME IInv, NEW c \in Client, client[c].pc # "idle", NEW l \in Stage, NEW r \in Record,
         client' = [client EXCEPT ![c].rec = r, ![c].pc = l]
  PROVE  client' = [client EXCEPT ![c] =
           [pc |-> l, key |-> client[c].key, fp |-> client[c].fp, rec |-> r]]
  <1> DEFINE b == [client[c] EXCEPT !.rec = r]
  <1>1. client[c] \in Busy
    BY BusyBuild
  <1>2. b \in Busy /\ b = [pc |-> client[c].pc, key |-> client[c].key, fp |-> client[c].fp, rec |-> r]
    BY <1>1 DEF Busy
  <1>3. client' = [client EXCEPT ![c] = [b EXCEPT !.pc = l]]
    OBVIOUS
  <1> HIDE DEF b
  <1>4. [b EXCEPT !.pc = l] = [pc |-> l, key |-> client[c].key, fp |-> client[c].fp, rec |-> r]
    BY <1>2 DEF Busy
  <1>5. QED
    BY <1>3, <1>4

(* A step of one build: its new state is sound, and so are the files and   *)
(* the memories it leaves.                                                 *)
LEMMA BuildStep ==
  ASSUME IInv, NEW c \in Client, NEW x,
         client' = [client EXCEPT ![c] = x], x = IdleClient \/ x \in Busy,
         built \subseteq built', Sound(x, built'), UNCHANGED now,
         SoundFiles(disk', built'),
         memory' \in [Process -> Files], \A p \in Process : SoundFiles(memory'[p], built')
  PROVE  IInv'
  <1>1. client' \in [Client -> ClientState]
    BY DEF IInv, IdleClient, ClientState, Busy, Stage
  <1>2. \A d \in Client : Sound(client'[d], built')
    BY StaySound DEF IInv
  <1>3. QED
    BY <1>1, <1>2 DEF IInv

(* What a build remembers for its process. *)
LEMMA Remembers ==
  ASSUME IInv, NEW c \in Client, NEW k \in Key, NEW r \in Record \cup {None},
         Remember(c, k, r), Made(k, r, built)
  PROVE  memory' \in [Process -> Files] /\ \A p \in Process : SoundFiles(memory'[p], built)
  <1>1. SoundFiles([memory[Home[c]] EXCEPT ![k] = r], built)
    BY CacheAssumption DEF IInv, SoundFiles, Files, Made
  <1>2. memory' = [memory EXCEPT ![Home[c]] = [memory[Home[c]] EXCEPT ![k] = r]]
    BY DEF Remember
  <1>3. QED
    BY <1>1, <1>2, CacheAssumption DEF IInv, SoundFiles

(* A build that moves on with the record it has. *)
LEMMA MoveOn ==
  ASSUME IInv, NEW c \in Client, client[c].pc # "idle", NEW l \in {"memory", "read", "miss", "hit"},
         Goto(c, l), Quiet,
         l = "hit" => \E o \in Object \cup {None} : <<client[c].key, client[c].fp, o>> \in built,
         memory' \in [Process -> Files], \A p \in Process : SoundFiles(memory'[p], built)
  PROVE  IInv'
  <1> DEFINE x == [pc |-> l, key |-> client[c].key, fp |-> client[c].fp, rec |-> client[c].rec]
  <1>1. client' = [client EXCEPT ![c] = x]
    BY Moves DEF Stage
  <1>2. x \in Busy /\ Sound(x, built)
    BY BusyBuild DEF Sound, Busy, Stage
  <1> HIDE DEF x
  <1>3. QED
    BY <1>1, <1>2, BuildStep DEF Quiet, IInv

(* The last line of matches: a hit needs a record, and that was made. *)
LEMMA DecideStep ==
  ASSUME IInv, NEW c \in Client, client[c].pc # "idle",
         NEW r \in Record, Made(client[c].key, r, built), Decide(c, r), Quiet,
         memory' \in [Process -> Files], \A p \in Process : SoundFiles(memory'[p], built)
  PROVE  IInv'
  <1>1. CASE r.fp = client[c].fp
    <2>1. r.obj \in Object \cup {None} /\ <<client[c].key, client[c].fp, r.obj>> \in built
      BY <1>1, NoneAssumption DEF Made, Record
    <2>2. QED
      BY <1>1, <2>1, MoveOn DEF Decide
  <1>2. CASE r.fp # client[c].fp
    BY <1>2, MoveOn DEF Decide
  <1>3. QED
    BY <1>1, <1>2

LEMMA ExecuteStep ==
  ASSUME IInv, NEW c \in Client, NEW k \in Key, NEW f \in Fingerprint, Execute(c, k, f)
  PROVE  IInv'
  <1> DEFINE x == [pc |-> "exists", key |-> k, fp |-> f, rec |-> None]
  <1>1. client' = [client EXCEPT ![c] = x] /\ UNCHANGED memory /\ Quiet
    BY DEF Execute
  <1>2. x \in Busy /\ Sound(x, built)
    BY DEF Sound, Busy, Stage, Made
  <1> HIDE DEF x
  <1>3. QED
    BY <1>1, <1>2, BuildStep DEF Quiet, IInv

LEMMA LookupStep ==
  ASSUME IInv, NEW c \in Client,
         CheckExists(c) \/ ReadMemory(c) \/ ReadDisk(c) \/ RememberRead(c)
  PROVE  IInv'
  <1> DEFINE k == client[c].key
  <1>1. client[c] \in Busy /\ Sound(client[c], built) /\ client[c].pc # "idle" /\ k \in Key
    BY BusyBuild DEF CheckExists, ReadMemory, ReadDisk, RememberRead, Busy
  <1>2. CASE CheckExists(c)
    <2>1. CASE Remember(c, k, None) /\ Goto(c, "miss")
      BY <1>1, <1>2, <2>1, Remembers, MoveOn DEF CheckExists, Made
    <2>2. CASE UNCHANGED memory /\ Goto(c, "memory")
      BY <1>1, <1>2, <2>2, MoveOn DEF CheckExists, IInv
    <2>3. QED
      BY <1>2, <2>1, <2>2 DEF CheckExists
  <1>3. CASE ReadMemory(c)
    <2> DEFINE r == memory[Home[c]][k]
    <2>1. SoundFiles(memory[Home[c]], built)
      BY CacheAssumption DEF IInv
    <2>2. r \in Record \cup {None} /\ Made(k, r, built)
      BY <1>1, <2>1 DEF SoundFiles, Files
    <2>3. CASE r = None
      BY <1>1, <1>3, <2>3, MoveOn DEF ReadMemory, IInv
    <2>4. CASE r # None
      <3>1. Decide(c, r) /\ Quiet /\ UNCHANGED memory
        BY <1>3, <2>4 DEF ReadMemory
      <3>2. r \in Record
        BY <2>2, <2>4
      <3> HIDE DEF r
      <3>3. QED
        BY <1>1, <2>2, <3>1, <3>2, DecideStep DEF IInv
    <2>5. QED
      BY <2>3, <2>4
  <1>4. CASE ReadDisk(c)
    <2> DEFINE r == disk[k]
    <2>1. r \in Record \cup {None} /\ Made(k, r, built)
      BY <1>1 DEF IInv, SoundFiles, Files
    <2>2. CASE r = None
      <3>1. Remember(c, k, None) /\ Goto(c, "miss") /\ Quiet
        BY <1>4, <2>2 DEF ReadDisk
      <3>2. QED
        BY <1>1, <3>1, Remembers, MoveOn DEF Made
    <2>3. CASE r # None
      <3> DEFINE x == [pc |-> "remember", key |-> client[c].key, fp |-> client[c].fp, rec |-> r]
      <3>1. client' = [client EXCEPT ![c].rec = r, ![c].pc = "remember"] /\ UNCHANGED memory /\ Quiet
        BY <1>4, <2>3 DEF ReadDisk
      <3>2. r \in Record
        BY <2>1, <2>3
      <3>3. x \in Busy /\ Sound(x, built)
        BY <1>1, <2>1, <2>3, <3>2 DEF Sound, Busy, Stage
      <3> HIDE DEF r
      <3>4. client' = [client EXCEPT ![c] = x]
        BY <1>1, <3>1, <3>2, TakesRecord DEF Stage
      <3> HIDE DEF x
      <3>5. QED
        BY <3>1, <3>3, <3>4, BuildStep DEF Quiet, IInv
    <2>4. QED
      BY <2>2, <2>3
  <1>5. CASE RememberRead(c)
    <2> DEFINE r == client[c].rec
    <2>1. r \in Record /\ Made(k, r, built)
      BY <1>1, <1>5 DEF RememberRead, Sound, Busy
    <2>2. Remember(c, k, r) /\ Decide(c, r) /\ Quiet
      BY <1>5 DEF RememberRead
    <2> HIDE DEF r
    <2>3. memory' \in [Process -> Files] /\ \A p \in Process : SoundFiles(memory'[p], built)
      BY <1>1, <2>1, <2>2, Remembers
    <2>4. QED
      BY <1>1, <2>1, <2>2, <2>3, DecideStep
  <1>6. QED
    BY <1>2, <1>3, <1>4, <1>5

(* A build that is over, or killed, carries nothing. *)
LEMMA EndStep ==
  ASSUME IInv, NEW c \in Client, client' = [client EXCEPT ![c] = IdleClient],
         UNCHANGED <<now, memory, built>>, SoundFiles(disk', built)
  PROVE  IInv'
  <1>1. Sound(IdleClient, built)
    BY DEF Sound, IdleClient
  <1>2. QED
    BY <1>1, BuildStep DEF IInv

(* The command: what it makes is what justifies the record. *)
LEMMA RunOkStep ==
  ASSUME IInv, NEW c \in Client, NEW o \in Object \cup {None}, RunOk(c, o)
  PROVE  IInv'
  <1> DEFINE r == [fp |-> client[c].fp, at |-> 0, obj |-> o]
             l == IF o = None THEN "put" ELSE "store"
             x == [pc |-> l, key |-> client[c].key, fp |-> client[c].fp, rec |-> r]
  <1>1. client[c].pc # "idle" /\ client[c] \in Busy
    BY BusyBuild DEF RunOk
  <1>2. r \in Record /\ l \in Stage
    BY <1>1, CacheAssumption DEF Record, Time, Busy, Stage
  <1>3. r.fp = client[c].fp /\ r.obj = o /\ r # None
    BY <1>2, NoneAssumption
  <1>4. client' = [client EXCEPT ![c].rec = r, ![c].pc = l]
    BY DEF RunOk
  <1>5. built' = built \cup {<<client[c].key, client[c].fp, o>>} /\ UNCHANGED <<now, disk, memory>>
    BY DEF RunOk
  <1> HIDE DEF r, l
  <1>6. client' = [client EXCEPT ![c] = x]
    BY <1>1, <1>2, <1>4, TakesRecord
  <1>7. x \in Busy /\ Sound(x, built')
    BY <1>1, <1>2, <1>3, <1>5 DEF Busy, Sound, Made, l
  <1> HIDE DEF x
  <1>8. built \subseteq built'
    BY <1>5
  <1>9. QED
    BY <1>5, <1>6, <1>7, <1>8, BuildStep, StaySound DEF IInv

LEMMA PutObjectStep ==
  ASSUME IInv, NEW c \in Client, PutObject(c)
  PROVE  IInv'
  <1> DEFINE x == [pc |-> "put", key |-> client[c].key, fp |-> client[c].fp, rec |-> client[c].rec]
  <1>1. client[c].pc = "store" /\ client[c] \in Busy /\ Sound(client[c], built)
    BY BusyBuild DEF PutObject
  <1>2. client' = [client EXCEPT ![c] = x]
    BY <1>1, Moves DEF PutObject, Stage
  <1>3. x \in Busy /\ Sound(x, built)
    BY <1>1 DEF Busy, Sound, Stage
  <1> HIDE DEF x
  <1>4. QED
    BY <1>2, <1>3, BuildStep DEF PutObject, IInv

LEMMA PutMemoryStep ==
  ASSUME IInv, NEW c \in Client, PutMemory(c)
  PROVE  IInv'
  <1>1. client[c].pc = "put" /\ client[c] \in Busy /\ Sound(client[c], built) /\ Quiet
    BY BusyBuild DEF PutMemory
  <1>2. CASE client' = [client EXCEPT ![c] = IdleClient] /\ UNCHANGED memory
    BY <1>1, <1>2, EndStep DEF Quiet, IInv
  <1> DEFINE k == client[c].key
             r == [client[c].rec EXCEPT !.at = now]
             x == [pc |-> "write", key |-> k, fp |-> client[c].fp, rec |-> r]
  <1>3. CASE Remember(c, k, r) /\ client' = [client EXCEPT ![c].rec = r, ![c].pc = "write"]
    <2>1. client[c].rec \in Record /\ Made(k, client[c].rec, built) /\ k \in Key
      BY <1>1 DEF Busy, Sound
    <2>2. r \in Record /\ r.fp = client[c].rec.fp /\ r.obj = client[c].rec.obj
      BY <2>1 DEF Record, IInv
    <2>3. Made(k, r, built) /\ r # None
      BY <2>1, <2>2, NoneAssumption DEF Made
    <2> HIDE DEF r
    <2>4. memory' \in [Process -> Files] /\ \A p \in Process : SoundFiles(memory'[p], built)
      BY <1>3, <2>1, <2>2, <2>3, Remembers
    <2>5. client' = [client EXCEPT ![c] = x]
      BY <1>1, <1>3, <2>2, TakesRecord DEF Stage
    <2>6. x \in Busy /\ Sound(x, built)
      BY <1>1, <2>1, <2>2, <2>3 DEF Busy, Sound, Stage
    <2> HIDE DEF x
    <2>7. QED
      BY <1>1, <2>4, <2>5, <2>6, BuildStep DEF Quiet, IInv
  <1>4. QED
    BY <1>2, <1>3 DEF PutMemory

LEMMA PutDiskStep ==
  ASSUME IInv, NEW c \in Client, PutDisk(c)
  PROVE  IInv'
  <1>1. client[c].pc = "write" /\ client[c] \in Busy /\ Sound(client[c], built)
    BY BusyBuild DEF PutDisk
  <1>2. client[c].rec \in Record /\ Made(client[c].key, client[c].rec, built) /\ client[c].key \in Key
    BY <1>1 DEF Busy, Sound
  <1>3. SoundFiles(disk', built)
    <2>1. SoundFiles([disk EXCEPT ![client[c].key] = client[c].rec], built)
      BY <1>2, Put DEF IInv
    <2>2. QED
      BY <2>1 DEF PutDisk, IInv
  <1>4. QED
    BY <1>3, EndStep DEF PutDisk

LEMMA ClientStepInv ==
  ASSUME IInv, NEW c \in Client, ClientStep(c)
  PROVE  IInv'
  <1>1. CASE \E k \in Key, f \in Fingerprint : Execute(c, k, f)
    BY <1>1, ExecuteStep
  <1>2. CASE CheckExists(c) \/ ReadMemory(c) \/ ReadDisk(c) \/ RememberRead(c)
    BY <1>2, LookupStep
  <1>3. CASE Cached(c)
    BY <1>3, EndStep DEF Cached, Quiet, IInv
  <1>4. CASE \E o \in Object \cup {None} : RunOk(c, o)
    BY <1>4, RunOkStep
  <1>5. CASE RunFails(c)
    BY <1>5, EndStep DEF RunFails, IInv
  <1>6. CASE PutObject(c) \/ PutMemory(c) \/ PutDisk(c)
    BY <1>6, PutObjectStep, PutMemoryStep, PutDiskStep
  <1>7. QED
    BY <1>1, <1>2, <1>3, <1>4, <1>5, <1>6 DEF ClientStep

(* A restart forgets the memory of a process and the builds it carried. *)
LEMMA RestartStep ==
  ASSUME IInv, NEW p \in Process, Restart(p)
  PROVE  IInv'
  <1>1. SoundFiles([k \in Key |-> None], built)
    BY DEF SoundFiles, Files, Made
  <1>2. memory' \in [Process -> Files] /\ \A q \in Process : SoundFiles(memory'[q], built)
    BY <1>1 DEF Restart, IInv, SoundFiles
  <1>3. client' \in [Client -> ClientState] /\ \A c \in Client : Sound(client'[c], built)
    BY DEF Restart, IInv, IdleClient, ClientState, Sound
  <1>4. QED
    BY <1>2, <1>3 DEF Restart, IInv

(* prune removes files and forgets its memory; it writes no record. *)
LEMMA PruneStepInv ==
  ASSUME IInv, PruneStep
  PROVE  IInv'
  <1>1. UNCHANGED <<now, client, built>>
    BY DEF PruneStep, PruneBegin, CountReferences, ListRecords, ListObjects, ListAll, PruneEnd,
           PruneReturn, DropRecord, Cascade, SweepObject, EvictObject, PruneOnly
  <1>2. SoundFiles(disk', built)
    <2>1. CASE UNCHANGED disk
      BY <2>1 DEF IInv
    <2>2. ASSUME NEW e \in prune.todo, DropRecord(e) PROVE SoundFiles(disk', built)
      <3>1. UNCHANGED disk \/ disk' = [disk EXCEPT ![e.key] = None]
        BY <2>2 DEF DropRecord
      <3>2. SoundFiles([disk EXCEPT ![e.key] = None], built)
        BY Forget DEF IInv
      <3>3. QED
        BY <3>1, <3>2 DEF IInv
    <2>3. QED
      BY <2>1, <2>2 DEF PruneStep, PruneBegin, CountReferences, ListRecords, ListObjects, ListAll,
           PruneEnd, PruneReturn, Cascade, SweepObject, EvictObject
  <1>3. memory' \in [Process -> Files] /\ \A q \in Process : SoundFiles(memory'[q], built)
    <2>1. CASE UNCHANGED memory
      BY <2>1 DEF IInv
    <2>2. CASE PruneEnd
      <3>1. SoundFiles([k \in Key |-> None], built)
        BY DEF SoundFiles, Files, Made
      <3>2. QED
        BY <2>2, <3>1 DEF PruneEnd, IInv, SoundFiles
    <2>3. QED
      BY <2>1, <2>2 DEF PruneStep, PruneBegin, CountReferences, ListRecords, ListObjects, ListAll,
           PruneReturn, DropRecord, Cascade, SweepObject, EvictObject
  <1>4. QED
    BY <1>1, <1>2, <1>3 DEF IInv

LEMMA NextInv == IInv /\ [Next]_vars => IInv'
  <1> SUFFICES ASSUME IInv, [Next]_vars PROVE IInv'
    OBVIOUS
  <1>1. CASE Tick
    BY <1>1, CacheAssumption DEF Tick, IInv, Time
  <1>2. CASE \E c \in Client : ClientStep(c)
    BY <1>2, ClientStepInv
  <1>3. CASE \E p \in Process : Restart(p)
    BY <1>3, RestartStep
  <1>4. CASE PruneStep
    BY <1>4, PruneStepInv
  <1>5. CASE UNCHANGED vars
    BY <1>5 DEF vars, IInv
  <1>6. QED
    BY <1>1, <1>2, <1>3, <1>4, <1>5 DEF Next

(* Wherever a record is, it was made: the invariant of the cache, whatever *)
(* fails, whoever is killed and however the processes interleave.          *)
THEOREM Provenance == Spec => []IInv
  <1>1. QED
    BY InitInv, NextInv, PTL DEF Spec

(* CachingExecutor.execute answers Cached for nothing that was not built.  *)
THEOREM OnlyBuiltIsServed == Spec => []NothingUnbuiltIsServed
  <1>1. QED
    BY Provenance, InvServes, PTL

-----------------------------------------------------------------------------
(* Types.  The counters of prune are natural numbers because it subtracts  *)
(* with saturation, and because what it counts is finite: there is at most *)
(* one record for each key.                                                *)
Listed == Object \X Time

Phase == {"idle", "count", "list", "age", "sweep", "list2", "count2", "capacity", "done"}

PruneState ==
  [pc : Phase, runs : Nat, opt : [age : BOOLEAN, max : Nat], at : Time, todo : SUBSET Entry,
   found : SUBSET (Object \cup Listed), refs : [Object -> Nat], known : SUBSET Object,
   removed : SUBSET Object, total : Nat, freed : Nat, victim : Object \cup {None}]

PruneTypes ==
  /\ prune \in PruneState
  /\ prune.pc = "sweep" => prune.found \subseteq Object
  /\ prune.pc = "capacity" \/ prune.pc = "count2" => prune.found \subseteq Listed

TInv ==
  /\ objects \in [Object -> Time \cup {None}]
  /\ built \subseteq Key \X Fingerprint \X (Object \cup {None})
  /\ outputs \in [Key -> Fingerprint \cup {None}]
  /\ PruneTypes

LEMMA SizeType ==
  ASSUME NEW d, NEW os
  PROVE  Size(d, os) \in Nat
  <1>1. IsFiniteSet({k \in Key : d[k] # None}) /\ IsFiniteSet({o \in Object : os[o] # None})
    BY CacheAssumption, FS_Subset
  <1>2. QED
    BY <1>1, FS_CardinalityType DEF Size

LEMMA RefCountsType == ref_counts \in [Object -> Nat]
  <1> DEFINE f == [k \in Key |-> [key |-> k, rec |-> disk[k]]]
             image == {[key |-> k, rec |-> disk[k]] : k \in Key}
  <1>1. IsFiniteSet(image)
    <2>1. f \in Surjection(Key, image)
      BY DEF Surjection
    <2> HIDE DEF f, image
    <2>2. QED
      BY <2>1, CacheAssumption, FS_Surjection
  <1>2. Entries \subseteq image
    BY DEF Entries, Entry
  <1>3. \A o \in Object : IsFiniteSet({e \in Entries : e.rec.obj = o})
    BY <1>1, <1>2, FS_Subset
  <1>4. QED
    BY <1>3, FS_CardinalityType DEF ref_counts

LEMMA LessType ==
  ASSUME NEW n \in Nat, NEW m \in Nat
  PROVE  Less(n, m) \in Nat
  BY DEF Less

LEMMA IdlePruneType == IdlePrune \in PruneState /\ IdlePrune.pc = "idle"
  <1>1. 0 \in Time
    BY CacheAssumption DEF Time
  <1>2. [age |-> FALSE, max |-> 0] \in [age : BOOLEAN, max : Nat]
    OBVIOUS
  <1>3. [o \in Object |-> 0] \in [Object -> Nat]
    OBVIOUS
  <1>4. QED
    BY <1>1, <1>2, <1>3 DEF IdlePrune, PruneState, Phase

LEMMA InitTypes == Init => TInv
  <1> SUFFICES ASSUME Init PROVE TInv
    OBVIOUS
  <1>1. /\ objects \in [Object -> Time \cup {None}]
        /\ built \subseteq Key \X Fingerprint \X (Object \cup {None})
        /\ outputs \in [Key -> Fingerprint \cup {None}]
    BY DEF Init
  <1>2. PruneTypes
    BY IdlePruneType DEF Init, PruneTypes
  <1>3. QED
    BY <1>1, <1>2 DEF TInv

LEMMA InvTypes == IInv /\ TInv => TypeOK
  <1> SUFFICES ASSUME IInv, TInv PROVE TypeOK
    OBVIOUS
  <1>1. /\ disk \in [Key -> Record \cup {None}]
        /\ memory \in [Process -> [Key -> Record \cup {None}]]
    BY DEF IInv, SoundFiles, Files
  <1>2. /\ prune.todo \subseteq Entry /\ prune.removed \subseteq Object
        /\ prune.total \in Nat /\ prune.freed \in Nat /\ prune.at \in Time
        /\ prune.victim \in Object \cup {None}
    BY DEF TInv, PruneTypes, PruneState
  <1>3. QED
    BY <1>1, <1>2 DEF IInv, TInv, TypeOK

LEMMA ClientTypes ==
  ASSUME IInv, TInv, NEW c \in Client, ClientStep(c)
  PROVE  TInv'
  <1>1. CASE UNCHANGED <<objects, built, outputs, prune>>
    BY <1>1 DEF TInv, PruneTypes
  <1>2. ASSUME NEW o \in Object \cup {None}, RunOk(c, o) PROVE TInv'
    <2>1. client[c] \in Busy
      BY <1>2, BusyBuild DEF RunOk
    <2>2. QED
      BY <1>2, <2>1 DEF RunOk, TInv, PruneTypes, Busy
  <1>3. CASE RunFails(c)
    <2>1. outputs' \in [Key -> Fingerprint \cup {None}]
      BY <1>3 DEF RunFails, TInv
    <2>2. QED
      BY <1>3, <2>1 DEF RunFails, TInv, PruneTypes
  <1>4. CASE PutObject(c)
    <2>1. objects' \in [Object -> Time \cup {None}]
      BY <1>4 DEF PutObject, TInv, IInv
    <2>2. QED
      BY <1>4, <2>1 DEF PutObject, TInv, PruneTypes
  <1>5. QED
    BY <1>1, <1>2, <1>3, <1>4 DEF ClientStep, Execute, CheckExists, ReadMemory, ReadDisk, RememberRead,
       Cached, PutMemory, PutDisk, Quiet

LEMMA RestartTypes ==
  ASSUME TInv, NEW p \in Process, Restart(p)
  PROVE  TInv'
  <1>1. [IdlePrune EXCEPT !.runs = prune.runs] \in PruneState
    BY IdlePruneType DEF TInv, PruneTypes, PruneState
  <1>2. [IdlePrune EXCEPT !.runs = prune.runs].pc = "idle"
    BY IdlePruneType DEF PruneState
  <1>3. PruneTypes'
    BY <1>1, <1>2 DEF Restart, TInv, PruneTypes
  <1>4. QED
    BY <1>3 DEF Restart, TInv

(* prune, step by step. *)
(* The local variables after an assignment that leaves prune where it is,  *)
(* with the list it goes through.                                          *)
Same(q, p) == q \in PruneState /\ q.pc = p.pc /\ q.found = p.found

LEMMA Assigned ==
  ASSUME NEW p \in PruneState
  PROVE  /\ \A x \in SUBSET Entry : Same([p EXCEPT !.todo = x], p)
         /\ \A x \in Nat : Same([p EXCEPT !.freed = x], p)
         /\ \A x \in Nat : Same([p EXCEPT !.total = x], p)
         /\ \A x \in [Object -> Nat] : Same([p EXCEPT !.refs = x], p)
         /\ \A x \in SUBSET Object : Same([p EXCEPT !.removed = x], p)
         /\ \A x \in Object \cup {None} : Same([p EXCEPT !.victim = x], p)
  <1>1. \A x \in SUBSET Entry : Same([p EXCEPT !.todo = x], p)
    BY DEF PruneState, Same
  <1>2. \A x \in Nat : Same([p EXCEPT !.freed = x], p)
    BY DEF PruneState, Same
  <1>3. \A x \in Nat : Same([p EXCEPT !.total = x], p)
    BY DEF PruneState, Same
  <1>4. \A x \in [Object -> Nat] : Same([p EXCEPT !.refs = x], p)
    BY DEF PruneState, Same
  <1>5. \A x \in SUBSET Object : Same([p EXCEPT !.removed = x], p)
    BY DEF PruneState, Same
  <1>6. \A x \in Object \cup {None} : Same([p EXCEPT !.victim = x], p)
    BY DEF PruneState, Same
  <1>7. QED
    BY <1>1, <1>2, <1>3, <1>4, <1>5, <1>6

LEMMA Shortened ==
  ASSUME NEW p \in PruneState, NEW x \in SUBSET p.found
  PROVE  [p EXCEPT !.found = x] \in PruneState /\ [p EXCEPT !.found = x].pc = p.pc
         /\ [p EXCEPT !.found = x].found = x
  BY DEF PruneState

LEMMA PruneStepTypes ==
  ASSUME IInv, TInv, PruneStep
  PROVE  TInv'
  <1>1. prune \in PruneState /\ objects \in [Object -> Time \cup {None}] /\ now \in Time
    BY DEF TInv, PruneTypes, IInv
  <1>2. SUFFICES ASSUME TRUE
                 PROVE  objects' \in [Object -> Time \cup {None}] /\ PruneTypes'
    <2>1. UNCHANGED <<built, outputs>>
      BY DEF PruneStep, PruneBegin, CountReferences, ListRecords, ListObjects, ListAll, PruneEnd,
             PruneReturn, DropRecord, Cascade, SweepObject, EvictObject, PruneOnly
    <2>2. QED
      BY <2>1 DEF TInv
  <1>3. ASSUME NEW opt \in PruneOptions, PruneBegin(opt)
        PROVE  objects' \in [Object -> Time \cup {None}] /\ PruneTypes'
    <2> DEFINE l == IF opt.age THEN "count" ELSE "list2"
               p == [IdlePrune EXCEPT !.pc = l, !.runs = prune.runs + 1, !.opt = opt, !.at = now]
    <2>1. opt \in [age : BOOLEAN, max : Nat] /\ prune.runs + 1 \in Nat
      BY <1>1, CacheAssumption DEF PruneState
    <2>2. l \in Phase /\ l # "sweep" /\ l # "capacity" /\ l # "count2"
      BY DEF Phase
    <2> HIDE DEF l
    <2>3. p \in PruneState /\ p.pc = l
      BY <1>1, <2>1, <2>2, IdlePruneType DEF PruneState
    <2>4. prune' = p /\ UNCHANGED objects
      BY <1>3 DEF PruneBegin, l
    <2> HIDE DEF p
    <2>5. QED
      BY <1>1, <2>2, <2>3, <2>4 DEF PruneTypes
  <1>4. CASE CountReferences
    <2> DEFINE refs == ref_counts
               known == {o \in Object : ref_counts[o] > 0}
               l == IF prune.pc = "count" THEN "list" ELSE "capacity"
               p == [prune EXCEPT !.refs = refs, !.known = known, !.pc = l]
    <2>1. refs \in [Object -> Nat] /\ known \subseteq Object /\ l \in Phase /\ l # "sweep" /\ l # "count2"
      BY RefCountsType DEF Phase
    <2>2. prune' = p /\ UNCHANGED objects
      BY <1>4 DEF CountReferences
    <2>3. l = "capacity" => prune.pc = "count2"
      BY <1>4 DEF CountReferences
    <2> HIDE DEF refs, known, l
    <2>4. p \in PruneState /\ p.pc = l /\ p.found = prune.found
      BY <1>1, <2>1 DEF PruneState
    <2> HIDE DEF p
    <2>5. QED
      BY <1>1, <2>1, <2>2, <2>3, <2>4 DEF TInv, PruneTypes
  <1>5. CASE ListRecords
    <2>1. {e \in Entries : IsOld(e.rec.at)} \subseteq Entry
      BY DEF Entries
    <2>2. prune' \in PruneState /\ prune'.pc = "age"
      BY <1>1, <1>5, <2>1 DEF ListRecords, PruneState, Phase
    <2>3. QED
      BY <1>1, <1>5, <2>2 DEF ListRecords, PruneTypes
  <1>6. CASE ListObjects
    <2>1. prune' \in PruneState /\ prune'.found \subseteq Object /\ prune'.pc = "sweep"
      BY <1>1, <1>6 DEF ListObjects, PruneState, Phase
    <2>2. QED
      BY <1>1, <1>6, <2>1 DEF ListObjects, PruneTypes
  <1>7. CASE ListAll
    <2> DEFINE rest == [o \in Object |-> IF o \in prune.removed THEN None ELSE objects[o]]
               found == {<<o, objects[o]>> : o \in {x \in Object : objects[x] # None}}
    <2>1. Size(disk, rest) \in Nat
      BY SizeType
    <2>2. Entries \subseteq Entry
      BY DEF Entries
    <2>3. found \subseteq Listed
      BY <1>1 DEF Listed
    <2>4. prune' = [prune EXCEPT !.todo = Entries, !.found = found, !.total = Size(disk, rest), !.pc = "count2"]
      BY <1>7 DEF ListAll
    <2> HIDE DEF rest, found
    <2>5. prune' \in PruneState /\ prune'.found = found /\ prune'.pc = "count2"
      BY <1>1, <2>1, <2>2, <2>3, <2>4 DEF PruneState, Phase
    <2>6. QED
      BY <1>1, <1>7, <2>3, <2>5 DEF ListAll, PruneTypes
  <1>8. ASSUME NEW e \in prune.todo, DropRecord(e)
        PROVE  objects' \in [Object -> Time \cup {None}] /\ PruneTypes'
    <2>1. e \in Entry /\ e.rec.obj \in Object \cup {None}
      BY <1>1 DEF PruneState, Entry, Record
    <2>2. CASE disk[e.key] = None
      <3>1. prune' = [prune EXCEPT !.todo = @ \ {e}] /\ UNCHANGED objects
        BY <1>8, <2>2 DEF DropRecord
      <3>2. prune' \in PruneState /\ prune'.pc = prune.pc /\ prune'.found = prune.found
        BY <1>1, <3>1 DEF PruneState
      <3>3. QED
        BY <1>1, <3>1, <3>2 DEF TInv, PruneTypes
    <2>3. CASE disk[e.key] # None
      <3> DEFINE o == e.rec.obj
                 cascade == o # None /\ LastReference(o) /\ o \notin prune.removed
                 total == Less(prune.total, 1)
                 refs == IF o = None THEN prune.refs ELSE [prune.refs EXCEPT ![o] = Less(prune.refs[o], 1)]
                 removed == IF cascade THEN prune.removed \cup {o} ELSE prune.removed
                 victim == IF cascade THEN o ELSE None
                 p1 == [prune EXCEPT !.todo = @ \ {e}]
                 p2 == [p1 EXCEPT !.freed = prune.freed + 1]
                 p3 == [p2 EXCEPT !.total = total]
                 p4 == [p3 EXCEPT !.refs = refs]
                 p5 == [p4 EXCEPT !.removed = removed]
                 p6 == [p5 EXCEPT !.victim = victim]
      <3>1. prune' = p6 /\ UNCHANGED objects
        BY <1>8, <2>3 DEF DropRecord
      <3>2. total \in Nat
        BY <1>1, LessType DEF PruneState
      <3>3. refs \in [Object -> Nat]
        <4>1. CASE o = None
          BY <1>1, <4>1 DEF PruneState
        <4>2. CASE o # None
          <5>1. o \in Object /\ prune.refs \in [Object -> Nat]
            BY <1>1, <2>1, <4>2 DEF PruneState
          <5>2. Less(prune.refs[o], 1) \in Nat
            BY <5>1, LessType
          <5>3. QED
            BY <4>2, <5>1, <5>2
        <4>3. QED
          BY <4>1, <4>2
      <3>4. removed \subseteq Object /\ victim \in Object \cup {None}
        BY <1>1, <2>1 DEF PruneState
      <3> HIDE DEF total, refs, removed, victim
      <3>5. prune.todo \ {e} \in SUBSET Entry /\ prune.freed + 1 \in Nat
        BY <1>1 DEF PruneState
      <3>6. Same(p1, prune)
        BY <1>1, <3>5, Assigned
      <3> HIDE DEF p1
      <3>7. Same(p2, prune)
        BY <3>5, <3>6, Assigned DEF Same
      <3> HIDE DEF p2
      <3>8. Same(p3, prune)
        BY <3>2, <3>7, Assigned DEF Same
      <3> HIDE DEF p3
      <3>9. Same(p4, prune)
        BY <3>3, <3>8, Assigned DEF Same
      <3> HIDE DEF p4
      <3>10. Same(p5, prune)
        BY <3>4, <3>9, Assigned DEF Same
      <3> HIDE DEF p5
      <3>11. Same(p6, prune)
        BY <3>4, <3>10, Assigned DEF Same
      <3> HIDE DEF p6
      <3>12. QED
        BY <1>1, <3>1, <3>11 DEF TInv, PruneTypes, Same
    <2>4. QED
      BY <2>2, <2>3
  <1>9. CASE Cascade
    <2> DEFINE total == IF objects[prune.victim] = None THEN prune.total ELSE Less(prune.total, 1)
    <2>1. total \in Nat
      BY <1>1, LessType DEF PruneState
    <2>2. prune' = [prune EXCEPT !.victim = None, !.total = total]
      BY <1>9 DEF Cascade
    <2> HIDE DEF total
    <2>3. prune' \in PruneState /\ prune'.pc = prune.pc /\ prune'.found = prune.found
      BY <1>1, <2>1, <2>2 DEF PruneState
    <2>4. objects' \in [Object -> Time \cup {None}]
      BY <1>1, <1>9 DEF Cascade
    <2>5. QED
      BY <2>3, <2>4 DEF TInv, PruneTypes
  <1>10. ASSUME NEW o \in prune.found, SweepObject(o)
         PROVE  objects' \in [Object -> Time \cup {None}] /\ PruneTypes'
    <2>1. o \in Object /\ prune.pc = "sweep" /\ prune.found \subseteq Object
      BY <1>10 DEF SweepObject, TInv, PruneTypes
    <2>2. objects' \in [Object -> Time \cup {None}]
      BY <1>1, <1>10 DEF SweepObject
    <2> DEFINE p1 == [prune EXCEPT !.found = @ \ {o}]
               p2 == [p1 EXCEPT !.removed = prune.removed \cup {o}]
               p3 == [p2 EXCEPT !.freed = prune.freed + 1]
    <2>3. prune' = p1 \/ prune' = p3
      BY <1>10 DEF SweepObject
    <2>4. prune.removed \cup {o} \in SUBSET Object /\ prune.freed + 1 \in Nat
      BY <1>1, <2>1 DEF PruneState
    <2>5. p1 \in PruneState /\ p1.pc = "sweep" /\ p1.found \subseteq Object
      BY <1>1, <2>1, Shortened
    <2> HIDE DEF p1
    <2>6. Same(p2, p1)
      BY <2>4, <2>5, Assigned
    <2> HIDE DEF p2
    <2>7. Same(p3, p1)
      BY <2>4, <2>6, Assigned DEF Same
    <2> HIDE DEF p3
    <2>8. QED
      BY <2>2, <2>3, <2>5, <2>7 DEF PruneTypes, Same
  <1>11. ASSUME NEW f \in prune.found, EvictObject(f)
         PROVE  objects' \in [Object -> Time \cup {None}] /\ PruneTypes'
    <2>1. prune.pc = "capacity" /\ prune.found \subseteq Listed /\ f[1] \in Object
      BY <1>11 DEF EvictObject, TInv, PruneTypes, Listed
    <2>2. objects' \in [Object -> Time \cup {None}]
      BY <1>1, <1>11 DEF EvictObject
    <2> DEFINE total == Less(prune.total, 1)
    <2>3. total \in Nat
      BY <1>1, LessType DEF PruneState
    <2> DEFINE p1 == [prune EXCEPT !.found = @ \ {f}]
               p2 == [p1 EXCEPT !.removed = prune.removed \cup {f[1]}]
               p3 == [p2 EXCEPT !.freed = prune.freed + 1]
               p4 == [p3 EXCEPT !.total = total]
    <2>4. prune' = p1 \/ prune' = p4
      BY <1>11 DEF EvictObject
    <2> HIDE DEF total
    <2>5. prune.removed \cup {f[1]} \in SUBSET Object /\ prune.freed + 1 \in Nat
      BY <1>1, <2>1 DEF PruneState
    <2>6. p1 \in PruneState /\ p1.pc = "capacity" /\ p1.found \subseteq Listed
      BY <1>1, <2>1, Shortened
    <2> HIDE DEF p1
    <2>7. Same(p2, p1)
      BY <2>5, <2>6, Assigned
    <2> HIDE DEF p2
    <2>8. Same(p3, p1)
      BY <2>5, <2>7, Assigned DEF Same
    <2> HIDE DEF p3
    <2>9. Same(p4, p1)
      BY <2>3, <2>8, Assigned DEF Same
    <2> HIDE DEF p4
    <2>10. QED
      BY <2>2, <2>4, <2>6, <2>9 DEF PruneTypes, Same
  <1>12. CASE PruneEnd
    <2>1. prune' \in PruneState /\ prune'.pc = "done"
      BY <1>1, <1>12 DEF PruneEnd, PruneState, Phase
    <2>2. QED
      BY <1>1, <1>12, <2>1 DEF PruneEnd, PruneTypes
  <1>13. CASE PruneReturn
    <2> DEFINE p == [IdlePrune EXCEPT !.runs = prune.runs]
    <2>1. p \in PruneState /\ p.pc = "idle"
      BY <1>1, IdlePruneType DEF PruneState
    <2>2. QED
      BY <1>1, <1>13, <2>1 DEF PruneReturn, PruneTypes
  <1>14. QED
    BY <1>3, <1>4, <1>5, <1>6, <1>7, <1>8, <1>9, <1>10, <1>11, <1>12, <1>13 DEF PruneStep

LEMMA NextTypes == IInv /\ TInv /\ [Next]_vars => TInv'
  <1> SUFFICES ASSUME IInv, TInv, [Next]_vars PROVE TInv'
    OBVIOUS
  <1>1. CASE Tick
    BY <1>1 DEF Tick, TInv, PruneTypes
  <1>2. CASE \E c \in Client : ClientStep(c)
    BY <1>2, ClientTypes
  <1>3. CASE \E p \in Process : Restart(p)
    BY <1>3, RestartTypes
  <1>4. CASE PruneStep
    BY <1>4, PruneStepTypes
  <1>5. CASE UNCHANGED vars
    BY <1>5 DEF vars, TInv, PruneTypes
  <1>6. QED
    BY <1>1, <1>2, <1>3, <1>4, <1>5 DEF Next

(* Every variable of the cache and every counter of prune keeps its type:  *)
(* no subtraction goes below zero and no snapshot holds a stranger.        *)
THEOREM TypeCorrect == Spec => []TypeOK
  <1>1. Init => IInv /\ TInv
    BY InitInv, InitTypes
  <1>2. IInv /\ TInv /\ [Next]_vars => (IInv /\ TInv)'
    BY NextInv, NextTypes
  <1>3. QED
    BY <1>1, <1>2, InvTypes, PTL DEF Spec

-----------------------------------------------------------------------------
(* One build at a time and nothing fails: whoever looks is c.              *)
LEMMA Follows ==
  ASSUME Alone, NEW c \in Client
  PROVE  Client = {c}
BY DEF Alone

(* What the invariant says of the only build.                              *)
Following(x, d, m, os) ==
  /\ \A k \in Key :
       (Puts(x) /\ k = x.key)
         \/ ((d[k] # None => d[k].fp = os[k]) /\ (m[k] # None => m[k].fp = os[k]))
  /\ Puts(x) \/ x.pc = "remember" => x.rec # None /\ x.rec.fp = os[x.key]
  /\ x.pc = "write" => (m[x.key] # None => m[x.key].fp = os[x.key])
  /\ x.pc = "hit" => os[x.key] = x.fp

LEMMA FollowingIs ==
  RecordsFollow <=> \A c \in Client : Following(client[c], disk, memory[Home[c]], outputs)
BY DEF RecordsFollow, Following, Current

LEMMA ExecuteFollows ==
  ASSUME Alone, IInv, TInv, RecordsFollow, NEW c \in Client,
         NEW k \in Key, NEW f \in Fingerprint, Execute(c, k, f)
  PROVE  Following(client'[c], disk', memory'[Home[c]], outputs')
<1>1. client'[c] = [pc |-> "exists", key |-> k, fp |-> f, rec |-> None] /\ UNCHANGED <<disk, memory, outputs>>
  BY DEF Execute, Quiet, IInv
<1>2. Following(client[c], disk, memory[Home[c]], outputs) /\ client[c].pc = "idle"
  BY FollowingIs DEF Execute
<1>3. QED
  BY <1>1, <1>2 DEF Following, Puts

(* What a client remembers.                                                *)
LEMMA Remembered ==
  ASSUME IInv, NEW c \in Client, NEW k \in Key, NEW r \in Record \cup {None}, Remember(c, k, r)
  PROVE  memory'[Home[c]] = [memory[Home[c]] EXCEPT ![k] = r]
BY CacheAssumption DEF Remember, IInv

LEMMA LookupFollows ==
  ASSUME Alone, IInv, TInv, RecordsFollow, NEW c \in Client,
         CheckExists(c) \/ ReadMemory(c) \/ ReadDisk(c) \/ RememberRead(c) \/ Cached(c)
  PROVE  Following(client'[c], disk', memory'[Home[c]], outputs')
<1> DEFINE x == client[c]  m == memory[Home[c]]
<1>1. x \in Busy /\ UNCHANGED <<disk, outputs>> /\ m \in Files
  BY BusyBuild, CacheAssumption DEF CheckExists, ReadMemory, ReadDisk, RememberRead, Cached, Quiet, IInv
<1>2. Following(x, disk, m, outputs)
  BY FollowingIs
<1>3. CASE CheckExists(c)
  <2>0. x.key \in Key /\ x.pc = "exists"
    BY <1>1, <1>3 DEF CheckExists, Busy
  <2>1. client'[c] \in {[x EXCEPT !.pc = "miss"], [x EXCEPT !.pc = "memory"]}
    BY <1>3 DEF CheckExists, Goto, IInv
  <2>3. memory'[Home[c]] \in {m, [m EXCEPT ![x.key] = None]}
    BY <1>3, <2>0, Remembered DEF CheckExists
  <2> HIDE DEF x, m
  <2>2. QED
    BY <1>1, <1>2, <2>0, <2>1, <2>3 DEF Following, Puts, Busy, Files
<1>4. CASE ReadMemory(c)
  <2>1. memory' = memory /\ x.pc = "memory"
    BY <1>4 DEF ReadMemory
  <2>3. \/ client'[c] \in {[x EXCEPT !.pc = "read"], [x EXCEPT !.pc = "miss"]}
        \/ client'[c] = [x EXCEPT !.pc = "hit"] /\ m[x.key] # None /\ m[x.key].fp = x.fp
    <3>1. CASE m[x.key] = None
      BY <1>4, <3>1 DEF ReadMemory, Goto, IInv
    <3>2. CASE m[x.key] # None
      BY <1>4, <3>2 DEF ReadMemory, Goto, Decide, IInv
    <3>3. QED
      BY <3>1, <3>2
  <2> HIDE DEF x
  <2>2. QED
    BY <1>1, <1>2, <2>1, <2>3 DEF Following, Puts, Busy, Files
<1>5. CASE ReadDisk(c)
  <2>1. x.key \in Key /\ x.pc = "read"
    BY <1>1, <1>5 DEF ReadDisk, Busy
  <2>2. CASE disk[x.key] = None
    <3>1. client'[c] = [x EXCEPT !.pc = "miss"]
      BY <1>5, <2>2 DEF ReadDisk, Goto, IInv
    <3>2. memory'[Home[c]] = [m EXCEPT ![x.key] = None]
      BY <1>5, <2>1, <2>2, Remembered DEF ReadDisk
    <3> HIDE DEF x, m
    <3>3. QED
      BY <1>1, <1>2, <2>1, <3>1, <3>2 DEF Following, Puts, Busy, Files
  <2>3. CASE disk[x.key] # None
    <3> DEFINE y == [x EXCEPT !.rec = disk[x.key], !.pc = "remember"]
    <3>1. client' = [client EXCEPT ![c] = y] /\ memory' = memory
      BY <1>5, <2>3 DEF ReadDisk
    <3> HIDE DEF x
    <3>2. y.pc = "remember" /\ y.key = x.key /\ y.rec = disk[x.key]
      BY <1>1 DEF Busy
    <3> HIDE DEF y
    <3>3. client'[c] = y
      BY <3>1 DEF IInv
    <3>4. QED
      BY <1>1, <1>2, <2>1, <2>3, <3>1, <3>2, <3>3 DEF Following, Puts
  <2>4. QED
    BY <2>2, <2>3
<1>6. CASE RememberRead(c)
  <2>1. /\ x.pc = "remember" /\ memory'[Home[c]] = [m EXCEPT ![x.key] = x.rec]
        /\ \/ client'[c] = [x EXCEPT !.pc = "miss"]
           \/ client'[c] = [x EXCEPT !.pc = "hit"] /\ x.rec.fp = x.fp
    BY <1>1, <1>6, Remembered DEF RememberRead, Goto, Decide, Busy, IInv
  <2> HIDE DEF x, m
  <2>2. QED
    BY <1>1, <1>2, <2>1 DEF Following, Puts, Busy, Files
<1>7. CASE Cached(c)
  <2>1. client'[c] = IdleClient /\ memory' = memory /\ x.pc = "hit"
    BY <1>7 DEF Cached, IInv
  <2> HIDE DEF x
  <2>2. QED
    BY <1>1, <1>2, <2>1 DEF Following, Puts, IdleClient
<1>8. QED
  BY <1>3, <1>4, <1>5, <1>6, <1>7

LEMMA BuildFollows ==
  ASSUME Alone, IInv, TInv, RecordsFollow, NEW c \in Client,
         \/ \E o \in Object \cup {None} : RunOk(c, o)
         \/ RunFails(c) \/ PutObject(c) \/ PutMemory(c) \/ PutDisk(c)
  PROVE  Following(client'[c], disk', memory'[Home[c]], outputs')
<1> DEFINE x == client[c]  m == memory[Home[c]]
<1>1. x \in Busy /\ m \in Files /\ disk \in Files /\ outputs \in [Key -> Fingerprint \cup {None}]
      /\ ~Faults /\ ~PartialOutputs
  BY BusyBuild, CacheAssumption
     DEF RunOk, RunFails, PutObject, PutMemory, PutDisk, IInv, TInv, Alone, SoundFiles
<1>2. Following(x, disk, m, outputs)
  BY FollowingIs
<1>3. ASSUME NEW o \in Object \cup {None}, RunOk(c, o)
      PROVE  Following(client'[c], disk', memory'[Home[c]], outputs')
  <2> DEFINE r == [fp |-> x.fp, at |-> 0, obj |-> o]
  <2>1. /\ x.pc = "miss" /\ UNCHANGED <<disk, memory>>
        /\ outputs' = [outputs EXCEPT ![x.key] = x.fp]
        /\ \E s \in {"put", "store"} : client'[c] = [x EXCEPT !.rec = r, !.pc = s]
    BY <1>3 DEF RunOk, IInv
  <2>2. r # None /\ r.fp = x.fp
    BY NoneAssumption, <1>1, CacheAssumption DEF Busy, Record, Time
  <2> HIDE DEF x, r
  <2>3. /\ client'[c].pc \in {"put", "store"} /\ client'[c].key = x.key /\ client'[c].fp = x.fp
        /\ client'[c].rec = r
    BY <1>1, <2>1 DEF Busy
  <2>4. QED
    BY <1>1, <1>2, <2>1, <2>2, <2>3 DEF Following, Puts, Busy
<1>4. CASE RunFails(c)
  <2>1. client'[c] = IdleClient /\ UNCHANGED <<disk, memory, outputs>> /\ x.pc = "miss"
    BY <1>1, <1>4 DEF RunFails, IInv
  <2> HIDE DEF x
  <2>2. QED
    BY <1>2, <2>1 DEF Following, Puts, IdleClient
<1>5. CASE PutObject(c)
  <2>1. client'[c] = [x EXCEPT !.pc = "put"] /\ UNCHANGED <<disk, memory, outputs>> /\ x.pc = "store"
    BY <1>5 DEF PutObject, Goto, IInv
  <2> HIDE DEF x
  <2>2. QED
    BY <1>1, <1>2, <2>1 DEF Following, Puts, Busy
<1>6. CASE PutMemory(c)
  <2> DEFINE r == [x.rec EXCEPT !.at = now]
  <2>0. x.rec \in Record /\ now \in Time
    BY <1>1, <1>6 DEF PutMemory, IInv, Sound, Busy
  <2>1. /\ x.pc = "put" /\ UNCHANGED <<disk, outputs>>
        /\ client'[c] = [x EXCEPT !.rec = r, !.pc = "write"]
        /\ Remember(c, x.key, r)
    BY <1>1, <1>6 DEF PutMemory, Quiet, IInv
  <2>2. r \in Record /\ r # None /\ r.fp = x.rec.fp
    BY <2>0, NoneAssumption DEF Record
  <2> HIDE DEF x, r, m
  <2>3. memory'[Home[c]] = [memory[Home[c]] EXCEPT ![x.key] = r]
    BY <1>1, <2>1, <2>2, Remembered DEF Busy
  <2>4. client'[c].pc = "write" /\ client'[c].key = x.key /\ client'[c].rec = r
    BY <1>1, <2>1 DEF Busy
  <2>5. QED
    BY <1>1, <1>2, <2>1, <2>2, <2>3, <2>4 DEF Following, Puts, Busy, Files, m
<1>7. CASE PutDisk(c)
  <2>1. /\ x.pc = "write" /\ UNCHANGED <<memory, outputs>> /\ client'[c] = IdleClient
        /\ disk' = [disk EXCEPT ![x.key] = x.rec]
    BY <1>1, <1>7 DEF PutDisk, IInv
  <2> HIDE DEF x
  <2>2. QED
    BY <1>1, <1>2, <2>1 DEF Following, Puts, Busy, Files, IdleClient
<1>8. QED
  BY <1>3, <1>4, <1>5, <1>6, <1>7

LEMMA RestartFollows ==
  ASSUME Alone, IInv, TInv, RecordsFollow, NEW c \in Client, NEW p \in Process, Restart(p)
  PROVE  Following(client'[c], disk', memory'[Home[c]], outputs')
<1>1. Following(client[c], disk, memory[Home[c]], outputs) /\ UNCHANGED <<disk, outputs>>
  BY FollowingIs DEF Restart
<1>2. CASE Home[c] = p
  <2>1. client'[c] = IdleClient /\ client[c].pc = "idle" /\ memory'[Home[c]] = [k \in Key |-> None]
    BY <1>2, CacheAssumption DEF Restart, Alone, IInv
  <2>2. QED
    BY <1>1, <2>1 DEF Following, Puts, IdleClient
<1>3. CASE Home[c] # p
  <2>1. client'[c] = client[c] /\ memory'[Home[c]] = memory[Home[c]]
    BY <1>3, CacheAssumption DEF Restart, IInv
  <2>2. QED
    BY <1>1, <2>1
<1>4. QED
  BY <1>2, <1>3

(* prune only forgets. *)
LEMMA PruneFollows ==
  ASSUME IInv, TInv, RecordsFollow, NEW c \in Client, PruneStep
  PROVE  Following(client'[c], disk', memory'[Home[c]], outputs')
<1>1. Following(client[c], disk, memory[Home[c]], outputs) /\ UNCHANGED <<client, outputs>>
  BY FollowingIs DEF PruneStep, PruneBegin, CountReferences, ListRecords, ListObjects, ListAll, PruneEnd,
       PruneReturn, DropRecord, Cascade, SweepObject, EvictObject, PruneOnly
<1>2. \A k \in Key : disk'[k] = disk[k] \/ disk'[k] = None
  <2>1. disk' = disk \/ \E e \in prune.todo : disk' = [disk EXCEPT ![e.key] = None]
    BY DEF PruneStep, PruneBegin, CountReferences, ListRecords, ListObjects, ListAll, PruneEnd,
       PruneReturn, DropRecord, Cascade, SweepObject, EvictObject, PruneOnly
  <2>2. QED
    BY <2>1 DEF IInv, SoundFiles, Files
<1>3. \A k \in Key : memory'[Home[c]][k] = memory[Home[c]][k] \/ memory'[Home[c]][k] = None
  <2>1. memory' = memory \/ memory' = [memory EXCEPT ![PruneHome] = [k \in Key |-> None]]
    BY DEF PruneStep, PruneBegin, CountReferences, ListRecords, ListObjects, ListAll, PruneEnd,
       PruneReturn, DropRecord, Cascade, SweepObject, EvictObject, PruneOnly
  <2>2. QED
    BY <2>1, CacheAssumption DEF IInv
<1>4. ~Puts(client[c]) => client[c].pc # "write"
  BY DEF Puts
<1>5. client[c].pc = "write" => client[c].key \in Key
  BY DEF IInv, Sound, Busy
<1>6. QED
  BY <1>1, <1>2, <1>3, <1>4, <1>5 DEF Following

LEMMA NextFollows ==
  Alone /\ IInv /\ TInv /\ RecordsFollow /\ [Next]_vars => RecordsFollow'
<1> SUFFICES ASSUME Alone, IInv, TInv, RecordsFollow, [Next]_vars, NEW c \in Client
             PROVE  Following(client'[c], disk', memory'[Home[c]], outputs')
  BY DEF RecordsFollow, Following, Current
<1>1. CASE \E d \in Client : ClientStep(d)
  <2>1. ClientStep(c)
    BY <1>1, Follows
  <2>2. QED
    BY <2>1, ExecuteFollows, LookupFollows, BuildFollows DEF ClientStep
<1>2. CASE \E p \in Process : Restart(p)
  BY <1>2, RestartFollows
<1>3. CASE PruneStep
  BY <1>3, PruneFollows
<1>4. CASE Tick \/ UNCHANGED vars
  <2>1. UNCHANGED <<client, disk, memory, outputs>>
    BY <1>4 DEF Tick, vars
  <2>2. QED
    BY <2>1, FollowingIs
<1>5. QED
  BY <1>1, <1>2, <1>3, <1>4 DEF Next

LEMMA InitFollows == Init => RecordsFollow
BY CacheAssumption DEF Init, RecordsFollow, Current, Puts, IdleClient

(* A build that is told Cached has the outputs of these very inputs, for   *)
(* any number of keys, processes and prunes, when there is one build at a  *)
(* time and nothing fails or is killed.                                    *)
THEOREM HitsAreCurrentAlone == Spec /\ Alone => []HitIsCurrent
<1> DEFINE Inv == Alone /\ IInv /\ TInv /\ RecordsFollow
<1>1. Init /\ Alone => Inv
  BY InitInv, InitTypes, InitFollows
<1>2. Inv /\ [Next]_vars => Inv'
  BY NextInv, NextTypes, NextFollows DEF Alone
<1>3. Inv => HitIsCurrent
  BY DEF RecordsFollow, HitIsCurrent
<1>4. QED
  BY <1>1, <1>2, <1>3, PTL DEF Spec

-----------------------------------------------------------------------------
(* What prune leaves.  The records on disk, one entry for each.            *)
LEMMA EntryOf ==
  ASSUME IInv
  PROVE  /\ \A k \in Key : disk[k] # None => [key |-> k, rec |-> disk[k]] \in Entries
         /\ \A e \in Entries : /\ e \in Entry /\ e.key \in Key /\ e.rec \in Record
                               /\ e.rec = disk[e.key] /\ disk[e.key] # None
         /\ \A d, e \in Entries : d.key = e.key => d = e
<1>1. disk \in [Key -> Record \cup {None}]
  BY DEF IInv, SoundFiles, Files
<1>2. \A k \in Key : disk[k] # None => [key |-> k, rec |-> disk[k]] \in Entries
  BY <1>1 DEF Entries, Entry
<1>3. \A e \in Entries : /\ e \in Entry /\ e.key \in Key /\ e.rec \in Record
                         /\ e.rec = disk[e.key] /\ disk[e.key] # None
  BY NoneAssumption DEF Entries, Entry
<1>4. \A d, e \in Entries : d.key = e.key => d = e
  BY <1>3 DEF Entry
<1>5. QED
  BY <1>2, <1>3, <1>4

LEMMA EntriesFinite ==
  ASSUME IInv
  PROVE  /\ IsFiniteSet(Entries)
         /\ \A o : IsFiniteSet(Refers(o))
<1> DEFINE f == [k \in Key |-> [key |-> k, rec |-> disk[k]]]
           image == {[key |-> k, rec |-> disk[k]] : k \in Key}
<1>1. IsFiniteSet(image)
  <2>1. f \in Surjection(Key, image)
    BY DEF Surjection
  <2> HIDE DEF f, image
  <2>2. QED
    BY <2>1, CacheAssumption, FS_Surjection
<1>2. Entries \subseteq image
  BY DEF Entries, Entry
<1>3. QED
  BY <1>1, <1>2, FS_Subset DEF Refers

LEMMA PresentRefers ==
  ASSUME IInv, NEW o \in Object
  PROVE  Present(disk, o) <=> Refers(o) # {}
<1>1. ASSUME NEW k \in Key, disk[k] # None, disk[k].obj = o PROVE Refers(o) # {}
  <2>1. [key |-> k, rec |-> disk[k]] \in Refers(o)
    BY <1>1, EntryOf DEF Refers
  <2>2. QED
    BY <2>1
<1>2. ASSUME NEW e \in Refers(o) PROVE Present(disk, o)
  BY <1>2, EntryOf DEF Refers, Present
<1>3. QED
  BY <1>1, <1>2 DEF Present

(* The file of one record is removed. *)
LEMMA DropsEntry ==
  ASSUME IInv, NEW e \in Entries, disk' = [disk EXCEPT ![e.key] = None]
  PROVE  /\ Entries' = Entries \ {e}
         /\ \A o : Refers(o)' = Refers(o) \ {e}
         /\ \A o \in Object : o # e.rec.obj => (Present(disk', o) <=> Present(disk, o))
         /\ e.rec.obj \in Object =>
              (Present(disk', e.rec.obj) <=> Refers(e.rec.obj) \ {e} # {})
<1>1. disk \in [Key -> Record \cup {None}]
  BY DEF IInv, SoundFiles, Files
<1>2. Entries' = Entries \ {e}
  <2>1. ASSUME NEW d \in Entry
        PROVE  disk'[d.key] = d.rec <=> disk[d.key] = d.rec /\ d # e
    <3>1. d.rec # None /\ d.key \in Key
      BY NoneAssumption DEF Entry
    <3>2. CASE d.key = e.key
      BY <1>1, <3>1, <3>2, EntryOf DEF Entry
    <3>3. CASE d.key # e.key
      BY <1>1, <3>1, <3>3, EntryOf
    <3>4. QED
      BY <3>2, <3>3
  <2>2. QED
    BY <2>1 DEF Entries
<1>3. \A o : Refers(o)' = Refers(o) \ {e}
  BY <1>2 DEF Refers
<1>4. \A o \in Object : o # e.rec.obj => (Present(disk', o) <=> Present(disk, o))
  BY <1>1, EntryOf DEF Present
<1>5. ASSUME e.rec.obj \in Object
      PROVE  Present(disk', e.rec.obj) <=> Refers(e.rec.obj) \ {e} # {}
  <2> DEFINE o == e.rec.obj
  <2>1. ASSUME NEW k \in Key, disk'[k] # None, disk'[k].obj = o PROVE Refers(o) \ {e} # {}
    <3>1. k # e.key /\ disk[k] # None /\ disk[k].obj = o
      BY <1>1, <2>1, EntryOf
    <3>2. [key |-> k, rec |-> disk[k]] \in Refers(o) \ {e}
      BY <3>1, EntryOf DEF Refers
    <3>3. QED
      BY <3>2
  <2>2. ASSUME NEW d \in Refers(o) \ {e} PROVE Present(disk', o)
    <3>1. d \in Entries /\ d # e /\ d.rec.obj = o
      BY <2>2 DEF Refers
    <3>2. d.key # e.key /\ d.key \in Key /\ disk[d.key] # None /\ disk[d.key].obj = o
      BY <3>1, EntryOf
    <3>3. disk'[d.key] = disk[d.key]
      BY <1>1, <3>2, EntryOf
    <3>4. QED
      BY <3>2, <3>3 DEF Present
  <2> HIDE DEF o
  <2>3. QED
    BY <2>1, <2>2 DEF Present, o
<1>6. QED
  BY <1>2, <1>3, <1>4, <1>5

(* The size of the cache. *)
LEMMA SizeLosesRecord ==
  ASSUME NEW d \in Files, NEW os, NEW k \in Key, d[k] # None
  PROVE  Size([d EXCEPT ![k] = None], os) = Size(d, os) - 1 /\ Size(d, os) \in Nat
<1> DEFINE S == {l \in Key : d[l] # None}  O == {o \in Object : os[o] # None}
<1>1. IsFiniteSet(S) /\ k \in S /\ IsFiniteSet(O)
  BY CacheAssumption, FS_Subset
<1>2. {l \in Key : [d EXCEPT ![k] = None][l] # None} = S \ {k}
  BY DEF Files
<1>3. Size([d EXCEPT ![k] = None], os) = Cardinality(S \ {k}) + Cardinality(O)
      /\ Size(d, os) = Cardinality(S) + Cardinality(O)
  BY <1>2 DEF Size
<1> HIDE DEF S, O
<1>4. Cardinality(S \ {k}) = Cardinality(S) - 1 /\ Cardinality(S) \in Nat /\ Cardinality(O) \in Nat
  BY <1>1, FS_RemoveElement, FS_CardinalityType
<1>5. QED
  BY <1>3, <1>4

LEMMA SizeLosesObject ==
  ASSUME NEW d, NEW os \in [Object -> Time \cup {None}], NEW o \in Object
  PROVE  /\ os[o] # None => Size(d, [os EXCEPT ![o] = None]) = Size(d, os) - 1
         /\ os[o] = None => [os EXCEPT ![o] = None] = os
         /\ Size(d, os) \in Nat
<1> DEFINE S == {x \in Object : os[x] # None}  K == {l \in Key : d[l] # None}
<1>1. IsFiniteSet(S) /\ IsFiniteSet(K)
  BY CacheAssumption, FS_Subset
<1>2. ASSUME os[o] # None PROVE Size(d, [os EXCEPT ![o] = None]) = Size(d, os) - 1
  <2>1. {x \in Object : [os EXCEPT ![o] = None][x] # None} = S \ {o} /\ o \in S
    BY <1>2
  <2>2. Size(d, [os EXCEPT ![o] = None]) = Cardinality(K) + Cardinality(S \ {o})
        /\ Size(d, os) = Cardinality(K) + Cardinality(S)
    BY <2>1 DEF Size
  <2> HIDE DEF S, K
  <2>3. Cardinality(S \ {o}) = Cardinality(S) - 1 /\ Cardinality(S) \in Nat /\ Cardinality(K) \in Nat
    BY <1>1, <2>1, FS_RemoveElement, FS_CardinalityType
  <2>4. QED
    BY <2>2, <2>3
<1>3. os[o] = None => [os EXCEPT ![o] = None] = os
  OBVIOUS
<1>4. QED
  BY <1>2, <1>3, SizeType

LEMMA NothingHasNoSize ==
  ASSUME NEW d, NEW os, \A k \in Key : d[k] = None, \A o \in Object : os[o] = None
  PROVE  Size(d, os) = 0
<1>1. {k \in Key : d[k] # None} = {} /\ {o \in Object : os[o] # None} = {}
  OBVIOUS
<1>2. QED
  BY <1>1, FS_EmptySet DEF Size

(* What the files were when prune began. *)
Began(b) == b.disk \in Files /\ b.objects \in [Object -> Time \cup {None}]

BeforeTypes == before # None => Began(before)

LEMMA OldRecords ==
  ASSUME NEW b, Began(b)
  PROVE  /\ RecordsByAge(b) \in Files
         /\ \A k \in Key : \/ RecordsByAge(b)[k] = b.disk[k]
                           \/ RecordsByAge(b)[k] = None
         /\ \A k \in Key : RecordsByAge(b)[k] # b.disk[k]
              <=> prune.opt.age /\ b.disk[k] # None /\ IsOld(b.disk[k].at)
         /\ \A o : Present(RecordsByAge(b), o) => Present(b.disk, o)
<1>1. RecordsByAge(b) \in Files
  BY DEF RecordsByAge, Began, Files
<1>2. \A k \in Key : RecordsByAge(b)[k] =
        IF prune.opt.age /\ b.disk[k] # None /\ IsOld(b.disk[k].at) THEN None ELSE b.disk[k]
  BY DEF RecordsByAge
<1>3. \A o : Present(RecordsByAge(b), o) => Present(b.disk, o)
  BY <1>2 DEF Present
<1>4. QED
  BY <1>1, <1>2, <1>3

LEMMA OldObjects ==
  ASSUME NEW b, Began(b)
  PROVE  /\ ObjectsByAge(b) \in [Object -> Time \cup {None}]
         /\ \A o \in Object : ObjectsByAge(b)[o] = b.objects[o] \/ ObjectsByAge(b)[o] = None
         /\ \A o \in Object : ObjectsByAge(b)[o] # b.objects[o]
              <=> /\ prune.opt.age /\ b.objects[o] # None
                  /\ ~Present(RecordsByAge(b), o)
                  /\ Present(b.disk, o) \/ IsOld(b.objects[o])
BY DEF ObjectsByAge, Began

(* Both are fixed by the arguments of prune and the time it began. *)
LEMMA AgeFixed ==
  ASSUME NEW b, prune'.opt = prune.opt, prune'.at = prune.at
  PROVE  /\ RecordsByAge(b)' = RecordsByAge(b)
         /\ ObjectsByAge(b)' = ObjectsByAge(b)
         /\ \A x : IsOld(x)' <=> IsOld(x)
<1>1. \A x : IsOld(x)' <=> IsOld(x)
  BY DEF IsOld
<1>2. RecordsByAge(b)' = RecordsByAge(b)
  BY <1>1 DEF RecordsByAge
<1>3. ObjectsByAge(b)' = ObjectsByAge(b)
  BY <1>1, <1>2 DEF ObjectsByAge
<1>4. QED
  BY <1>1, <1>2, <1>3

LEMMA EntriesFixed ==
  ASSUME UNCHANGED disk
  PROVE  Entries' = Entries /\ \A o : Refers(o)' = Refers(o)
<1>1. Entries' = Entries
  BY DEF Entries
<1>2. QED
  BY <1>1 DEF Refers

(* A step that is none of prune's and leaves the files alone. *)
LEMMA FilesUndisturbed ==
  ASSUME FilesFollow, UNCHANGED <<disk, objects, prune, before>>
  PROVE  FilesFollow'
<1>1. SUFFICES ASSUME before' # None PROVE FilesFollow'
  BY DEF FilesFollow
<1>2. PICK b : b = before
  OBVIOUS
<1>3. b = before' /\ b # None
  BY <1>1, <1>2
<1>4. /\ RecordsByAge(b)' = RecordsByAge(b) /\ ObjectsByAge(b)' = ObjectsByAge(b)
      /\ \A x : IsOld(x)' <=> IsOld(x)
  BY AgeFixed
<1>5. Entries' = Entries /\ \A o : Refers(o)' = Refers(o)
  BY EntriesFixed
<1>6. Counted <=> Counted'
  BY <1>5 DEF Counted
<1>7. {e \in Entries : IsOld(e.rec.at)}' = {e \in Entries : IsOld(e.rec.at)}
  BY <1>4, <1>5
<1>8. ByAgeSoFar(b) <=> ByAgeSoFar(b)'
  BY <1>4, <1>7 DEF ByAgeSoFar
<1>9. BySizeSoFar(b) <=> BySizeSoFar(b)'
  BY <1>4, <1>5 DEF BySizeSoFar
<1>10. PruneIsExact <=> PruneIsExact'
  <2>1. RecordsByAge(before)' = RecordsByAge(before) /\ ObjectsByAge(before)' = ObjectsByAge(before)
    BY <1>2, <1>3, <1>4
  <2>2. QED
    BY <2>1 DEF PruneIsExact
<1>11. QED
  BY <1>2, <1>3, <1>6, <1>8, <1>9, <1>10 DEF FilesFollow

(* What holds in every phase but the last, with what it was before.        *)
Throughout(b) ==
  /\ prune.victim # None => prune.pc \in {"age", "capacity"} /\ prune.victim \in prune.removed
  /\ objects = [o \in Object |-> IF o \in prune.removed \ {prune.victim} THEN None ELSE b.objects[o]]
  /\ \A o \in prune.removed : ~Present(disk, o)

LEMMA FollowIs ==
  ASSUME NEW b, b = before, b # None, prune.pc # "done"
  PROVE  FilesFollow <=>
           /\ prune.pc # "idle" /\ Throughout(b) /\ Counted
           /\ prune.pc \in {"count", "list", "age", "sweep"} => ByAgeSoFar(b)
           /\ prune.pc \in {"list2", "count2", "capacity"} => BySizeSoFar(b)
BY DEF FilesFollow, Throughout, PruneIsExact

LEMMA FollowNext ==
  ASSUME NEW b, before' = b, prune'.pc \notin {"done", "idle"}, Throughout(b)', Counted',
         prune'.pc \in {"count", "list", "age", "sweep"} => ByAgeSoFar(b)',
         prune'.pc \in {"list2", "count2", "capacity"} => BySizeSoFar(b)'
  PROVE  FilesFollow'
<1>1. PruneIsExact'
  BY DEF PruneIsExact
<1>2. QED
  BY <1>1 DEF FilesFollow, Throughout

LEMMA BeginFollows ==
  ASSUME IInv, TInv, NEW opt \in PruneOptions, PruneBegin(opt)
  PROVE  FilesFollow' /\ BeforeTypes'
<1> DEFINE b == [disk |-> disk, objects |-> objects]
           l == IF opt.age THEN "count" ELSE "list2"
           p == [IdlePrune EXCEPT !.pc = l, !.runs = prune.runs + 1, !.opt = opt, !.at = now]
<1>1. /\ before' = b /\ prune' = p /\ UNCHANGED <<disk, objects>>
  BY DEF PruneBegin
<1>2. Began(b)
  BY DEF Began, IInv, SoundFiles, TInv
<1>3. p.pc = l /\ p.opt = opt /\ p.removed = {} /\ p.victim = None
  BY DEF IdlePrune
<1>4. PICK c : c = b
  OBVIOUS
<1>5. before' = c /\ c.disk = disk /\ c.objects = objects /\ Began(c)
  BY <1>1, <1>2, <1>4
<1> HIDE DEF b, p
<1>6. /\ prune'.pc = l /\ prune'.opt = opt /\ prune'.removed = {} /\ prune'.victim = None
  BY <1>1, <1>3
<1>7. Throughout(c)' /\ Counted'
  BY <1>1, <1>5, <1>6 DEF Throughout, Counted, Began
<1>8. CASE opt.age
  <2>1. ByAgeSoFar(c)'
    BY <1>1, <1>5, <1>6, <1>8 DEF ByAgeSoFar
  <2>2. QED
    BY <1>5, <1>6, <1>7, <1>8, <2>1, FollowNext DEF BeforeTypes
<1>9. CASE ~opt.age
  <2>1. RecordsByAge(c)' = c.disk /\ ObjectsByAge(c)' = c.objects
    BY <1>5, <1>6, <1>9 DEF RecordsByAge, ObjectsByAge, Began, Files
  <2>2. BySizeSoFar(c)'
    BY <1>1, <1>5, <1>6, <1>9, <2>1 DEF BySizeSoFar
  <2>3. QED
    BY <1>5, <1>6, <1>7, <1>9, <2>2, FollowNext DEF BeforeTypes
<1>10. QED
  BY <1>8, <1>9

LEMMA CountFollows ==
  ASSUME IInv, TInv, FilesFollow, NEW b, b = before, b # None, Began(b), CountReferences
  PROVE  FilesFollow'
<1> DEFINE known == {o \in Object : ref_counts[o] > 0}
           l == IF prune.pc = "count" THEN "list" ELSE "capacity"
           p == [prune EXCEPT !.refs = ref_counts, !.known = known, !.pc = l]
<1>1. /\ prune' = p /\ prune.pc \in {"count", "count2"} /\ before' = b
      /\ UNCHANGED <<disk, objects>>
  BY DEF CountReferences
<1>2. prune \in PruneState
  BY DEF TInv, PruneTypes
<1>3. /\ p.pc = l /\ p.refs = ref_counts /\ p.known = known /\ p.opt = prune.opt /\ p.at = prune.at
      /\ p.removed = prune.removed /\ p.victim = prune.victim /\ p.found = prune.found
      /\ p.todo = prune.todo /\ p.total = prune.total
  BY <1>2 DEF PruneState
<1> HIDE DEF p
<1>4. /\ Entries' = Entries /\ \A o : Refers(o)' = Refers(o)
      /\ RecordsByAge(b)' = RecordsByAge(b) /\ ObjectsByAge(b)' = ObjectsByAge(b)
  BY <1>1, <1>3, EntriesFixed, AgeFixed
<1>5. \A o \in Object : ref_counts[o] = Cardinality(Refers(o))
  BY DEF ref_counts, Refers
<1>6. known = {o \in Object : Present(disk, o)}
  <2>1. \A o \in Object : ref_counts[o] > 0 <=> Present(disk, o)
    <3> TAKE o \in Object
    <3>1. Cardinality(Refers(o)) \in Nat /\ (Cardinality(Refers(o)) = 0 <=> Refers(o) = {})
      BY EntriesFinite, FS_CardinalityType, FS_EmptySet
    <3>2. QED
      BY <1>5, <3>1, PresentRefers
  <2>2. QED
    BY <2>1
<1>7. Throughout(b)'
  BY <1>1, <1>3 DEF FilesFollow, Throughout
<1>8. Counted'
  BY <1>1, <1>3, <1>4, <1>5 DEF Counted
<1> HIDE DEF known
<1>9. CASE prune.pc = "count"
  <2>1. ByAgeSoFar(b)'
    BY <1>1, <1>3, <1>6, <1>9 DEF FilesFollow, ByAgeSoFar
  <2>2. QED
    BY <1>1, <1>3, <1>7, <1>8, <1>9, <2>1, FollowNext
<1>10. CASE prune.pc = "count2"
  <2>1. BySizeSoFar(b)
    BY <1>10 DEF FilesFollow
  <2>2. \A o \in Object : objects[o] # None => \E f \in prune.found : f[1] = o
    <3> SUFFICES ASSUME NEW o \in Object, objects[o] # None PROVE \E f \in prune.found : f[1] = o
      OBVIOUS
    <3>1. <<o, objects[o]>> \in Stored(objects)
      BY DEF Stored
    <3>2. <<o, objects[o]>> \in prune.found
      BY <1>10, <2>1, <3>1 DEF BySizeSoFar
    <3>3. QED
      BY <3>2
  <2>3. prune.victim = None
    BY <1>10 DEF FilesFollow
  <2>4. BySizeSoFar(b)'
    BY <1>1, <1>3, <1>4, <1>10, <2>1, <2>2, <2>3 DEF BySizeSoFar
  <2>5. QED
    BY <1>1, <1>3, <1>7, <1>8, <1>10, <2>4, FollowNext
<1>11. QED
  BY <1>1, <1>9, <1>10

LEMMA ListFollows ==
  ASSUME IInv, TInv, FilesFollow, NEW b, b = before, b # None, Began(b), ListRecords
  PROVE  FilesFollow'
<1> DEFINE old == {e \in Entries : IsOld(e.rec.at)}
<1>1. /\ prune' = [prune EXCEPT !.todo = old, !.pc = "age"] /\ prune.pc = "list" /\ before' = b
      /\ UNCHANGED <<disk, objects>>
  BY DEF ListRecords
<1>2. prune \in PruneState
  BY DEF TInv, PruneTypes
<1>3. /\ prune'.pc = "age" /\ prune'.refs = prune.refs /\ prune'.known = prune.known
      /\ prune'.opt = prune.opt /\ prune'.at = prune.at /\ prune'.todo = old
      /\ prune'.removed = prune.removed /\ prune'.victim = prune.victim
  BY <1>1, <1>2 DEF PruneState
<1>4. /\ Entries' = Entries /\ \A o : Refers(o)' = Refers(o)
      /\ RecordsByAge(b)' = RecordsByAge(b) /\ \A x : IsOld(x)' <=> IsOld(x)
  BY <1>1, <1>3, EntriesFixed, AgeFixed
<1>5. old' = old
  BY <1>4
<1>6. Throughout(b)' /\ Counted'
  BY <1>1, <1>3, <1>4 DEF FilesFollow, Throughout, Counted
<1>7. ByAgeSoFar(b)
  BY <1>1 DEF FilesFollow
<1>8. ByAgeSoFar(b)'
  BY <1>1, <1>3, <1>4, <1>5, <1>7 DEF ByAgeSoFar
<1>9. QED
  BY <1>1, <1>3, <1>6, <1>8, FollowNext

LEMMA ListObjectsFollows ==
  ASSUME IInv, TInv, FilesFollow, NEW b, b = before, b # None, Began(b), ListObjects
  PROVE  FilesFollow'
<1> DEFINE there == {o \in Object : objects[o] # None}
           R == RecordsByAge(b)
           O == ObjectsByAge(b)
<1>1. /\ prune' = [prune EXCEPT !.found = there, !.pc = "sweep"] /\ prune.pc = "age" /\ before' = b
      /\ prune.todo = {} /\ prune.victim = None
      /\ UNCHANGED <<disk, objects>>
  BY DEF ListObjects
<1>2. prune \in PruneState
  BY DEF TInv, PruneTypes
<1>3. /\ prune'.pc = "sweep" /\ prune'.known = prune.known /\ prune'.found = there
      /\ prune'.opt = prune.opt /\ prune'.at = prune.at
      /\ prune'.removed = prune.removed /\ prune'.victim = None
  BY <1>1, <1>2 DEF PruneState
<1>4. R' = R /\ O' = O
  BY <1>3, AgeFixed
<1>5. ByAgeSoFar(b) /\ Throughout(b)
  BY <1>1 DEF FilesFollow, Throughout
<1>6. disk = R
  <2>1. \A k \in Key : disk[k] = R[k]
    <3> TAKE k \in Key
    <3>1. disk[k] = b.disk[k] \/ (disk[k] = None /\ R[k] = None)
      BY <1>1, <1>5 DEF ByAgeSoFar
    <3>2. ASSUME disk[k] # None PROVE ~IsOld(disk[k].at)
      <4> DEFINE e == [key |-> k, rec |-> disk[k]]
      <4>1. e \in Entries /\ e.rec = disk[k]
        BY <3>2, EntryOf
      <4> HIDE DEF e
      <4>2. ~IsOld(e.rec.at)
        BY <1>1, <1>5, <4>1 DEF ByAgeSoFar
      <4>3. QED
        BY <4>1, <4>2
    <3>3. QED
      BY <3>1, <3>2, OldRecords
  <2>2. disk \in Files /\ R \in Files
    BY OldRecords DEF IInv, SoundFiles
  <2> HIDE DEF R
  <2>3. QED
    BY <2>1, <2>2 DEF Files
<1>7. Throughout(b)' /\ Counted'
  BY <1>1, <1>3, <1>5 DEF Throughout, Counted
<1>8. /\ prune.removed = {o \in Object : Present(b.disk, o) /\ ~Present(R, o)}
      /\ prune.known = {o \in Object : Present(b.disk, o)} /\ prune.opt.age
  BY <1>1, <1>5, <1>6 DEF ByAgeSoFar
<1>9. \A o \in prune.removed : O[o] = None
  BY <1>8, OldObjects
<1>10. \A o \in Object : O[o] = None
         => b.objects[o] = None \/ o \in prune.removed \/ o \in there \ prune.known
  <2> SUFFICES ASSUME NEW o \in Object, O[o] = None, b.objects[o] # None, o \notin prune.removed
               PROVE  o \in there \ prune.known
    OBVIOUS
  <2>1. ~Present(R, o) /\ ~Present(b.disk, o)
    BY <1>8, OldObjects
  <2>2. objects[o] = b.objects[o]
    BY <1>5 DEF Throughout
  <2>3. QED
    BY <1>8, <2>1, <2>2
<1> HIDE DEF there, R, O
<1>11. ByAgeSoFar(b)'
  BY <1>1, <1>3, <1>4, <1>6, <1>8, <1>9, <1>10 DEF ByAgeSoFar, R, O
<1>12. QED
  BY <1>1, <1>3, <1>7, <1>11, FollowNext

LEMMA RemoveOne ==
  ASSUME NEW S, IsFiniteSet(S), NEW x \in S
  PROVE  /\ Cardinality(S \ {x}) = Cardinality(S) - 1 /\ Cardinality(S) \in Nat
         /\ Cardinality(S \ {x}) \in Nat /\ (Cardinality(S \ {x}) = 0 <=> S \ {x} = {})
<1>1. IsFiniteSet(S \ {x}) /\ Cardinality(S \ {x}) = Cardinality(S) - 1
  BY FS_RemoveElement
<1>2. QED
  BY <1>1, FS_CardinalityType, FS_EmptySet

(* What removing a record does while no build writes. *)
Dropped(e, o, cascade) ==
  /\ e \in Entries /\ o = e.rec.obj /\ disk[e.key] = e.rec
  /\ disk' = [disk EXCEPT ![e.key] = None] /\ UNCHANGED objects
  /\ Entries' = Entries \ {e}
  /\ cascade <=> o \in Object /\ ~Present(disk', o)
  /\ \A x \in Object : x # o => (Present(disk', x) <=> Present(disk, x))
  /\ o \in Object => Present(disk, o)
  /\ prune.victim = None
  /\ prune'.removed = IF cascade THEN prune.removed \cup {o} ELSE prune.removed
  /\ prune'.victim = IF cascade THEN o ELSE None
  /\ prune'.todo = prune.todo \ {e} /\ prune'.total = Less(prune.total, 1)
  /\ prune'.pc = prune.pc /\ prune'.opt = prune.opt /\ prune'.at = prune.at
  /\ prune'.found = prune.found /\ prune'.known = prune.known
  /\ \A x \in Object : prune'.refs[x] = Cardinality(Refers(x)')

LEMMA DropIs ==
  ASSUME IInv, TInv, FilesFollow, NEW b, b = before, b # None, NEW e \in prune.todo, DropRecord(e)
  PROVE  Throughout(b)' /\ Counted' /\ before' = b /\ prune.pc \in {"age", "capacity"}
         /\ \E cascade \in BOOLEAN : Dropped(e, e.rec.obj, cascade)
<1> DEFINE o == e.rec.obj
           cascade == o # None /\ LastReference(o) /\ o \notin prune.removed
           refs == IF o = None THEN prune.refs ELSE [prune.refs EXCEPT ![o] = Less(prune.refs[o], 1)]
<1>1. prune.pc \in {"age", "capacity"} /\ prune.victim = None /\ before' = b /\ UNCHANGED objects
  BY DEF DropRecord, Chosen
<1>2. Throughout(b) /\ Counted /\ e \in Entries
  BY <1>1 DEF FilesFollow, Throughout, ByAgeSoFar, BySizeSoFar
<1>3. e.rec \in Record /\ e.rec = disk[e.key] /\ disk[e.key] # None /\ o \in Object \cup {None} /\ e.key \in Key
  BY <1>2, EntryOf DEF Record
<1>4. prune \in PruneState
  BY DEF TInv, PruneTypes
<1>5. /\ disk' = [disk EXCEPT ![e.key] = None]
      /\ prune' = [prune EXCEPT
           !.todo = prune.todo \ {e}, !.freed = prune.freed + 1, !.total = Less(prune.total, 1),
           !.refs = refs, !.removed = IF cascade THEN prune.removed \cup {o} ELSE prune.removed,
           !.victim = IF cascade THEN o ELSE None]
  BY <1>3 DEF DropRecord
<1>6. /\ prune'.todo = prune.todo \ {e} /\ prune'.total = Less(prune.total, 1) /\ prune'.refs = refs
      /\ prune'.removed = (IF cascade THEN prune.removed \cup {o} ELSE prune.removed)
      /\ prune'.victim = (IF cascade THEN o ELSE None)
      /\ prune'.pc = prune.pc /\ prune'.opt = prune.opt /\ prune'.at = prune.at
      /\ prune'.found = prune.found /\ prune'.known = prune.known
  <2> DEFINE todo == prune.todo \ {e}
             freed == prune.freed + 1
             total == Less(prune.total, 1)
             removed == IF cascade THEN prune.removed \cup {o} ELSE prune.removed
             victim == IF cascade THEN o ELSE None
  <2>1. prune' = [prune EXCEPT !.todo = todo, !.freed = freed, !.total = total,
                               !.refs = refs, !.removed = removed, !.victim = victim]
    BY <1>5
  <2> HIDE DEF refs, todo, freed, total, removed, victim
  <2>2. /\ prune'.todo = todo /\ prune'.total = total /\ prune'.refs = refs
        /\ prune'.removed = removed /\ prune'.victim = victim
        /\ prune'.pc = prune.pc /\ prune'.opt = prune.opt /\ prune'.at = prune.at
        /\ prune'.found = prune.found /\ prune'.known = prune.known
    BY <1>4, <2>1 DEF PruneState
  <2>3. QED
    BY <2>2 DEF todo, total, removed, victim
<1>7. /\ Entries' = Entries \ {e} /\ \A x : Refers(x)' = Refers(x) \ {e}
      /\ \A x \in Object : x # o => (Present(disk', x) <=> Present(disk, x))
      /\ o \in Object => (Present(disk', o) <=> Refers(o) \ {e} # {})
  BY <1>2, <1>5, DropsEntry
<1>8. ASSUME o \in Object
      PROVE  /\ Present(disk, o) /\ e \in Refers(o) /\ o \notin prune.removed /\ o # None
             /\ prune.refs[o] = Cardinality(Refers(o)) /\ prune.refs[o] \in Nat
             /\ IsFiniteSet(Refers(o)) /\ Cardinality(Refers(o) \ {e}) = prune.refs[o] - 1
  <2>1. e \in Refers(o) /\ IsFiniteSet(Refers(o))
    BY <1>2, EntriesFinite DEF Refers
  <2>2. Present(disk, o)
    BY <1>8, <2>1, PresentRefers
  <2>3. prune.refs[o] = Cardinality(Refers(o)) /\ prune.refs[o] \in Nat
    BY <1>1, <1>2, <1>8, <2>1, FS_CardinalityType DEF Counted
  <2>4. o \notin prune.removed /\ o # None
    BY <1>2, <1>8, <2>2, CacheAssumption DEF Throughout
  <2>5. Cardinality(Refers(o) \ {e}) = prune.refs[o] - 1
    BY <2>1, <2>3, RemoveOne
  <2>6. QED
    BY <2>1, <2>2, <2>3, <2>4, <2>5
<1>9. cascade <=> o \in Object /\ ~Present(disk', o)
  <2>1. CASE o \in Object
    <3>1. Cardinality(Refers(o) \ {e}) \in Nat /\ (Cardinality(Refers(o) \ {e}) = 0 <=> Refers(o) \ {e} = {})
      BY <1>8, <2>1, RemoveOne
    <3>2. cascade <=> Cardinality(Refers(o) \ {e}) = 0
      BY <1>8, <2>1, <3>1 DEF LastReference
    <3> HIDE DEF cascade, o
    <3>3. QED
      BY <1>7, <2>1, <3>1, <3>2
  <2>2. CASE o = None
    BY <2>2, CacheAssumption
  <2>3. QED
    BY <1>3, <2>1, <2>2
<1>10. \A x \in Object : prune'.refs[x] = Cardinality(Refers(x)')
  <2> TAKE x \in Object
  <2>1. prune.refs[x] = Cardinality(Refers(x))
    BY <1>1, <1>2 DEF Counted
  <2>2. CASE x # o
    <3>1. Refers(x)' = Refers(x)
      BY <1>7, <2>2 DEF Refers
    <3>2. refs[x] = prune.refs[x]
      BY <1>4, <2>2 DEF PruneState
    <3>3. QED
      BY <1>6, <2>1, <3>1, <3>2
  <2>3. CASE x = o
    <3>1. /\ Refers(o)' = Refers(o) \ {e} /\ refs[o] = Less(prune.refs[o], 1)
          /\ Cardinality(Refers(o) \ {e}) = prune.refs[o] - 1 /\ prune.refs[o] \in Nat
          /\ Cardinality(Refers(o) \ {e}) \in Nat
      BY <1>4, <1>7, <1>8, <2>3, RemoveOne DEF PruneState
    <3>2. Less(prune.refs[o], 1) = prune.refs[o] - 1
      BY <3>1 DEF Less
    <3>3. QED
      BY <1>6, <2>3, <3>1, <3>2
  <2>4. QED
    BY <2>2, <2>3
<1> HIDE DEF refs
<1>11. Counted'
  BY <1>6, <1>10 DEF Counted
<1>12. Dropped(e, o, cascade)
  BY <1>1, <1>2, <1>3, <1>5, <1>6, <1>7, <1>8, <1>9, <1>10 DEF Dropped
<1> HIDE DEF cascade, o
<1>13. Throughout(b)'
  <2>1. prune'.removed \ {prune'.victim} = prune.removed \ {prune.victim}
    <3>1. cascade => o \notin prune.removed
      BY <1>8, <1>9
    <3>2. None \notin prune.removed /\ prune.removed \subseteq Object
      BY <1>4, CacheAssumption DEF PruneState
    <3>3. QED
      BY <1>1, <1>6, <3>1, <3>2
  <2>2. \A x \in prune'.removed : ~Present(disk', x)
    <3>1. \A x \in prune.removed : x \in Object /\ ~Present(disk, x)
      BY <1>2, <1>4 DEF Throughout, PruneState
    <3>2. \A x \in prune.removed : ~Present(disk', x)
      BY <1>7, <1>8, <3>1
    <3>3. QED
      BY <1>6, <1>9, <3>2
  <2>3. QED
    BY <1>1, <1>2, <1>6, <2>1, <2>2 DEF Throughout
<1>14. cascade \in BOOLEAN
  BY DEF cascade
<1>15. QED
  BY <1>1, <1>11, <1>12, <1>13, <1>14 DEF o

(* A record that is too old. *)
LEMMA DropOldFollows ==
  ASSUME IInv, TInv, FilesFollow, NEW b, b = before, b # None, Began(b),
         NEW e \in prune.todo, DropRecord(e), prune.pc = "age"
  PROVE  FilesFollow'
<1> DEFINE R == RecordsByAge(b)
           old == {x \in Entries : IsOld(x.rec.at)}
<1>1. Throughout(b)' /\ Counted' /\ before' = b
  BY DropIs
<1>2. PICK cascade \in BOOLEAN : Dropped(e, e.rec.obj, cascade)
  BY DropIs
<1>3. ByAgeSoFar(b)
  BY DEF FilesFollow
<1>4. R' = R /\ \A x : IsOld(x)' <=> IsOld(x)
  BY <1>2, AgeFixed DEF Dropped
<1>5. prune'.todo = old'
  <2>1. prune.todo = old
    BY <1>3 DEF ByAgeSoFar
  <2>2. old' = old \ {e}
    BY <1>2, <1>4 DEF Dropped
  <2>3. QED
    BY <1>2, <2>1, <2>2 DEF Dropped
<1>6. R[e.key] = None /\ e.key \in Key
  <2>1. e \in old /\ e.key \in Key /\ disk[e.key] = e.rec /\ disk[e.key] # None
    BY <1>2, <1>3, EntryOf DEF ByAgeSoFar, Dropped
  <2>2. disk[e.key] = b.disk[e.key]
    BY <1>3, <2>1 DEF ByAgeSoFar
  <2>3. IsOld(b.disk[e.key].at) /\ b.disk[e.key] # None /\ prune.opt.age
    BY <1>3, <2>1, <2>2 DEF ByAgeSoFar
  <2>4. QED
    BY <2>1, <2>3, OldRecords
<1>7. \A k \in Key : disk'[k] = b.disk[k] \/ (disk'[k] = None /\ R[k] = None)
  <2>1. \A k \in Key : disk'[k] = disk[k] \/ (k = e.key /\ disk'[k] = None)
    BY <1>2 DEF Dropped, IInv, SoundFiles, Files
  <2> HIDE DEF R
  <2>2. QED
    BY <1>3, <1>6, <2>1 DEF ByAgeSoFar, R
<1>8. prune'.removed = {o \in Object : Present(b.disk, o) /\ ~Present(disk', o)}
  <2>1. prune.removed = {o \in Object : Present(b.disk, o) /\ ~Present(disk, o)}
    BY <1>3 DEF ByAgeSoFar
  <2>2. \A o \in Object : Present(disk, o) => Present(b.disk, o)
    <3>1. \A k \in Key : disk[k] # None => disk[k] = b.disk[k]
      BY <1>3 DEF ByAgeSoFar
    <3>2. QED
      BY <3>1 DEF Present
  <2>3. QED
    BY <1>2, <2>1, <2>2 DEF Dropped
<1>9. prune'.pc = "age" /\ prune'.known = prune.known /\ prune'.opt = prune.opt
  BY <1>2 DEF Dropped
<1> HIDE DEF R, old
<1>10. ByAgeSoFar(b)'
  BY <1>3, <1>4, <1>5, <1>7, <1>8, <1>9 DEF ByAgeSoFar, R, old
<1>11. QED
  BY <1>1, <1>9, <1>10, FollowNext

(* The oldest record, because the cache is too large. *)
LEMMA DropOldestFollows ==
  ASSUME IInv, TInv, FilesFollow, NEW b, b = before, b # None, Began(b),
         NEW e \in prune.todo, DropRecord(e), prune.pc = "capacity"
  PROVE  FilesFollow'
<1> DEFINE R == RecordsByAge(b)
           O == ObjectsByAge(b)
<1>1. Throughout(b)' /\ Counted' /\ before' = b
  BY DropIs
<1>2. PICK cascade \in BOOLEAN : Dropped(e, e.rec.obj, cascade)
  BY DropIs
<1>3. BySizeSoFar(b)
  BY DEF FilesFollow
<1>4. R' = R /\ O' = O
  BY <1>2, AgeFixed DEF Dropped
<1>5. /\ prune.total > prune.opt.max /\ \A d \in prune.todo : e.rec.at <= d.rec.at
  BY DEF DropRecord, Chosen
<1>6. /\ e \in Entries /\ e.key \in Key /\ disk[e.key] = e.rec /\ disk[e.key] # None
      /\ disk \in Files /\ objects \in [Object -> Time \cup {None}]
      /\ prune.total \in Nat /\ prune.opt.max \in Nat /\ prune.total = Size(disk, objects)
      /\ prune.todo = Entries
  BY <1>2, <1>3, EntryOf DEF Dropped, IInv, SoundFiles, TInv, PruneTypes, PruneState, BySizeSoFar
<1>7. /\ disk' = [disk EXCEPT ![e.key] = None] /\ objects' = objects
      /\ Entries' = Entries \ {e} /\ prune'.todo = prune.todo \ {e}
      /\ prune'.total = Less(prune.total, 1) /\ prune'.pc = "capacity" /\ prune'.opt = prune.opt
      /\ prune'.found = prune.found
  BY <1>2 DEF Dropped
<1>8. prune'.todo = Entries' /\ prune'.total = Size(disk', objects')
  <2>1. Size(disk', objects) = Size(disk, objects) - 1
    BY <1>6, <1>7, SizeLosesRecord
  <2>2. Less(prune.total, 1) = prune.total - 1
    BY <1>5, <1>6 DEF Less
  <2>3. QED
    BY <1>6, <1>7, <2>1, <2>2
<1>9. ~(Size(R, O) <= prune.opt.max)
  BY <1>3, <1>5, <1>6 DEF BySizeSoFar
<1>10. \A k \in Key : disk'[k] = disk[k] \/ (k = e.key /\ disk'[k] = None)
  BY <1>6, <1>7 DEF Files
<1>11. \A k \in Key : disk'[k] \in {R[k], None}
  BY <1>3, <1>10 DEF BySizeSoFar
<1>12. ASSUME NEW k \in Key, NEW l \in Key, R[k] # None, disk'[k] = None, disk'[l] # None
       PROVE  R[k].at <= R[l].at
  <2>1. l # e.key /\ disk[l] # None /\ disk[l] = R[l] /\ disk[k] \in {R[k], None}
    BY <1>3, <1>6, <1>7, <1>10, <1>12 DEF BySizeSoFar, Files
  <2>2. CASE disk[k] = None
    BY <1>3, <1>12, <2>1, <2>2 DEF BySizeSoFar
  <2>3. CASE disk[k] # None
    <3>1. k = e.key /\ R[k] = e.rec
      BY <1>6, <1>10, <1>12, <2>1, <2>3
    <3> DEFINE d == [key |-> l, rec |-> disk[l]]
    <3>2. d \in Entries /\ d.rec = disk[l]
      BY <2>1, EntryOf
    <3> HIDE DEF d
    <3>3. e.rec.at <= d.rec.at
      BY <1>5, <1>6, <3>2
    <3> HIDE DEF R
    <3>4. QED
      BY <2>1, <3>1, <3>2, <3>3
  <2>4. QED
    BY <2>2, <2>3
<1> HIDE DEF R, O
<1>13. BySizeSoFar(b)'
  BY <1>3, <1>4, <1>6, <1>7, <1>8, <1>9, <1>11, <1>12 DEF BySizeSoFar, R, O
<1>14. QED
  BY <1>1, <1>7, <1>13, FollowNext

(* Then the object that only it referred to. *)
LEMMA CascadeFollows ==
  ASSUME IInv, TInv, FilesFollow, NEW b, b = before, b # None, Began(b), Cascade
  PROVE  FilesFollow'
<1> DEFINE o == prune.victim
           total == IF objects[o] = None THEN prune.total ELSE Less(prune.total, 1)
           R == RecordsByAge(b)
           O == ObjectsByAge(b)
<1>1. /\ o # None /\ objects' = [objects EXCEPT ![o] = None]
      /\ prune' = [prune EXCEPT !.victim = None, !.total = total]
      /\ before' = b /\ UNCHANGED disk
  BY DEF Cascade
<1>2. prune \in PruneState /\ objects \in [Object -> Time \cup {None}] /\ o \in Object
  BY <1>1 DEF TInv, PruneTypes, PruneState
<1>3. prune.pc # "done"
  BY <1>1 DEF FilesFollow
<1>4. Throughout(b) /\ prune.pc \in {"age", "capacity"} /\ o \in prune.removed /\ Counted
  BY <1>1 DEF FilesFollow, Throughout
<1> HIDE DEF total
<1>5. /\ prune'.victim = None /\ prune'.total = total /\ prune'.pc = prune.pc /\ prune'.opt = prune.opt
      /\ prune'.at = prune.at /\ prune'.todo = prune.todo /\ prune'.found = prune.found
      /\ prune'.refs = prune.refs /\ prune'.known = prune.known /\ prune'.removed = prune.removed
  BY <1>1, <1>2 DEF PruneState
<1>6. /\ Entries' = Entries /\ \A x : Refers(x)' = Refers(x)
      /\ R' = R /\ O' = O /\ \A x : IsOld(x)' <=> IsOld(x)
  BY <1>1, <1>5, EntriesFixed, AgeFixed
<1>7. Counted'
  BY <1>4, <1>5, <1>6 DEF Counted
<1>8. Throughout(b)'
  <2>1. objects' = [x \in Object |-> IF x \in prune'.removed \ {prune'.victim} THEN None ELSE b.objects[x]]
    <3>1. None \notin prune.removed
      BY <1>2, CacheAssumption DEF PruneState
    <3>2. objects = [x \in Object |-> IF x \in prune.removed \ {o} THEN None ELSE b.objects[x]]
      BY <1>4 DEF Throughout
    <3> HIDE DEF o
    <3>3. QED
      BY <1>1, <1>4, <1>5, <3>1, <3>2
  <2>2. QED
    BY <1>1, <1>4, <1>5, <2>1 DEF Throughout
<1>9. CASE prune.pc = "age"
  <2>1. ByAgeSoFar(b)
    BY <1>9 DEF FilesFollow
  <2>2. {x \in Entries : IsOld(x.rec.at)}' = {x \in Entries : IsOld(x.rec.at)}
    BY <1>6
  <2>3. ByAgeSoFar(b)'
    BY <1>1, <1>5, <1>6, <1>9, <2>1, <2>2 DEF ByAgeSoFar
  <2>4. QED
    BY <1>1, <1>5, <1>7, <1>8, <1>9, <2>3, FollowNext
<1>10. CASE prune.pc = "capacity"
  <2>1. BySizeSoFar(b)
    BY <1>10 DEF FilesFollow
  <2>2. prune.total = Size(disk, objects) /\ prune.total \in Nat
    BY <1>2, <1>10, <2>1 DEF BySizeSoFar, PruneState
  <2>3. prune'.total = Size(disk', objects')
    <3>1. CASE objects[o] = None
      BY <1>1, <1>2, <1>5, <2>2, <3>1, SizeLosesObject DEF total
    <3>2. CASE objects[o] # None
      <4>1. Size(disk, objects') = Size(disk, objects) - 1 /\ Size(disk, objects') \in Nat
        BY <1>1, <1>2, <3>2, SizeLosesObject, SizeType
      <4>2. Less(prune.total, 1) = prune.total - 1
        BY <2>2, <4>1 DEF Less
      <4>3. QED
        BY <1>1, <1>5, <2>2, <3>2, <4>1, <4>2 DEF total
    <3>3. QED
      BY <3>1, <3>2
  <2>4. ~(Size(R, O) <= prune.opt.max)
    BY <1>1, <1>10, <2>1 DEF BySizeSoFar
  <2>5. \A x \in Object : objects'[x] # None => objects[x] # None
    BY <1>1, <1>2
  <2> HIDE DEF R, O, o
  <2>6. BySizeSoFar(b)'
    BY <1>1, <1>5, <1>6, <1>10, <2>1, <2>3, <2>4, <2>5 DEF BySizeSoFar, R, O
  <2>7. QED
    BY <1>1, <1>5, <1>7, <1>8, <1>10, <2>6, FollowNext
<1>11. QED
  BY <1>4, <1>9, <1>10

(* The old objects that had no record when the references were counted.    *)
LEMMA SweepFollows ==
  ASSUME IInv, TInv, FilesFollow, NEW b, b = before, b # None, Began(b),
         NEW o \in prune.found, SweepObject(o)
  PROVE  FilesFollow'
<1> DEFINE R == RecordsByAge(b)
           O == ObjectsByAge(b)
           taken == /\ objects[o] # None /\ o \notin prune.removed /\ o \notin prune.known
                    /\ IsOld(objects[o])
<1>1. /\ prune.pc = "sweep" /\ UNCHANGED disk /\ before' = b
  BY DEF SweepObject
<1>2. prune \in PruneState /\ objects \in [Object -> Time \cup {None}] /\ o \in Object
  BY <1>1 DEF TInv, PruneTypes
<1>3. /\ Throughout(b) /\ ByAgeSoFar(b) /\ prune.victim = None
  BY <1>1 DEF FilesFollow, Throughout
<1>4. /\ prune'.pc = "sweep" /\ prune'.opt = prune.opt /\ prune'.at = prune.at
      /\ prune'.known = prune.known /\ prune'.victim = None /\ prune'.found = prune.found \ {o}
      /\ prune'.removed = IF taken THEN prune.removed \cup {o} ELSE prune.removed
      /\ objects' = IF taken THEN [objects EXCEPT ![o] = None] ELSE objects
  <2>1. CASE taken
    <3>1. /\ objects' = [objects EXCEPT ![o] = None]
          /\ prune' = [prune EXCEPT !.found = @ \ {o}, !.removed = @ \cup {o}, !.freed = @ + 1]
      BY <2>1 DEF SweepObject
    <3> HIDE DEF taken
    <3>2. QED
      BY <1>1, <1>2, <1>3, <2>1, <3>1 DEF PruneState
  <2>2. CASE ~taken
    <3>1. objects' = objects /\ prune' = [prune EXCEPT !.found = @ \ {o}]
      BY <2>2 DEF SweepObject
    <3> HIDE DEF taken
    <3>2. QED
      BY <1>1, <1>2, <1>3, <2>2, <3>1 DEF PruneState
  <2>3. QED
    BY <2>1, <2>2
<1>5. R' = R /\ O' = O
  BY <1>4, AgeFixed
<1>6. /\ prune.opt.age /\ disk = R /\ prune.known = {x \in Object : Present(b.disk, x)}
      /\ \A x \in prune.removed : O[x] = None
      /\ \A x \in Object : O[x] = None => b.objects[x] = None \/ x \in prune.removed
                                          \/ x \in prune.found \ prune.known
  BY <1>1, <1>3 DEF ByAgeSoFar
<1>7. o \notin prune.removed => objects[o] = b.objects[o]
  BY <1>2, <1>3 DEF Throughout
<1>8. taken => O[o] = None /\ ~Present(disk, o)
  <2> SUFFICES ASSUME taken PROVE O[o] = None /\ ~Present(R, o)
    BY <1>6
  <2>1. ~Present(b.disk, o) /\ IsOld(b.objects[o]) /\ b.objects[o] # None
    BY <1>2, <1>6, <1>7
  <2>2. ~Present(R, o)
    BY <2>1, OldRecords
  <2>3. QED
    BY <1>2, <1>6, <2>1, <2>2, OldObjects
<1>9. ~taken /\ O[o] = None => b.objects[o] = None \/ o \in prune.removed
  <2> SUFFICES ASSUME ~taken, O[o] = None, b.objects[o] # None, o \notin prune.removed PROVE FALSE
    OBVIOUS
  <2>1. objects[o] = b.objects[o] /\ o \notin prune.known
    BY <1>2, <1>6, <1>7
  <2>2. ~IsOld(b.objects[o]) /\ ~Present(b.disk, o)
    BY <1>2, <1>6, <2>1
  <2>3. O[o] = b.objects[o]
    BY <1>2, <2>2, OldObjects
  <2>4. QED
    BY <2>3
<1> HIDE DEF taken
<1>10. Throughout(b)'
  <2>1. \A x \in prune'.removed : ~Present(disk, x)
    BY <1>3, <1>4, <1>8 DEF Throughout
  <2>2. objects' = [x \in Object |-> IF x \in prune'.removed \ {prune'.victim} THEN None ELSE b.objects[x]]
    <3>1. None \notin prune.removed /\ o # None
      BY <1>2, CacheAssumption DEF PruneState
    <3>2. objects = [x \in Object |-> IF x \in prune.removed THEN None ELSE b.objects[x]]
      BY <1>3, <3>1 DEF Throughout
    <3>3. prune'.removed \ {prune'.victim} = prune'.removed
      BY <1>4, <3>1
    <3>4. QED
      BY <1>2, <1>4, <3>2, <3>3
  <2>3. QED
    BY <1>1, <1>4, <2>1, <2>2 DEF Throughout
<1>11. \A x \in prune'.removed : O[x] = None
  BY <1>4, <1>6, <1>8
<1>12. \A x \in Object : O[x] = None => b.objects[x] = None \/ x \in prune'.removed
                                       \/ x \in prune'.found \ prune'.known
  BY <1>4, <1>6, <1>9
<1>13. Counted'
  BY <1>4 DEF Counted
<1> HIDE DEF R, O
<1>14. ByAgeSoFar(b)'
  BY <1>1, <1>4, <1>5, <1>6, <1>11, <1>12 DEF ByAgeSoFar, R, O
<1>15. QED
  BY <1>1, <1>4, <1>10, <1>13, <1>14, FollowNext

(* Phase 2 begins: the files are as the age says. *)
LEMMA ListAllFollows ==
  ASSUME IInv, TInv, FilesFollow, NEW b, b = before, b # None, Began(b), ListAll
  PROVE  FilesFollow'
<1> DEFINE R == RecordsByAge(b)
           O == ObjectsByAge(b)
           left == [o \in Object |-> IF o \in prune.removed THEN None ELSE objects[o]]
           total == Size(disk, left)
           there == Stored(objects)
<1>1. /\ prune' = [prune EXCEPT !.todo = Entries, !.found = there, !.total = total, !.pc = "count2"]
      /\ prune.pc = "list2" \/ (prune.pc = "sweep" /\ prune.found = {})
      /\ before' = b /\ UNCHANGED <<disk, objects>>
  BY DEF ListAll, Stored
<1>2. prune \in PruneState /\ objects \in [Object -> Time \cup {None}]
  BY DEF TInv, PruneTypes
<1>3. Throughout(b) /\ prune.victim = None /\ None \notin prune.removed
  BY <1>1, <1>2, CacheAssumption DEF FilesFollow, Throughout, PruneState
<1>4. objects = [o \in Object |-> IF o \in prune.removed THEN None ELSE b.objects[o]]
  BY <1>3 DEF Throughout
<1>5. left = objects
  BY <1>2, <1>4
<1> HIDE DEF left, there
<1>6. total = Size(disk, objects)
  BY <1>5
<1> HIDE DEF total
<1>7. /\ prune'.pc = "count2" /\ prune'.todo = Entries /\ prune'.found = there /\ prune'.total = total
      /\ prune'.opt = prune.opt /\ prune'.at = prune.at
      /\ prune'.removed = prune.removed /\ prune'.victim = None
  BY <1>1, <1>2, <1>3 DEF PruneState
<1>8. /\ Entries' = Entries /\ R' = R /\ O' = O
  BY <1>1, <1>7, EntriesFixed, AgeFixed
<1>9. disk = R /\ objects = O
  <2>1. CASE prune.pc = "list2"
    BY <2>1 DEF FilesFollow, BySizeSoFar
  <2>2. CASE prune.pc = "sweep" /\ prune.found = {}
    <3>1. ByAgeSoFar(b)
      BY <2>2 DEF FilesFollow
    <3>2. \A o \in Object : objects[o] = O[o]
      <4> TAKE o \in Object
      <4>1. CASE o \in prune.removed
        BY <1>4, <2>2, <3>1, <4>1 DEF ByAgeSoFar
      <4>2. CASE o \notin prune.removed
        <5>1. objects[o] = b.objects[o]
          BY <1>4, <4>2
        <5>2. O[o] = None => b.objects[o] = None
          BY <2>2, <3>1, <4>2 DEF ByAgeSoFar
        <5>3. QED
          BY <5>1, <5>2, OldObjects
      <4>3. QED
        BY <4>1, <4>2
    <3>3. O \in [Object -> Time \cup {None}]
      BY OldObjects
    <3>4. disk = R
      BY <2>2, <3>1 DEF ByAgeSoFar
    <3> HIDE DEF O
    <3>5. QED
      BY <1>2, <3>2, <3>3, <3>4
  <2>3. QED
    BY <1>1, <2>1, <2>2
<1>10. Throughout(b)' /\ Counted'
  BY <1>1, <1>3, <1>7 DEF Throughout, Counted
<1>11. there = Stored(objects)'
  BY <1>1 DEF there, Stored
<1> HIDE DEF R, O
<1>12. BySizeSoFar(b)'
  BY <1>1, <1>6, <1>7, <1>8, <1>9, <1>11 DEF BySizeSoFar, R, O
<1>13. QED
  BY <1>1, <1>7, <1>10, <1>12, FollowNext

(* With no record left, the oldest object. *)
LEMMA EvictFollows ==
  ASSUME IInv, TInv, FilesFollow, NEW b, b = before, b # None, Began(b),
         NEW f \in prune.found, EvictObject(f)
  PROVE  FilesFollow'
<1> DEFINE R == RecordsByAge(b)
           O == ObjectsByAge(b)
           o == f[1]
           taken == objects[o] # None /\ o \notin prune.removed
<1>1. /\ prune.pc = "capacity" /\ UNCHANGED disk /\ before' = b /\ prune.todo = {} /\ prune.victim = None
      /\ prune.total > prune.opt.max
  BY DEF EvictObject
<1>2. prune \in PruneState /\ objects \in [Object -> Time \cup {None}] /\ o \in Object
      /\ prune.total \in Nat /\ prune.opt.max \in Nat
  BY <1>1 DEF TInv, PruneTypes, Listed, PruneState
<1>3. /\ Throughout(b) /\ BySizeSoFar(b) /\ Counted
  BY <1>1 DEF FilesFollow, Throughout
<1>4. /\ prune'.pc = "capacity" /\ prune'.opt = prune.opt /\ prune'.at = prune.at
      /\ prune'.todo = {} /\ prune'.victim = None /\ prune'.found = prune.found \ {f}
      /\ prune'.refs = prune.refs
      /\ prune'.removed = IF taken THEN prune.removed \cup {o} ELSE prune.removed
      /\ prune'.total = IF taken THEN Less(prune.total, 1) ELSE prune.total
      /\ objects' = IF taken THEN [objects EXCEPT ![o] = None] ELSE objects
  <2>1. CASE taken
    <3> DEFINE removed == prune.removed \cup {o}
               total == Less(prune.total, 1)
    <3>1. /\ objects' = [objects EXCEPT ![o] = None]
          /\ prune' = [prune EXCEPT !.found = @ \ {f}, !.removed = removed, !.freed = @ + 1, !.total = total]
      BY <2>1 DEF EvictObject
    <3> HIDE DEF taken, removed, total, o
    <3>2. prune'.removed = removed /\ prune'.total = total
      BY <1>2, <3>1 DEF PruneState
    <3>3. /\ prune'.pc = prune.pc /\ prune'.opt = prune.opt /\ prune'.at = prune.at
          /\ prune'.todo = prune.todo /\ prune'.victim = prune.victim /\ prune'.found = prune.found \ {f}
          /\ prune'.refs = prune.refs
      BY <1>2, <3>1 DEF PruneState
    <3>4. QED
      BY <1>1, <2>1, <3>1, <3>2, <3>3 DEF removed, total
  <2>2. CASE ~taken
    <3>1. objects' = objects /\ prune' = [prune EXCEPT !.found = @ \ {f}]
      BY <2>2 DEF EvictObject
    <3> HIDE DEF taken
    <3>2. QED
      BY <1>1, <1>2, <1>3, <2>2, <3>1 DEF PruneState
  <2>3. QED
    BY <2>1, <2>2
<1>5. /\ Entries' = Entries /\ \A x : Refers(x)' = Refers(x) /\ R' = R /\ O' = O
  BY <1>1, <1>4, EntriesFixed, AgeFixed
<1>6. Entries = {} /\ prune.total = Size(disk, objects)
  BY <1>1, <1>3 DEF BySizeSoFar
<1>7. \A k \in Key : disk[k] = None
  BY <1>6, EntryOf
<1>8. ~(Size(R, O) <= prune.opt.max)
  BY <1>1, <1>2, <1>3 DEF BySizeSoFar
<1>9. prune'.total = Size(disk, objects')
  <2>1. CASE taken
    <3>1. Size(disk, objects') = Size(disk, objects) - 1
      <4>1. objects' = [objects EXCEPT ![o] = None] /\ objects[o] # None
        BY <1>4, <2>1
      <4> HIDE DEF o, taken
      <4>2. Size(disk, [objects EXCEPT ![o] = None]) = Size(disk, objects) - 1
        BY <1>2, <4>1, SizeLosesObject
      <4>3. QED
        BY <4>1, <4>2
    <3>2. Less(prune.total, 1) = prune.total - 1
      BY <1>1, <1>2 DEF Less
    <3>3. QED
      BY <1>4, <1>6, <2>1, <3>1, <3>2
  <2>2. CASE ~taken
    BY <1>4, <1>6, <2>2
  <2>3. QED
    BY <2>1, <2>2
<1>10. \A x \in Object : objects'[x] # None => \E g \in prune'.found : g[1] = x
  <2> SUFFICES ASSUME NEW x \in Object, objects'[x] # None PROVE \E g \in prune'.found : g[1] = x
    OBVIOUS
  <2>1. objects[x] # None
    BY <1>2, <1>4
  <2>2. PICK g \in prune.found : g[1] = x
    BY <1>1, <1>3, <2>1 DEF BySizeSoFar
  <2>3. g # f
    <3>1. x = o => objects'[x] = None
      <4>1. o \in prune.removed => objects[o] = None
        BY <1>1, <1>2, <1>3, CacheAssumption DEF Throughout
      <4>2. QED
        BY <1>2, <1>4, <4>1
    <3>2. QED
      BY <2>2, <3>1
  <2>4. QED
    BY <1>4, <2>2, <2>3
<1>11. Throughout(b)'
  <2>1. \A x : ~Present(disk, x)
    BY <1>7 DEF Present
  <2>2. objects' = [x \in Object |-> IF x \in prune'.removed \ {prune'.victim} THEN None ELSE b.objects[x]]
    <3>1. None \notin prune.removed /\ o # None
      BY <1>2, CacheAssumption DEF PruneState
    <3>2. objects = [x \in Object |-> IF x \in prune.removed THEN None ELSE b.objects[x]]
      BY <1>1, <1>3, <3>1 DEF Throughout
    <3> HIDE DEF taken, o
    <3>3. prune'.removed \ {prune'.victim} = prune'.removed
      BY <1>4, <3>1
    <3>4. QED
      BY <1>2, <1>4, <3>2, <3>3
  <2>3. QED
    BY <1>1, <1>4, <2>1, <2>2 DEF Throughout
<1>12. Counted'
  BY <1>1, <1>3, <1>4, <1>5 DEF Counted
<1> HIDE DEF R, O, taken, o
<1>13. BySizeSoFar(b)'
  BY <1>1, <1>3, <1>4, <1>5, <1>6, <1>7, <1>8, <1>9, <1>10 DEF BySizeSoFar, R, O
<1>14. QED
  BY <1>1, <1>4, <1>11, <1>12, <1>13, FollowNext

(* The report: small enough, or nothing is left. *)
LEMMA EndFollows ==
  ASSUME IInv, TInv, FilesFollow, NEW b, b = before, b # None, Began(b), PruneEnd
  PROVE  FilesFollow'
<1> DEFINE R == RecordsByAge(b)
           O == ObjectsByAge(b)
<1>1. /\ prune.pc = "capacity" /\ prune.victim = None
      /\ prune.total <= prune.opt.max \/ (prune.todo = {} /\ prune.found = {})
      /\ prune' = [prune EXCEPT !.pc = "done", !.todo = {}, !.found = {}]
      /\ before' = b /\ UNCHANGED <<disk, objects>>
  BY DEF PruneEnd
<1>2. /\ prune \in PruneState /\ objects \in [Object -> Time \cup {None}]
      /\ prune.total \in Nat /\ prune.opt.max \in Nat
  BY DEF TInv, PruneTypes, PruneState
<1>3. /\ prune'.pc = "done" /\ prune'.opt = prune.opt /\ prune'.at = prune.at
      /\ prune'.victim = None /\ prune'.removed = prune.removed
  BY <1>1, <1>2 DEF PruneState
<1>4. /\ Throughout(b) /\ BySizeSoFar(b)
  BY <1>1 DEF FilesFollow, Throughout
<1>5. R' = R /\ O' = O
  BY <1>3, AgeFixed
<1>6. Throughout(b)' /\ Counted'
  BY <1>1, <1>3, <1>4 DEF Throughout, Counted
<1>7. Size(disk, objects) <= prune.opt.max
  <2>1. CASE prune.total <= prune.opt.max
    BY <1>1, <1>4, <2>1 DEF BySizeSoFar
  <2>2. CASE prune.todo = {} /\ prune.found = {}
    <3>1. \A k \in Key : disk[k] = None
      BY <1>1, <1>4, <2>2, EntryOf DEF BySizeSoFar
    <3>2. \A o \in Object : objects[o] = None
      BY <1>1, <1>4, <2>2 DEF BySizeSoFar
    <3>3. QED
      BY <1>2, <3>1, <3>2, NothingHasNoSize
  <2>3. QED
    BY <1>1, <2>1, <2>2
<1>8. \A k \in Key : disk[k] # None /\ disk[k].obj # None
        => objects[disk[k].obj] = b.objects[disk[k].obj]
  <2> SUFFICES ASSUME NEW k \in Key, disk[k] # None, disk[k].obj # None
               PROVE  objects[disk[k].obj] = b.objects[disk[k].obj]
    OBVIOUS
  <2>1. disk[k].obj \in Object
    BY DEF IInv, SoundFiles, Files, Record
  <2>2. disk[k].obj \notin prune.removed
    BY <1>4 DEF Throughout, Present
  <2>3. QED
    BY <1>4, <2>1, <2>2 DEF Throughout
<1>9. /\ Size(R, O) <= prune.opt.max => disk = R /\ objects = O
      /\ \A k \in Key : disk[k] \in {R[k], None}
      /\ \A k, l \in Key : R[k] # None /\ disk[k] = None /\ disk[l] # None => R[k].at <= R[l].at
  BY <1>1, <1>4 DEF BySizeSoFar
<1>10. RecordsByAge(before)' = R /\ ObjectsByAge(before)' = O
  BY <1>1, <1>5
<1>11. PruneIsExact'
  <2> HIDE DEF R, O
  <2>1. QED
    BY <1>1, <1>3, <1>7, <1>8, <1>9, <1>10 DEF PruneIsExact
<1>12. QED
  BY <1>1, <1>3, <1>6, <1>11 DEF FilesFollow, Throughout

LEMMA NextPrunes ==
  IInv /\ TInv /\ FilesFollow /\ BeforeTypes /\ [Next]_vars => (FilesFollow /\ BeforeTypes)'
<1> SUFFICES ASSUME IInv, TInv, FilesFollow, BeforeTypes, [Next]_vars PROVE (FilesFollow /\ BeforeTypes)'
  OBVIOUS
<1>1. CASE before' = None
  BY <1>1 DEF FilesFollow, BeforeTypes
<1>2. CASE UNCHANGED <<disk, objects, prune, before>>
  BY <1>2, FilesUndisturbed DEF BeforeTypes
<1>3. CASE \E opt \in PruneOptions : PruneBegin(opt)
  BY <1>3, BeginFollows
<1>4. CASE PruneStep /\ UNCHANGED before /\ before # None
  <2>1. PICK b : b = before
    OBVIOUS
  <2>2. b # None /\ Began(b) /\ BeforeTypes'
    BY <1>4, <2>1 DEF BeforeTypes
  <2>3. ASSUME NEW e \in prune.todo, DropRecord(e) PROVE FilesFollow'
    <3>1. prune.pc \in {"age", "capacity"}
      BY <2>3 DEF DropRecord, Chosen
    <3>2. QED
      BY <2>1, <2>2, <2>3, <3>1, DropOldFollows, DropOldestFollows
  <2>4. ASSUME NEW x \in prune.found, SweepObject(x) \/ EvictObject(x) PROVE FilesFollow'
    BY <2>1, <2>2, <2>4, SweepFollows, EvictFollows
  <2>5. CASE CountReferences \/ ListRecords \/ ListObjects \/ ListAll \/ PruneEnd \/ Cascade
    BY <2>1, <2>2, <2>5, CountFollows, ListFollows, ListObjectsFollows, ListAllFollows, EndFollows,
       CascadeFollows
  <2>6. CASE PruneReturn \/ \E opt \in PruneOptions : PruneBegin(opt)
    BY <1>1, <1>3, <2>6 DEF PruneReturn
  <2>7. QED
    BY <1>4, <2>2, <2>3, <2>4, <2>5, <2>6 DEF PruneStep
<1>5. CASE PruneStep
  <2>1. before' = before \/ before' = None \/ \E opt \in PruneOptions : PruneBegin(opt)
    BY <1>5 DEF PruneStep, CountReferences, ListRecords, ListObjects, ListAll, PruneEnd,
       PruneReturn, DropRecord, Cascade, SweepObject, EvictObject
  <2>2. QED
    BY <1>1, <1>3, <1>4, <1>5, <2>1
<1>6. CASE \E c \in Client : ClientStep(c)
  <2>1. before' = None \/ UNCHANGED <<disk, objects, prune, before>>
    BY <1>6 DEF ClientStep, Execute, CheckExists, ReadMemory, ReadDisk, RememberRead, Cached, RunOk,
       RunFails, PutObject, PutMemory, PutDisk, Quiet
  <2>2. QED
    BY <1>1, <1>2, <2>1
<1>7. CASE \E p \in Process : Restart(p)
  BY <1>1, <1>2, <1>7 DEF Restart
<1>8. CASE Tick \/ UNCHANGED vars
  BY <1>2, <1>8 DEF Tick, vars
<1>9. QED
  BY <1>5, <1>6, <1>7, <1>8 DEF Next

(* prune leaves exactly what its arguments ask for, when no build writes   *)
(* between its start and its report, for all that it works from lists it   *)
(* made earlier and counts it keeps by hand.                               *)
THEOREM PruneCorrect == Spec => []PruneIsExact
<1> DEFINE Inv == IInv /\ TInv /\ FilesFollow /\ BeforeTypes
<1>1. Init => Inv
  BY InitInv, InitTypes DEF Init, FilesFollow, BeforeTypes
<1>2. Inv /\ [Next]_vars => Inv'
  BY NextInv, NextTypes, NextPrunes
<1>3. Inv => PruneIsExact
  BY DEF FilesFollow, PruneIsExact
<1>4. QED
  BY <1>1, <1>2, <1>3, PTL DEF Spec
=============================================================================
