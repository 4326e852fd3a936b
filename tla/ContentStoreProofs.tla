------------------------- MODULE ContentStoreProofs -------------------------
(***************************************************************************)
(* For any number of processes and objects, alone or in front of a remote, *)
(* whatever fails and whoever is killed: an object whose store was         *)
(* acknowledged keeps both its files, here and at the remote, until        *)
(* somebody begins to remove it, its metadata become illegible only if a   *)
(* rewrite of them is cut short, and no retrieve denies it meanwhile.      *)
(*                                                                         *)
(* The argument: while an object is stored, or is being stored by a client *)
(* that no removal has disturbed, nobody is in the middle of removing it;  *)
(* and a store passes its data before its metadata, the local files before *)
(* the remote, so that each step finds what the one before it left.        *)
(***************************************************************************)
EXTENDS ContentStore, TLAPS

Types ==
  /\ backend \in {"Local", "Hybrid"}
  /\ data \subseteq Hash /\ meta \in [Hash -> {"none", "torn", "whole"}]
  /\ writers \in [Hash -> SUBSET Client]
  /\ rdata \subseteq Hash /\ rmeta \subseteq Hash
  /\ pc \in [Client -> PC] /\ arg \in [Client -> Hash \cup {None}]
  /\ op \in [Client -> {"none", "store", "retrieve", "delete", "cleanup"}]
  /\ todo \in [Client -> SUBSET Hash] /\ found \in [Client -> SUBSET Hash]
  /\ absent \subseteq Client /\ calm \subseteq Client
  /\ stored \subseteq Hash /\ torn \subseteq Hash

(* Where a client is follows from its operation, and an idle one is calm   *)
(* about nothing.                                                          *)
PlaceOf ==
  [none |-> {"idle"},
   store |-> {"quota", "data", "meta", "put_meta", "put_data"},
   retrieve |-> {"look_local", "look", "read_meta", "read_data", "truncate", "rewrite",
                 "get_meta", "get_data", "data", "meta"},
   delete |-> Removing,
   cleanup |-> Removing \cup {"plan"}]

Placed ==
  \A c \in Client :
    /\ pc[c] \in PlaceOf[op[c]]
    /\ pc[c] \notin {"idle", "plan"} => arg[c] \in Hash
    /\ c \in calm => op[c] \in {"store", "retrieve"}
    /\ pc[c] \in {"look_local", "get_meta", "get_data"} => backend = "Hybrid"

(* Both files are there, the metadata perhaps just being rewritten, or left *)
(* half written by a rewrite that was cut short.                            *)
OnDisk(h) == h \in data /\ meta[h] # "none" /\ (Legible(h) \/ h \in torn)

Untouched(h) == \A d \in Client : pc[d] \in Removing => arg[d] # h

(* A store that no removal disturbed, step by step. *)
StoreProgress ==
  \A c \in calm : op[c] = "store" =>
    /\ Untouched(arg[c])
    /\ pc[c] \in {"meta", "put_meta", "put_data"} => arg[c] \in data
    /\ pc[c] \in {"put_meta", "put_data"} => OnDisk(arg[c])
    /\ pc[c] = "put_data" => arg[c] \in rmeta
    /\ backend = "Local" => pc[c] \notin {"put_meta", "put_data"}

RetrieveProgress == \A c \in calm : op[c] = "retrieve" => arg[c] \in stored

IInv ==
  /\ Types /\ Placed /\ StoreProgress /\ RetrieveProgress /\ StoredSurvives
  /\ \A h \in stored : Untouched(h)

-----------------------------------------------------------------------------
(* The store is opened empty. *)
LEMMA InitInv == Init => IInv
  <1> SUFFICES ASSUME Init PROVE IInv
    OBVIOUS
  <1>1. Types
    BY DEF Init, Types, PC
  <1>2. Placed
    BY DEF Init, Placed, PlaceOf
  <1>3. QED
    BY <1>1, <1>2 DEF Init, IInv, StoreProgress, RetrieveProgress, StoredSurvives

(* One lemma per action, and in each one step per conjunct of IInv.  Every  *)
(* one names the same facts; those with steps of their own below the        *)
(* conjuncts are the actions that write metadata in place, that begin, and  *)
(* that remove.                                                             *)
LEMMA CountInv ==
  ASSUME IInv, NEW c \in Client, Count(c), UNCHANGED backend
  PROVE  IInv'
  <1> USE DEF Goto, Leave, End, EndAbsent, Begin, Disturb, Acknowledge, LocalDone, RemovalDone, Kept, Legible,
              files, remote, flow, sets
  <1>1. Types'
    BY DEF Count, IInv, Types, PC, Removing
  <1>2. Placed'
    BY DEF Count, IInv, Types, Placed, PlaceOf, Removing
  <1>3. StoreProgress'
    BY DEF Count, IInv, Types, Placed, PlaceOf, StoreProgress, Removing, Untouched, OnDisk
  <1>4. RetrieveProgress'
    BY DEF Count, IInv, Types, Placed, RetrieveProgress
  <1>5. StoredSurvives'
    BY DEF Count, IInv, Types, Placed, StoreProgress, StoredSurvives, Untouched, OnDisk, Removing
  <1>6. \A g \in stored' : Untouched(g)'
    BY DEF Count, IInv, Types, Placed, StoreProgress, Untouched, Removing
  <1>7. QED
    BY <1>1, <1>2, <1>3, <1>4, <1>5, <1>6 DEF IInv

LEMMA CheckQuotaInv ==
  ASSUME IInv, NEW c \in Client, CheckQuota(c), UNCHANGED backend
  PROVE  IInv'
  <1> USE DEF Goto, Leave, End, EndAbsent, Begin, Disturb, Acknowledge, LocalDone, RemovalDone, Kept, Legible,
              files, remote, flow, sets
  <1>1. Types'
    BY DEF CheckQuota, IInv, Types, PC, Removing
  <1>2. Placed'
    BY DEF CheckQuota, IInv, Types, Placed, PlaceOf, Removing
  <1>3. StoreProgress'
    BY DEF CheckQuota, IInv, Types, Placed, PlaceOf, StoreProgress, Removing, Untouched, OnDisk
  <1>4. RetrieveProgress'
    BY DEF CheckQuota, IInv, Types, Placed, RetrieveProgress
  <1>5. StoredSurvives'
    BY DEF CheckQuota, IInv, Types, Placed, StoreProgress, StoredSurvives, Untouched, OnDisk, Removing
  <1>6. \A g \in stored' : Untouched(g)'
    BY DEF CheckQuota, IInv, Types, Placed, StoreProgress, Untouched, Removing
  <1>7. QED
    BY <1>1, <1>2, <1>3, <1>4, <1>5, <1>6 DEF IInv

LEMMA RenameDataInv ==
  ASSUME IInv, NEW c \in Client, RenameData(c), UNCHANGED backend
  PROVE  IInv'
  <1> USE DEF Goto, Leave, End, EndAbsent, Begin, Disturb, Acknowledge, LocalDone, RemovalDone, Kept, Legible,
              files, remote, flow, sets
  <1>1. Types'
    BY DEF RenameData, IInv, Types, PC, Removing, Placed, PlaceOf
  <1>2. Placed'
    BY DEF RenameData, IInv, Types, Placed, PlaceOf, Removing
  <1>3. StoreProgress'
    BY DEF RenameData, IInv, Types, Placed, PlaceOf, StoreProgress, Removing, Untouched, OnDisk
  <1>4. RetrieveProgress'
    BY DEF RenameData, IInv, Types, Placed, RetrieveProgress
  <1>5. StoredSurvives'
    BY DEF RenameData, IInv, Types, Placed, StoreProgress, StoredSurvives, Untouched, OnDisk, Removing
  <1>6. \A g \in stored' : Untouched(g)'
    BY DEF RenameData, IInv, Types, Placed, StoreProgress, Untouched, Removing
  <1>7. QED
    BY <1>1, <1>2, <1>3, <1>4, <1>5, <1>6 DEF IInv

LEMMA RenameMetaInv ==
  ASSUME IInv, NEW c \in Client, RenameMeta(c), UNCHANGED backend
  PROVE  IInv'
  <1> USE DEF Goto, Leave, End, EndAbsent, Begin, Disturb, Acknowledge, LocalDone, RemovalDone, Kept, Legible,
              files, remote, flow, sets
  <1>1. Types'
    BY DEF RenameMeta, IInv, Types, PC, Removing, Placed, PlaceOf
  <1>2. Placed'
    BY DEF RenameMeta, IInv, Types, Placed, PlaceOf, Removing
  <1>3. StoreProgress'
    BY DEF RenameMeta, IInv, Types, Placed, PlaceOf, StoreProgress, Removing, Untouched, OnDisk
  <1>4. RetrieveProgress'
    BY DEF RenameMeta, IInv, Types, Placed, RetrieveProgress
  <1>5. StoredSurvives'
    BY DEF RenameMeta, IInv, Types, Placed, StoreProgress, StoredSurvives, Untouched, OnDisk, Removing
  <1>6. \A g \in stored' : Untouched(g)'
    BY DEF RenameMeta, IInv, Types, Placed, StoreProgress, Untouched, Removing
  <1>7. QED
    BY <1>1, <1>2, <1>3, <1>4, <1>5, <1>6 DEF IInv

LEMMA WriteFailsInv ==
  ASSUME IInv, NEW c \in Client, WriteFails(c), UNCHANGED backend
  PROVE  IInv'
  <1> USE DEF Goto, Leave, End, EndAbsent, Begin, Disturb, Acknowledge, LocalDone, RemovalDone, Kept, Legible,
              files, remote, flow, sets
  <1>1. Types'
    BY DEF WriteFails, IInv, Types, PC, Removing
  <1>2. Placed'
    BY DEF WriteFails, IInv, Types, Placed, PlaceOf, Removing
  <1>3. StoreProgress'
    BY DEF WriteFails, IInv, Types, Placed, PlaceOf, StoreProgress, Removing, Untouched, OnDisk
  <1>4. RetrieveProgress'
    BY DEF WriteFails, IInv, Types, Placed, RetrieveProgress
  <1>5. StoredSurvives'
    BY DEF WriteFails, IInv, Types, Placed, StoreProgress, StoredSurvives, Untouched, OnDisk, Removing
  <1>6. \A g \in stored' : Untouched(g)'
    BY DEF WriteFails, IInv, Types, Placed, StoreProgress, Untouched, Removing
  <1>7. QED
    BY <1>1, <1>2, <1>3, <1>4, <1>5, <1>6 DEF IInv

LEMMA PutMetaInv ==
  ASSUME IInv, NEW c \in Client, PutMeta(c), UNCHANGED backend
  PROVE  IInv'
  <1> USE DEF Goto, Leave, End, EndAbsent, Begin, Disturb, Acknowledge, LocalDone, RemovalDone, Kept, Legible,
              files, remote, flow, sets
  <1>1. Types'
    BY DEF PutMeta, IInv, Types, PC, Removing, Placed, PlaceOf
  <1>2. Placed'
    BY DEF PutMeta, IInv, Types, Placed, PlaceOf, Removing
  <1>3. StoreProgress'
    BY DEF PutMeta, IInv, Types, Placed, PlaceOf, StoreProgress, Removing, Untouched, OnDisk
  <1>4. RetrieveProgress'
    BY DEF PutMeta, IInv, Types, Placed, RetrieveProgress
  <1>5. StoredSurvives'
    BY DEF PutMeta, IInv, Types, Placed, StoreProgress, StoredSurvives, Untouched, OnDisk, Removing
  <1>6. \A g \in stored' : Untouched(g)'
    BY DEF PutMeta, IInv, Types, Placed, StoreProgress, Untouched, Removing
  <1>7. QED
    BY <1>1, <1>2, <1>3, <1>4, <1>5, <1>6 DEF IInv

LEMMA PutDataInv ==
  ASSUME IInv, NEW c \in Client, PutData(c), UNCHANGED backend
  PROVE  IInv'
  <1> USE DEF Goto, Leave, End, EndAbsent, Begin, Disturb, Acknowledge, LocalDone, RemovalDone, Kept, Legible,
              files, remote, flow, sets
  <1>1. Types'
    BY DEF PutData, IInv, Types, PC, Removing, Placed, PlaceOf
  <1>2. Placed'
    BY DEF PutData, IInv, Types, Placed, PlaceOf, Removing
  <1>3. StoreProgress'
    BY DEF PutData, IInv, Types, Placed, PlaceOf, StoreProgress, Removing, Untouched, OnDisk
  <1>4. RetrieveProgress'
    BY DEF PutData, IInv, Types, Placed, RetrieveProgress
  <1>5. StoredSurvives'
    BY DEF PutData, IInv, Types, Placed, StoreProgress, StoredSurvives, Untouched, OnDisk, Removing
  <1>6. \A g \in stored' : Untouched(g)'
    BY DEF PutData, IInv, Types, Placed, StoreProgress, Untouched, Removing
  <1>7. QED
    BY <1>1, <1>2, <1>3, <1>4, <1>5, <1>6 DEF IInv

LEMMA PutFailsInv ==
  ASSUME IInv, NEW c \in Client, PutFails(c), UNCHANGED backend
  PROVE  IInv'
  <1> USE DEF Goto, Leave, End, EndAbsent, Begin, Disturb, Acknowledge, LocalDone, RemovalDone, Kept, Legible,
              files, remote, flow, sets
  <1>1. Types'
    BY DEF PutFails, IInv, Types, PC, Removing, Placed, PlaceOf
  <1>2. Placed'
    BY DEF PutFails, IInv, Types, Placed, PlaceOf, Removing
  <1>3. StoreProgress'
    BY DEF PutFails, IInv, Types, Placed, PlaceOf, StoreProgress, Removing, Untouched, OnDisk
  <1>4. RetrieveProgress'
    BY DEF PutFails, IInv, Types, Placed, RetrieveProgress
  <1>5. StoredSurvives'
    BY DEF PutFails, IInv, Types, Placed, StoreProgress, StoredSurvives, Untouched, OnDisk, Removing
  <1>6. \A g \in stored' : Untouched(g)'
    BY DEF PutFails, IInv, Types, Placed, StoreProgress, Untouched, Removing
  <1>7. QED
    BY <1>1, <1>2, <1>3, <1>4, <1>5, <1>6 DEF IInv

LEMMA LookLocalInv ==
  ASSUME IInv, NEW c \in Client, LookLocal(c), UNCHANGED backend
  PROVE  IInv'
  <1> USE DEF Goto, Leave, End, EndAbsent, Begin, Disturb, Acknowledge, LocalDone, RemovalDone, Kept, Legible,
              files, remote, flow, sets
  <1>1. Types'
    BY DEF LookLocal, IInv, Types, PC, Removing
  <1>2. Placed'
    BY DEF LookLocal, IInv, Types, Placed, PlaceOf, Removing
  <1>3. StoreProgress'
    BY DEF LookLocal, IInv, Types, Placed, PlaceOf, StoreProgress, Removing, Untouched, OnDisk
  <1>4. RetrieveProgress'
    BY DEF LookLocal, IInv, Types, Placed, RetrieveProgress
  <1>5. StoredSurvives'
    BY DEF LookLocal, IInv, Types, Placed, StoreProgress, StoredSurvives, Untouched, OnDisk, Removing
  <1>6. \A g \in stored' : Untouched(g)'
    BY DEF LookLocal, IInv, Types, Placed, StoreProgress, Untouched, Removing
  <1>7. QED
    BY <1>1, <1>2, <1>3, <1>4, <1>5, <1>6 DEF IInv

LEMMA LookInv ==
  ASSUME IInv, NEW c \in Client, Look(c), UNCHANGED backend
  PROVE  IInv'
  <1> USE DEF Goto, Leave, End, EndAbsent, Begin, Disturb, Acknowledge, LocalDone, RemovalDone, Kept, Legible,
              files, remote, flow, sets
  <1>1. Types'
    BY DEF Look, IInv, Types, PC, Removing
  <1>2. Placed'
    BY DEF Look, IInv, Types, Placed, PlaceOf, Removing
  <1>3. StoreProgress'
    BY DEF Look, IInv, Types, Placed, PlaceOf, StoreProgress, Removing, Untouched, OnDisk
  <1>4. RetrieveProgress'
    BY DEF Look, IInv, Types, Placed, RetrieveProgress
  <1>5. StoredSurvives'
    BY DEF Look, IInv, Types, Placed, StoreProgress, StoredSurvives, Untouched, OnDisk, Removing
  <1>6. \A g \in stored' : Untouched(g)'
    BY DEF Look, IInv, Types, Placed, StoreProgress, Untouched, Removing
  <1>7. QED
    BY <1>1, <1>2, <1>3, <1>4, <1>5, <1>6 DEF IInv

LEMMA ReadMetaInv ==
  ASSUME IInv, NEW c \in Client, ReadMeta(c), UNCHANGED backend
  PROVE  IInv'
  <1> USE DEF Goto, Leave, End, EndAbsent, Begin, Disturb, Acknowledge, LocalDone, RemovalDone, Kept, Legible,
              files, remote, flow, sets
  <1>1. Types'
    BY DEF ReadMeta, IInv, Types, PC, Removing
  <1>2. Placed'
    BY DEF ReadMeta, IInv, Types, Placed, PlaceOf, Removing
  <1>3. StoreProgress'
    BY DEF ReadMeta, IInv, Types, Placed, PlaceOf, StoreProgress, Removing, Untouched, OnDisk
  <1>4. RetrieveProgress'
    BY DEF ReadMeta, IInv, Types, Placed, RetrieveProgress
  <1>5. StoredSurvives'
    BY DEF ReadMeta, IInv, Types, Placed, StoreProgress, StoredSurvives, Untouched, OnDisk, Removing
  <1>6. \A g \in stored' : Untouched(g)'
    BY DEF ReadMeta, IInv, Types, Placed, StoreProgress, Untouched, Removing
  <1>7. QED
    BY <1>1, <1>2, <1>3, <1>4, <1>5, <1>6 DEF IInv

LEMMA ReadDataInv ==
  ASSUME IInv, NEW c \in Client, ReadData(c), UNCHANGED backend
  PROVE  IInv'
  <1> USE DEF Goto, Leave, End, EndAbsent, Begin, Disturb, Acknowledge, LocalDone, RemovalDone, Kept, Legible,
              files, remote, flow, sets
  <1>1. Types'
    BY DEF ReadData, IInv, Types, PC, Removing
  <1>2. Placed'
    BY DEF ReadData, IInv, Types, Placed, PlaceOf, Removing
  <1>3. StoreProgress'
    BY DEF ReadData, IInv, Types, Placed, PlaceOf, StoreProgress, Removing, Untouched, OnDisk
  <1>4. RetrieveProgress'
    BY DEF ReadData, IInv, Types, Placed, RetrieveProgress
  <1>5. StoredSurvives'
    BY DEF ReadData, IInv, Types, Placed, StoreProgress, StoredSurvives, Untouched, OnDisk, Removing
  <1>6. \A g \in stored' : Untouched(g)'
    BY DEF ReadData, IInv, Types, Placed, StoreProgress, Untouched, Removing
  <1>7. QED
    BY <1>1, <1>2, <1>3, <1>4, <1>5, <1>6 DEF IInv

LEMMA TruncateInv ==
  ASSUME IInv, NEW c \in Client, Truncate(c), UNCHANGED backend
  PROVE  IInv'
  <1> USE DEF Goto, Leave, End, EndAbsent, Begin, Disturb, Acknowledge, LocalDone, RemovalDone, Kept, Legible,
              files, remote, flow, sets
  <1>1. Types'
    BY DEF Truncate, IInv, Types, PC, Removing
  <1>2. Placed'
    BY DEF Truncate, IInv, Types, Placed, PlaceOf, Removing
  <1>3. StoreProgress'
    <2>1. op[c] = "retrieve" /\ arg[c] \in Hash
      BY DEF Truncate, IInv, Types, Placed, PlaceOf, Removing
    <2>2. \A h \in Hash : OnDisk(h) => OnDisk(h)'
      BY <2>1 DEF Truncate, IInv, Types, OnDisk
    <2>3. SUFFICES ASSUME NEW d \in calm, op[d] = "store", d # c
                   PROVE  /\ Untouched(arg[d])'
                          /\ pc[d] \in {"meta", "put_meta", "put_data"} => arg[d] \in data
                          /\ pc[d] \in {"put_meta", "put_data"} => OnDisk(arg[d])'
                          /\ pc[d] = "put_data" => arg[d] \in rmeta
                          /\ backend = "Local" => pc[d] \notin {"put_meta", "put_data"}
      BY <2>1 DEF Truncate, IInv, Types, StoreProgress
    <2>4. Untouched(arg[d])'
      BY <2>1, <2>3 DEF Truncate, IInv, Types, StoreProgress, Untouched, Removing
    <2>5. QED
      BY <2>1, <2>2, <2>3, <2>4 DEF Truncate, IInv, Types, Placed, StoreProgress, OnDisk
  <1>4. RetrieveProgress'
    BY DEF Truncate, IInv, Types, Placed, RetrieveProgress
  <1>5. StoredSurvives'
    BY DEF Truncate, IInv, Types, Placed, StoreProgress, StoredSurvives, Untouched, OnDisk, Removing
  <1>6. \A g \in stored' : Untouched(g)'
    BY DEF Truncate, IInv, Types, Placed, StoreProgress, Untouched, Removing
  <1>7. QED
    BY <1>1, <1>2, <1>3, <1>4, <1>5, <1>6 DEF IInv

LEMMA TruncateFailsInv ==
  ASSUME IInv, NEW c \in Client, TruncateFails(c), UNCHANGED backend
  PROVE  IInv'
  <1> USE DEF Goto, Leave, End, EndAbsent, Begin, Disturb, Acknowledge, LocalDone, RemovalDone, Kept, Legible,
              files, remote, flow, sets
  <1>1. Types'
    BY DEF TruncateFails, IInv, Types, PC, Removing
  <1>2. Placed'
    BY DEF TruncateFails, IInv, Types, Placed, PlaceOf, Removing
  <1>3. StoreProgress'
    BY DEF TruncateFails, IInv, Types, Placed, PlaceOf, StoreProgress, Removing, Untouched, OnDisk
  <1>4. RetrieveProgress'
    BY DEF TruncateFails, IInv, Types, Placed, RetrieveProgress
  <1>5. StoredSurvives'
    BY DEF TruncateFails, IInv, Types, Placed, StoreProgress, StoredSurvives, Untouched, OnDisk, Removing
  <1>6. \A g \in stored' : Untouched(g)'
    BY DEF TruncateFails, IInv, Types, Placed, StoreProgress, Untouched, Removing
  <1>7. QED
    BY <1>1, <1>2, <1>3, <1>4, <1>5, <1>6 DEF IInv

LEMMA RewriteInv ==
  ASSUME IInv, NEW c \in Client, Rewrite(c), UNCHANGED backend
  PROVE  IInv'
  <1> USE DEF Goto, Leave, End, EndAbsent, Begin, Disturb, Acknowledge, LocalDone, RemovalDone, Kept, Legible,
              files, remote, flow, sets
  <1>1. Types'
    BY DEF Rewrite, IInv, Types, PC, Removing
  <1>2. Placed'
    BY DEF Rewrite, IInv, Types, Placed, PlaceOf, Removing
  <1>3. StoreProgress'
    BY DEF Rewrite, IInv, Types, Placed, PlaceOf, StoreProgress, Removing, Untouched, OnDisk
  <1>4. RetrieveProgress'
    BY DEF Rewrite, IInv, Types, Placed, RetrieveProgress
  <1>5. StoredSurvives'
    BY DEF Rewrite, IInv, Types, Placed, StoreProgress, StoredSurvives, Untouched, OnDisk, Removing
  <1>6. \A g \in stored' : Untouched(g)'
    BY DEF Rewrite, IInv, Types, Placed, StoreProgress, Untouched, Removing
  <1>7. QED
    BY <1>1, <1>2, <1>3, <1>4, <1>5, <1>6 DEF IInv

LEMMA RewriteFailsInv ==
  ASSUME IInv, NEW c \in Client, RewriteFails(c), UNCHANGED backend
  PROVE  IInv'
  <1> USE DEF Goto, Leave, End, EndAbsent, Begin, Disturb, Acknowledge, LocalDone, RemovalDone, Kept, Legible,
              files, remote, flow, sets
  <1>1. Types'
    BY DEF RewriteFails, Abandon, IInv, Types, PC, Removing
  <1>2. Placed'
    BY DEF RewriteFails, Abandon, IInv, Types, Placed, PlaceOf, Removing
  <1>3. StoreProgress'
    BY DEF RewriteFails, Abandon, IInv, Types, Placed, PlaceOf, StoreProgress, Removing, Untouched, OnDisk
  <1>4. RetrieveProgress'
    BY DEF RewriteFails, Abandon, IInv, Types, Placed, RetrieveProgress
  <1>5. StoredSurvives'
    BY DEF RewriteFails, Abandon, IInv, Types, Placed, StoreProgress, StoredSurvives, Untouched, OnDisk, Removing
  <1>6. \A g \in stored' : Untouched(g)'
    BY DEF RewriteFails, Abandon, IInv, Types, Placed, StoreProgress, Untouched, Removing
  <1>7. QED
    BY <1>1, <1>2, <1>3, <1>4, <1>5, <1>6 DEF IInv

LEMMA DownloadInv ==
  ASSUME IInv, NEW c \in Client, Download(c), UNCHANGED backend
  PROVE  IInv'
  <1> USE DEF Goto, Leave, End, EndAbsent, Begin, Disturb, Acknowledge, LocalDone, RemovalDone, Kept, Legible,
              files, remote, flow, sets
  <1>1. Types'
    BY DEF Download, IInv, Types, PC, Removing
  <1>2. Placed'
    BY DEF Download, IInv, Types, Placed, PlaceOf, Removing
  <1>3. StoreProgress'
    BY DEF Download, IInv, Types, Placed, PlaceOf, StoreProgress, Removing, Untouched, OnDisk
  <1>4. RetrieveProgress'
    BY DEF Download, IInv, Types, Placed, RetrieveProgress
  <1>5. StoredSurvives'
    BY DEF Download, IInv, Types, Placed, StoreProgress, StoredSurvives, Untouched, OnDisk, Removing
  <1>6. \A g \in stored' : Untouched(g)'
    BY DEF Download, IInv, Types, Placed, StoreProgress, Untouched, Removing
  <1>7. QED
    BY <1>1, <1>2, <1>3, <1>4, <1>5, <1>6 DEF IInv

LEMMA CheckDataInv ==
  ASSUME IInv, NEW c \in Client, CheckData(c), UNCHANGED backend
  PROVE  IInv'
  <1> USE DEF Goto, Leave, End, EndAbsent, Begin, Disturb, Acknowledge, LocalDone, RemovalDone, Kept, Legible,
              files, remote, flow, sets
  <1>1. Types'
    BY DEF CheckData, IInv, Types, PC, Removing
  <1>2. Placed'
    BY DEF CheckData, IInv, Types, Placed, PlaceOf, Removing
  <1>3. StoreProgress'
    BY DEF CheckData, IInv, Types, Placed, PlaceOf, StoreProgress, Removing, Untouched, OnDisk
  <1>4. RetrieveProgress'
    BY DEF CheckData, IInv, Types, Placed, RetrieveProgress
  <1>5. StoredSurvives'
    BY DEF CheckData, IInv, Types, Placed, StoreProgress, StoredSurvives, Untouched, OnDisk, Removing
  <1>6. \A g \in stored' : Untouched(g)'
    BY DEF CheckData, IInv, Types, Placed, StoreProgress, Untouched, Removing
  <1>7. QED
    BY <1>1, <1>2, <1>3, <1>4, <1>5, <1>6 DEF IInv

LEMMA RemoveDataInv ==
  ASSUME IInv, NEW c \in Client, RemoveData(c), UNCHANGED backend
  PROVE  IInv'
  <1> USE DEF Goto, Leave, End, EndAbsent, Begin, Disturb, Acknowledge, LocalDone, RemovalDone, Kept, Legible,
              files, remote, flow, sets
  <1>1. Types'
    BY DEF RemoveData, IInv, Types, PC, Removing
  <1>2. Placed'
    BY DEF RemoveData, IInv, Types, Placed, PlaceOf, Removing
  <1>3. StoreProgress'
    BY DEF RemoveData, IInv, Types, Placed, PlaceOf, StoreProgress, Removing, Untouched, OnDisk
  <1>4. RetrieveProgress'
    BY DEF RemoveData, IInv, Types, Placed, RetrieveProgress
  <1>5. StoredSurvives'
    BY DEF RemoveData, IInv, Types, Placed, StoreProgress, StoredSurvives, Untouched, OnDisk, Removing
  <1>6. \A g \in stored' : Untouched(g)'
    BY DEF RemoveData, IInv, Types, Placed, StoreProgress, Untouched, Removing
  <1>7. QED
    BY <1>1, <1>2, <1>3, <1>4, <1>5, <1>6 DEF IInv

LEMMA CheckMetaInv ==
  ASSUME IInv, NEW c \in Client, CheckMeta(c), UNCHANGED backend
  PROVE  IInv'
  <1> USE DEF Goto, Leave, End, EndAbsent, Begin, Disturb, Acknowledge, LocalDone, RemovalDone, Kept, Legible,
              files, remote, flow, sets
  <1>1. Types'
    BY DEF CheckMeta, IInv, Types, PC, Removing
  <1>2. Placed'
    BY DEF CheckMeta, IInv, Types, Placed, PlaceOf, Removing
  <1>3. StoreProgress'
    BY DEF CheckMeta, IInv, Types, Placed, PlaceOf, StoreProgress, Removing, Untouched, OnDisk
  <1>4. RetrieveProgress'
    BY DEF CheckMeta, IInv, Types, Placed, RetrieveProgress
  <1>5. StoredSurvives'
    BY DEF CheckMeta, IInv, Types, Placed, StoreProgress, StoredSurvives, Untouched, OnDisk, Removing
  <1>6. \A g \in stored' : Untouched(g)'
    BY DEF CheckMeta, IInv, Types, Placed, StoreProgress, Untouched, Removing
  <1>7. QED
    BY <1>1, <1>2, <1>3, <1>4, <1>5, <1>6 DEF IInv

LEMMA RemoveMetaInv ==
  ASSUME IInv, NEW c \in Client, RemoveMeta(c), UNCHANGED backend
  PROVE  IInv'
  <1> USE DEF Goto, Leave, End, EndAbsent, Begin, Disturb, Acknowledge, LocalDone, RemovalDone, Kept, Legible,
              files, remote, flow, sets
  <1>1. Types'
    BY DEF RemoveMeta, IInv, Types, PC, Removing
  <1>2. Placed'
    BY DEF RemoveMeta, IInv, Types, Placed, PlaceOf, Removing
  <1>3. StoreProgress'
    BY DEF RemoveMeta, IInv, Types, Placed, PlaceOf, StoreProgress, Removing, Untouched, OnDisk
  <1>4. RetrieveProgress'
    BY DEF RemoveMeta, IInv, Types, Placed, RetrieveProgress
  <1>5. StoredSurvives'
    BY DEF RemoveMeta, IInv, Types, Placed, StoreProgress, StoredSurvives, Untouched, OnDisk, Removing
  <1>6. \A g \in stored' : Untouched(g)'
    BY DEF RemoveMeta, IInv, Types, Placed, StoreProgress, Untouched, Removing
  <1>7. QED
    BY <1>1, <1>2, <1>3, <1>4, <1>5, <1>6 DEF IInv

LEMMA RemoteDeleteInv ==
  ASSUME IInv, NEW c \in Client, RemoteDelete(c), UNCHANGED backend
  PROVE  IInv'
  <1> USE DEF Goto, Leave, End, EndAbsent, Begin, Disturb, Acknowledge, LocalDone, RemovalDone, Kept, Legible,
              files, remote, flow, sets
  <1>1. Types'
    BY DEF RemoteDelete, IInv, Types, PC, Removing
  <1>2. Placed'
    BY DEF RemoteDelete, IInv, Types, Placed, PlaceOf, Removing
  <1>3. StoreProgress'
    BY DEF RemoteDelete, IInv, Types, Placed, PlaceOf, StoreProgress, Removing, Untouched, OnDisk
  <1>4. RetrieveProgress'
    BY DEF RemoteDelete, IInv, Types, Placed, RetrieveProgress
  <1>5. StoredSurvives'
    BY DEF RemoteDelete, IInv, Types, Placed, StoreProgress, StoredSurvives, Untouched, OnDisk, Removing
  <1>6. \A g \in stored' : Untouched(g)'
    BY DEF RemoteDelete, IInv, Types, Placed, StoreProgress, Untouched, Removing
  <1>7. QED
    BY <1>1, <1>2, <1>3, <1>4, <1>5, <1>6 DEF IInv

LEMMA PlanInv ==
  ASSUME IInv, NEW c \in Client, Plan(c), UNCHANGED backend
  PROVE  IInv'
  <1> USE DEF Goto, Leave, End, EndAbsent, Begin, Disturb, Acknowledge, LocalDone, RemovalDone, Kept, Legible,
              files, remote, flow, sets
  <1>1. Types'
    BY DEF Plan, IInv, Types, PC, Removing
  <1>2. Placed'
    BY DEF Plan, IInv, Types, Placed, PlaceOf, Removing
  <1>3. StoreProgress'
    BY DEF Plan, IInv, Types, Placed, PlaceOf, StoreProgress, Removing, Untouched, OnDisk
  <1>4. RetrieveProgress'
    BY DEF Plan, IInv, Types, Placed, RetrieveProgress
  <1>5. StoredSurvives'
    BY DEF Plan, IInv, Types, Placed, StoreProgress, StoredSurvives, Untouched, OnDisk, Removing
  <1>6. \A g \in stored' : Untouched(g)'
    BY DEF Plan, IInv, Types, Placed, StoreProgress, Untouched, Removing
  <1>7. QED
    BY <1>1, <1>2, <1>3, <1>4, <1>5, <1>6 DEF IInv

LEMMA RemoveNextInv ==
  ASSUME IInv, NEW c \in Client, RemoveNext(c), UNCHANGED backend
  PROVE  IInv'
  <1> USE DEF Goto, Leave, End, EndAbsent, Begin, Disturb, Acknowledge, LocalDone, RemovalDone, Kept, Legible,
              files, remote, flow, sets
  <1>1. Types'
    BY DEF RemoveNext, IInv, Types, PC, Removing
  <1>2. Placed'
    BY DEF RemoveNext, IInv, Types, Placed, PlaceOf, Removing
  <1>3. StoreProgress'
    BY DEF RemoveNext, IInv, Types, Placed, PlaceOf, StoreProgress, Removing, Untouched, OnDisk
  <1>4. RetrieveProgress'
    BY DEF RemoveNext, IInv, Types, Placed, PlaceOf, RetrieveProgress
  <1>5. StoredSurvives'
    BY DEF RemoveNext, IInv, Types, Placed, StoreProgress, StoredSurvives, Untouched, OnDisk, Removing
  <1>6. \A g \in stored' : Untouched(g)'
    BY DEF RemoveNext, IInv, Types, Placed, StoreProgress, Untouched, Removing
  <1>7. QED
    BY <1>1, <1>2, <1>3, <1>4, <1>5, <1>6 DEF IInv

LEMMA CrashInv ==
  ASSUME IInv, NEW c \in Client, Crash(c), UNCHANGED backend
  PROVE  IInv'
  <1> USE DEF Goto, Leave, End, EndAbsent, Begin, Disturb, Acknowledge, LocalDone, RemovalDone, Kept, Legible,
              files, remote, flow, sets
  <1>1. Types'
    BY DEF Crash, Abandon, IInv, Types, PC, Removing
  <1>2. Placed'
    BY DEF Crash, Abandon, IInv, Types, Placed, PlaceOf, Removing
  <1>3. StoreProgress'
    BY DEF Crash, Abandon, IInv, Types, Placed, PlaceOf, StoreProgress, Removing, Untouched, OnDisk
  <1>4. RetrieveProgress'
    BY DEF Crash, Abandon, IInv, Types, Placed, RetrieveProgress
  <1>5. StoredSurvives'
    BY DEF Crash, Abandon, IInv, Types, Placed, StoreProgress, StoredSurvives, Untouched, OnDisk, Removing
  <1>6. \A g \in stored' : Untouched(g)'
    BY DEF Crash, Abandon, IInv, Types, Placed, StoreProgress, Untouched, Removing
  <1>7. QED
    BY <1>1, <1>2, <1>3, <1>4, <1>5, <1>6 DEF IInv

LEMMA CleanupInv ==
  ASSUME IInv, NEW c \in Client, Cleanup(c), UNCHANGED backend
  PROVE  IInv'
  <1> USE DEF Goto, Leave, End, EndAbsent, Begin, Disturb, Acknowledge, LocalDone, RemovalDone, Kept, Legible,
              files, remote, flow, sets
  <1>1. Types'
    BY DEF Cleanup, IInv, Types, PC, Removing
  <1>2. Placed'
    BY DEF Cleanup, IInv, Types, Placed, PlaceOf, Removing
  <1>3. StoreProgress'
    BY DEF Cleanup, IInv, Types, Placed, PlaceOf, StoreProgress, Removing, Untouched, OnDisk
  <1>4. RetrieveProgress'
    BY DEF Cleanup, IInv, Types, Placed, RetrieveProgress
  <1>5. StoredSurvives'
    BY DEF Cleanup, IInv, Types, Placed, StoreProgress, StoredSurvives, Untouched, OnDisk, Removing
  <1>6. \A g \in stored' : Untouched(g)'
    BY DEF Cleanup, IInv, Types, Placed, StoreProgress, Untouched, Removing
  <1>7. QED
    BY <1>1, <1>2, <1>3, <1>4, <1>5, <1>6 DEF IInv

LEMMA StoreInv ==
  ASSUME IInv, NEW c \in Client, NEW h \in Hash, Store(c, h), UNCHANGED backend
  PROVE  IInv'
  <1> USE DEF Goto, Leave, End, EndAbsent, Begin, Disturb, Acknowledge, LocalDone, RemovalDone, Kept, Legible,
              files, remote, flow, sets
  <1>1. Types'
    BY DEF Store, IInv, Types, PC, Removing
  <1>2. Placed'
    BY DEF Store, IInv, Types, Placed, PlaceOf, Removing
  <1>3. StoreProgress'
    <2>1. /\ pc' = [pc EXCEPT ![c] = "quota"] /\ op' = [op EXCEPT ![c] = "store"]
          /\ arg' = [arg EXCEPT ![c] = h] /\ pc[c] = "idle" /\ calm' \subseteq calm \cup {c}
          /\ UNCHANGED <<files, remote, backend>>
      BY DEF Store
    <2>2. ASSUME NEW d \in calm', d = c PROVE Untouched(h)'
      <3>1. c \notin calm
        BY <2>1 DEF IInv, Types, Placed, PlaceOf, Removing
      <3>2. \A e \in Client : pc[e] \in Removing => arg[e] # h
        BY <2>2, <3>1 DEF Store
      <3>3. QED
        BY <2>1, <3>2 DEF IInv, Types, Untouched, Removing
    <2>3. ASSUME NEW d \in calm', d # c
          PROVE  d \in calm /\ pc'[d] = pc[d] /\ op'[d] = op[d] /\ arg'[d] = arg[d]
                 /\ (Untouched(arg[d]) => Untouched(arg[d])')
      BY <2>1, <2>3 DEF IInv, Types, Untouched, Removing
    <2>4. SUFFICES ASSUME NEW d \in calm', op'[d] = "store"
                   PROVE  /\ Untouched(arg[d])'
                          /\ pc'[d] \in {"meta", "put_meta", "put_data"} => arg'[d] \in data
                          /\ pc'[d] \in {"put_meta", "put_data"} => OnDisk(arg[d])'
                          /\ pc'[d] = "put_data" => arg'[d] \in rmeta
                          /\ backend = "Local" => pc'[d] \notin {"put_meta", "put_data"}
      BY <2>1 DEF StoreProgress
    <2>5. CASE d = c
      BY <2>1, <2>2, <2>5 DEF IInv, Types, Untouched
    <2>6. CASE d # c
      BY <2>1, <2>3, <2>4, <2>6 DEF IInv, Types, StoreProgress, OnDisk, Untouched
    <2>7. QED
      BY <2>5, <2>6
  <1>4. RetrieveProgress'
    BY DEF Store, IInv, Types, Placed, RetrieveProgress
  <1>5. StoredSurvives'
    BY DEF Store, IInv, Types, Placed, StoreProgress, StoredSurvives, Untouched, OnDisk, Removing
  <1>6. \A g \in stored' : Untouched(g)'
    BY DEF Store, IInv, Types, Placed, StoreProgress, Untouched, Removing
  <1>7. QED
    BY <1>1, <1>2, <1>3, <1>4, <1>5, <1>6 DEF IInv

LEMMA RetrieveInv ==
  ASSUME IInv, NEW c \in Client, NEW h \in Hash, Retrieve(c, h), UNCHANGED backend
  PROVE  IInv'
  <1> USE DEF Goto, Leave, End, EndAbsent, Begin, Disturb, Acknowledge, LocalDone, RemovalDone, Kept, Legible,
              files, remote, flow, sets
  <1>1. Types'
    BY DEF Retrieve, IInv, Types, PC, Removing
  <1>2. Placed'
    BY DEF Retrieve, IInv, Types, Placed, PlaceOf, Removing
  <1>3. StoreProgress'
    BY DEF Retrieve, IInv, Types, Placed, PlaceOf, StoreProgress, Removing, Untouched, OnDisk
  <1>4. RetrieveProgress'
    BY DEF Retrieve, IInv, Types, Placed, PlaceOf, RetrieveProgress
  <1>5. StoredSurvives'
    BY DEF Retrieve, IInv, Types, Placed, StoreProgress, StoredSurvives, Untouched, OnDisk, Removing
  <1>6. \A g \in stored' : Untouched(g)'
    BY DEF Retrieve, IInv, Types, Placed, StoreProgress, Untouched, Removing
  <1>7. QED
    BY <1>1, <1>2, <1>3, <1>4, <1>5, <1>6 DEF IInv

LEMMA DeleteInv ==
  ASSUME IInv, NEW c \in Client, NEW h \in Hash, Delete(c, h), UNCHANGED backend
  PROVE  IInv'
  <1> USE DEF Goto, Leave, End, EndAbsent, Begin, Disturb, Acknowledge, LocalDone, RemovalDone, Kept, Legible,
              files, remote, flow, sets
  <1>1. Types'
    BY DEF Delete, IInv, Types, PC, Removing
  <1>2. Placed'
    BY DEF Delete, IInv, Types, Placed, PlaceOf, Removing
  <1>3. StoreProgress'
    BY DEF Delete, IInv, Types, Placed, PlaceOf, StoreProgress, Removing, Untouched, OnDisk
  <1>4. RetrieveProgress'
    BY DEF Delete, IInv, Types, Placed, RetrieveProgress
  <1>5. StoredSurvives'
    BY DEF Delete, IInv, Types, Placed, StoreProgress, StoredSurvives, Untouched, OnDisk, Removing
  <1>6. \A g \in stored' : Untouched(g)'
    BY DEF Delete, IInv, Types, Placed, StoreProgress, Untouched, Removing
  <1>7. QED
    BY <1>1, <1>2, <1>3, <1>4, <1>5, <1>6 DEF IInv

-----------------------------------------------------------------------------
LEMMA NextInv == IInv /\ [Next]_vars => IInv'
  <1> SUFFICES ASSUME IInv, [Next]_vars PROVE IInv'
    OBVIOUS
  <1>1. ASSUME NEW c \in Client, ClientStep(c), UNCHANGED backend PROVE IInv'
    <2>1. CASE \E h \in Hash : Store(c, h) \/ Retrieve(c, h) \/ Delete(c, h)
      BY <1>1, <2>1, StoreInv, RetrieveInv, DeleteInv
    <2>2. CASE Cleanup(c) \/ Plan(c) \/ RemoveNext(c) \/ Crash(c)
      BY <1>1, <2>2, CleanupInv, PlanInv, RemoveNextInv, CrashInv
    <2>3. CASE Count(c) \/ CheckQuota(c) \/ RenameData(c) \/ RenameMeta(c) \/ WriteFails(c)
      BY <1>1, <2>3, CountInv, CheckQuotaInv, RenameDataInv, RenameMetaInv, WriteFailsInv
    <2>4. CASE PutMeta(c) \/ PutData(c) \/ PutFails(c)
      BY <1>1, <2>4, PutMetaInv, PutDataInv, PutFailsInv
    <2>5. CASE LookLocal(c) \/ Look(c) \/ ReadMeta(c) \/ ReadData(c) \/ Download(c)
      BY <1>1, <2>5, LookLocalInv, LookInv, ReadMetaInv, ReadDataInv, DownloadInv
    <2>6. CASE Truncate(c) \/ TruncateFails(c) \/ Rewrite(c) \/ RewriteFails(c)
      BY <1>1, <2>6, TruncateInv, TruncateFailsInv, RewriteInv, RewriteFailsInv
    <2>7. CASE CheckData(c) \/ RemoveData(c) \/ CheckMeta(c) \/ RemoveMeta(c) \/ RemoteDelete(c)
      BY <1>1, <2>7, CheckDataInv, RemoveDataInv, CheckMetaInv, RemoveMetaInv, RemoteDeleteInv
    <2>8. QED
      BY <1>1, <2>1, <2>2, <2>3, <2>4, <2>5, <2>6, <2>7 DEF ClientStep
  <1>2. CASE UNCHANGED vars
    BY <1>2 DEF vars, files, remote, flow, sets, IInv, Types, Placed, StoreProgress, RetrieveProgress,
       StoredSurvives, Untouched, OnDisk, Kept, Legible
  <1>3. QED
    BY <1>1, <1>2 DEF Next

(* A client is told that an object is not there by one of three looks: at  *)
(* the two local files, and, in front of a remote, at its metadata and at  *)
(* its data.  A calm retrieve finds what StoredSurvives says is there.     *)
LEMMA AbsenceStep ==
  ASSUME IInv, [Next]_vars
  PROVE  \A c \in absent' \ absent : c \notin calm
  <1> SUFFICES ASSUME NEW c \in absent' \ absent, c \in calm PROVE FALSE
    OBVIOUS
  <1>1. PICK d \in Client : ClientStep(d)
    BY DEF Next, vars, flow
  <1>2. absent' \ absent = {} \/ (absent' = absent \cup {d} /\ (Look(d) \/ Download(d)))
    BY <1>1 DEF ClientStep, Store, Retrieve, Delete, Cleanup, Plan, RemoveNext, Crash, Count, CheckQuota,
       RenameData, RenameMeta, WriteFails, PutMeta, PutData, PutFails, LookLocal, Look, ReadMeta,
       ReadData, Truncate, TruncateFails, Rewrite, RewriteFails, Abandon, Download, CheckData, RemoveData, CheckMeta, RemoveMeta,
       RemoteDelete, Begin, Goto, Leave, End, EndAbsent, Acknowledge, LocalDone, RemovalDone, flow
  <1>3. c = d
    BY <1>2
  <1>4. op[c] = "retrieve"
    BY <1>2, <1>3 DEF IInv, Types, Placed, PlaceOf, Look, Download, Removing
  <1>5. arg[c] \in stored
    BY <1>4 DEF IInv, RetrieveProgress
  <1>6. Exists(arg[c]) /\ (backend = "Hybrid" => arg[c] \in rdata /\ arg[c] \in rmeta)
    BY <1>5 DEF IInv, StoredSurvives, Kept, Exists
  <1>7. CASE Look(c)
    BY <1>6, <1>7 DEF Look, Goto
  <1>8. CASE Download(c)
    <2>1. backend = "Hybrid"
      BY <1>3, <1>8 DEF Download, IInv, Placed
    <2>2. QED
      BY <1>6, <1>8, <2>1 DEF Download, Goto, End
  <1>9. QED
    BY <1>2, <1>3, <1>7, <1>8

-----------------------------------------------------------------------------
(* The invariant of CasStorage and its backends, whatever fails.           *)
THEOREM Invariant == Spec => []IInv
  <1>1. QED
    BY InitInv, NextInv, PTL DEF Spec

(* LocalCasBackend::store and upload leave an object with all its files,   *)
(* nothing but a removal of it ever takes one of them, and its metadata    *)
(* are illegible only after a rewrite by retrieve that was cut short.      *)
THEOREM AcknowledgedSurvives == Spec => []StoredSurvives
  <1>1. IInv => StoredSurvives
    BY DEF IInv
  <1>2. QED
    BY <1>1, Invariant, PTL

(* Where no write fails and nobody is killed, the metadata of such an      *)
(* object can be read as well, but for the moment a reader rewrites them.  *)
Unfailing == ~Faults /\ ~Crashes
StoredIsReadable == \A h \in stored : Kept(h) /\ Legible(h)

THEOREM AcknowledgedIsReadable == Spec /\ Unfailing => []StoredIsReadable
<1> DEFINE Whole == Unfailing /\ torn = {}
<1>1. Init /\ Unfailing => Whole
  BY DEF Init
<1>2. Whole /\ [Next]_vars => Whole'
  BY DEF Unfailing, Next, vars, files, remote, flow, sets, ClientStep, Store, Retrieve, Delete, Cleanup, Plan,
     RemoveNext, Crash, Count, CheckQuota, RenameData, RenameMeta, WriteFails, PutMeta, PutData,
     PutFails, LookLocal, Look, ReadMeta, ReadData, Truncate, TruncateFails, Rewrite, RewriteFails,
     Download, CheckData, RemoveData, CheckMeta, RemoveMeta, RemoteDelete, Begin
<1>3. StoredSurvives /\ Whole => StoredIsReadable
  BY DEF StoredSurvives, StoredIsReadable
<1>4. QED
  BY <1>1, <1>2, <1>3, AcknowledgedSurvives, PTL DEF Spec

(* retrieve never answers ArtifactNotFound for such an object, though its  *)
(* files are looked at one by one and rewritten by other readers.          *)
THEOREM NeverDenied == Spec => NoFalseAbsence
  <1>1. IInv /\ [Next]_vars => [\A c \in absent' \ absent : c \notin calm]_vars
    BY AbsenceStep
  <1>2. QED
    BY <1>1, Invariant, PTL DEF Spec, NoFalseAbsence

-----------------------------------------------------------------------------
(* What a client has in hand between two operations: nothing.  Lists are   *)
(* kept by those that count or clean up, and a file open for writing by    *)
(* the reader that rewrites it.                                            *)
Tidy ==
  \A c \in Client :
    /\ pc[c] \notin {"quota", "plan"} => todo[c] = {}
    /\ pc[c] \notin {"quota", "plan"} /\ op[c] # "cleanup" => found[c] = {}
    /\ \A h \in Hash : c \in writers[h] => pc[c] = "rewrite" /\ arg[c] = h

LEMMA TidyStep ==
  ASSUME IInv, Tidy, [Next]_vars
  PROVE  Tidy'
  <1> USE DEF IInv, Types, Placed, PlaceOf, Removing, Tidy, files, remote, flow, sets
  <1> USE DEF Goto, Leave, End, EndAbsent, Begin, Acknowledge, LocalDone, RemovalDone
  <1>1. ASSUME NEW c \in Client, NEW h \in Hash, Store(c, h) \/ Retrieve(c, h) \/ Delete(c, h) PROVE Tidy'
    BY <1>1 DEF Store, Retrieve, Delete
  <1>2. ASSUME NEW c \in Client, Cleanup(c) \/ Plan(c) \/ RemoveNext(c) PROVE Tidy'
    BY <1>2 DEF Cleanup, Plan, RemoveNext
  <1>3. ASSUME NEW c \in Client, Count(c) \/ CheckQuota(c) PROVE Tidy'
    BY <1>3 DEF Count, CheckQuota
  <1>4. ASSUME NEW c \in Client, RenameData(c) \/ RenameMeta(c) \/ WriteFails(c) PROVE Tidy'
    BY <1>4 DEF RenameData, RenameMeta, WriteFails
  <1>5. ASSUME NEW c \in Client, PutMeta(c) \/ PutData(c) \/ PutFails(c) PROVE Tidy'
    BY <1>5 DEF PutMeta, PutData, PutFails
  <1>6. ASSUME NEW c \in Client, LookLocal(c) \/ Look(c) \/ ReadMeta(c) \/ ReadData(c) \/ Download(c)
        PROVE  Tidy'
    BY <1>6 DEF LookLocal, Look, ReadMeta, ReadData, Download
  <1>7. ASSUME NEW c \in Client, Truncate(c) \/ Rewrite(c) PROVE Tidy'
    <2>1. /\ op[c] = "retrieve" /\ arg[c] \in Hash /\ todo' = todo /\ found' = found
          /\ \A d \in Client \ {c} : pc'[d] = pc[d] /\ op'[d] = op[d] /\ arg'[d] = arg[d]
          /\ todo[c] = {} /\ found[c] = {}
      <3>1. pc[c] \in {"truncate", "rewrite"}
        BY <1>7 DEF Truncate, Rewrite
      <3>2. op[c] = "retrieve" /\ arg[c] \in Hash /\ todo[c] = {} /\ found[c] = {}
        BY <3>1
      <3>3. /\ todo' = todo /\ found' = found
            /\ \A d \in Client \ {c} : pc'[d] = pc[d] /\ op'[d] = op[d] /\ arg'[d] = arg[d]
        BY <1>7 DEF Truncate, Rewrite
      <3>4. QED
        BY <3>2, <3>3
    <2>2. \A d \in Client \ {c}, h \in Hash : d \in writers'[h] => d \in writers[h]
      BY <1>7, <2>1 DEF Truncate, Rewrite
    <2>3. \A h \in Hash : c \in writers'[h] => pc'[c] = "rewrite" /\ arg'[c] = h
      <3>1. CASE Truncate(c)
        <4>1. pc'[c] = "rewrite" /\ arg'[c] = arg[c] /\ pc[c] = "truncate"
          BY <3>1 DEF Truncate
        <4>2. \A h \in Hash : c \in writers'[h] => h = arg[c]
          BY <2>1, <3>1, <4>1 DEF Truncate
        <4>3. QED
          BY <4>1, <4>2
      <3>2. CASE Rewrite(c)
        <4>1. \A h \in Hash : c \in writers[h] => h = arg[c]
          BY <3>2
        <4>2. CASE c \in writers[arg[c]]
          <5>1. writers' = [writers EXCEPT ![arg[c]] = writers[arg[c]] \ {c}]
            BY <3>2, <4>2 DEF Rewrite
          <5>2. QED
            BY <2>1, <4>1, <5>1
        <4>3. CASE c \notin writers[arg[c]]
          BY <3>2, <4>1, <4>3 DEF Rewrite
        <4>4. QED
          BY <4>2, <4>3
      <3>3. QED
        BY <1>7, <3>1, <3>2
    <2>4. QED
      <3>1. \A d \in Client \ {c} : /\ todo'[d] = todo[d] /\ found'[d] = found[d]
                                   /\ pc'[d] = pc[d] /\ op'[d] = op[d] /\ arg'[d] = arg[d]
        BY <2>1
      <3>2. todo'[c] = {} /\ found'[c] = {}
        BY <2>1
      <3>3. QED
        BY <2>2, <2>3, <3>1, <3>2
  <1>8. ASSUME NEW c \in Client, TruncateFails(c) \/ RewriteFails(c) PROVE Tidy'
    BY <1>8 DEF TruncateFails, RewriteFails, Abandon
  <1>9. ASSUME NEW c \in Client, CheckData(c) \/ CheckMeta(c) \/ RemoteDelete(c) PROVE Tidy'
    BY <1>9 DEF CheckData, CheckMeta, RemoteDelete
  <1>10. ASSUME NEW c \in Client, RemoveData(c) \/ RemoveMeta(c) PROVE Tidy'
    BY <1>10 DEF RemoveData, RemoveMeta
  <1>11. ASSUME NEW c \in Client, Crash(c) PROVE Tidy'
    BY <1>11 DEF Crash, Abandon
  <1>12. CASE UNCHANGED vars
    BY <1>12 DEF vars
  <1>13. QED
    BY <1>1, <1>2, <1>3, <1>4, <1>5, <1>6, <1>7, <1>8, <1>9, <1>10, <1>11, <1>12
       DEF Next, ClientStep

(* Every variable keeps its type, and an operation that ends, however it   *)
(* ends, leaves no list and no open file behind.                           *)
THEOREM TypeCorrect == Spec => []TypeOK
  <1>1. Init => Tidy
    BY DEF Init, Tidy
  <1>2. IInv /\ Tidy => TypeOK
    BY DEF IInv, Tidy, Types, Placed, PlaceOf, Removing, TypeOK
  <1>3. QED
    BY <1>1, <1>2, TidyStep, Invariant, PTL DEF Spec
=============================================================================
