------------------------------ MODULE FileCache -----------------------------
(***************************************************************************)
(* fish-cache: FileLevelCache and FileDependencyGraph (file_level.rs) as   *)
(* FileLevelCacheAdapter uses them (file_level_adapter.rs).  The maps are  *)
(* concurrent: each insert, remove and lookup is a step, and the threads   *)
(* interleave between them.  The forward map of the dependency graph is    *)
(* written and never read; it is left out.                                 *)
(***************************************************************************)
EXTENDS Integers, FiniteSets, Sequences, SequencesExt

CONSTANTS
  File, NoFile,
  Artifact, NoHash,   \* artifacts, by their hash
  Directory,          \* the files below the directory that is invalidated
  TaskLists,          \* the lists of files that are registered for the task
  Indexer,            \* the threads
  MaxDeps             \* bound on the dependencies

ASSUME TaskListsAssumption == \A files \in TaskLists : files \in Seq(File)

ASSUME HashAssumption == Artifact \cap {NoHash, "idle", "pop", "expand"} = {}

VARIABLES
  file_artifacts,  \* the hash of each file, or NoHash
  cas_storage,     \* the hashes stored
  file_dependents, \* reverse_dependencies: <<file, a file that depends on it>>
  task_files,      \* the files of the one task of the adapter, in order
  ipc,             \* where each thread is
  subject,         \* the file it caches, or whose dependents it looks up
  queue, visited,  \* of the walk of invalidate_with_dependents
  roots,           \* the files of the task it has still to begin with
  owed             \* history: files that its walk has to invalidate

fileVars == <<file_artifacts, cas_storage, file_dependents, task_files, ipc, subject, queue, visited, roots, owed>>
walk == <<queue, visited, roots>>

FileInit ==
  /\ file_artifacts = [f \in File |-> NoHash] /\ cas_storage = {} /\ file_dependents = {}
  /\ task_files = <<>>
  /\ ipc = [c \in Indexer |-> "idle"] /\ subject = [c \in Indexer |-> NoFile]
  /\ queue = [c \in Indexer |-> {}] /\ visited = [c \in Indexer |-> {}]
  /\ roots = [c \in Indexer |-> <<>>] /\ owed = [c \in Indexer |-> {}]

is_file_cached(f) == file_artifacts[f] # NoHash

(* What depends on the files of S, by way of others or not, and S: what    *)
(* every set with the files of S and the dependents of its members has.    *)
DependentsClosed(T, edges) == \A e \in edges : e[1] \in T => e[2] \in T

Affected(S) ==
  {f \in File : \A T \in SUBSET File : S \subseteq T /\ DependentsClosed(T, file_dependents) => f \in T}

(* cache_file: the artifact, then the file that has it.  A file cached     *)
(* again is not owed any more.                                             *)
CacheFile(c, f, h) ==
  /\ ipc[c] = "idle"
  /\ cas_storage' = cas_storage \cup {h}
  /\ ipc' = [ipc EXCEPT ![c] = h] /\ subject' = [subject EXCEPT ![c] = f]
  /\ UNCHANGED <<file_artifacts, file_dependents, task_files, walk, owed>>

MapFile(c) ==
  /\ ipc[c] \in Artifact
  /\ file_artifacts' = [file_artifacts EXCEPT ![subject[c]] = ipc[c]]
  /\ owed' = [d \in Indexer |-> owed[d] \ {subject[c]}]
  /\ ipc' = [ipc EXCEPT ![c] = "idle"] /\ subject' = [subject EXCEPT ![c] = NoFile]
  /\ UNCHANGED <<cas_storage, file_dependents, task_files, walk>>

AddFileDependency(c) ==
  /\ ipc[c] = "idle" /\ Cardinality(file_dependents) < MaxDeps
  /\ \E f, on \in File : file_dependents' = file_dependents \cup {<<on, f>>}
  /\ UNCHANGED <<file_artifacts, cas_storage, task_files, ipc, subject, walk, owed>>

InvalidateDirectory(c) ==
  /\ ipc[c] = "idle"
  /\ file_artifacts' = [f \in File |-> IF f \in Directory THEN NoHash ELSE file_artifacts[f]]
  /\ UNCHANGED <<cas_storage, file_dependents, task_files, ipc, subject, walk, owed>>

-----------------------------------------------------------------------------
(* The lock of task_files is held by invalidate_task_files to its end. *)
RegisterTaskFiles(c) ==
  /\ ipc[c] = "idle" /\ \A d \in Indexer : ipc[d] \notin {"pop", "expand"}
  /\ \E files \in TaskLists : task_files' = files
  /\ UNCHANGED <<file_artifacts, cas_storage, file_dependents, ipc, subject, walk, owed>>

InvalidateTaskFiles(c) ==
  /\ ipc[c] = "idle" /\ task_files # <<>>
  /\ roots' = [roots EXCEPT ![c] = task_files]
  /\ owed' = [owed EXCEPT ![c] = Affected(ToSet(task_files))]
  /\ ipc' = [ipc EXCEPT ![c] = "pop"]
  /\ UNCHANGED <<file_artifacts, cas_storage, file_dependents, task_files, subject, queue, visited>>

(* One file off the stack, any one here. *)
PopFile(c) ==
  /\ ipc[c] = "pop"
  /\ \E f \in queue[c] :
       /\ queue' = [queue EXCEPT ![c] = @ \ {f}]
       /\ IF f \in visited[c]
          THEN UNCHANGED <<file_artifacts, visited, ipc, subject>>
          ELSE /\ visited' = [visited EXCEPT ![c] = @ \cup {f}]
               /\ file_artifacts' = [file_artifacts EXCEPT ![f] = NoHash]
               /\ ipc' = [ipc EXCEPT ![c] = "expand"] /\ subject' = [subject EXCEPT ![c] = f]
  /\ UNCHANGED <<cas_storage, file_dependents, task_files, roots, owed>>

\* Slip: only the dependents of the files of the task are looked up.
GetDependents_Direct(c) ==
  /\ ipc[c] = "expand"
  /\ LET found == {e[2] : e \in {d \in file_dependents : d[1] = subject[c] /\ d[1] \in ToSet(task_files)}}
     IN  queue' = [queue EXCEPT ![c] = @ \cup (found \ visited[c])]
  /\ ipc' = [ipc EXCEPT ![c] = "pop"] /\ subject' = [subject EXCEPT ![c] = NoFile]
  /\ UNCHANGED <<file_artifacts, cas_storage, file_dependents, task_files, visited, roots, owed>>

GetDependents(c) ==
  /\ ipc[c] = "expand"
  /\ LET found == {e[2] : e \in {d \in file_dependents : d[1] = subject[c]}}
     IN  queue' = [queue EXCEPT ![c] = @ \cup (found \ visited[c])]
  /\ ipc' = [ipc EXCEPT ![c] = "pop"] /\ subject' = [subject EXCEPT ![c] = NoFile]
  /\ UNCHANGED <<file_artifacts, cas_storage, file_dependents, task_files, visited, roots, owed>>

(* The next file of the task has a walk of its own. *)
NextRoot(c) ==
  /\ ipc[c] = "pop" /\ queue[c] = {} /\ roots[c] # <<>>
  /\ queue' = [queue EXCEPT ![c] = {Head(roots[c])}] /\ visited' = [visited EXCEPT ![c] = {}]
  /\ roots' = [roots EXCEPT ![c] = Tail(@)]
  /\ UNCHANGED <<file_artifacts, cas_storage, file_dependents, task_files, ipc, subject, owed>>

WalkDone(c) ==
  /\ ipc[c] = "pop" /\ queue[c] = {} /\ roots[c] = <<>>
  /\ visited' = [visited EXCEPT ![c] = {}] /\ owed' = [owed EXCEPT ![c] = {}]
  /\ ipc' = [ipc EXCEPT ![c] = "idle"]
  /\ UNCHANGED <<file_artifacts, cas_storage, file_dependents, task_files, subject, queue, roots>>

FileNext ==
  \E c \in Indexer :
    \/ \E f \in File, h \in Artifact : CacheFile(c, f, h)
    \/ MapFile(c) \/ AddFileDependency(c) \/ InvalidateDirectory(c)
    \/ RegisterTaskFiles(c) \/ InvalidateTaskFiles(c)
    \/ PopFile(c) \/ GetDependents(c) \/ NextRoot(c) \/ WalkDone(c)

FileSpec == FileInit /\ [][FileNext]_fileVars

-----------------------------------------------------------------------------
(* get_file_artifact finds the artifact of every file that is mapped, at   *)
(* any moment of another thread's cache_file.                              *)
MappedIsStored == \A f \in File : is_file_cached(f) => file_artifacts[f] \in cas_storage

(* When invalidate_task_files is about to return, no file of the task and  *)
(* none that depended on one when it began is cached, unless it was cached *)
(* again meanwhile, however other threads add dependencies and cache files.*)
InvalidationReachesDependents ==
  \A c \in Indexer :
    ipc[c] = "pop" /\ queue[c] = {} /\ roots[c] = <<>> => \A f \in owed[c] : ~is_file_cached(f)

(* The maps of the cache and of the dependency graph, between any two      *)
(* steps of cache_file and invalidate_with_dependents.                     *)
FileCacheIsSound == MappedIsStored /\ InvalidationReachesDependents
=============================================================================
