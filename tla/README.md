# Fish, specified

TLA+ models of the build orchestrator Fish (the Rust crates under
`src/crates`, the Go services under `src/go`), the TLC configurations that
check them on small instances, and TLAPS proofs of what matters most for every
instance. File names below are relative to `src/`.

## 1. The system

A build goes like this. A language backend turns a project into a graph of
tasks (`BuildGraph<Task>`). `fish-cli/src/build.rs` opens the local cache and
stacks executors: the process that runs commands (or a sandbox, or a cluster of
workers), the middleware, and on top the cache, local or composite. A scheduler
then walks the graph and calls that stack from a pool of threads.

| Part | State | Operations | Hard because |
|---|---|---|---|
| Build graph, `fish-graph/src/graph.rs`, `dynamic.rs` | dependencies, `TaskState` of each node | `ready_nodes`, `set_state`, `mark_failed`, `reset_states`, `validate`; construction, merging, expansion | the cascade of a failure meets tasks in every state; an edge may close a cycle over all edges before it |
| Lock-free graph, `fish-graph/src/lockless.rs` | dependencies and reverse edges by name | `insert_node`, critical path | a name may be inserted again with other dependencies |
| Scheduler, `fish-scheduler/src/lib.rs` | ready list, in-flight count, free slots, two channels, threads | `run` | list made completions ago, throttle, panics, counters |
| Work-stealing scheduler, `work_stealing.rs` | in-flight count, two channels, threads | `run`, `apply_outcome` | ends on a count alone; dispatches without limit |
| Racing executor, `racing.rs` | flag, channel of two | `execute_race` | first answer wins, even an error |
| Watcher and watch mode, `watcher.rs`, `fish-cli/src/watch.rs` | set of changed files, channel of events | `take_invalidated_targets`, `mark_clean`, `run_watch` | edits during a build, during the debounce, during a copy of the set |
| Executors, `fish-executor` | child processes, pipes and their readers | `execute`, timeouts, `kill_process_tree` | a walk of `/proc` through a tree that changes |
| Local cache, `fish-cache/src/lib.rs` | record and object files, memory of each process | `matches`, `put_with_artifact`, `put_object`, `prune` | no locks between processes; failures swallowed |
| Cache eviction, `fish-cache/src/gc.rs` | files, watermarks | `scan_and_evict` | others work in the directory |
| File-level cache, `file_level.rs` | files, artifacts, dependents | `cache_file`, `invalidate_with_dependents` | maps locked one access at a time |
| Tiered cache, `strategies.rs` | three LRU caches | `get`, `put`, `invalidate` | promotions and demotions between three locks |
| Content store, `fish-cas` | data files, metadata files, a remote, quota | store, retrieve, delete, cleanup | two files for one object, check then act, metadata rewritten by readers |
| Composite and remote cache, `fish-remote-cache` | local cache, fingerprints and artifacts of the remote | `matches`, `put_with_artifact`, `get_artifact`, `execute` | several machines, artifacts kept by key |
| Cluster, `fish-worker` | circuit breakers, counters of active jobs | `execute`, `send_task`, server loop | late answers, retries, failover |
| Virtual file system, `fish-worker/src/virtual_fs.rs` | tree, bounded cache | `read_file`, `write_file`, `clear_cache` | two locks, one read |
| Daemon, `fish-cli/src/daemon.rs` | running flag, sockets | start, stop, send | two daemons, one path |
| Coordinator and gateway, `go/pkg` | registry, task queue, targets | register, heartbeat, select, requeue | counters read outside the lock |

The parts interact by calls (scheduler to executor to cache), by channels
(scheduler and its threads), by files (processes that share one cache
directory) and by requests (machines, workers, coordinator). `PROJECT.json`
lists every part, those left out with the reason, and the hazards of the code
line by line with the properties that cover them.

What makes each part correct:

- graph and schedulers: no task runs before its dependencies succeeded, none
  runs twice, exactly the tasks behind a failure are cancelled, a finished task
  stays finished, the pool and the memory floor are respected, the build ends
  and its summary accounts for every task;
- local cache: no fingerprint is ever on record for something that was not
  built; a hit means the outputs belong to these inputs; prune removes what it
  should, and nothing else;
- composite cache: nothing is shared between machines that no machine built; a
  task answered from a cache has the outputs of its own fingerprint;
- content store: an object whose store was acknowledged is kept until somebody
  removes it, can be read as long as no write fails and nobody is killed, and is
  never reported as absent meanwhile;
- executor: output is reported whole, nothing blocks on a full pipe, and a
  timeout leaves no process that the walk could have met;
- cluster, coordinator, gateway: every worker is tried before a call is given
  up, no task is lost or doubled, the best candidate is chosen, counters are
  those of what is under way, and the limiter keeps to its budget;
- watch mode and watcher: no edit made while a watch is installed is missed (the
  first build of `fish watch` runs before that, section 5);
- libraries: the graph stays acyclic and its two lists of edges agree; cache
  tiers, file maps and sizes stay consistent; a collection removes what it must
  and, under the two policies that evict, no more; a race answers unless both executors panic.

## 2. Modules

| Module | Models |
|---|---|
| `BuildGraph` | `graph.rs`, `state.rs`: states, readiness, cascade, as operators on a dependency function |
| `Build` | the abstract build: start a ready task, succeed, fail with the cascade, return when all is terminal |
| `Scheduler` | `Scheduler::run`; refines `Build` with `MaxParallel <- W` |
| `WorkStealing` | `WorkStealingScheduler::run`; refines `Build` with `MaxParallel <- N` |
| `LocalCache` | `fish-cache/src/lib.rs`: cache directory, memories, `CachingExecutor`, `prune` |
| `CompositeCache` | `fish-remote-cache/src`: machines with a local cache each, the remote cache they share |
| `ContentStore` | `fish-cas/src/storage.rs`, `backend.rs`: processes on a local or hybrid store |
| `Cluster` | `fish-worker`: `ClusterExecutor`, its client, the server's counter of jobs |
| `Vfs` | `fish-worker/src/virtual_fs.rs`: the tree and the cache in front of it |
| `Coordinator` | `go/pkg/coordinator`: registry of workers, queue of tasks |
| `Gateway` | `go/pkg/gateway`: balancer, rate limiter |
| `Watch` | `fish-cli/src/watch.rs`: the loop of `fish watch` |
| `DirtySet` | `fish-scheduler/src/watcher.rs`: the set of changed files |
| `ProcessExecutor` | `fish-executor/src/executor.rs`: one call of `execute` on Linux |
| `GraphConstruction` | `graph.rs`, `dynamic.rs`: the calls that build a graph, its orders and walks |
| `LocklessGraph` | `lockless.rs`: insertion and the critical path |
| `TieredCache` | `fish-cache/src/strategies.rs`: three LRU caches under three locks |
| `FileCache` | `fish-cache/src/file_level.rs`, `file_level_adapter.rs` |
| `CacheGc` | `fish-cache/src/gc.rs`: one collection |
| `Racing` | `fish-scheduler/src/racing.rs`: one race |
| `MCScheduler`, `MCWorkStealing`, `MCLocalCache`, `MCCaches`, `MCContentStore`, `MCServices`, `MCLibraries` | instances for TLC |
| `BuildGraphProofs`, `SchedulerProofs`, `WorkStealingProofs`, `LocalCacheProofs`, `CompositeCacheProofs`, `ContentStoreProofs`, `ServicesProofs`, `LibrariesProofs` | theorems and proofs |

### BuildGraph

`deps[n]` is the set of dependencies of node `n`; nodes are indices, as in the
code. `mark_failed` is a breadth-first walk that stops at terminal nodes; the
model defines the nodes it reaches as the least set closed under "a non-terminal
dependent of the failed node or of a member" (`Cascade`), which needs no
recursion and is therefore open to proof. `Acyclic` is what `validate` accepts:
every non-empty set of nodes has a member with no dependency in the set.

### Scheduler

`pc` is the place of the dispatcher in its loop:

| `pc` | Code (`fish-scheduler/src/lib.rs`) | Actions |
|---|---|---|
| `top` | 407-430: refresh the list if used up, read the memory if 500 ms have passed | `Refresh` |
| `dispatch` | 431-449: one job per step | `Dispatch` |
| | 451-460: leave, or wait | `Leave`, `Block` |
| `recv`, `drain` | 459-505: `recv`, then `try_recv` until empty | `Receive`, `Drained` |
| `join`, `done` | 506-523: join the workers, return | `Return` |

A worker thread is idle, busy with a job, or gone (`WorkerRecv`,
`WorkerExecute`, `WorkerExit`). The executor may answer anything: executed,
cached, failed, an error, a panic. The memory reading may be anything at every
turn of the loop: the 500 ms between readings are a timing the model does not
rely on. The ready list is sorted as the code sorts it (a stable sort of ids by
critical-path tail).

### WorkStealing

The same, with the differences of the code: every ready task is queued at once,
the loop ends when nothing is in flight, and an outcome for a cancelled task is
thrown away. The order of the ready tasks is any order, because the estimated
weights in the sort key change with the durations measured by the workers.

### LocalCache

A step is one operation on the file system or on the memory of a process
(`memory_cache`). A client is one build thread in `CachingExecutor::execute`:
`CheckExists`, `ReadMemory`, `ReadDisk`, `RememberRead` are the lines of
`read_record`; `RunOk`, `RunFails` the command; `PutObject`, `PutMemory`,
`PutDisk` what records it (memory first, then a temporary file renamed over the
record). `PutObject` is the call the composite executor makes before the put.
The command line opens one cache per process; a process may use it for several
builds one after the other, as a library would. `Restart` ends a process between
builds and, where `Crashes` holds, in the middle of one.

`prune` is modelled pass by pass: counting references, listing records,
dropping each record (`DropRecord`) and then its object if it was the last one
known to need it (`Cascade`), sweeping old orphans, listing again, evicting by
size. Every list it works from is a snapshot, while clients go on. Abstracted:
each record and object has size 1; temporary files, and so their sweep, are left
out; the clock moves only while no put and no prune is under way, because a pass
takes far less than an `older_than`.

Three history variables serve the properties only: `built` (what was executed
successfully, with the artifact it left), `outputs` (what the outputs of a key
were last made from), `before` (the files when prune began, forgotten once a
client writes).

### CompositeCache

Each machine goes through `CompositeCachingExecutor::execute`; `pc[m]` names the
next call that reads or changes shared state:

| `pc` | Code (`fish-remote-cache/src/lib.rs`) | Actions |
|---|---|---|
| `local`, `remote` | 115-130 `matches` | `MatchLocal`, `MatchRemote` |
| `restore`, `fetch`, `cached` | 152-165 `get_artifact`, 191-206, 232-233 | `RestoreLocal`, `Fetch`, `ReturnCached` |
| `run` | 236-239 the command | `MachineRunOk`, `MachineRunFails` |
| `store`, `send` | 208-224 `store_artifacts` | `StoreLocal`, `SendArtifact` |
| `put`, `sendfp`, `resend` | 136-148 `put_with_artifact` | `PutLocal`, `SendFingerprint`, `SendAgain` |

The remote is one record per key: the fingerprint and the artifact in its memory,
filled by separate requests, and the artifact on its disk, all that a restart
finds again (a key of a backend has a slash, and `safe_key_identifier` then keeps
the fingerprint off the disk). A request whose client ignores the answer may be
lost, handled, and handled again later (`Send`, `LateArrives`). The local cache is
reduced to the record and the objects that `LocalCache` models step by step, with
`Prune` as its whole effect on the key. One key is enough: keys meet only in the
objects of a local cache, named by content. An artifact is known by the
fingerprint it was packed for, which supposes that a build's outputs are not
changed by anybody between its command and its packing.

### ContentStore

A client is a process, as each `fish cache cas` command is; several share the
directory. `pc[c]` names the next file or request:

| `pc` | Code (`fish-cas/src`) | Actions |
|---|---|---|
| `quota` | `storage.rs` `store`: list and add up, compare | `Count`, `CheckQuota` |
| `data`, `meta` | `backend.rs`: each file written aside and renamed | `RenameData`, `RenameMeta` |
| `put_meta`, `put_data`, `get_*`, `rdel_*` | the remote of a hybrid store | the requests |
| `truncate`, `rewrite` | a retrieve sets `last_accessed` in the metadata file, in place | `Truncate`, `Rewrite`: the two halves of that write, each of which may fail (`TruncateFails`, `RewriteFails`) |
| `delete`, `rm_*`, `check_meta` | `delete` | one file at a time |
| `plan` | `cleanup` | any choice of objects |

Two history variables carry the promise. `stored` has the objects whose store
was acknowledged and that nobody has begun to remove since; `calm` the clients
that met no removal of their object. The error of the rewrite is dropped by the
code (186-188), so that a write that fails after the file was truncated, or a process
killed there, leaves metadata that nobody can read; `torn` has the objects this
happened to, and `StoredSurvives` says that nothing else does it. Contents are left
out: `store` checks the
hash, and no data file is written in place.

### Cluster, Coordinator, Gateway

`Cluster` has one call of `ClusterExecutor::execute` per task: the candidates in
the order of the strategy with degraded workers last, a request to each in turn,
an answer, an error or a timeout (which may come at any moment before the
answer), the breaker's count, and the local executor at the end. The worker goes
on with a job whose caller has given up, and may crash and come back. `CandidateOrders` is the
one order that two stable sorts give; the loads are read one request at a time, the
breakers at one moment, although the code reads them while it sorts (nothing proved
here depends on more than the order having every worker once).

`Coordinator` separates the steps that the mutex of the registry does not cover:
workers are listed under it and compared afterwards, while heartbeats go on. The
queue is one mutex per call, so each call is an action. `Gateway` chooses under
a read lock and counts with atomics; a target that was removed and added again
is another object with the same name (`reused`).

### Watch, DirtySet, Vfs

`Watch` is the loop: first build, subscription, waiting, debounce, build; a build
reads one source at a time while edits go on. `DirtySet` copies and then empties
a concurrent set key by key while the watcher's thread inserts; `mark_clean`
supposes a caller that has just dealt with the file. `Vfs` has a step for each
lock that a read takes.

### ProcessExecutor

`epc` is the place of the calling thread, `frames` its stack of `kill_descendants` (what is
left of the list of children, and the child being walked), the rest the processes: `alive`,
their mothers, which of them are on the list of children (`onList`: those started by a main
thread), who holds the pipe, what is in it. `Fork`, `Exit`, `CloseOutput` and `Write` are
the processes' own steps, `ReadPipe` and `ReadEnd` the reader's. Whether the program `kill`
could be run is ignored by the code (82-84): `ReturnAndKill` may leave the child alive, and
`slipped` has those, with the children of a process whose list was read before they were
born. Standard output and error are one pipe, process ids are not reused during a call, and
a children file is read in one step.

### Libraries

`GraphConstruction` adds the edges of a merge, an expansion or a subgraph one by
one with the calls that check for cycles; `topological_order`, `levels` and
`affected_nodes` are recursive functions, one value for each turn of a loop, compared with
definitions by sets.
`TieredCache` and `FileCache` have one action per locked section; `Racing` lets the
relaxed flag become visible to the loser at any moment after it is set; `CacheGc`
lists, orders and removes one file at a time. At this commit nothing outside their
own crate and its tests calls the lock-free graph, `expand_node`, the racing executor,
the watcher's set, the tiered and file-level caches or the collector; they are
modelled as the public interfaces they are.

### Composition for TLC

`Build` is refined by both schedulers. `MCServices` and `MCLibraries` hold components
that share no state: `focus`, chosen at the start, names the one that takes all the
steps, and the others rest in an initial state, so one run explores the sum of their
state spaces. At its bounds a component may stutter (`Rest`); none of these runs
checks liveness. `MCLocalCache` does the same with instances of one component: its
`scope` says which keys, fingerprints, objects, instants and arguments of `prune` a
behaviour may use. `MCCaches` takes it together with `CompositeCache`, the directory
of one machine or the machines around a remote in focus.

## 3. What TLC checks

| Run | Instance | Shows |
|---|---|---|
| `scheduler` | 4 tasks, all 64 graphs numbered in dependency order, 2 workers, critical path, back-pressure with a floor given as 0 | type, `DependenciesFirst`, `ReadyListIsFresh`, `InFlightIsExact`, `SlotsAreExclusive`, `CascadeIsExact`, `NeverStalls`, `SummaryAccountsForAll`, `ThrottleHolds`, `ImplementsBuild`, `Terminates` |
| `work_stealing` | 4 tasks, 64 graphs, 2 workers | `OkMeansComplete`, `NoOutcomeIsDropped`, `ImplementsBuild`, `Terminates` |
| `provenance` | everything that may fail. Directory: 2 processes with a build each, 1 key, 2 fingerprints, 1 object, faults, kills, partial outputs. Machines: 2 in any interleaving, 1 fingerprint; kills, prunes, failing writes, lost, repeated and late requests, restarts of a remote with disk | `NothingUnbuiltIsServed`, `NothingUnbuiltIsShared` |
| `turns` | no failures. Directory: 1 build at a time, a prune beside it: 1 key with 2 fingerprints and 3 instants, or 2 keys with 2 objects and every choice of arguments. Machines: 2 that build in turn, 3 fingerprints, restarts | type, `HitIsCurrent`, `PruneIsExact`, `HitRestores`, `RemoteAgrees` |
| `content_store` | 2 objects, 2 processes, room for 2, local and hybrid, failing writes, rewrites and requests, kills | type, `StoredSurvives`, `NoFalseAbsence` |
| `services` | cluster: 2 workers, 2 tasks, 1 crash; file system: 3 paths one below another, 2 readers; registry of 3 workers, queue of 2 jobs; balancer of 3 targets, 2 requests; limiter of 3 tokens; watch and watcher: 2 files and one ignored; executor: 4 processes, a pipe of 1 | `ActiveJobsAreAccounted`, `GivesUpAfterAll`, `VfsIsSound`, `TasksAreConserved`, `AnswersAreBest`, `GatewayCounts`, `QuietMeansBuilt`, `NoChangeIsLost`, `ExecuteIsSound` |
| `libraries` | every graph calls can build of 4 nodes and 4 edges; 3 tiers, 2 keys, 2 threads; lock-free graph of 3 names; 3 files, 2 threads; one race; a collection of 3 files under each policy | `GraphIsSound`, `TieredIsSound`, `LocklessIsSound`, `FileCacheIsSound`, `InterruptedMeansPanic`, `CollectionIsExact` |
| `shared_objects` | 2 keys, 1 object, 1 build, 1 prune by age | a disagreement, section 5 |
| `cached_means_restored` | 2 machines that build 2 versions in turn | a disagreement, section 5 |
| `orphans` | 4 processes of one command | a disagreement, section 5 |
| `ttl_only` | a collection of 3 files | a disagreement, section 5 |
| `first_build` | watch mode, 2 files and one ignored | a disagreement, section 5 |

`content_store`, `services`, `libraries` and `turns` have about a million distinct
states each. That a finished task stays finished (`TerminalIsFinal`) is proved and follows
from `ImplementsBuild`; it has no run of its own. The type invariants not listed are
proved, or are conjuncts of the components' properties.

The bundled properties are conjunctions of what a component promises:
`GraphIsSound` (two lists of edges agree, no cycle, copies are complete, an edge is
refused exactly if it closes a cycle, the order is topological, levels are depths,
affected nodes are those behind the change), `TieredIsSound` (each tier's three
structures agree; between calls the newer copy is on top; a get answers with the
latest value unless a copy was dropped), `LocklessIsSound`, `FileCacheIsSound`,
`VfsIsSound` (cache bytes, a tree that stays a tree, reads that return what the file
held during the read, or what was cached before), `GatewayCounts` and `ExecuteIsSound`.

Some of them say what holds under a condition that the code sets, and are silent
beyond it: `TieredIsSound` about the newest copy while calls overlap, `GatewayCounts`
about a target name used again, `AnswersAreBest` about loads that change during the
choice, `ActiveJobsAreAccounted` about the jobs whose sources could not be unpacked
(counted in for ever, as the code does), `QuietMeansBuilt` about edits before the
watch is installed (`EveryEditIsBuilt` is about those). The hazards in `PROJECT.json`
say so one by one.

Why these bounds are enough. Four tasks give the shapes on which the schedulers could go
wrong: a diamond, two failures with a common dependent, a chain behind a failure, a task
that becomes ready while a list is half used. Two workers give completions in either order
and a full pool. All graphs are covered up to renumbering, which matters only to the ties of
the sort. The theorems of section 6 then lift the bounds. For the cache, two processes race
for one record with two fingerprints, the fewest that can disagree; two keys with two
objects let an object be shared, lost or orphaned; `max` 0, 1, 2 and 9 stop the eviction by
size before it begins, among the records, among the objects, and never. Symmetry is over
keys, fingerprints and objects, which the specification never compares but for equality; it
is used in no run that checks liveness.

`HitIsCurrent` is checked inside an envelope, named by the constants of its
run: one build at a time, writes that succeed, no kill, and commands that leave
the outputs alone when they fail. Outside it the code does not give the property: a
put whose error is swallowed (line 841), or a build killed between its command
and its put, leaves an older record that matches again once the sources are
reverted. The sources promise nothing for that case, so it is listed among the
hazards and not as a disagreement.

What a hit of the composite cache restores has its envelope too: no faults, and
builds and prunes that take turns. With faults the code reports `Cached` whether or not
anything could be unpacked (`restore_artifacts` returns nothing), and two
machines that store at once leave the remote with the fingerprint of one and the
artifact of the other until the next put; both are listed as hazards.
`HitRestores` says for which hits the code gives the property inside the
envelope, and `cached_means_restored` shows that it fails for the others (section
5). Fingerprints matter by equality only: three let the remote, a local record
and a build all differ. `NothingUnbuiltIsShared` speaks of one fingerprint at a
time, so one is enough to model-check it with every fault, and the theorem of
section 6 covers any number.

In the content store two processes meet at each pair of steps on one object while
the second object fills the quota or is swept by the same cleanup. In `services` and
`libraries` two threads, tasks or requests meet at every pair of steps; a third
worker, target or file is there where a choice between two others must be made, and
four processes give a walk a child, a grandchild, and one born or orphaned behind its
back. Names in a `.cfg` of `MCServices` and `MCLibraries` serve several components,
so that one group of permutations (two threads, two keys) is a symmetry of all.

Deadlock is checked in every run but `orphans`, where a call that has returned, and
whose processes have ended, has no step left, and `first_build`, where `fish watch` waits
for an edit once they are used up. A build that has returned stutters
(`Returned`); the cache can always restart a process. In `services` and `libraries` the
stuttering of `Rest` makes the check moot: a component that waits for ever is caught
there only by the invariants about waiting (`QuietMeansBuilt`, `ExecuteIsSound`).

## 4. Fairness

Only the runs of the schedulers assume it, for `Terminates`: weak fairness of the
dispatcher's step and of each worker's step. The code justifies it as follows: each is a
thread of its own (`thread::scope` or `thread::spawn`) that the operating system keeps
scheduling, blocked only on a channel. Fairness of a busy worker assumes `executor.execute`
returns, which is up to the command and to `--timeout`; a command that never ends does hang
a build in the code. Both channels are unbounded, so a send never blocks. No fairness is
assumed of the memory reading: the floor is at least 1, so a build ends even if memory stays
low for ever.

## 5. Where the sources disagree with the code

Five disagreements are runs that TLC must find violated.

- `SharedObjectsAreKept`: the comment of `prune` (`fish-cache/src/lib.rs` 450-454)
  says that an object is kept until its last record disappears. A build in another
  process can store a record after the references were counted, and lose its object.
- `CachedMeansRestored`: the test at `fish-remote-cache/src/lib.rs` 442-446 says
  that a cached task must restore its artifacts before its dependents run. A hit
  at the remote is recorded locally without the hash of an artifact (line 124),
  so the next local hit asks the remote by key (line 159) for whatever it then
  has: after another machine stored another version, that version's artifact is
  unpacked and the task reported as cached.
- `NoOrphans`: the comment of `kill_descendants` (`fish-executor/src/executor.rs`
  70-73) says that a command cannot leave orphans behind after a timeout.
  `/proc/<pid>/task/<pid>/children` lists only the children started by the main
  thread of a process; those that another thread started, as in tools with a pool
  of threads, are missed and go on. `ExecuteIsSound` says what the walk does
  reach.
- `OnlyExpiredGo`: the comment of `TtlOnly` (`fish-cache/src/gc.rs` 13) says "Only
  remove entries whose time-to-live has expired". Above the high watermark the loop
  at 120-131 evicts under every policy, under this one in the order of the directory.
  `CollectionIsExact` asks nothing of `TtlOnly` above that mark but the expired files
  and the bytes reported.
- `EveryEditIsBuilt`: `README.md` 134 describes `fish watch` as building again after
  relevant file changes, and the program announces that it is watching
  (`fish-cli/src/watch.rs` 87) before its first build. The watch is installed after
  that build (98-111): a file edited once the build has read it is built by nobody
  until another change comes.

Others were seen in the same reading and need no run:

- `with_critical_path_priority` (`fish-scheduler/src/lib.rs` 330-332) promises the
  longest tail first; the list is sorted only when it is refreshed (408).
- `PruneReport` is what prune removed (`fish-cache/src/lib.rs` 110), but the bytes of an
  object removed with its record are missing from `freed_bytes` (645). A record
  replaced after prune listed it is removed with the new content.
- `fish daemon start` returns and ends its threads with the process (`main.rs`
  195-202); `README.md` 131 describes a daemon in the background.
- The loser of a race is not stopped: it runs to its end (`README.md` 152 speaks of
  cancelling it).
- A process left in the background with the pipe open makes `execute` wait past the
  timeout (`docs/configuration.md` 59).

Known limits that the sources do not promise away: a retrieve whose rewrite of the metadata
fails after the truncation succeeds, as its comment wants (`fish-cas/src/backend.rs`
178-179), and every later one fails to parse them until the object is stored again; two
stores may each fit under the quota and exceed it together, and `stats` misses an object
whose metadata file is being rewritten; a hybrid retrieve fills the local store without a
look at the quota; a write to the virtual file system does not drop the cached copy; an
older copy in the third tier can surface after a demotion was dropped; the counter of a
target that was removed and added again can fall below zero; a worker whose request had
sources that could not be unpacked reports one job too many from then on; a task that was
popped, and whose answer over HTTP is lost, is lost with it.

## 6. What is proved

All theorems are checked by TLAPS for every value of the constants, from the assumptions in
the modules: `N` is a natural number, the graphs are acyclic (which `validate` has checked
before the modelled part begins), the pool is finite and not empty, the flags are Booleans
and the floor a natural number; sizes, watermarks, budgets, loads, retries and tokens are
natural numbers (`ContentAssumption`, `WatermarkAssumption`, `CoordinatorAssumption`,
`LimiterAssumption`), a tier has room for an entry (`TierAssumption`), a directory is
finite, the files of a task are a list (`TaskListsAssumption`), the lock-free graph is given
lists of known names and natural weights (`LocklessAssumption`), graphs that are merged were
themselves built by the same calls (`OthersAssumption`: acyclic, with dependencies among
their own nodes), the number of workers is a natural number (`ClusterAssumption`), and an
artifact is not one of the words the model uses for its absence (`HashAssumption`).

`BuildGraphProofs` has the facts about graphs: the cascade is the least closed
set and contains exactly the non-terminal tasks behind the failure
(`CascadeMembers`, `MarkFailed`), and an acyclic graph with nothing running and
something unfinished has a ready task (`SomethingIsReady`), by applying
acyclicity to the set of unfinished tasks.

`SchedulerProofs`. `IInv` is the conjunction of the checked invariants with four
facts they need to be inductive: a job anywhere in the pipeline is for a task
that is `Running` (`JobsAreRunning`, without which a completion could finish a
task twice); the states `Ready` and `Skipped` are never used; an empty list while
nothing is in flight was made in this very iteration (`ListMadeWhenIdle`, the
reason for `NeverStalls`); and an answer `Ok` was given with every task terminal.
The crux is that a cascade never touches a running task or one on the ready
list: both have only successful dependencies, and the cascade reaches only tasks
with a dependency that failed or was cancelled. One lemma per action shows that
it preserves `IInv`. From `Spec => []IInv` follow `TypeCorrect`,
`TasksRunInOrder`, `ListStaysFresh`, `PipelineIsExact`, `SlotsNeverShared`,
`CascadeCorrect`, `NoStall`; and from the effect of each step on the states
(`VisibleStep`) follow `Finality`, `Throttled` and `Implementation` (every step of
`run` is a step of `Build` or stutters). `LogIsExact` says of the two logs that the
records are the failed tasks and the timings the tasks whose outcome was taken,
each once (`LogCorrect`); a list without repetitions is a bijection from its places, and
the states partition the tasks, which gives the counts of `SummaryIsComplete`.

`WorkStealingProofs` follows the same plan. Its invariant needs
`NothingLeftReady`: when the loop looks at `in_flight`, every ready task is still
on the list to dispatch. That is why ending on a zero count is right
(`Complete`), and since no running task is ever cancelled, the early return of
`apply_outcome` is dead code (`NothingDropped`).

`CompositeCacheProofs` proves that `NothingUnbuiltIsShared`, with the types
(which say that a build about to send an artifact has one), is inductive
for any number of machines and fingerprints, faults and kills included. A value
is followed wherever it goes: from a successful command into the local objects,
the request, the remote's memory and disk, a late copy of the request, another
machine's objects. `HandledStep` and `SendStep` say once what any request may do
to the remote. `TurnsInv` is the invariant of machines that take turns and do not
fail (the hypothesis `InTurns`, the constants of the run `turns`): only
the machine at work may have sent half of what belongs together, and what it has
sent and what it has still to send are one build's. `HitsRestoreInTurns` and
`RemoteAgreesInTurns` follow.

`LocalCacheProofs` follows a record from the command that justifies it: into the
build that carries it, the memory and the file, and from a file through a lookup into
another memory. `Provenance` says that of every record wherever it is; nothing else
makes one, and prune and restarts only forget. `TypeCorrect` includes the counters of
prune, which are cardinalities: it needs that the sets counted are finite and only
shrink while they are being used up. `HitsAreCurrentAlone` is about one build at a time
that nothing disturbs but prune (the hypothesis `Alone`): whatever a record says, in
memory or on disk, the outputs are those of the last one made (`RecordsFollow`).
`PruneCorrect` has no hypothesis: as long as no build writes, each of prune's lists and
counters is what the files say, one invariant for each of its phases (`FilesFollow`).

`ContentStoreProofs`. The invariant: while an object is stored, or is being stored by
a client that no removal has disturbed, nobody is in the middle of removing it; a
store passes its data before its metadata and the local files before the remote, so
each step finds what the one before it left; an idle client holds nothing.
`AcknowledgedSurvives` and `NeverDenied` follow: a retrieve that finds the
metadata torn fails, but with another error than `ArtifactNotFound`. Survival is of the
files: an object whose rewrite was cut short is kept and cannot be read, which the
theorem says and does not hide. `AcknowledgedIsReadable` adds that where no write fails
and nobody is killed (`Unfailing`) there are no such objects, so that every
acknowledged one can be read once the retrieves at work on it are through.

`ServicesProofs`. For the gateway, the counter of a name that was not used again is the
number of requests holding it, and tokens left plus tokens granted never exceed the capacity
and the refill up to the last call. For `fish watch`, an edit the last build did not see is
in the channel, among the events of the debounce, or in a file not yet read by the build
under way. For the watcher, a change is on its way, in the set, in the list being made, or
known. For the virtual file system, what a reader has seen is in the set of contents its
path held since it began, and the bytes of the cache are counted as the elements of one set.
For the executor, every living process that the walk could meet has been walked, is on a
list being walked, or has a living mother not yet walked, and all descend from the command;
hence at the end only those of `TimeoutKillsTree` are left: those the walk could not meet,
those that `kill` could not end, and what either started. The reader is there as long as
somebody can write. For the cluster, a worker that a call has still to ask has heard nothing
of it, so a request is counted once; an order is a bijection, so when its last attempt fails
every worker has failed. For the coordinator, the queue is sorted after every operation; the
best worker found so far is the best of those looked at, as long as the loads are steady;
and the copies of a job in the queue, counted through bijections, with those handed out and
ended are as many as were pushed.

`LibrariesProofs`. An edge is refused if the walk from its dependent reaches its
dependency; if it is accepted, there is a set `S` closed under dependents with the
dependent and without the dependency. Of any non-empty set of nodes `T`, either all
is in `S`, and the new edge does not lead back into it, or the old graph's acyclicity
gives a node of `T \ S` without a dependency there; it has none in `S` either,
for it would then be in `S`. Conversely the nodes on the ways from one end to the other
would all have a dependency among them. So an edge is refused exactly for a cycle.

The rest of `GraphIsSoundHolds` is about loops, which the model writes as recursive
functions. Two lemmas make these open to proof: a function defined by recursion from
each number to the next exists (`RecursionExists`), and what holds of its value
at 0 and passes from each number to the next holds at all (`IntervalInduction`, for
a set of numbers, by its least counterexample). For the topological order the
invariant of the loop is that a counter is the number of edges from nodes not yet in the order
(`EdgesCounted` says that an edge is as often in one list as in the other), that
the nodes at zero are those in the order or queued, and that each
comes after its dependencies; were the queue empty too early, acyclicity would give a
node left over with nothing to wait for. Levels are one more than the deepest
dependency because all of them were placed before. The walk of `affected_nodes` is
closed behind the place it has reached and never leaves a closed set. A merge or a subgraph
keeps one invariant while it adds its edges: those there are and those still to
add have no cycle together, so none is refused.

For the race, the flag is not set before an answer has won, so a thread that
withholds its own answer because of it is not the only one. For the file cache, the
artifact is stored before the file is mapped and never removed; the walk of an
invalidation keeps that a dependent of a file it has expanded is expanded, queued or
has left the cache since. For the collection, sums of bytes are cardinalities of sets of
units; the list follows the directory but for what others touch, a sort is a
bijection, and what is left of a list is always its tail; what is said of the order and the
low mark is about the two policies that evict.

For the tiers, each locked section is a function of one LRU cache. Of a cache whose order
lists its entries once each and whose size is their sum, the eviction loop leaves a front of
the order with what was evicted listed, oldest first, and room for one entry (`EvictIs`); a
put then adds or replaces one entry and loses none but those (`PutIs`). So far threads may
interleave as they like. Which copy is the newest is a statement about calls that do not
overlap (`Calm`, the invariant while `overlap` is false): the versions of a key descend from
tier to tier and none exceeds the last; what a promotion carries down fits between the
copies above and below; the last version is in a tier or carried unless it was dropped; and
a copy of an invalidated key is in a tier that the call has still to visit. `put_all` is the
loop that needs care: a list whose versions rise above those of a cache leaves the greatest
of each key there or last among the evicted, and these are no newer than what stays
(`PutAllIs`, by induction on the place in the list). A put is two such loops, one below the
other.

For the lock-free graph, the recursion of `longest_path` has a solution because a node
visited again is an error, so the nodes not yet visited become fewer; everything about it is
proved by induction on their number (`VisitInduction`). While `v` are visited, the answer
for a node from which a cycle can be reached is an error (`CycleIsError`); the walk of
`transitive_dependencies` is closed after as many steps as there are names, since each
earlier one found another name. Without cycles no answer is an error, and each is the
heaviest chain that ends in its node: a chain is a shorter one with its last node added
(`ChainFront`, `AnswerFromBelow`), and the loop over the dependencies keeps the heaviest.

Model-checked only: `Terminates` (liveness under fairness, which is beyond the prover).

## 7. Not modelled

Of the modelled parts: `ram_capped_workers`, the trace file, the weights of the
work-stealing order; temporary files, corrupt records and key encoding in the cache, and in
its `prune` a `remove_file` that fails for another reason than a file already gone (592,
626: the file stays and the pass goes on); hashing and compression in the content store, and
its `gc.rs` beyond the choice it makes (any); authentication, wire formats, chunked
artifacts, tasks without artifacts and statistics of the composite cache; packing of sources
on the workers; selection at random, by weight and by hash in the gateway, and its proxy;
the HTTP handlers of the coordinator, which expose no heartbeat and call neither
`PruneExpired` nor `SelectOptimalWorker`; the executors for macOS (kills the command alone)
and Windows, and the asynchronous one, which nothing uses.

Whole parts, and why:

- pipelining, bin packing, resource governor, jobserver: a counter or a table under
  one lock each, and a greedy assignment; no build calls them;
- peer-to-peer and REAPI caches, mesh, migrator, the Kubernetes adapter: input and output
  around one map each;
- daemon: a flag and a counter behind two listeners, in a process that ends at once;
- asynchronous file access and the pool of buffers of `fish-cache`: input and output;
- command line, language backends, incremental analysis, reports, templates, editor
  plugins, Python services: sequential translations and heuristics, with no state
  that a build shares. They are more than half of the lines, and the share
  of the implementation that the map covers is small for that reason;
- sandboxes: isolation by the operating system.

## 8. Plan

Done: the build graph and its construction, both schedulers, the local, composite,
tiered and file-level caches, collection, the content store, the cluster, coordinator
and gateway, watch mode, the executor, the race; and proofs of all the safety
properties. What could follow, in this order:

1. `HybridCachingExecutor` as a refinement of the local cache, with its own tiers
   in the place of the memory.
2. A composition of `Scheduler` with `LocalCache`: several threads of one build
   sharing a memory, with the cascade of a failed command.
