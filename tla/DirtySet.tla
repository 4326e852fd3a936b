------------------------------ MODULE DirtySet ------------------------------
(***************************************************************************)
(* fish-scheduler: FsWatcherDaemon (watcher.rs).  The handler of the file  *)
(* system's events fills a concurrent set, which is copied key by key and  *)
(* then emptied key by key, while the handler goes on.                     *)
(***************************************************************************)
EXTENDS Integers, Sequences, SequencesExt

CONSTANTS
  Tracked,     \* files below the watched paths
  Ignored,     \* those in target or .git
  MaxChanges   \* bound on the changes of a file

VARIABLES
  changes,     \* of each file so far
  reported,    \* the events, not yet handled
  invalidated_targets,
  dpc,         \* where take_invalidated_targets is
  snapshot,    \* the keys it copied and has still to remove
  list,        \* the keys it removed
  known        \* history: the changes of each file that a taker knew of

dirtyVars == <<changes, reported, invalidated_targets, dpc, snapshot, list, known>>

DirtyInit ==
  /\ changes = [f \in Tracked \cup Ignored |-> 0] /\ known = [f \in Tracked |-> 0]
  /\ reported = <<>> /\ invalidated_targets = {} /\ dpc = "idle" /\ snapshot = {} /\ list = {}

Change(f) ==
  /\ changes[f] < MaxChanges
  /\ changes' = [changes EXCEPT ![f] = @ + 1]
  /\ reported' = Append(reported, f)
  /\ UNCHANGED <<invalidated_targets, dpc, snapshot, list, known>>

(* What is inserted during the copy may be copied or not. *)
insert(f) ==
  /\ invalidated_targets' = invalidated_targets \cup {f}
  /\ snapshot' \in {snapshot} \cup (IF dpc = "copy" THEN {snapshot \cup {f}} ELSE {})

HandleEvent ==
  /\ reported # <<>>
  /\ IF Head(reported) \in Tracked THEN insert(Head(reported)) ELSE UNCHANGED <<invalidated_targets, snapshot>>
  /\ reported' = Tail(reported)
  /\ UNCHANGED <<changes, dpc, list, known>>

mark_dirty(f) ==
  /\ insert(f)
  /\ UNCHANGED <<changes, reported, dpc, list, known>>

TakeKeys ==
  /\ dpc = "idle" /\ invalidated_targets # {}
  /\ snapshot' = invalidated_targets /\ dpc' = "copy"
  /\ UNCHANGED <<changes, reported, invalidated_targets, list, known>>

KeysCopied ==
  /\ dpc = "copy" /\ dpc' = "remove"
  /\ UNCHANGED <<changes, reported, invalidated_targets, snapshot, list, known>>

(* A key that is inserted again before it is removed goes with it. *)
RemoveKey(f) ==
  /\ dpc = "remove" /\ f \in snapshot
  /\ snapshot' = snapshot \ {f}
  /\ list' = IF f \in invalidated_targets THEN list \cup {f} ELSE list
  /\ invalidated_targets' = invalidated_targets \ {f}
  /\ UNCHANGED <<changes, reported, dpc, known>>

\* Slip: the set is cleared instead of emptied key by key.
TakeReturns_Clear ==
  /\ dpc = "remove" /\ snapshot = {}
  /\ known' = [f \in Tracked |-> IF f \in list THEN changes[f] ELSE known[f]]
  /\ list' = {} /\ invalidated_targets' = {} /\ dpc' = "idle"
  /\ UNCHANGED <<changes, reported, snapshot>>

(* Whoever gets the list knows of every change of its files made before. *)
TakeReturns ==
  /\ dpc = "remove" /\ snapshot = {}
  /\ known' = [f \in Tracked |-> IF f \in list THEN changes[f] ELSE known[f]]
  /\ list' = {} /\ dpc' = "idle"
  /\ UNCHANGED <<changes, reported, invalidated_targets, snapshot>>

(* The caller has just dealt with the file. *)
mark_clean(f) ==
  /\ f \in invalidated_targets
  /\ invalidated_targets' = invalidated_targets \ {f}
  /\ known' = [known EXCEPT ![f] = changes[f]]
  /\ UNCHANGED <<changes, reported, dpc, snapshot, list>>

DirtyNext ==
  \/ \E f \in Tracked \cup Ignored : Change(f)
  \/ HandleEvent \/ TakeKeys \/ KeysCopied \/ TakeReturns
  \/ \E f \in Tracked : mark_dirty(f) \/ RemoveKey(f) \/ mark_clean(f)

DirtySpec == DirtyInit /\ [][DirtyNext]_dirtyVars

-----------------------------------------------------------------------------
(* A change that nobody who took the set knows of is in the set, in the    *)
(* list being made of it, or still to be reported.                         *)
NoChangeIsLost ==
  \A f \in Tracked :
    known[f] < changes[f] => f \in invalidated_targets \cup list \cup ToSet(reported)
=============================================================================
