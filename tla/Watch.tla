-------------------------------- MODULE Watch -------------------------------
(***************************************************************************)
(* fish-cli: `fish watch` (watch.rs).  Changes of files reach the loop     *)
(* through a channel, some time after the edit and in order.  A build      *)
(* reads the sources one by one.  The debounce may end at any moment: the  *)
(* time it takes is not modelled.                                          *)
(***************************************************************************)
EXTENDS Integers, Sequences

CONSTANTS
  Source,     \* files that is_relevant_path accepts
  Other,      \* files that it refuses, such as those a build writes
  MaxEdits    \* bound on the edits of a file

VARIABLES
  edits,      \* the edits of each file so far
  wpc,        \* where run_watch is
  unread,     \* the sources that the build under way has still to read
  built,      \* the edits of each source that the last build saw
  installed,  \* is the watch installed?
  events,     \* from the file system to the channel
  changed,    \* changed_paths
  blind       \* history: sources edited before the watch and not since

watchVars == <<edits, wpc, unread, built, installed, events, changed, blind>>

WatchInit ==
  /\ edits = [f \in Source \cup Other |-> 0]
  /\ wpc = "build" /\ unread = Source /\ built = [f \in Source |-> 0] /\ installed = FALSE
  /\ events = <<>> /\ changed = {} /\ blind = {}

Edit(f) ==
  /\ edits[f] < MaxEdits
  /\ edits' = [edits EXCEPT ![f] = @ + 1]
  /\ events' = IF installed THEN Append(events, f) ELSE events
  /\ blind' = IF installed THEN blind \ {f} ELSE blind \cup ({f} \cap Source)
  /\ UNCHANGED <<wpc, unread, built, installed, changed>>

BuildReads(f) ==
  /\ wpc = "build" /\ f \in unread
  /\ unread' = unread \ {f}
  /\ built' = [built EXCEPT ![f] = edits[f]]
  /\ UNCHANGED <<edits, wpc, installed, events, changed, blind>>

(* The watch is installed when the first build has ended. *)
BuildEnds ==
  /\ wpc = "build" /\ unread = {}
  /\ wpc' = "recv" /\ installed' = TRUE
  /\ UNCHANGED <<edits, unread, built, events, changed, blind>>

Recv ==
  /\ wpc = "recv" /\ events # <<>>
  /\ changed' = {Head(events)} \cap Source
  /\ events' = Tail(events)
  /\ wpc' = "debounce"
  /\ UNCHANGED <<edits, unread, built, installed, blind>>

RecvTimeout ==
  /\ wpc = "debounce" /\ events # <<>>
  /\ changed' = changed \cup ({Head(events)} \cap Source)
  /\ events' = Tail(events)
  /\ UNCHANGED <<edits, wpc, unread, built, installed, blind>>

\* Slip: the channel is drained when a build begins.
DebounceEnds_Drain ==
  /\ wpc = "debounce"
  /\ IF changed = {} THEN wpc' = "recv" /\ UNCHANGED unread ELSE wpc' = "build" /\ unread' = Source
  /\ changed' = {} /\ events' = <<>>
  /\ UNCHANGED <<edits, built, installed, blind>>

DebounceEnds ==
  /\ wpc = "debounce"
  /\ IF changed = {} THEN wpc' = "recv" /\ UNCHANGED unread ELSE wpc' = "build" /\ unread' = Source
  /\ changed' = {}
  /\ UNCHANGED <<edits, built, installed, events, blind>>

WatchNext ==
  \/ \E f \in Source \cup Other : Edit(f)
  \/ BuildEnds \/ Recv \/ RecvTimeout \/ DebounceEnds \/ \E f \in Source : BuildReads(f)

WatchSpec == WatchInit /\ [][WatchNext]_watchVars

-----------------------------------------------------------------------------
(* When run_watch waits with no event to come, the last build saw every    *)
(* edit since the watch was installed: those made during a build, during   *)
(* the debounce and among the events of files it ignores.                  *)
QuietMeansBuilt ==
  wpc = "recv" /\ events = <<>> =>
    \A f \in Source \ blind : edits[f] > 0 => built[f] = edits[f]

(* "Re-run build, check, or test after relevant file changes", announced   *)
(* with "Watching for file changes" before the first build begins: that    *)
(* holds of every edit, those made during the first build included.        *)
EveryEditIsBuilt ==
  wpc = "recv" /\ events = <<>> => \A f \in Source : built[f] = edits[f]
=============================================================================
