-------------------------- MODULE ProcessExecutor --------------------------
(***************************************************************************)
(* One call of ProcessExecutor::execute (fish-executor/src/executor.rs)    *)
(* on Linux: the command, the processes it starts, the pipe they write to, *)
(* the thread that drains it, and what a timeout kills.  Standard output   *)
(* and standard error are treated alike, and are one pipe here.            *)
(*                                                                         *)
(* Process 1 is the command; a process is numbered when it is born, and    *)
(* numbers (process ids) are not used again during the call.               *)
(***************************************************************************)
EXTENDS Naturals, Sequences

CONSTANTS
  MaxProcesses, \* how many processes a command may start, itself included
  PipeSize,     \* what the pipe holds before a write blocks
  MaxOutput     \* how much the processes write in all

Outside == 0  \* no process of the command: its own parent, and that of orphans

VARIABLES
  epc,        \* where execute is
  alive,      \* the processes that have not ended
  parent,     \* parent[p]: its parent at present, as /proc shows it
  writers,    \* the processes with the writing end of the pipe open
  written,    \* how much was written to the pipe,
  piped,      \* how much of it is in the pipe still,
  read,       \* and how much in the buffer of the reader thread
  reader,     \* "reading", or "ended" at the end of the file
  frames,     \* the calls of kill_descendants under way, innermost first
  mother,     \* mother[p]: the process that started it
  onList,     \* those that are a child of the main thread when its file is read
  slipped,    \* those started by a process whose children had been read, or that
              \* could not be killed
  orphaned    \* those whose parent ended before its children were read

executorVars == <<epc, alive, parent, writers, written, piped, read, reader,
                  frames, mother, onList, slipped, orphaned>>

treeVars == <<alive, parent, writers, mother, onList, slipped, orphaned>>
pipeVars == <<written, piped, read, reader>>

born == DOMAIN parent
ChildrenOf(p) == {q \in alive : parent[q] = p}

(* The processes whose children kill_descendants has read, and that it has *)
(* not killed yet.                                                         *)
Walked == {frames[i].pid : i \in DOMAIN frames}

ExecutorInit ==
  /\ epc = "start"
  /\ alive = {} /\ writers = {} /\ onList = {} /\ slipped = {} /\ orphaned = {}
  /\ parent = <<>> /\ mother = <<>> /\ frames = <<>>
  /\ written = 0 /\ piped = 0 /\ read = 0
  /\ reader = "reading"

-----------------------------------------------------------------------------
(* The processes of the command. *)

(* A child inherits the pipe.  The kernel keeps the children of each       *)
(* thread apart, until that thread ends: only those of the main thread are *)
(* in the file that the walk reads, /proc/<pid>/task/<pid>/children.       *)
Fork(p) ==
  LET q == Len(parent) + 1 IN
  /\ p \in alive
  /\ Len(parent) < MaxProcesses
  /\ parent' = Append(parent, p)
  /\ mother' = Append(mother, p)
  /\ alive' = alive \cup {q}
  /\ writers' = IF p \in writers THEN writers \cup {q} ELSE writers
  /\ onList' \in {onList, onList \cup {q}}
  /\ slipped' = IF p \in Walked THEN slipped \cup {q} ELSE slipped
  /\ UNCHANGED <<epc, frames, orphaned, pipeVars>>

(* What ending a process does, whether it exits or is killed. *)
Ends(p) ==
  /\ alive' = alive \ {p}
  /\ writers' = writers \ {p}
  /\ parent' = [q \in born |-> IF parent[q] = p THEN Outside ELSE parent[q]]

Exit(p) ==
  /\ p \in alive
  /\ Ends(p)
  /\ orphaned' = IF p \in Walked THEN orphaned ELSE orphaned \cup ChildrenOf(p)
  /\ UNCHANGED <<epc, frames, mother, onList, slipped, pipeVars>>

(* A process that redirects its output, as a daemon does. *)
CloseOutput(p) ==
  /\ p \in alive \cap writers
  /\ writers' = writers \ {p}
  /\ UNCHANGED <<epc, alive, parent, frames, mother, onList, slipped, orphaned,
                 pipeVars>>

(* A write blocks while the pipe is full. *)
Write(p) ==
  /\ p \in alive \cap writers
  /\ piped < PipeSize /\ written < MaxOutput
  /\ written' = written + 1
  /\ piped' = piped + 1
  /\ UNCHANGED <<epc, frames, treeVars, read, reader>>

-----------------------------------------------------------------------------
(* The thread that drains the pipe: read_to_end. *)

ReadPipe ==
  /\ reader = "reading" /\ epc # "start"
  /\ piped > 0
  /\ piped' = piped - 1
  /\ read' = read + 1
  /\ UNCHANGED <<epc, frames, treeVars, written, reader>>

(* The file ends when nobody can write to it any more. *)
ReadEnd ==
  /\ reader = "reading" /\ epc # "start"
  /\ piped = 0 /\ writers = {}
  /\ reader' = "ended"
  /\ UNCHANGED <<epc, frames, treeVars, written, piped, read>>

-----------------------------------------------------------------------------
(* execute and run_with_timeout. *)

Spawn ==
  /\ epc = "start"
  /\ epc' = "wait"
  /\ parent' = <<Outside>> /\ mother' = <<Outside>>
  /\ alive' = {1} /\ writers' = {1} /\ onList' = {1}
  /\ UNCHANGED <<frames, slipped, orphaned, pipeVars>>

SpawnFails ==
  /\ epc = "start"
  /\ epc' = "error"
  /\ UNCHANGED <<frames, treeVars, pipeVars>>

(* An error of wait_timeout leaves everything as it is. *)
WaitFails ==
  /\ epc = "wait"
  /\ epc' = "error"
  /\ UNCHANGED <<frames, treeVars, pipeVars>>

WaitReturns ==
  /\ epc = "wait" /\ 1 \notin alive
  /\ epc' = "join"
  /\ UNCHANGED <<frames, treeVars, pipeVars>>

(* Both readers are joined before the outcome is built. *)
Join ==
  /\ epc = "join" /\ reader = "ended"
  /\ epc' = "ok"
  /\ UNCHANGED <<frames, treeVars, pipeVars>>

(* A call of kill_descendants has read the children of its process; those  *)
(* it has still to deal with are `todo`.                                   *)
Call(p) == [pid |-> p, todo |-> ChildrenOf(p) \cap onList, child |-> Outside]

TimedOut ==
  /\ epc = "wait" /\ 1 \in alive
  /\ epc' = "walk"
  /\ frames' = <<Call(1)>>
  /\ UNCHANGED <<treeVars, pipeVars>>

\* Slip: the child is killed first, and its children are no longer its own.
Descend_KillFirst ==
  /\ epc = "walk" /\ frames # <<>> /\ frames[1].child = Outside
  /\ \E c \in frames[1].todo :
       /\ Ends(c)
       /\ frames' = <<[pid |-> c, todo |-> {}, child |-> Outside],
                      [frames[1] EXCEPT !.todo = @ \ {c}, !.child = c]>> \o Tail(frames)
  /\ UNCHANGED <<epc, mother, onList, slipped, orphaned, pipeVars>>

(* The loop takes a child and first walks down from it. *)
Descend ==
  /\ epc = "walk" /\ frames # <<>> /\ frames[1].child = Outside
  /\ \E c \in frames[1].todo :
       frames' = <<Call(c),
                   [frames[1] EXCEPT !.todo = @ \ {c}, !.child = c]>> \o Tail(frames)
  /\ UNCHANGED <<epc, treeVars, pipeVars>>

(* With the list done, the call returns and the caller kills the child, by *)
(* the program kill: that it cannot be run, or fails, is not noticed.      *)
ReturnAndKill ==
  /\ epc = "walk" /\ Len(frames) > 1
  /\ frames[1].todo = {}
  /\ LET c == frames[2].child
     IN  \/ Ends(c) /\ UNCHANGED slipped
         \/ c \in alive /\ slipped' = slipped \cup {c} /\ UNCHANGED <<alive, parent, writers>>
  /\ frames' = <<[frames[2] EXCEPT !.child = Outside]>> \o Tail(Tail(frames))
  /\ UNCHANGED <<epc, mother, onList, orphaned, pipeVars>>

(* kill_process_tree ends with the command itself, and reaps it. *)
KillCommand ==
  /\ epc = "walk" /\ Len(frames) = 1
  /\ frames[1].todo = {}
  /\ Ends(1)
  /\ epc' = "timeout"
  /\ frames' = <<>>
  /\ UNCHANGED <<mother, onList, slipped, orphaned, pipeVars>>

-----------------------------------------------------------------------------
ExecutorNext ==
  \/ Spawn \/ SpawnFails \/ WaitFails \/ WaitReturns \/ Join \/ TimedOut
  \/ Descend \/ ReturnAndKill \/ KillCommand
  \/ ReadPipe \/ ReadEnd
  \/ \E p \in alive : Fork(p) \/ Exit(p) \/ CloseOutput(p) \/ Write(p)

ExecutorSpec == ExecutorInit /\ [][ExecutorNext]_executorVars

-----------------------------------------------------------------------------
(* Some processes, and all that descend from them. *)
WithDescendants(roots) ==
  {p \in born : \A S \in SUBSET born :
                  /\ roots \cap born \subseteq S
                  /\ \A q \in born : mother[q] \in S => q \in S
                  => p \in S}

(* After a timeout no process of the command goes on, but for those that   *)
(* the program kill could not end, those that no walk along the children   *)
(* of main threads could meet - of other threads, started behind the       *)
(* walk's back, or without their parent - and the descendants of either    *)
(* (executor.rs, lines 70-73).                                             *)
TimeoutKillsTree ==
  epc = "timeout" =>
    alive \subseteq WithDescendants((born \ onList) \cup slipped \cup orphaned)

(* Even those started, orphaned or spared meanwhile left aside, "a build   *)
(* command that spawned subprocesses (make -> gcc) cannot leave orphans    *)
(* behind after a timeout" (executor.rs, lines 70-72).                     *)
NoOrphans ==
  epc = "timeout" => alive \subseteq WithDescendants(slipped \cup orphaned)

(* A task that ran to its end is reported with all that its processes      *)
(* wrote, however much that is, and none of them can still add to it; nor  *)
(* can one ever find the pipe full with nobody to drain it (lines 113-115).*)
OutputIsWhole ==
  /\ epc = "ok" => read = written /\ writers = {}
  /\ piped > 0 => reader = "reading"

(* Both promises of execute. *)
ExecuteIsSound == TimeoutKillsTree /\ OutputIsWhole

=============================================================================
