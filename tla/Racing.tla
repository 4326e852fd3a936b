------------------------------- MODULE Racing -------------------------------
(***************************************************************************)
(* fish-scheduler: DynamicRacingExecutor::execute_race (racing.rs).  Two   *)
(* threads execute the same task; the first answer in the channel wins.    *)
(* The flag is read without ordering: a thread may still see it unset some *)
(* time after the receiver has set it.                                     *)
(***************************************************************************)
EXTENDS Sequences, Naturals, FiniteSets

Racer == {"local", "remote"}
Result == {"Executed", "Failed", "Err", "panic"}

VARIABLES
  rpc,        \* where each thread is
  answer,     \* what its executor returned
  channel,    \* the answers sent
  cancelled,
  unsure,     \* the threads that may not see yet that it is set
  won         \* what execute_race returned

racingVars == <<rpc, answer, channel, cancelled, unsure, won>>

RacingInit ==
  /\ rpc = [r \in Racer |-> IF r = "local" THEN "execute" ELSE "grace"]
  /\ answer = [r \in Racer |-> "none"]
  /\ channel = <<>> /\ cancelled = FALSE /\ unsure = {} /\ won = "none"

SeesCancelled(r) == IF r \in unsure THEN {TRUE, FALSE} ELSE {cancelled}

(* The grace period is over. *)
Begins(r) ==
  /\ rpc[r] = "grace"
  /\ \E seen \in SeesCancelled(r) : rpc' = [rpc EXCEPT ![r] = IF seen THEN "gone" ELSE "execute"]
  /\ UNCHANGED <<answer, channel, cancelled, unsure, won>>

(* A panic ends the thread and drops its sender. *)
Executes(r) ==
  /\ rpc[r] = "execute"
  /\ \E o \in Result :
       /\ answer' = [answer EXCEPT ![r] = o]
       /\ rpc' = [rpc EXCEPT ![r] = IF o = "panic" THEN "gone" ELSE "send"]
  /\ UNCHANGED <<channel, cancelled, unsure, won>>

Sends(r) ==
  /\ rpc[r] = "send"
  /\ \E seen \in SeesCancelled(r) :
       channel' = IF seen THEN channel ELSE Append(channel, r)
  /\ rpc' = [rpc EXCEPT ![r] = "gone"]
  /\ UNCHANGED <<answer, cancelled, unsure, won>>

BecomesVisible(r) ==
  /\ r \in unsure /\ unsure' = unsure \ {r}
  /\ UNCHANGED <<rpc, answer, channel, cancelled, won>>

(* recv: the first answer, whatever it is, or an error when both senders   *)
(* are gone without one.                                                   *)
Receives ==
  /\ won = "none" /\ channel # <<>>
  /\ won' = answer[Head(channel)]
  /\ channel' = Tail(channel)
  /\ cancelled' = TRUE /\ unsure' = Racer
  /\ UNCHANGED <<rpc, answer>>

\* Slip: one thread that is gone without an answer ends the race.
Disconnected_One ==
  /\ won = "none" /\ channel = <<>> /\ \E r \in Racer : rpc[r] = "gone"
  /\ won' = "Interrupted"
  /\ UNCHANGED <<rpc, answer, channel, cancelled, unsure>>

Disconnected ==
  /\ won = "none" /\ channel = <<>> /\ \A r \in Racer : rpc[r] = "gone"
  /\ won' = "Interrupted"
  /\ UNCHANGED <<rpc, answer, channel, cancelled, unsure>>

RaceOver == won # "none" /\ (\A r \in Racer : rpc[r] = "gone") /\ unsure = {} /\ UNCHANGED racingVars

RacingNext ==
  \/ \E r \in Racer : Begins(r) \/ Executes(r) \/ Sends(r) \/ BecomesVisible(r)
  \/ Receives \/ Disconnected \/ RaceOver

RacingSpec == RacingInit /\ [][RacingNext]_racingVars

-----------------------------------------------------------------------------
(* "terminated without outcome" is returned only if both executors were    *)
(* tried and panicked: no answer is withheld because of the flag before    *)
(* one has won.                                                            *)
InterruptedMeansPanic ==
  won = "Interrupted" => \A r \in Racer : answer[r] = "panic"
=============================================================================
