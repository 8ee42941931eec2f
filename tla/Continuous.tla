----------------------------- MODULE Continuous -----------------------------
(***************************************************************************)
(* The continuous run (cli/src/suite/continuous.rs): rounds of all default *)
(* group scenarios, shuffled, on one rollup, until a scenario fails or the *)
(* user interrupts.                                                        *)
(*                                                                         *)
(* `running` is only polled inside settle, so a scenario ends only where   *)
(* the code awaits: when more than `keep` scenarios are running.           *)
(***************************************************************************)
EXTENDS Naturals, FiniteSets, Sequences, Functions

CONSTANTS
  Shared, Exclusive,  \* the scenarios of the default group
  MaxLimit,           \* largest --shared-concurrency considered
  MaxRounds           \* bound on the rounds one behaviour starts

Cases == Shared \cup Exclusive

ASSUME ContinuousAssumption ==
  /\ IsFiniteSet(Cases)
  /\ Shared \cap Exclusive = {}
  /\ MaxLimit \in Nat \ {0}
  /\ MaxRounds \in Nat

VARIABLES
  limit,    \* --shared-concurrency; never changes
  pc,       \* where run, run_rounds and run_round stand
  round,    \* rounds started
  queue,    \* cases of this round not yet considered
  running,  \* FuturesUnordered
  settled,  \* cases of this round whose record was taken
  failed,   \* those among them that failed
  rollup,   \* the group's rollup is up
  stop,     \* the watch channel of interruptible
  exit      \* exit code

vars == <<limit, pc, round, queue, running, settled, failed, rollup, stop, exit>>
work == <<queue, running, settled, failed>>

-----------------------------------------------------------------------------
Init ==
  /\ limit \in 1 .. MaxLimit
  /\ pc = "boot"
  /\ round = 0
  /\ queue = <<>>
  /\ running = {} /\ settled = {} /\ failed = {}
  /\ rollup = FALSE
  /\ stop = FALSE
  /\ exit = "none"

\* interruptible: an interruption hides the outcome.
ExitCode(ok) ==
  IF stop THEN "interrupted" ELSE IF ok THEN "success" ELSE "failure"

\* base_only, prepare and GroupEr::boot; the first error ends the run.
Boot ==
  /\ pc = "boot"
  /\ \/ /\ pc' = "round"
        /\ rollup' = TRUE
        /\ UNCHANGED exit
     \/ /\ pc' = "exit"
        /\ exit' = ExitCode(FALSE)
        /\ UNCHANGED rollup
  /\ UNCHANGED <<limit, round, stop>> /\ UNCHANGED work

\* The while of run_rounds: a fresh shuffle of the cases.
StartRound ==
  /\ pc = "round" /\ ~stop
  /\ round < MaxRounds
  /\ round' = round + 1
  /\ queue' \in Bijection(1 .. Cardinality(Cases), Cases)
  /\ settled' = {} /\ failed' = {}
  /\ pc' = "admit"
  /\ UNCHANGED <<limit, running, rollup, stop, exit>>

StopRounds ==
  /\ pc = "round" /\ stop
  /\ pc' = "finish"
  /\ UNCHANGED <<limit, round, rollup, stop, exit>> /\ UNCHANGED work

\* Mutant: exclusive scenarios wait for a place, not for an empty rollup.
KeepAlike ==
  IF pc = "admit" /\ queue # <<>> THEN limit - 1 ELSE 0

\* How many scenarios settle leaves running where run_round stands.
Keep ==
  IF pc = "admit" /\ queue # <<>> /\ Head(queue) \in Shared THEN limit - 1 ELSE 0

Settled == Cardinality(running) <= Keep

\* A turn of run_round's loop after its first settle.
AdmitNext ==
  /\ pc = "admit" /\ queue # <<>>
  /\ Settled
  /\ failed = {} /\ ~stop
  /\ running' = running \cup {Head(queue)}
  /\ queue' = Tail(queue)
  /\ pc' = IF Head(queue) \in Exclusive THEN "alone" ELSE "admit"
  /\ UNCHANGED <<limit, round, settled, failed, rollup, stop, exit>>

\* Mutant: the round ends after its first exclusive scenario.
ResumeDrains ==
  /\ pc = "alone" /\ Settled
  /\ pc' = "drain"
  /\ UNCHANGED <<limit, round, rollup, stop, exit>> /\ UNCHANGED work

\* The settle after an exclusive scenario has returned.
Resume ==
  /\ pc = "alone" /\ Settled
  /\ pc' = "admit"
  /\ UNCHANGED <<limit, round, rollup, stop, exit>> /\ UNCHANGED work

\* The for loop is exhausted or broken out of.
LeaveLoop ==
  /\ pc = "admit"
  /\ queue = <<>> \/ (Settled /\ (failed # {} \/ stop))
  /\ pc' = "drain"
  /\ UNCHANGED <<limit, round, rollup, stop, exit>> /\ UNCHANGED work

\* settle takes one record.
ScenarioEnds(e) ==
  /\ pc \in {"admit", "alone", "drain"}
  /\ pc = "admit" => queue # <<>>
  /\ ~Settled
  /\ e \in running
  /\ running' = running \ {e}
  /\ settled' = settled \cup {e}
  /\ failed' \in {failed, failed \cup {e}}
  /\ UNCHANGED <<limit, pc, round, queue, rollup, stop, exit>>

\* The last settle has returned; a failure ends the rounds.
RoundEnds ==
  /\ pc = "drain" /\ Settled
  /\ pc' = IF failed = {} THEN "round" ELSE "finish"
  /\ UNCHANGED <<limit, round, rollup, stop, exit>> /\ UNCHANGED work

\* group.finish (the process is gone even when it reports an error), reclaim
\* and the exit code.
Finish ==
  /\ pc = "finish"
  /\ rollup' = FALSE
  /\ \E clean \in BOOLEAN : exit' = ExitCode(failed = {} /\ clean)
  /\ pc' = "exit"
  /\ UNCHANGED <<limit, round, stop>> /\ UNCHANGED work

\* Ctrl+C.
Interrupt ==
  /\ ~stop /\ pc # "exit"
  /\ stop' = TRUE
  /\ UNCHANGED <<limit, pc, round, rollup, exit>> /\ UNCHANGED work

Progress ==
  \/ Boot \/ StartRound \/ StopRounds \/ AdmitNext \/ Resume \/ LeaveLoop
  \/ RoundEnds \/ Finish
  \/ \E e \in Cases : ScenarioEnds(e)

Next == Progress \/ Interrupt

Spec == Init /\ [][Next]_vars

\* The executor runs on, and each scenario is bounded by its own timeouts.
FairSpec == Spec /\ WF_vars(Progress)

-----------------------------------------------------------------------------
\* The variables keep to the values the code can give them.
TypeOK ==
  /\ limit \in 1 .. MaxLimit
  /\ pc \in {"boot", "round", "admit", "alone", "drain", "finish", "exit"}
  /\ round \in 0 .. MaxRounds
  /\ queue \in Seq(Cases)
  /\ running \subseteq Cases
  /\ settled \subseteq Cases
  /\ failed \subseteq settled
  /\ rollup \in BOOLEAN
  /\ stop \in BOOLEAN
  /\ exit \in {"none", "success", "failure", "interrupted"}

\* README: an exclusive scenario waits for running scenarios to finish and runs
\* alone.
ExclusiveRunsAlone ==
  running \cap Exclusive # {} => Cardinality(running) = 1

\* --shared-concurrency bounds the scenarios running at once.
WithinLimit == Cardinality(running) <= limit

\* A round that is followed by another one, or by nothing but a wait for the
\* interruption, has run every case and all of them passed.
CompleteRoundsRunEverything ==
  pc = "round" /\ round > 0 /\ ~stop =>
    settled = Cases /\ running = {} /\ failed = {}

\* The rollup is up while a scenario runs on it and is gone at the end.
RollupOutlivesItsScenarios ==
  /\ running # {} => rollup
  /\ pc = "exit" => ~rollup /\ running = {}

\* The run never ends with success: it ends by a failure or by the
\* interruption, which takes precedence.
EndsByFailureOrInterrupt ==
  pc = "exit" => exit = IF stop THEN "interrupted" ELSE "failure"

\* README: the first failure stops admission; so does an interruption.
NothingStartsAfterStopOrFailure ==
  [][running' \subseteq running \/ (failed = {} /\ ~stop)]_vars

\* What the rounds promise about the rollup they share.
Promise == INSTANCE Exclusion WITH closed <- failed # {} \/ stop

\* The rounds keep that promise: exclusive scenarios run alone, no more than
\* --shared-concurrency run at once, and the first failure or interruption
\* stops admission for good, over the end of a round too (run_round, settle).
ImplementsExclusion == Promise!Spec

\* README: after an exclusive scenario shared ones resume.  The queue of a
\* round is worked off unless a failure or an interruption ends the run.
QueueIsWorkedOff == (queue # <<>>) ~> (queue = <<>> \/ failed # {} \/ stop)

\* A failure or an interruption leads to the end of the run.
StopEnds == (failed # {} \/ stop) ~> (pc = "exit")

\* run_round and the loop around it never get stuck.
RoundsGoOn == QueueIsWorkedOff /\ StopEnds
=============================================================================
