-------------------------- MODULE ContinuousProofs --------------------------
(***************************************************************************)
(* Proofs about Continuous, for any set of scenarios, limit and number of  *)
(* rounds, and about Receipts, for any length of the histories, limit of   *)
(* their listings and number of base transactions.                         *)
(***************************************************************************)
EXTENDS Continuous, Receipts, FiniteSetTheorems, TLAPS

-----------------------------------------------------------------------------
\* Where run_round stands inside a round.
InRound == pc \in {"admit", "alone", "drain"}

\* Exclusive scenarios only run where the loop waits for them alone.
Isolation ==
  /\ pc = "alone" => \E x \in Exclusive : running \subseteq {x}
  /\ pc # "alone" => running \cap Exclusive = {}
  /\ ~InRound => running = {}

\* A round loses no case, and leaves its loop early only for a reason.
Coverage ==
  /\ InRound => Range(queue) \cup running \cup settled = Cases
  /\ pc = "drain" => queue = <<>> \/ failed # {} \/ stop
  /\ pc = "round" => failed = {}
  /\ pc = "finish" => failed # {} \/ stop
  /\ round = 0 => ~InRound
  /\ pc = "boot" => round = 0 /\ failed = {}

RollupBound ==
  /\ (InRound \/ pc \in {"round", "finish"}) => rollup
  /\ pc \in {"boot", "exit"} => ~rollup

IInv ==
  /\ TypeOK
  /\ Isolation
  /\ WithinLimit
  /\ Coverage
  /\ CompleteRoundsRunEverything
  /\ RollupBound
  /\ EndsByFailureOrInterrupt

-----------------------------------------------------------------------------
\* Every set of running scenarios is finite.
LEMMA RunningFinite ==
  ASSUME TypeOK
  PROVE  /\ IsFiniteSet(running)
         /\ Cardinality(running) \in Nat
         /\ limit \in Nat /\ limit >= 1
         /\ Cardinality(running) = 0 <=> running = {}
<1>1. IsFiniteSet(running)
  BY ContinuousAssumption, FS_Subset DEF ContinuousAssumption, TypeOK
<1>2. limit \in Nat /\ limit >= 1
  BY ContinuousAssumption DEF ContinuousAssumption, TypeOK
<1> QED BY <1>1, <1>2, FS_CardinalityType, FS_EmptySet

\* A shuffle of the cases holds every one of them.
LEMMA ShuffleCovers ==
  ASSUME NEW q \in Bijection(1 .. Cardinality(Cases), Cases)
  PROVE  q \in Seq(Cases) /\ Range(q) = Cases
<1> DEFINE n == Cardinality(Cases)
<1>1. n \in Nat
  BY ContinuousAssumption, FS_CardinalityType DEF ContinuousAssumption
<1>2. q \in [1 .. n -> Cases] /\ q \in Surjection(1 .. n, Cases)
  BY DEF Bijection, Surjection
<1>3. Range(q) = Cases
  BY <1>2 DEF Surjection, Range
<1> QED BY <1>1, <1>2, <1>3

\* Taking the head of the queue keeps the other cases in it.
LEMMA TailRange ==
  ASSUME NEW q \in Seq(Cases), q # <<>>
  PROVE  /\ Head(q) \in Cases
         /\ Tail(q) \in Seq(Cases)
         /\ Range(q) = {Head(q)} \cup Range(Tail(q))
<1>1. Head(q) \in Cases /\ Tail(q) \in Seq(Cases) /\ Len(Tail(q)) = Len(q) - 1
  OBVIOUS
<1>2. \A i \in 1 .. Len(Tail(q)) : Tail(q)[i] = q[i + 1]
  OBVIOUS
<1>3. Len(q) \in Nat \ {0} /\ DOMAIN q = 1 .. Len(q) /\ DOMAIN Tail(q) = 1 .. Len(q) - 1
  BY <1>1
<1>4. Head(q) = q[1]
  OBVIOUS
<1>5. ASSUME NEW i \in DOMAIN q PROVE q[i] \in {Head(q)} \cup Range(Tail(q))
  <2>1. CASE i = 1 BY <2>1, <1>4
  <2>2. CASE i # 1
    <3>1. i - 1 \in DOMAIN Tail(q) /\ q[i] = Tail(q)[i - 1]
      BY <2>2, <1>1, <1>2, <1>3
    <3> QED BY <3>1 DEF Range
  <2> QED BY <2>1, <2>2
<1>6. ASSUME NEW i \in DOMAIN Tail(q) PROVE Tail(q)[i] \in Range(q)
  <2>1. i + 1 \in DOMAIN q /\ Tail(q)[i] = q[i + 1]
    BY <1>1, <1>2, <1>3
  <2> QED BY <2>1 DEF Range
<1>7. Head(q) \in Range(q)
  BY <1>3, <1>4 DEF Range
<1> QED BY <1>1, <1>5, <1>6, <1>7 DEF Range

\* An exhausted queue holds nothing.
LEMMA EmptyRange == Range(<<>>) = {}
BY DEF Range

\* The invariant holds initially.
LEMMA InitInv == Init => IInv
<1> SUFFICES ASSUME Init PROVE IInv
  OBVIOUS
<1>1. TypeOK
  <2>1. rollup \in BOOLEAN /\ stop \in BOOLEAN
    BY Zenon DEF Init
  <2>2. queue \in Seq(Cases) /\ round \in 0 .. MaxRounds
    BY ContinuousAssumption DEF ContinuousAssumption, Init
  <2> QED BY <2>1, <2>2 DEF Init, TypeOK
<1>2. Isolation /\ RollupBound /\ Coverage
  BY DEF Init, Isolation, RollupBound, Coverage, InRound
<1>3. WithinLimit
  BY <1>1, RunningFinite DEF Init, WithinLimit
<1>4. CompleteRoundsRunEverything /\ EndsByFailureOrInterrupt
  BY DEF Init, CompleteRoundsRunEverything, EndsByFailureOrInterrupt
<1> QED BY <1>1, <1>2, <1>3, <1>4 DEF IInv

\* Steps that leave the work of the round alone, and the limit.
LEMMA QuietStep ==
  ASSUME TypeOK, UNCHANGED work, UNCHANGED limit,
         round' \in 0 .. MaxRounds, rollup' \in BOOLEAN, stop' \in BOOLEAN,
         pc' \in {"boot", "round", "admit", "alone", "drain", "finish", "exit"},
         exit' \in {"none", "success", "failure", "interrupted"}
  PROVE  TypeOK' /\ (WithinLimit => WithinLimit')
BY DEF TypeOK, work, WithinLimit

\* An admission keeps to the limit, and an exclusive scenario is admitted to
\* an idle rollup.
LEMMA AdmitStep ==
  ASSUME IInv, AdmitNext
  PROVE  IInv'
<1> USE DEF AdmitNext
<1>1. TypeOK
  BY DEF IInv
<1>2. queue \in Seq(Cases) /\ queue # <<>>
  BY <1>1 DEF TypeOK
<1>3. /\ Head(queue) \in Cases
      /\ Tail(queue) \in Seq(Cases)
      /\ Range(queue) = {Head(queue)} \cup Range(Tail(queue))
  BY <1>2, TailRange
<1>4. TypeOK'
  <2>1. pc' \in {"admit", "alone"}
    OBVIOUS
  <2>2. running' \subseteq Cases /\ queue' \in Seq(Cases)
    BY <1>1, <1>3 DEF TypeOK
  <2> QED BY <1>1, <2>1, <2>2 DEF TypeOK
<1>5. Cardinality(running) <= Keep
  BY DEF Settled
<1>6. CASE Head(queue) \in Exclusive
  <2>1. Keep = 0
    BY <1>6, ContinuousAssumption DEF Keep, ContinuousAssumption
  <2>2. running = {}
    BY <1>1, <1>5, <2>1, RunningFinite
  <2>3. running' = {Head(queue)} /\ pc' = "alone"
    BY <1>6, <2>2
  <2>4. Isolation'
    BY <1>6, <2>3 DEF Isolation, InRound
  <2>5. WithinLimit'
    BY Zenon, <1>1, <2>3, RunningFinite, FS_Singleton DEF WithinLimit
  <2> QED
    BY <1>3, <1>4, <2>3, <2>4, <2>5
    DEF IInv, Coverage, CompleteRoundsRunEverything, RollupBound,
        EndsByFailureOrInterrupt, InRound
<1>7. CASE Head(queue) \notin Exclusive
  <2>1. Keep = limit - 1 /\ pc' = "admit"
    BY <1>3, <1>7 DEF Keep, Cases
  <2>2. Isolation'
    BY <1>7, <2>1 DEF IInv, Isolation, InRound
  <2>3. Cardinality(running') <= Cardinality(running) + 1
    <3> DEFINE next == running \cup {Head(queue)}
    <3>1. Cardinality(next) = IF Head(queue) \in running THEN Cardinality(running)
                                                        ELSE Cardinality(running) + 1
      BY Zenon, <1>1, RunningFinite, FS_AddElement
    <3>2. Cardinality(running) \in Nat
      BY <1>1, RunningFinite
    <3>3. Cardinality(next) <= Cardinality(running) + 1
      BY <3>1, <3>2
    <3>4. running' = next
      OBVIOUS
    <3> QED BY <3>3, <3>4
  <2>4. IsFiniteSet(running') /\ Cardinality(running') \in Nat
    BY <1>4, RunningFinite, FS_AddElement, FS_CardinalityType, <1>1
  <2>5. WithinLimit'
    BY <1>1, <1>5, <2>1, <2>3, <2>4, RunningFinite DEF WithinLimit
  <2> QED
    BY <1>3, <1>4, <2>1, <2>2, <2>5
    DEF IInv, Coverage, CompleteRoundsRunEverything, RollupBound,
        EndsByFailureOrInterrupt, InRound
<1> QED BY <1>6, <1>7

\* Taking a record only shrinks the running set.
LEMMA EndStep ==
  ASSUME IInv, NEW e \in Cases, ScenarioEnds(e)
  PROVE  IInv'
<1> USE DEF ScenarioEnds
<1>1. TypeOK
  BY DEF IInv
<1>2. TypeOK'
  BY <1>1 DEF TypeOK
<1>3. Isolation'
  BY DEF IInv, Isolation, InRound
<1>4. WithinLimit'
  <2>1. Cardinality(running') <= Cardinality(running) /\ Cardinality(running') \in Nat
    <3>1. running' \in SUBSET running /\ IsFiniteSet(running)
      BY <1>1, RunningFinite
    <3> QED BY <3>1, FS_Subset, FS_CardinalityType
  <2> QED BY <1>1, <2>1, RunningFinite DEF IInv, WithinLimit
<1>5. Coverage'
  BY DEF IInv, Coverage, InRound
<1> QED
  BY <1>2, <1>3, <1>4, <1>5
  DEF IInv, CompleteRoundsRunEverything, RollupBound, EndsByFailureOrInterrupt, InRound

\* A new round starts with all the cases in its queue.
LEMMA RoundStep ==
  ASSUME IInv, StartRound
  PROVE  IInv'
<1> USE DEF StartRound
<1>1. TypeOK
  BY DEF IInv
<1>2. queue' \in Seq(Cases) /\ Range(queue') = Cases
  BY ShuffleCovers
<1>3. running = {}
  BY DEF IInv, Isolation, InRound
<1>4. TypeOK'
  <2>1. round' \in 0 .. MaxRounds
    BY <1>1, ContinuousAssumption DEF TypeOK, ContinuousAssumption
  <2> QED BY <1>1, <1>2, <2>1 DEF TypeOK
<1>5. Isolation'
  BY <1>3 DEF Isolation, InRound
<1>6. WithinLimit'
  BY DEF IInv, WithinLimit
<1>7. Coverage'
  <2>1. round' # 0
    BY <1>1, ContinuousAssumption DEF TypeOK, ContinuousAssumption
  <2> QED BY <1>2, <1>3, <2>1 DEF Coverage, InRound
<1> QED
  BY <1>4, <1>5, <1>6, <1>7
  DEF IInv, CompleteRoundsRunEverything, RollupBound, EndsByFailureOrInterrupt, InRound

\* Every step preserves the invariant.
LEMMA Inductive == IInv /\ [Next]_vars => IInv'
<1> SUFFICES ASSUME IInv, [Next]_vars PROVE IInv'
  OBVIOUS
<1> USE DEF IInv
<1>1. CASE UNCHANGED vars
  BY <1>1 DEF vars, TypeOK, Isolation, WithinLimit, Coverage, InRound, RollupBound,
              CompleteRoundsRunEverything, EndsByFailureOrInterrupt
<1>2. CASE Boot
  <2>1. pc' \in {"round", "exit"} /\ exit' \in {"none", "success", "failure", "interrupted"}
    BY <1>2 DEF Boot, ExitCode, TypeOK
  <2>2. rollup' \in BOOLEAN /\ stop' \in BOOLEAN
    BY <1>2, Zenon DEF Boot, TypeOK
  <2>3. TypeOK' /\ WithinLimit'
    BY <1>2, <2>1, <2>2, QuietStep DEF Boot, TypeOK
  <2> QED
    BY <1>2, <2>1, <2>3
    DEF Boot, ExitCode, work, Isolation, Coverage, InRound, RollupBound,
        CompleteRoundsRunEverything, EndsByFailureOrInterrupt
<1>3. CASE StartRound
  BY <1>3, RoundStep
<1>4. CASE StopRounds
  <2>1. TypeOK' /\ WithinLimit'
    BY <1>4, QuietStep DEF StopRounds, TypeOK
  <2> QED
    BY <1>4, <2>1
    DEF StopRounds, work, Isolation, Coverage, InRound, RollupBound,
        CompleteRoundsRunEverything, EndsByFailureOrInterrupt
<1>5. CASE AdmitNext
  BY <1>5, AdmitStep
<1>6. CASE Resume
  <2>1. TypeOK' /\ WithinLimit'
    BY <1>6, QuietStep DEF Resume, TypeOK
  <2>2. running = {}
    BY <1>6, RunningFinite DEF Resume, Settled, Keep
  <2> QED
    BY <1>6, <2>1, <2>2
    DEF Resume, work, Isolation, Coverage, InRound, RollupBound,
        CompleteRoundsRunEverything, EndsByFailureOrInterrupt
<1>7. CASE LeaveLoop
  <2>1. TypeOK' /\ WithinLimit'
    BY <1>7, QuietStep DEF LeaveLoop, TypeOK
  <2> QED
    BY <1>7, <2>1
    DEF LeaveLoop, work, Isolation, Coverage, InRound, RollupBound,
        CompleteRoundsRunEverything, EndsByFailureOrInterrupt
<1>8. CASE RoundEnds
  <2>1. pc' \in {"round", "finish"}
    BY <1>8 DEF RoundEnds
  <2>2. TypeOK' /\ WithinLimit'
    BY <1>8, <2>1, QuietStep DEF RoundEnds, TypeOK
  <2>3. running = {}
    BY <1>8, RunningFinite DEF RoundEnds, Settled, Keep
  <2>4. ~stop /\ failed = {} => settled = Cases
    BY Zenon, <1>8, <2>3, EmptyRange DEF RoundEnds, Coverage, InRound
  <2> QED
    BY <1>8, <2>1, <2>2, <2>3, <2>4
    DEF RoundEnds, work, Isolation, Coverage, InRound, RollupBound,
        CompleteRoundsRunEverything, EndsByFailureOrInterrupt
<1>9. CASE Finish
  <2>1. exit' = (IF stop THEN "interrupted" ELSE "failure")
    BY <1>9 DEF Finish, ExitCode, Coverage
  <2>2. TypeOK' /\ WithinLimit'
    BY Zenon, <1>9, <2>1, QuietStep DEF Finish, TypeOK
  <2> QED
    BY <1>9, <2>1, <2>2
    DEF Finish, work, Isolation, Coverage, InRound, RollupBound,
        CompleteRoundsRunEverything, EndsByFailureOrInterrupt
<1>10. CASE Interrupt
  <2>1. TypeOK' /\ WithinLimit'
    BY <1>10, QuietStep DEF Interrupt, TypeOK
  <2> QED
    BY <1>10, <2>1
    DEF Interrupt, work, Isolation, Coverage, InRound, RollupBound,
        CompleteRoundsRunEverything, EndsByFailureOrInterrupt
<1>11. ASSUME NEW e \in Cases, ScenarioEnds(e) PROVE IInv'
  BY <1>11, EndStep
<1> QED
  BY <1>1, <1>2, <1>3, <1>4, <1>5, <1>6, <1>7, <1>8, <1>9, <1>10, <1>11
  DEF Next, Progress

\* The inductive invariant holds in every reachable state.
THEOREM Invariance == Spec => []IInv
BY InitInv, Inductive, PTL DEF Spec

\* The variables keep their types.
THEOREM TypeCorrect == Spec => []TypeOK
<1>1. IInv => TypeOK
  BY DEF IInv
<1> QED BY <1>1, Invariance, PTL

\* An exclusive scenario is the only one running on the rollup.
THEOREM ExclusiveCorrect == Spec => []ExclusiveRunsAlone
<1>1. IInv => ExclusiveRunsAlone
  <2> SUFFICES ASSUME IInv, running \cap Exclusive # {} PROVE Cardinality(running) = 1
    BY DEF ExclusiveRunsAlone
  <2>1. PICK x \in Exclusive : running \subseteq {x}
    BY DEF IInv, Isolation
  <2>2. running = {x}
    BY <2>1
  <2> QED BY Zenon, <2>2, FS_Singleton
<1> QED BY <1>1, Invariance, PTL

\* No more than --shared-concurrency scenarios run at once.
THEOREM LimitCorrect == Spec => []WithinLimit
<1>1. IInv => WithinLimit
  BY DEF IInv
<1> QED BY <1>1, Invariance, PTL

\* A round that is not cut short has run every case.
THEOREM RoundCorrect == Spec => []CompleteRoundsRunEverything
<1>1. IInv => CompleteRoundsRunEverything
  BY DEF IInv
<1> QED BY <1>1, Invariance, PTL

\* The rollup is torn down only after every scenario on it has ended.
THEOREM RollupCorrect == Spec => []RollupOutlivesItsScenarios
<1>1. IInv => RollupOutlivesItsScenarios
  BY DEF IInv, Isolation, RollupBound, InRound, RollupOutlivesItsScenarios
<1> QED BY <1>1, Invariance, PTL

\* A continuous run only ends by a failure or an interruption.
THEOREM ExitCorrect == Spec => []EndsByFailureOrInterrupt
<1>1. IInv => EndsByFailureOrInterrupt
  BY DEF IInv
<1> QED BY <1>1, Invariance, PTL

\* Nothing is admitted once a scenario has failed or the run was interrupted.
THEOREM StopCorrect == Spec => NothingStartsAfterStopOrFailure
<1>1. IInv /\ [Next]_vars =>
        [running' \subseteq running \/ (failed = {} /\ ~stop)]_vars
  <2> SUFFICES ASSUME IInv, [Next]_vars
               PROVE  running' \subseteq running \/ (failed = {} /\ ~stop)
    OBVIOUS
  <2>1. CASE AdmitNext
    BY <2>1 DEF AdmitNext
  <2>2. CASE StartRound
    BY <2>2 DEF StartRound
  <2>3. ASSUME NEW e \in Cases, ScenarioEnds(e) PROVE running' \subseteq running
    BY <2>3 DEF ScenarioEnds
  <2>4. CASE Boot \/ StopRounds \/ Resume \/ LeaveLoop \/ RoundEnds \/ Finish \/ Interrupt
    BY Zenon, <2>4 DEF Boot, StopRounds, Resume, LeaveLoop, RoundEnds, Finish, Interrupt, work
  <2>5. CASE UNCHANGED vars
    BY <2>5 DEF vars
  <2> QED BY <2>1, <2>2, <2>3, <2>4, <2>5 DEF Next, Progress
<1> QED BY <1>1, Invariance, PTL DEF Spec, NothingStartsAfterStopOrFailure

-----------------------------------------------------------------------------
\* Refinement: the rounds implement Exclusion.  The mapping takes `closed` to
\* "a case of this round failed or the run was interrupted".

Closed == failed # {} \/ stop

\* The scenarios that run in a state of the inductive invariant fit together.
LEMMA RunningFits ==
  ASSUME IInv
  PROVE  Promise!Fits(running)
<1>1. Cardinality(running) <= limit
  BY DEF IInv, WithinLimit
<1>2. ASSUME running \cap Exclusive # {} PROVE Cardinality(running) = 1
  <2>1. PICK x \in Exclusive : running \subseteq {x}
    BY <1>2 DEF IInv, Isolation
  <2>2. running = {x}
    BY <1>2, <2>1
  <2> QED BY Zenon, <2>2, FS_Singleton
<1>3. \A S : Promise!Cardinality(S) = Cardinality(S)
  BY DEF Promise!Cardinality, Cardinality
<1> QED BY <1>1, <1>2, <1>3 DEF Promise!Fits

\* Closing is for good: a new round starts only when nothing failed.
LEMMA ClosedStays ==
  ASSUME IInv, [Next]_vars, Closed
  PROVE  Closed' /\ running' \subseteq running
<1>1. CASE StartRound
  BY <1>1 DEF StartRound, IInv, Coverage, Closed
<1>2. CASE AdmitNext
  BY <1>2 DEF AdmitNext, Closed
<1>3. ASSUME NEW e \in Cases, ScenarioEnds(e)
      PROVE  Closed' /\ running' \subseteq running
  BY <1>3 DEF ScenarioEnds, Closed
<1>4. CASE Boot \/ StopRounds \/ Resume \/ LeaveLoop \/ RoundEnds \/ Finish \/ Interrupt
  BY Zenon, <1>4 DEF Boot, StopRounds, Resume, LeaveLoop, RoundEnds, Finish, Interrupt, work, Closed
<1>5. CASE UNCHANGED vars
  BY <1>5 DEF vars, Closed
<1> QED BY <1>1, <1>2, <1>3, <1>4, <1>5 DEF Next, Progress

\* The step that closes starts nothing either.
LEMMA ClosingStartsNothing ==
  ASSUME IInv, [Next]_vars, ~Closed, Closed'
  PROVE  running' \subseteq running
<1>1. CASE StartRound
  BY <1>1 DEF StartRound
<1>2. CASE AdmitNext
  BY <1>2 DEF AdmitNext, Closed
<1>3. ASSUME NEW e \in Cases, ScenarioEnds(e) PROVE running' \subseteq running
  BY <1>3 DEF ScenarioEnds
<1>4. CASE Boot \/ StopRounds \/ Resume \/ LeaveLoop \/ RoundEnds \/ Finish \/ Interrupt
  BY Zenon, <1>4 DEF Boot, StopRounds, Resume, LeaveLoop, RoundEnds, Finish, Interrupt, work
<1>5. CASE UNCHANGED vars
  BY <1>5 DEF vars
<1> QED BY <1>1, <1>2, <1>3, <1>4, <1>5 DEF Next, Progress

\* --shared-concurrency is fixed for the run.
LEMMA LimitFixed ==
  ASSUME [Next]_vars
  PROVE  limit' = limit
BY Zenon DEF Next, Progress, Boot, StartRound, StopRounds, AdmitNext, Resume, LeaveLoop,
       ScenarioEnds, RoundEnds, Finish, Interrupt, vars

\* Every behaviour of the continuous run keeps the promise of Exclusion
\* (run_round, settle): each step is a Turn of the abstract scheduler.
THEOREM ExclusionCorrect == Spec => ImplementsExclusion
<1>1. Init => Promise!Init
  BY DEF Init, Promise!Init
<1>2. IInv /\ IInv' /\ [Next]_vars => Promise!Turn
  <2> SUFFICES ASSUME IInv, IInv', [Next]_vars PROVE Promise!Turn
    OBVIOUS
  <2>1. limit' = limit
    BY LimitFixed
  <2>2. Closed => Closed'
    BY ClosedStays
  <2>3. Promise!Fits(running')
    <3>1. Promise!Fits(running)'
      BY RunningFits, PTL
    <3> QED BY <3>1, <2>1 DEF Promise!Fits
  <2>4. Closed' => running' \subseteq running
    BY ClosedStays, ClosingStartsNothing
  <2> QED BY <2>1, <2>2, <2>3, <2>4 DEF Promise!Turn, Closed
<1> QED BY <1>1, <1>2, Invariance, PTL DEF Spec, ImplementsExclusion, Promise!Spec

-----------------------------------------------------------------------------
\* Receipts: what may be in a history.
Transactions == {Ongoing, Other, Earlier} \cup Completions

\* The stages at which a receipt has been taken, at which its base
\* transactions are confirmed, and the ones before the announcement.
Judged == {"verify", "confirm", "status", "outcome", "settled", "duplicate"}
Confirming == {"confirm", "status", "outcome", "settled"}
Unannounced == {"arm", "scheduling", "published", "list", "inspect"} \cup ReceiptOver

\* The shape of the state.
ReceiptsTypeOK ==
  /\ target \in {"unknown", "signature", "outbox", "missing", "failed"}
  /\ outbox \in Seq(Transactions)
  /\ readable \subseteq DOMAIN outbox
  /\ base \in [1 .. MaxBase -> {"sent", "processed", "confirmed", "failed"}]
  /\ told \in Seq(DOMAIN outbox)
  /\ listing.all \subseteq DOMAIN outbox
  /\ listing \in [all : SUBSET Nat, left : Seq(Nat), unreadable : BOOLEAN]
  /\ unconfirmed \in Seq(Nat)

\* The call does not change.
CallOK == op \in {"watch", "check", "absent"}

\* Nothing is heard or taken before the scheduling transaction has executed.
AnnouncedOK ==
  /\ stage \notin Unannounced => target # "unknown"
  /\ "schedule" \in heard => target # "unknown"

\* What is taken for the receipt is a completion of this scheduling.
TakenOK == stage \in Judged => receipt \in DOMAIN outbox /\ outbox[receipt] \in Completions

\* The base transactions before the first unconfirmed one are confirmed, and a
\* notification is of the first.
ConfirmedOK ==
  stage \in Confirming =>
    LET n == outbox[receipt].base
        m == Len(unconfirmed)
    IN  /\ outbox[receipt].error = "none" /\ outbox[receipt].matches
        /\ m <= n
        /\ \A k \in 1 .. m : unconfirmed[k] = (n - m) + k
        /\ \A b \in 1 .. n - m : base[b] = "confirmed"
        /\ stage = "settled" => m = 0
        /\ stage \in {"status", "outcome"} =>
             /\ m > 0
             /\ heard # {} => base[(n - m) + 1] \in {"confirmed", "failed"}

\* What was listed is to be read still, or was read and is not the receipt.
InspectedOK ==
  /\ stage = "inspect" /\ ~listing.unreadable =>
       \A i \in listing.all : Visible(i) => \E k \in DOMAIN listing.left : listing.left[k] = i
  /\ stage = "absent" => \A i \in listing.all : ~Visible(i)

ReceiptsInv == ReceiptsTypeOK /\ AnnouncedOK /\ TakenOK /\ ConfirmedOK /\ InspectedOK

-----------------------------------------------------------------------------
\* A completion of this intent that is not of an earlier ledger is one of the
\* ways this scheduling completes.
LEMMA Recognised ==
  ASSUME NEW t \in Transactions, t.slot >= MinSlot, t.kind = "completion", t.id = Intent
  PROVE  t \in Completions
<1>1. CASE t = Ongoing
  BY <1>1 DEF Ongoing
<1>2. CASE t = Earlier
  BY <1>2 DEF Earlier, Ongoing, MinSlot
<1>3. CASE t = Other
  BY <1>3 DEF Other, Ongoing, Intent
<1> QED BY <1>1, <1>2, <1>3 DEF Transactions

\* A completion has this many base transactions.
LEMMA BaseCount ==
  ASSUME NEW t \in Completions
  PROVE  t.base \in 0 .. MaxBase
<1>1. MaxBase \in Nat
  BY ReceiptsAssumption
<1>2. Ongoing.base = 0
  BY DEF Ongoing
<1> DEFINE done == [Ongoing EXCEPT !.kind = "completion"]
<1>3. done.base = 0
  BY DEF Ongoing
<1>4. CASE \E n \in 0 .. MaxBase : t = [done EXCEPT !.base = n]
  BY <1>4 DEF Ongoing
<1>5. CASE t \in {[done EXCEPT !.matches = FALSE], [done EXCEPT !.error = "duplicate"],
                  [done EXCEPT !.error = "failed"]}
  <2>1. t.base = done.base
    BY Zenon, <1>5 DEF Ongoing
  <2> QED BY <1>1, <1>3, <2>1
<1> QED BY Zenon, <1>4, <1>5 DEF Completions

\* What a completion may report.
LEMMA ErrorKinds ==
  ASSUME NEW t \in Completions
  PROVE  t.error \in {"none", "duplicate", "failed"}
BY Zenon DEF Completions, Ongoing

\* A step that takes nothing and neither confirms nor inspects.
LEMMA MovesOn ==
  ASSUME ReceiptsInv, UNCHANGED ledgers, UNCHANGED <<listing, unconfirmed>>,
         told' \in Seq(DOMAIN outbox), heard' \subseteq heard,
         stage' \notin Judged \cup {"inspect", "absent"},
         stage' \in Unannounced \/ target # "unknown"
  PROVE  ReceiptsInv'
<1>1. ReceiptsTypeOK'
  BY DEF ReceiptsInv, ReceiptsTypeOK, ledgers
<1>2. AnnouncedOK'
  BY DEF ReceiptsInv, AnnouncedOK, ledgers
<1>3. TakenOK' /\ ConfirmedOK' /\ InspectedOK'
  BY DEF TakenOK, ConfirmedOK, InspectedOK, Judged, Confirming
<1> QED BY <1>1, <1>2, <1>3 DEF ReceiptsInv

\* A step that takes a completion for the receipt.
LEMMA TakesOne ==
  ASSUME ReceiptsInv, UNCHANGED ledgers, UNCHANGED <<listing, unconfirmed, heard>>,
         told' \in Seq(DOMAIN outbox), stage \notin Unannounced,
         NEW i \in DOMAIN outbox, IsAnnounced(i), Takes(i)
  PROVE  ReceiptsInv'
<1>1. ReceiptsTypeOK'
  BY DEF ReceiptsInv, ReceiptsTypeOK, ledgers
<1>2. AnnouncedOK'
  BY DEF ReceiptsInv, AnnouncedOK, ledgers
<1>3. TakenOK'
  <2>1. outbox[i] \in Transactions
    BY DEF ReceiptsInv, ReceiptsTypeOK
  <2>2. outbox[i] \in Completions
    BY <2>1, Recognised DEF IsAnnounced, Completion
  <2> QED BY <2>2 DEF TakenOK, Takes, ledgers
<1>4. ConfirmedOK' /\ InspectedOK'
  BY DEF ConfirmedOK, InspectedOK, Confirming, Takes
<1> QED BY <1>1, <1>2, <1>3, <1>4 DEF ReceiptsInv

-----------------------------------------------------------------------------
\* The announcement is awaited, and the receipt looked for.
LEMMA LookStep ==
  ASSUME ReceiptsInv, CallOK,
         Arm \/ Scheduling \/ Published \/ AfterSlot \/ FetchStarts \/ WakeSlot \/ WakeHistory
           \/ Probed \/ Timeout
  PROVE  ReceiptsInv'
<1>1. UNCHANGED ledgers /\ UNCHANGED <<listing, unconfirmed>>
  BY Zenon DEF Arm, Scheduling, Published, AfterSlot, FetchStarts, WakeSlot, WakeHistory,
         Probed, Timeout, absence
<1>2. told \in Seq(DOMAIN outbox) /\ <<>> \in Seq(DOMAIN outbox)
  BY DEF ReceiptsInv, ReceiptsTypeOK
<1>3. told' \in Seq(DOMAIN outbox) /\ heard' \subseteq heard
  BY Zenon, <1>2 DEF Arm, Scheduling, Published, AfterSlot, FetchStarts, WakeSlot, WakeHistory,
              Probed, Timeout, subscriptions
<1>4. CASE Arm \/ Timeout
  BY <1>1, <1>3, <1>4, MovesOn DEF Arm, Timeout, Judged, Unannounced, ReceiptOver
<1>5. CASE Scheduling \/ Published
  <2>1. target \in {"signature", "outbox", "missing", "failed"}
    BY <1>5 DEF Scheduling, Published, ReceiptsInv, AnnouncedOK, ReceiptsTypeOK
  <2>2. Announced \in {"failed", "receipt", "fetchOne", "ask", "slot", "fetch", "list"}
    BY <2>1 DEF Announced, CallOK
  <2>3. stage' = Announced
    BY <1>5 DEF Scheduling, Published
  <2> HIDE DEF Announced
  <2> QED BY <1>1, <1>3, <2>1, <2>2, <2>3, MovesOn DEF Judged
<1>6. CASE AfterSlot \/ FetchStarts \/ WakeSlot \/ WakeHistory \/ Probed
  <2>1. stage \in {"slot", "fetch", "select", "probe"} /\ stage' \in {"fetch", "select", "probe"}
    BY Zenon, <1>6 DEF AfterSlot, FetchStarts, WakeSlot, WakeHistory, Probed
  <2>2. target # "unknown"
    BY <2>1 DEF ReceiptsInv, AnnouncedOK, Unannounced, ReceiptOver
  <2> QED BY <1>1, <1>3, <2>1, <2>2, MovesOn DEF Judged
<1> QED BY <1>4, <1>5, <1>6

\* A notification, a listed signature or an announced one is looked at.
LEMMA FindStep ==
  ASSUME ReceiptsInv, ReceiptNotified \/ ReceiptFetched \/ WakeLogs \/ Probe
  PROVE  ReceiptsInv'
<1>1. UNCHANGED ledgers /\ UNCHANGED <<listing, unconfirmed, heard>>
  BY DEF ReceiptNotified, ReceiptFetched, WakeLogs, Probe, subscriptions, absence
<1>2. told \in Seq(DOMAIN outbox)
  BY DEF ReceiptsInv, ReceiptsTypeOK
<1>3. told # <<>> => Head(told) \in DOMAIN outbox /\ Tail(told) \in Seq(DOMAIN outbox)
  <2>1. ASSUME NEW S, NEW s \in Seq(S), s # <<>> PROVE Head(s) \in S /\ Tail(s) \in Seq(S)
    BY <2>1
  <2> QED BY <1>2, <2>1
<1>4. told' \in Seq(DOMAIN outbox)
  BY <1>2, <1>3 DEF ReceiptNotified, ReceiptFetched, WakeLogs, Probe, subscriptions
<1>5. stage \in {"receipt", "fetchOne", "select", "probe"}
  BY DEF ReceiptNotified, ReceiptFetched, WakeLogs, Probe
<1>6. stage \notin Unannounced /\ target # "unknown"
  BY <1>5 DEF ReceiptsInv, AnnouncedOK, Unannounced, ReceiptOver
<1>7. CASE \E i \in DOMAIN outbox : IsAnnounced(i) /\ Takes(i)
  BY <1>1, <1>4, <1>6, <1>7, TakesOne
<1>8. CASE stage' \in {stage, "probe"}
  BY <1>1, <1>4, <1>5, <1>6, <1>8, MovesOn DEF Judged
<1>9. (\E i \in DOMAIN outbox : IsAnnounced(i) /\ Takes(i)) \/ stage' \in {stage, "probe"}
  <2>1. CASE ReceiptNotified
    BY <1>3, <2>1 DEF ReceiptNotified
  <2>2. CASE ReceiptFetched
    BY <2>2 DEF ReceiptFetched, ReceiptsInv, ReceiptsTypeOK
  <2>3. CASE WakeLogs
    BY <2>3 DEF WakeLogs
  <2>4. CASE Probe
    BY <2>4 DEF Probe, Wanted, IsAnnounced, ReceiptsInv, ReceiptsTypeOK
  <2> QED BY <2>1, <2>2, <2>3, <2>4
<1> QED BY <1>7, <1>8, <1>9

-----------------------------------------------------------------------------
\* The numbers after d, without the first, are the numbers after d + 1.
LEMMA Rest ==
  ASSUME NEW u \in Seq(Nat), u # <<>>, NEW d \in Nat, \A k \in 1 .. Len(u) : u[k] = d + k
  PROVE  /\ Head(u) = d + 1 /\ Tail(u) \in Seq(Nat) /\ Len(Tail(u)) = Len(u) - 1
         /\ Len(u) \in Nat /\ Len(u) > 0
         /\ \A k \in 1 .. Len(u) - 1 : Tail(u)[k] = (d + 1) + k
<1>1. /\ Head(u) = u[1] /\ Tail(u) \in Seq(Nat) /\ Len(Tail(u)) = Len(u) - 1
      /\ Len(u) \in Nat /\ Len(u) > 0
      /\ \A k \in 1 .. Len(u) - 1 : Tail(u)[k] = u[k + 1]
  OBVIOUS
<1>2. Head(u) = d + 1
  BY <1>1
<1>3. ASSUME NEW k \in 1 .. Len(u) - 1
      PROVE  Tail(u)[k] = (d + 1) + k
  <2>1. k + 1 \in 1 .. Len(u)
    BY <1>1
  <2>2. Tail(u)[k] = u[k + 1] /\ u[k + 1] = d + (k + 1)
    BY <1>1, <2>1
  <2>3. k \in Nat
    BY <1>1
  <2> QED BY <2>2, <2>3
<1> QED BY <1>1, <1>2, <1>3

\* verify: an error, or every base transaction is still to be confirmed.
LEMMA VerifyStep ==
  ASSUME ReceiptsInv, Verify
  PROVE  ReceiptsInv'
<1> DEFINE r == outbox[receipt]
<1>1. /\ stage = "verify" /\ UNCHANGED ledgers /\ UNCHANGED <<listing, receipt, told, heard>>
      /\ unconfirmed' = [k \in 1 .. r.base |-> k]
      /\ \/ stage' \in {"duplicate", "failed"}
         \/ stage' = "confirm" /\ r.error \notin {"duplicate", "failed"} /\ r.matches
  BY DEF Verify, subscriptions, absence
<1>2. receipt \in DOMAIN outbox /\ r \in Completions
  BY <1>1 DEF ReceiptsInv, TakenOK, Judged
<1>3. r.base \in Nat /\ r.base \in 0 .. MaxBase
  BY <1>2, BaseCount, ReceiptsAssumption
<1> HIDE DEF r
<1>4. /\ unconfirmed' \in Seq(Nat) /\ Len(unconfirmed') = r.base
      /\ \A k \in 1 .. r.base : unconfirmed'[k] = k
  <2>1. ASSUME NEW n \in Nat
        PROVE  LET u == [k \in 1 .. n |-> k] IN u \in Seq(Nat) /\ Len(u) = n
    OBVIOUS
  <2> QED BY <1>1, <1>3, <2>1
<1>5. ReceiptsTypeOK'
  BY <1>1, <1>4 DEF ReceiptsInv, ReceiptsTypeOK, ledgers
<1>6. AnnouncedOK'
  BY <1>1 DEF ReceiptsInv, AnnouncedOK, ledgers, Unannounced, ReceiptOver
<1>7. TakenOK'
  BY <1>1, <1>2 DEF TakenOK, ledgers, r
<1>8. ConfirmedOK'
  <2>1. r.error \in {"none", "duplicate", "failed"}
    BY <1>2, ErrorKinds
  <2> QED BY <1>1, <1>3, <1>4, <2>1 DEF ConfirmedOK, Confirming, ledgers, r
<1>9. InspectedOK'
  BY <1>1 DEF InspectedOK
<1> QED BY <1>5, <1>6, <1>7, <1>8, <1>9 DEF ReceiptsInv

\* The first base transaction is settled.
LEMMA SettlesOne ==
  ASSUME ReceiptsInv, stage \in {"status", "outcome"}, UNCHANGED ledgers,
         UNCHANGED <<listing, receipt, told, heard>>,
         heard # {} \/ base[Head(unconfirmed)] \in {"failed", "confirmed"},
         Settles(Head(unconfirmed))
  PROVE  ReceiptsInv'
<1> DEFINE n == outbox[receipt].base
           m == Len(unconfirmed)
           d == n - m
<1>1. receipt \in DOMAIN outbox /\ outbox[receipt] \in Completions
  BY DEF ReceiptsInv, TakenOK, Judged
<1>2. n \in Nat /\ n <= MaxBase /\ MaxBase \in Nat
  BY <1>1, BaseCount, ReceiptsAssumption
<1>3. unconfirmed \in Seq(Nat) /\ m \in Nat
  BY DEF ReceiptsInv, ReceiptsTypeOK
<1>4. /\ outbox[receipt].error = "none" /\ outbox[receipt].matches
      /\ m <= n /\ m > 0
      /\ \A k \in 1 .. m : unconfirmed[k] = d + k
      /\ \A b \in 1 .. d : base[b] = "confirmed"
      /\ heard # {} => base[d + 1] \in {"confirmed", "failed"}
  BY DEF ReceiptsInv, ConfirmedOK, Confirming
<1>5. d \in Nat /\ unconfirmed # <<>>
  BY <1>2, <1>3, <1>4
<1>6. /\ Head(unconfirmed) = d + 1 /\ Tail(unconfirmed) \in Seq(Nat)
      /\ Len(Tail(unconfirmed)) = m - 1
      /\ \A k \in 1 .. m - 1 : Tail(unconfirmed)[k] = (d + 1) + k
  BY Zenon, <1>3, <1>4, <1>5, Rest
<1>7. base[d + 1] \in {"confirmed", "failed"}
  BY <1>4, <1>6
<1>8. /\ unconfirmed' = Tail(unconfirmed)
      /\ stage' = "failed" \/ (stage' = "confirm" /\ base[d + 1] = "confirmed")
  BY <1>6, <1>7 DEF Settles, Outcome
<1>9. ReceiptsTypeOK'
  BY <1>6, <1>8 DEF ReceiptsInv, ReceiptsTypeOK, ledgers
<1>10. AnnouncedOK'
  BY <1>8 DEF ReceiptsInv, AnnouncedOK, ledgers, Unannounced, ReceiptOver
<1>11. TakenOK' /\ InspectedOK'
  BY <1>1, <1>8 DEF TakenOK, InspectedOK, ledgers
<1>12. ConfirmedOK'
  <2>1. CASE stage' = "failed"
    BY <2>1 DEF ConfirmedOK, Confirming
  <2>2. CASE stage' = "confirm" /\ base[d + 1] = "confirmed"
    <3>1. n - (m - 1) = d + 1
      BY <1>2, <1>3
    <3>2. \A b \in 1 .. d + 1 : b \in 1 .. d \/ b = d + 1
      BY <1>5
    <3>3. \A b \in 1 .. d + 1 : base[b] = "confirmed"
      BY <1>4, <2>2, <3>2
    <3>4. outbox' = outbox /\ base' = base
      BY DEF ledgers
    <3>5. m - 1 <= n
      BY <1>2, <1>3, <1>4
    <3> HIDE DEF d
    <3> QED BY <1>4, <1>6, <1>8, <2>2, <3>1, <3>3, <3>4, <3>5 DEF ConfirmedOK, Confirming
  <2> QED BY <1>8, <2>1, <2>2
<1> QED BY <1>9, <1>10, <1>11, <1>12 DEF ReceiptsInv

\* The steps of the confirmation.
LEMMA ConfirmStep ==
  ASSUME ReceiptsInv, SubscribeSignature \/ Status \/ Notified \/ AllConfirmed
  PROVE  ReceiptsInv'
<1>0. UNCHANGED ledgers /\ UNCHANGED <<listing, receipt, told>>
  BY DEF SubscribeSignature, Status, Notified, AllConfirmed, subscriptions, absence
<1>1. CASE /\ stage \in {"status", "outcome"} /\ heard' = heard /\ Settles(Head(unconfirmed))
           /\ heard # {} \/ base[Head(unconfirmed)] \in {"failed", "confirmed"}
  BY <1>0, <1>1, SettlesOne
<1>2. CASE /\ unconfirmed' = unconfirmed /\ heard' \subseteq heard
           /\ \/ stage = "confirm" /\ unconfirmed # <<>> /\ stage' = "status" /\ heard' = {}
              \/ stage = "confirm" /\ unconfirmed = <<>> /\ stage' = "settled"
              \/ stage = "status" /\ stage' = "outcome"
  <2>1. ReceiptsTypeOK'
    BY <1>0, <1>2 DEF ReceiptsInv, ReceiptsTypeOK, ledgers
  <2>2. AnnouncedOK'
    BY <1>0, <1>2 DEF ReceiptsInv, AnnouncedOK, ledgers, Unannounced, ReceiptOver
  <2>3. TakenOK'
    BY <1>0, <1>2 DEF ReceiptsInv, TakenOK, ledgers, Judged
  <2>4. InspectedOK'
    BY <1>2 DEF InspectedOK
  <2>5. ConfirmedOK'
    <3>1. unconfirmed \in Seq(Nat)
      BY DEF ReceiptsInv, ReceiptsTypeOK
    <3>2. unconfirmed = <<>> <=> Len(unconfirmed) = 0
      BY <3>1
    <3>3. Len(unconfirmed) \in Nat
      BY <3>1
    <3>4. outbox' = outbox /\ base' = base /\ receipt' = receipt
      BY <1>0 DEF ledgers
    <3> QED BY <1>2, <3>2, <3>3, <3>4 DEF ReceiptsInv, ConfirmedOK, Confirming
  <2> QED BY <2>1, <2>2, <2>3, <2>4, <2>5 DEF ReceiptsInv
<1>3. CASE SubscribeSignature
  BY <1>2, <1>3 DEF SubscribeSignature
<1>4. CASE Status
  BY <1>1, <1>2, <1>4 DEF Status
<1>5. CASE Notified
  BY <1>1, <1>5 DEF Notified
<1>6. CASE AllConfirmed
  BY <1>2, <1>6 DEF AllConfirmed, subscriptions
<1> QED BY <1>3, <1>4, <1>5, <1>6

-----------------------------------------------------------------------------
\* What is listed is in the history.
LEMMA ListedTyped ==
  ASSUME ReceiptsTypeOK
  PROVE  /\ Listed \in Seq(Nat) /\ Range(Listed) \subseteq DOMAIN outbox
         /\ \A i \in Range(Listed) : \E k \in DOMAIN Listed : Listed[k] = i
<1>1. Limit \in Nat /\ Len(outbox) \in Nat /\ DOMAIN outbox = 1 .. Len(outbox)
  BY ReceiptsAssumption DEF ReceiptsTypeOK
<1>2. PICK n \in Nat : n <= Len(outbox) /\ Listed = [k \in 1 .. n |-> Len(outbox) + 1 - k]
  <2> DEFINE c == IF Len(outbox) < Limit THEN Len(outbox) ELSE Limit
  <2>1. c \in Nat /\ c <= Len(outbox)
    BY <1>1
  <2>2. Listed = [k \in 1 .. c |-> Len(outbox) + 1 - k]
    BY DEF Listed
  <2> HIDE DEF c
  <2> QED BY <2>1, <2>2
<1>3. ASSUME NEW l \in Nat, NEW m \in Nat, m <= l
      PROVE  LET s == [k \in 1 .. m |-> l + 1 - k]
             IN  s \in Seq(Nat) /\ \A k \in DOMAIN s : s[k] \in 1 .. l
  BY <1>3
<1>4. Listed \in Seq(Nat) /\ \A k \in DOMAIN Listed : Listed[k] \in 1 .. Len(outbox)
  BY <1>1, <1>2, <1>3
<1> QED BY <1>1, <1>4 DEF Range

\* The announced transaction is asked for, or the history is listed and its
\* bodies are read.
LEMMA AbsenceStep ==
  ASSUME ReceiptsInv, AskSignature \/ List \/ Inspect \/ Conclude
  PROVE  ReceiptsInv'
<1>0. UNCHANGED ledgers /\ UNCHANGED <<told, heard, unconfirmed, receipt>>
  BY DEF AskSignature, List, Inspect, Conclude, subscriptions
<1>1. outbox' = outbox /\ \A i : Visible(i)' <=> Visible(i)
  BY <1>0 DEF ledgers, Visible, Wanted, Completion
<1>2. stage' \in {"inspect", "list", "absent", "failed"}
  BY DEF AskSignature, List, Inspect, Conclude
<1>3. AnnouncedOK' /\ TakenOK' /\ ConfirmedOK'
  BY <1>0, <1>2 DEF ReceiptsInv, AnnouncedOK, TakenOK, ConfirmedOK, Judged, Confirming,
                    Unannounced, ReceiptOver, ledgers
<1>4. CASE List
  <2>1. listing' = [all |-> Range(Listed), left |-> Listed, unreadable |-> FALSE]
    BY <1>4 DEF List
  <2>2. /\ Listed \in Seq(Nat) /\ Range(Listed) \subseteq DOMAIN outbox
        /\ \A i \in Range(Listed) : \E k \in DOMAIN Listed : Listed[k] = i
    BY ListedTyped DEF ReceiptsInv
  <2>3. DOMAIN outbox \subseteq Nat
    BY DEF ReceiptsInv, ReceiptsTypeOK
  <2> HIDE DEF Listed
  <2>4. ReceiptsTypeOK'
    BY <1>0, <2>1, <2>2, <2>3 DEF ReceiptsInv, ReceiptsTypeOK, ledgers
  <2>5. InspectedOK'
    BY <1>4, <2>1, <2>2 DEF InspectedOK, List
  <2> QED BY <1>3, <2>4, <2>5 DEF ReceiptsInv
<1>5. CASE Inspect
  <2> DEFINE i == Head(listing.left)
  <2>1. /\ listing.left \in Seq(Nat) /\ listing.left # <<>> /\ listing.unreadable \in BOOLEAN
        /\ listing \in [all : SUBSET Nat, left : Seq(Nat), unreadable : BOOLEAN]
    BY <1>5 DEF Inspect, ReceiptsInv, ReceiptsTypeOK
  <2>2. /\ listing'.all = listing.all /\ listing'.left = Tail(listing.left)
        /\ ~listing'.unreadable => ~listing.unreadable /\ i \in readable
        /\ listing' \in [all : SUBSET Nat, left : Seq(Nat), unreadable : BOOLEAN]
    <3>1. listing' = [listing EXCEPT !.left = Tail(@), !.unreadable = @ \/ i \notin readable]
      BY <1>5 DEF Inspect
    <3>2. Tail(listing.left) \in Seq(Nat)
      BY <2>1
    <3>3. (listing.unreadable \/ i \notin readable) \in BOOLEAN
      BY Zenon
    <3> DEFINE u == listing.unreadable \/ i \notin readable
    <3>4. ~u => ~listing.unreadable /\ i \in readable
      OBVIOUS
    <3>5. listing' = [listing EXCEPT !.left = Tail(@), !.unreadable = u] /\ u \in BOOLEAN
      BY Zenon, <3>1, <3>3
    <3> HIDE DEF u, i
    <3> QED BY Zenon, <2>1, <3>2, <3>4, <3>5
  <2>3. \A k \in DOMAIN listing.left :
          listing.left[k] = i \/ \E j \in DOMAIN listing'.left : listing'.left[j] = listing.left[k]
    <3>1. ASSUME NEW s \in Seq(Nat), s # <<>>, NEW k \in DOMAIN s
          PROVE  s[k] = Head(s) \/ \E j \in DOMAIN Tail(s) : Tail(s)[j] = s[k]
      <4>1. CASE k = 1
        BY <3>1, <4>1
      <4>2. CASE k # 1
        <5>1. k - 1 \in DOMAIN Tail(s) /\ Tail(s)[k - 1] = s[k]
          BY <3>1, <4>2
        <5> QED BY <5>1
      <4> QED BY <4>1, <4>2
    <3> QED BY <2>1, <2>2, <3>1
  <2>4. ReceiptsTypeOK'
    BY <1>0, <2>2 DEF ReceiptsInv, ReceiptsTypeOK, ledgers
  <2>5. InspectedOK'
    <3>1. stage = "inspect" /\ (stage' = "failed" \/ (stage' = "inspect" /\ ~(i \in readable /\ Visible(i))))
      BY <1>5 DEF Inspect
    <3>2. CASE stage' = "failed"
      BY <3>2 DEF InspectedOK
    <3>3. CASE stage' = "inspect" /\ ~listing'.unreadable
      <4>1. ~listing.unreadable /\ ~Visible(i)
        BY <2>2, <3>1, <3>3
      <4>2. \A j \in listing.all : Visible(j) => \E k \in DOMAIN listing.left : listing.left[k] = j
        BY <3>1, <4>1 DEF ReceiptsInv, InspectedOK
      <4> HIDE DEF i
      <4> QED BY <1>1, <2>2, <2>3, <3>3, <4>1, <4>2 DEF InspectedOK
    <3> HIDE DEF i
    <3> QED BY <3>1, <3>2, <3>3 DEF InspectedOK
  <2> QED BY <1>3, <2>4, <2>5 DEF ReceiptsInv
<1>6. CASE Conclude
  <2>1. ReceiptsTypeOK' /\ listing' = listing
    BY <1>0, <1>6 DEF ReceiptsInv, ReceiptsTypeOK, ledgers, Conclude
  <2>2. stage = "inspect" /\ listing.left = <<>> /\ (stage' = "absent" => ~listing.unreadable) /\ stage' # "inspect"
    BY <1>6 DEF Conclude
  <2>3. InspectedOK'
    BY <1>1, <2>1, <2>2 DEF ReceiptsInv, InspectedOK
  <2> QED BY <1>3, <2>1, <2>3 DEF ReceiptsInv
<1>7. CASE AskSignature
  <2>1. /\ listing' = [all |-> readable, left |-> <<>>, unreadable |-> FALSE]
        /\ stage' = "failed" \/ (stage' = "absent" /\ \A i \in readable : ~IsAnnounced(i))
    BY <1>7 DEF AskSignature
  <2>2. readable \subseteq DOMAIN outbox /\ DOMAIN outbox \subseteq Nat /\ <<>> \in Seq(Nat)
    BY DEF ReceiptsInv, ReceiptsTypeOK
  <2>3. ReceiptsTypeOK'
    BY <1>0, <2>1, <2>2 DEF ReceiptsInv, ReceiptsTypeOK, ledgers
  <2>4. \A i : Visible(i) => IsAnnounced(i)
    BY DEF Visible, Wanted, IsAnnounced
  <2>5. InspectedOK'
    BY <1>1, <2>1, <2>4 DEF InspectedOK
  <2> QED BY <1>3, <2>3, <2>5 DEF ReceiptsInv
<1> QED BY <1>4, <1>5, <1>6, <1>7

-----------------------------------------------------------------------------
\* A transaction lands: what is in the history stays.
LEMMA LandStep ==
  ASSUME ReceiptsInv, NEW t \in Completions \cup {Ongoing, Other}, Land(t)
  PROVE  ReceiptsInv'
<1>1. /\ UNCHANGED <<stage, target, readable, base, heard, listing, receipt, unconfirmed>>
      /\ outbox' = Append(outbox, t) /\ stage \notin ReceiptOver
      /\ told' = Append(told, Len(outbox')) \/ told' = told
  BY DEF Land, absence
<1>2. t \in Transactions
  BY DEF Transactions
<1>3. /\ outbox' \in Seq(Transactions) /\ DOMAIN outbox \subseteq DOMAIN outbox'
      /\ Len(outbox') \in DOMAIN outbox'
      /\ \A i \in DOMAIN outbox : outbox'[i] = outbox[i]
  <2>1. ASSUME NEW S, NEW s \in Seq(S), NEW e \in S
        PROVE  /\ Append(s, e) \in Seq(S) /\ DOMAIN s \subseteq DOMAIN Append(s, e)
               /\ Len(Append(s, e)) \in DOMAIN Append(s, e)
               /\ \A i \in DOMAIN s : Append(s, e)[i] = s[i]
    OBVIOUS
  <2> QED BY <1>1, <1>2, <2>1 DEF ReceiptsInv, ReceiptsTypeOK
<1>4. told' \in Seq(DOMAIN outbox')
  <2>1. ASSUME NEW S, NEW T, S \subseteq T, NEW s \in Seq(S), NEW e \in T
        PROVE  Append(s, e) \in Seq(T) /\ s \in Seq(T)
    BY <2>1
  <2>2. told \in Seq(DOMAIN outbox)
    BY DEF ReceiptsInv, ReceiptsTypeOK
  <2> QED BY Zenon, <1>1, <1>3, <2>1, <2>2
<1>5. ReceiptsTypeOK'
  BY <1>1, <1>3, <1>4 DEF ReceiptsInv, ReceiptsTypeOK
<1>6. AnnouncedOK'
  BY <1>1 DEF ReceiptsInv, AnnouncedOK
<1>7. TakenOK'
  BY <1>1, <1>3 DEF ReceiptsInv, TakenOK
<1>8. ConfirmedOK'
  <2>1. CASE stage \in Confirming
    <3>1. outbox'[receipt] = outbox[receipt]
      BY <1>3, <2>1 DEF ReceiptsInv, TakenOK, Confirming, Judged
    <3> QED BY <1>1, <2>1, <3>1 DEF ReceiptsInv, ConfirmedOK
  <2>2. CASE stage \notin Confirming
    BY <1>1, <2>2 DEF ConfirmedOK
  <2> QED BY <2>1, <2>2
<1>9. InspectedOK'
  <2>1. \A i \in listing.all : Visible(i)' <=> Visible(i)
    BY <1>3 DEF ReceiptsInv, ReceiptsTypeOK, Visible, Wanted, Completion
  <2> QED BY <1>1, <2>1 DEF ReceiptsInv, InspectedOK
<1> QED BY <1>5, <1>6, <1>7, <1>8, <1>9 DEF ReceiptsInv

\* A base transaction moves on; what is final stays.
LEMMA BaseStep ==
  ASSUME ReceiptsInv, NEW b \in 1 .. MaxBase, Base(b)
  PROVE  ReceiptsInv'
<1>1. /\ UNCHANGED <<stage, target, outbox, readable, told, listing, receipt, unconfirmed>>
      /\ stage \in {"confirm", "status", "outcome"}
  BY DEF Base, absence
<1>2. base \in [1 .. MaxBase -> {"sent", "processed", "confirmed", "failed"}]
  BY DEF ReceiptsInv, ReceiptsTypeOK
<1>3. /\ base' \in [1 .. MaxBase -> {"sent", "processed", "confirmed", "failed"}]
      /\ base'[b] = "processed" \/ base'[b] \in {"confirmed", "failed"}
      /\ \A c \in 1 .. MaxBase : base[c] \in {"confirmed", "failed"} => base'[c] = base[c]
  BY Zenon, <1>2 DEF Base
<1>4. /\ heard' = heard \/ (/\ heard' = {"signature"} /\ base'[b] \in {"confirmed", "failed"}
                            /\ unconfirmed # <<>> /\ Head(unconfirmed) = b)
  BY <1>3 DEF Base
<1>5. ReceiptsTypeOK'
  BY <1>1, <1>3 DEF ReceiptsInv, ReceiptsTypeOK
<1>6. AnnouncedOK'
  BY <1>1, <1>4 DEF ReceiptsInv, AnnouncedOK
<1>7. TakenOK'
  BY <1>1 DEF ReceiptsInv, TakenOK
<1>8. InspectedOK'
  BY <1>1 DEF InspectedOK
<1>9. ConfirmedOK'
  <2> DEFINE n == outbox[receipt].base
             m == Len(unconfirmed)
             d == n - m
  <2>1. n \in Nat /\ n <= MaxBase /\ MaxBase \in Nat
    BY <1>1, BaseCount, ReceiptsAssumption DEF ReceiptsInv, TakenOK, Judged
  <2>2. unconfirmed \in Seq(Nat) /\ m \in Nat
    BY DEF ReceiptsInv, ReceiptsTypeOK
  <2>3. /\ outbox[receipt].error = "none" /\ outbox[receipt].matches
        /\ m <= n
        /\ \A k \in 1 .. m : unconfirmed[k] = d + k
        /\ \A c \in 1 .. d : base[c] = "confirmed"
        /\ stage \in {"status", "outcome"} =>
             m > 0 /\ (heard # {} => base[d + 1] \in {"confirmed", "failed"})
    BY <1>1 DEF ReceiptsInv, ConfirmedOK, Confirming
  <2>4. \A c \in 1 .. d : c \in 1 .. MaxBase
    BY <2>1, <2>2, <2>3
  <2>5. \A c \in 1 .. d : base'[c] = "confirmed"
    BY <1>3, <2>3, <2>4
  <2>6. ASSUME stage \in {"status", "outcome"}, heard' # {}
        PROVE  base'[d + 1] \in {"confirmed", "failed"}
    <3>1. d + 1 \in 1 .. MaxBase
      BY <2>1, <2>2, <2>3, <2>6
    <3>2. CASE heard' = heard
      BY <1>3, <2>3, <2>6, <3>1, <3>2
    <3>3. CASE /\ base'[b] \in {"confirmed", "failed"} /\ unconfirmed # <<>>
               /\ Head(unconfirmed) = b
      <4>1. Head(unconfirmed) = unconfirmed[1] /\ 1 \in 1 .. m
        BY <2>2, <3>3
      <4>2. b = d + 1
        BY <2>3, <3>3, <4>1
      <4> QED BY <3>3, <4>2
    <3> QED BY <1>4, <3>2, <3>3
  <2> HIDE DEF d
  <2>7. d = outbox[receipt].base - Len(unconfirmed)
    BY DEF d
  <2> QED BY <1>1, <2>3, <2>5, <2>6, <2>7 DEF ConfirmedOK, Confirming
<1> QED BY <1>5, <1>6, <1>7, <1>8, <1>9 DEF ReceiptsInv

\* The scheduling transaction executes, or a body can be read.
LEMMA OutsideStep ==
  ASSUME ReceiptsInv, Execute \/ Readable
  PROVE  ReceiptsInv'
<1>1. /\ UNCHANGED <<stage, outbox, base, told, listing, receipt, unconfirmed>>
      /\ readable' \subseteq DOMAIN outbox
      /\ \/ target' = target /\ heard' = heard
         \/ /\ target = "unknown" /\ target' \in {"signature", "outbox", "missing", "failed"}
            /\ heard' \subseteq heard \cup {"schedule"}
  BY DEF Execute, Readable, subscriptions, absence, ReceiptsInv, ReceiptsTypeOK
<1>2. ReceiptsTypeOK'
  BY <1>1 DEF ReceiptsInv, ReceiptsTypeOK
<1>3. AnnouncedOK' /\ TakenOK'
  BY <1>1 DEF ReceiptsInv, AnnouncedOK, TakenOK
<1>4. \A i : Visible(i)' <=> Visible(i)
  BY <1>1 DEF Visible, Wanted, Completion
<1>5. InspectedOK'
  BY <1>1, <1>4 DEF ReceiptsInv, InspectedOK
<1>6. ConfirmedOK'
  <2>1. stage \in Confirming \ {"settled"} => target # "unknown"
    BY DEF ReceiptsInv, AnnouncedOK, Confirming, Unannounced, ReceiptOver
  <2>2. stage \in {"status", "outcome"} => heard' = heard
    BY <1>1, <2>1 DEF Confirming
  <2> QED BY <1>1, <2>2 DEF ReceiptsInv, ConfirmedOK
<1> QED BY <1>2, <1>3, <1>5, <1>6 DEF ReceiptsInv

\* The inductive invariant holds at first ...
LEMMA ReceiptsInitInv == ReceiptsInit => ReceiptsInv
<1> SUFFICES ASSUME ReceiptsInit PROVE ReceiptsInv
  OBVIOUS
<1>1. stage \in {"arm", "published"}
  BY DEF ReceiptsInit
<1>2. ReceiptsTypeOK
  <2>1. Earlier \in Transactions
    BY DEF Transactions
  <2>2. outbox \in Seq(Transactions)
    <3>1. ASSUME NEW S, NEW e \in S PROVE <<>> \in Seq(S) /\ <<e>> \in Seq(S)
      OBVIOUS
    <3>2. outbox = <<>> \/ outbox = <<Earlier>>
      BY DEF ReceiptsInit
    <3> HIDE DEF Earlier
    <3> QED BY Zenon, <2>1, <3>1, <3>2
  <2>3. <<>> \in Seq(DOMAIN outbox) /\ <<>> \in Seq(Nat)
    OBVIOUS
  <2> QED BY <2>2, <2>3 DEF ReceiptsInit, ReceiptsTypeOK
<1>3. AnnouncedOK /\ TakenOK /\ ConfirmedOK /\ InspectedOK
  BY <1>1 DEF ReceiptsInit, AnnouncedOK, TakenOK, ConfirmedOK, InspectedOK, Judged, Confirming,
              Unannounced, ReceiptOver
<1> QED BY <1>2, <1>3 DEF ReceiptsInv

\* ... and every step of the caller, the rollup and the base keeps it.
LEMMA ReceiptsStep == CallOK /\ ReceiptsInv /\ [ReceiptsNext]_receiptVars => ReceiptsInv'
<1> SUFFICES ASSUME CallOK, ReceiptsInv, [ReceiptsNext]_receiptVars PROVE ReceiptsInv'
  OBVIOUS
<1>1. CASE UNCHANGED receiptVars
  <2>1. \A i : Visible(i)' <=> Visible(i)
    BY <1>1 DEF Visible, Wanted, Completion, receiptVars
  <2>2. ReceiptsTypeOK' /\ AnnouncedOK' /\ TakenOK'
    BY <1>1 DEF ReceiptsInv, ReceiptsTypeOK, AnnouncedOK, TakenOK, receiptVars
  <2>3. ConfirmedOK'
    BY <1>1 DEF ReceiptsInv, ConfirmedOK, receiptVars
  <2> QED BY <1>1, <2>1, <2>2, <2>3 DEF ReceiptsInv, InspectedOK, receiptVars
<1>2. CASE ReceiptsNext
  BY <1>2, LookStep, FindStep, VerifyStep, ConfirmStep, AbsenceStep, OutsideStep, LandStep,
     BaseStep DEF ReceiptsNext
<1> QED BY <1>1, <1>2

\* The call stays what it was.
LEMMA CallStep == CallOK /\ [ReceiptsNext]_receiptVars => CallOK'
BY DEF CallOK, receiptVars, call, ReceiptsNext, Arm, Scheduling, Published, AfterSlot,
       ReceiptNotified, ReceiptFetched, FetchStarts, WakeLogs, WakeSlot, WakeHistory, Probe, Probed,
       Verify, SubscribeSignature, Status, Notified, AllConfirmed, AskSignature, List, Inspect,
       Conclude, Timeout, Execute, Land, Readable, Base

\* The inductive invariant holds throughout.
THEOREM ReceiptsInvariance == ReceiptsSpec => []ReceiptsInv
<1>1. ReceiptsInit => CallOK
  BY DEF ReceiptsInit, CallOK
<1> QED BY <1>1, CallStep, ReceiptsInitInv, ReceiptsStep, PTL DEF ReceiptsSpec

\* A commit reported settled is settled, whatever the history, the listing
\* limit and the number of base transactions (CommitReceipt::verify).
THEOREM SettlementCorrect == ReceiptsSpec => []SettledIsSettled
<1>1. ReceiptsInv => SettledIsSettled
  <2> SUFFICES ASSUME ReceiptsInv PROVE SettledIsSettled
    OBVIOUS
  <2>1. stage \in {"settled", "duplicate"} => outbox[receipt] \in Completions
    BY DEF ReceiptsInv, TakenOK, Judged
  <2>2. ASSUME stage = "settled"
        PROVE  /\ outbox[receipt].error = "none" /\ outbox[receipt].matches
               /\ \A b \in 1 .. outbox[receipt].base : base[b] = "confirmed"
    <3>1. outbox[receipt].base \in Nat
      BY <2>1, <2>2, BaseCount, ReceiptsAssumption
    <3> QED BY <2>2, <3>1 DEF ReceiptsInv, ConfirmedOK, Confirming
  <2> QED BY <2>1, <2>2 DEF SettledIsSettled
<1> QED BY <1>1, ReceiptsInvariance, PTL

\* A receipt said to be absent was in nothing that was listed, read or not, nor,
\* when its signature was announced, among what could be read at the call
\* (ensure_receipt_absent).
THEOREM AbsenceCorrect == ReceiptsSpec => []AbsentIsAbsent
<1>1. ReceiptsInv => AbsentIsAbsent
  BY DEF ReceiptsInv, InspectedOK, AbsentIsAbsent
<1> QED BY <1>1, ReceiptsInvariance, PTL
=============================================================================
