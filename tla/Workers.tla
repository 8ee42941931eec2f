------------------------------- MODULE Workers -------------------------------
(***************************************************************************)
(* execute_threaded and the worker threads under it                        *)
(* (core/src/runner/workers.rs, with split_budget and Pacing::partition of *)
(* core/src/transport/rate.rs): one budget of iterations, rate and         *)
(* concurrency is cut into shares, one admission engine runs per share,    *)
(* and the caller joins all of them.                                       *)
(*                                                                         *)
(* A worker is the engine of module Runner reduced to what the sharing     *)
(* depends on: it issues its iterations in order, keeps at most its share  *)
(* in flight, may stop early when the run has an `until`, and drains.      *)
(***************************************************************************)
EXTENDS Naturals, Sequences, FiniteSets, SequencesExt, FiniteSetsExt

CONSTANTS
  MaxThreads, MaxIterations, MaxRate, MaxConcurrency, \* largest ThreadRunConfig
  Unlimited   \* Pacing::Unlimited

\* The bounds are numbers.
WorkersAssumption ==
  {MaxThreads, MaxIterations, MaxRate, MaxConcurrency} \subseteq Nat

VARIABLES
  cfg,     \* ThreadRunConfig; never changes
  pc,      \* where execute_threaded stands
  budgets, \* WorkerBudgets
  worker,  \* per worker: phase, iterations issued and in flight
  issued,  \* per iteration: how often a request was made for it
  joined,  \* handles joined so far
  result   \* what execute_threaded returned, with the merged tally

vars == <<cfg, pc, budgets, worker, issued, joined, result>>

-----------------------------------------------------------------------------
Configs ==
  [threads : 0 .. MaxThreads, iterations : 0 .. MaxIterations,
   rate : {Unlimited} \cup 0 .. MaxRate, concurrency : 0 .. MaxConcurrency,
   until : BOOLEAN]

AtLeastOne(n) == IF n = 0 THEN 1 ELSE n
Smaller(a, b) == IF a < b THEN a ELSE b

\* split_budget: equal shares, the remainder spread over the first ones.
split_budget(total, parts) ==
  [i \in 1 .. parts |->
     total \div AtLeastOne(parts) + IF i <= total % AtLeastOne(parts) THEN 1 ELSE 0]

\* Mutant: every span is placed as if all were as long as its own.
split_iterations_strided(iterations, workers) ==
  LET shares == SelectSeq(split_budget(iterations, workers), LAMBDA count : count > 0)
  IN  [i \in 1 .. Len(shares) |-> [first |-> (i - 1) * shares[i], count |-> shares[i]]]

\* split_iterations: the non-empty shares laid end to end, as (first, count).
split_iterations(iterations, workers) ==
  LET shares == SelectSeq(split_budget(iterations, workers), LAMBDA count : count > 0)
      first[i \in 1 .. Len(shares)] == IF i = 1 THEN 0 ELSE first[i - 1] + shares[i - 1]
  IN  [i \in 1 .. Len(shares) |-> [first |-> first[i], count |-> shares[i]]]

\* Pacing::partition.
split_rate(rate, workers) ==
  IF rate = Unlimited THEN [i \in 1 .. workers |-> Unlimited] ELSE split_budget(rate, workers)

\* WorkerBudgets::partition refuses a zero rate or concurrency.
Refused(c) == c.rate = 0 \/ c.concurrency = 0

partition(c) ==
  LET useful == Smaller(AtLeastOne(c.threads), c.concurrency)
      workers == IF c.rate = Unlimited THEN useful ELSE Smaller(useful, c.rate)
      spans == split_iterations(c.iterations, workers)
  IN  [iterations |-> spans,
       rate |-> split_rate(c.rate, Len(spans)),
       concurrency |-> split_budget(c.concurrency, Len(spans))]

Indices == DOMAIN budgets.iterations
Ended == {"ok", "err", "panic"}

-----------------------------------------------------------------------------
NoResult == [status |-> "none", counted |-> 0, offered |-> Unlimited]

NoBudgets == [iterations |-> <<>>, rate |-> <<>>, concurrency |-> <<>>]

Init ==
  /\ cfg \in Configs
  /\ pc = "partition"
  /\ budgets = NoBudgets
  /\ worker = <<>>
  /\ issued = [id \in 0 .. MaxIterations |-> 0]
  /\ joined = 0
  /\ result = NoResult

\* WorkerBudgets::partition, then spawn_workers.
Spawn ==
  /\ pc = "partition"
  /\ \/ /\ Refused(cfg)
        /\ pc' = "returned" /\ result' = [NoResult EXCEPT !.status = "err"]
        /\ UNCHANGED <<budgets, worker>>
     \/ /\ ~Refused(cfg)
        /\ budgets' = partition(cfg)
        /\ worker' = [w \in DOMAIN budgets'.iterations |->
                        [phase |-> "running", issued |-> 0, flight |-> 0]]
        /\ pc' = "join"
        /\ UNCHANGED result
  /\ UNCHANGED <<cfg, issued, joined>>

\* A worker's engine admits its next iteration: request(first_id + iteration).
Issue(w) ==
  /\ worker[w].phase = "running"
  /\ worker[w].issued < budgets.iterations[w].count
  /\ worker[w].flight < budgets.concurrency[w]
  /\ issued' = [issued EXCEPT ![budgets.iterations[w].first + worker[w].issued] = @ + 1]
  /\ worker' = [worker EXCEPT ![w].issued = @ + 1, ![w].flight = @ + 1]
  /\ UNCHANGED <<cfg, pc, budgets, joined, result>>

Complete(w) ==
  /\ worker[w].phase \in {"running", "draining"}
  /\ worker[w].flight > 0
  /\ worker' = [worker EXCEPT ![w].flight = @ - 1]
  /\ UNCHANGED <<cfg, pc, budgets, issued, joined, result>>

\* The deadline or the stop signal of `until`: no further admissions.
StopEarly(w) ==
  /\ cfg.until
  /\ worker[w].phase = "running"
  /\ worker' = [worker EXCEPT ![w].phase = "draining"]
  /\ UNCHANGED <<cfg, pc, budgets, issued, joined, result>>

\* The engine returns its tally once it has drained.
Return(w) ==
  /\ \/ worker[w].phase = "running" /\ worker[w].issued = budgets.iterations[w].count
     \/ worker[w].phase = "draining"
  /\ worker[w].flight = 0
  /\ worker' = [worker EXCEPT ![w].phase = "ok"]
  /\ UNCHANGED <<cfg, pc, budgets, issued, joined, result>>

\* A thread may fail to build its runtime, or panic at any time.
Fail(w) ==
  /\ worker[w].phase \in {"running", "draining"}
  /\ \E how \in {"err", "panic"} :
       worker' = [worker EXCEPT ![w] = [@ EXCEPT !.phase = how, !.flight = 0]]
  /\ UNCHANGED <<cfg, pc, budgets, issued, joined, result>>

\* Mutant: the first error ends the join.
JoinShort ==
  /\ pc = "join"
  /\ joined < Len(worker)
  /\ worker[joined + 1].phase \in Ended
  /\ joined' = IF worker[joined + 1].phase = "ok" THEN joined + 1 ELSE Len(worker)
  /\ UNCHANGED <<cfg, pc, budgets, worker, issued, result>>

\* Workers::join: the handles in order, each waited for, errors kept for later.
Join ==
  /\ pc = "join"
  /\ joined < Len(worker)
  /\ worker[joined + 1].phase \in Ended
  /\ joined' = joined + 1
  /\ UNCHANGED <<cfg, pc, budgets, worker, issued, result>>

\* Pacing::combine.
combine(own, other) ==
  IF own = Unlimited \/ other = Unlimited THEN Unlimited ELSE own + other

\* merge_outcomes over the tallies, which count what their engine admitted.
merge_outcomes ==
  [status |-> "ok",
   counted |-> FoldLeft(LAMBDA sum, w : sum + w.issued, 0, worker),
   offered |-> IF worker = <<>> THEN Unlimited
               ELSE FoldLeft(combine, Head(budgets.rate), Tail(budgets.rate))]

\* Only then is the first error, or the merged outcome, returned.
JoinReturns ==
  /\ pc = "join"
  /\ joined = Len(worker)
  /\ result' = IF \A w \in DOMAIN worker : worker[w].phase = "ok" THEN merge_outcomes
               ELSE [NoResult EXCEPT !.status = "err"]
  /\ pc' = "returned"
  /\ UNCHANGED <<cfg, budgets, worker, issued, joined>>

WorkerStep(w) == Issue(w) \/ Complete(w) \/ StopEarly(w) \/ Return(w) \/ Fail(w)

Next ==
  \/ Spawn
  \/ Join
  \/ JoinReturns
  \/ \E w \in DOMAIN worker : WorkerStep(w)

Spec == Init /\ [][Next]_vars

-----------------------------------------------------------------------------

\* Across the workers no iteration is requested twice and none beyond the
\* budget is requested, so ids are as unique as in an unthreaded run; a run
\* that succeeds and may not stop early has requested all of them
\* (split_iterations, first_id + iteration).
EachIterationOnce ==
  /\ \A id \in DOMAIN issued : issued[id] <= IF id < cfg.iterations THEN 1 ELSE 0
  /\ result.status = "ok" /\ ~cfg.until =>
       \A id \in 0 .. cfg.iterations - 1 : issued[id] = 1

\* The workers together never have more requests in flight than the budget
\* allows, and it is used up: each worker has a share (split_budget).
ConcurrencyIsShared ==
  /\ FoldLeft(LAMBDA sum, w : sum + w.flight, 0, worker) <= cfg.concurrency
  /\ \A w \in Indices : budgets.concurrency[w] > 0
  /\ Indices # {} => FoldLeft(+, 0, budgets.concurrency) = cfg.concurrency

\* No worker is left with a zero rate, which its engine would refuse, and the
\* merged outcome reports the rate that was asked for (Pacing::partition and
\* combine).
RateIsShared ==
  /\ \A w \in Indices : budgets.rate[w] # 0
  /\ result.status = "ok" /\ Indices # {} => result.offered = cfg.rate

\* The limits of a run hold for its workers together.
LimitsAreShared == ConcurrencyIsShared /\ RateIsShared

\* No iteration and no share of a limit is lost or given out twice.
WorkIsShared == EachIterationOnce /\ LimitsAreShared

\* "Join every worker before returning an error, so none outlive cleanup."
NoWorkerOutlivesJoin ==
  pc = "returned" => \A w \in DOMAIN worker : worker[w].phase \in Ended

\* An outcome is returned only if every worker returned one, and it counts
\* every request that was made.
OutcomeIsWhole ==
  result.status = "ok" =>
    /\ \A w \in DOMAIN worker : worker[w].phase = "ok"
    /\ result.counted = FoldFunction(+, 0, issued)

\* What execute_threaded returns is final: of workers that have all ended, and
\* of all of them.
ResultIsFinal == NoWorkerOutlivesJoin /\ OutcomeIsWhole
=============================================================================
