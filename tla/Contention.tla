------------------------------ MODULE Contention ------------------------------
(***************************************************************************)
(* scheduler/scheduler_contention of redline: causal X(A) -> Y(A,B) -> Z(B) *)
(* chains on pairs of accounts beside a competing load on accounts of its   *)
(* own, first with bounded lanes, then in open loop; after both phases the  *)
(* pipeline is drained and every pair compared with the fold of the         *)
(* accepted steps.  With it the sampler (core/src/sampler.rs) and the fold  *)
(* model (core/src/redline/causal.rs).                                      *)
(*                                                                          *)
(* The ER is external: it executes a transaction once no earlier accepted   *)
(* one touches its accounts.  How many executors are busy, and for how long *)
(* none makes progress, is load and time and left out.  The competing load  *)
(* is one lane (open loop: one request at a time) of one worker; sharing it *)
(* between workers is module Workers.                                       *)
(***************************************************************************)
EXTENDS Integers, Sequences, SequencesExt, FiniteSetsExt

CONSTANTS
  Pairs, Chains,    \* pairs, chains of a pair and batch
  MaxBatches,       \* bound: batches
  MaxSends,         \* bound: competing transactions of one phase
  MaxFailed         \* bound: failed requests and scrapes

VARIABLES
  pc, flaw, harmed,
  missed,     \* the check!s missed: of the load, the pairs, the hashes
  excuses,    \* reasons for a missed check other than the ER
  failures,   \* failed requests and scrapes so far
  over,       \* RunControl: deadline or stop
  batch, phase, phases,   \* phases: completed of this batch, [chains, delivered]
  at,         \* [pair -> its next chain and step, "end" or "broken"]
  model,      \* [pair -> PairModel]
  bg,         \* the competing load of the phase
  smp,        \* the sampler: "off", "spawned", "complete", "incomplete"
  target, queue, cells, indep, count, deps  \* drain target; ER state

driver == <<batch, phase, phases, at, model>>
er     == <<queue, cells, indep, count, deps>>
vars   == <<pc, flaw, harmed, missed, excuses, failures, over, driver, bg, smp, target, er>>

Pair  == 0..Pairs - 1
Steps == <<"X", "Y", "Z">>

\* ChainSpace::step_id
step_id(b, p, chain, step) == ((b * Pairs + p) * Chains + chain) * Len(Steps) + step

\* phase_ranges
Split == (Chains + 1) \div 2
Range_(ph) == IF ph = "contention" THEN <<0, Split>> ELSE <<Split, Chains>>

\* PairModel::apply.  HashState::fold mixes the id and the hashes: a tuple.
Applied(m, tx) ==
  CASE tx.step = "X" -> [m EXCEPT !.a = <<tx.id, m.a>>]
    [] tx.step = "Y" -> [a |-> <<tx.id, m.a, m.b>>, b |-> <<tx.id, m.a, m.b>>]
    [] tx.step = "Z" -> [m EXCEPT !.b = <<tx.id, m.b>>]

NewPair == [a |-> <<>>, b |-> <<>>]
NoLoad  == [state |-> "off", sends |-> 0, delivered |-> 0, failed |-> 0]

Flaws == {"none", "reorders", "loses", "repeats", "corrupts"}

Init ==
  /\ pc = "spawn" /\ flaw \in Flaws /\ harmed = FALSE /\ missed = {}
  /\ excuses = {} /\ failures = 0 /\ over = FALSE
  /\ batch = 0 /\ phase = "calibration" /\ phases = <<>>
  /\ at = [p \in Pair |-> [chain |-> 0, step |-> 1, state |-> "end"]]
  /\ model = [p \in Pair |-> NewPair]
  /\ bg = NoLoad /\ smp = "off" /\ target = 0
  /\ queue = <<>> /\ cells = model /\ indep = "initial" /\ count = 0 /\ deps = 0

Check(what, ok) == missed' = IF ok THEN missed ELSE missed \cup {what}

\* History: what excuses a miss of a run against a correct ER.
Excuse(why, when) == excuses' = IF flaw = "none" /\ when THEN excuses \cup {why} ELSE excuses

Fail(what) ==
  /\ failures < MaxFailed          \* bound
  /\ failures' = failures + 1 /\ Excuse(what, TRUE)

-----------------------------------------------------------------------------
\* The ER.
Touches(tx) == CASE tx.step = "X" -> {"a"} [] tx.step = "Y" -> {"a", "b"}
                 [] tx.step = "Z" -> {"b"} [] OTHER -> {"i"}
Conflict(s, t) == s.pair = t.pair /\ Touches(s) \cap Touches(t) # {}

Follows(tx)    == \E j \in 1..Len(queue) : Conflict(queue[j], tx)

\* The metric counts dependencies; more than the check asks for are alike.
Enqueue(tx) ==
  /\ queue' = Append(queue, tx)
  /\ deps' = IF Follows(tx) /\ deps < Chains * Pairs THEN deps + 1 ELSE deps

Effect(tx) ==
  IF tx.step = "I"
  THEN /\ indep' = (IF flaw = "corrupts" THEN "wrong" ELSE "hashed")
       /\ UNCHANGED cells
  ELSE /\ cells' = [cells EXCEPT ![tx.pair] = Applied(@, tx)] /\ UNCHANGED indep

Execute(k) ==
  LET tx == queue[k]
      first == \A j \in 1..k - 1 : ~Conflict(queue[j], tx)
  IN /\ \/ /\ first /\ Effect(tx) /\ count' = count + 1
           /\ queue' = RemoveAt(queue, k)
           /\ harmed' = (harmed \/ (flaw = "corrupts" /\ tx.step = "I"))
        \/ /\ flaw = "reorders" /\ ~first /\ tx.step # "I"
           /\ Effect(tx) /\ count' = count + 1 /\ queue' = RemoveAt(queue, k) /\ harmed' = TRUE
        \/ /\ flaw = "loses" /\ ~harmed /\ tx.step # "I"
           /\ queue' = RemoveAt(queue, k) /\ harmed' = TRUE /\ UNCHANGED <<cells, indep, count>>
        \/ /\ flaw = "repeats" /\ ~harmed /\ first /\ tx.step # "I"
           /\ Effect(tx) /\ count' = count + 1 /\ harmed' = TRUE /\ UNCHANGED queue
     /\ UNCHANGED <<pc, flaw, missed, excuses, failures, over, driver, bg, smp, target, deps>>

\* The duration passes, or the run is interrupted.
Expire ==
  /\ ~over /\ over' = TRUE
  /\ UNCHANGED <<pc, flaw, harmed, missed, excuses, failures, driver, bg, smp, target, er>>

-----------------------------------------------------------------------------
\* The competing load.
Bounded  == phase = "contention"
Stopping == pc = "join" \/ (over /\ phase # "calibration" /\ pc = "drive")

Competing == [step |-> "I", pair |-> Pairs, id |-> bg.sends + 1]

\* spawn_load; then await_load_reaching_executors
SpawnLoad ==
  /\ pc = "spawn" /\ pc' = "warm"
  /\ bg' = [NoLoad EXCEPT !.state = "ready"]
  /\ UNCHANGED <<flaw, harmed, missed, excuses, failures, over, driver, smp, target, er>>

\* A lane of BoundedLoad waits for the confirmation; the open loop goes on.
Deliver ==
  /\ bg.state = "ready" /\ ~Stopping
  /\ bg.sends < MaxSends          \* bound
  /\ Enqueue(Competing)
  /\ bg' = [bg EXCEPT !.sends = @ + 1, !.delivered = @ + (IF Bounded THEN 0 ELSE 1),
                      !.state = IF Bounded THEN "unconfirmed" ELSE "ready"]
  /\ UNCHANGED <<pc, flaw, harmed, missed, excuses, failures, over, driver, smp, target,
                 cells, indep, count>>

\* SignatureConfirmations::await_id
Confirm ==
  /\ bg.state = "unconfirmed"
  /\ ~\E j \in 1..Len(queue) : queue[j].step = "I" /\ queue[j].id = bg.sends
  /\ bg' = [bg EXCEPT !.delivered = @ + 1, !.state = "ready"]
  /\ UNCHANGED <<pc, flaw, harmed, missed, excuses, failures, over, driver, smp, target, er>>

\* Mutant: a lane goes on after a failure.
DeliverFailsOn ==
  /\ bg.state = "ready" /\ ~Stopping /\ bg.sends < MaxSends
  /\ Fail("load")
  /\ Enqueue(Competing) \/ UNCHANGED <<queue, deps>>
  /\ bg' = [bg EXCEPT !.sends = @ + 1, !.failed = @ + 1]
  /\ UNCHANGED <<pc, flaw, harmed, missed, over, driver, smp, target, cells, indep, count>>

\* The request fails, accepted or not: a bounded lane ends, the open loop goes on.
DeliverFails ==
  /\ bg.state = "ready" /\ ~Stopping /\ bg.sends < MaxSends
  /\ Fail("load")
  /\ Enqueue(Competing) \/ UNCHANGED <<queue, deps>>
  /\ bg' = [bg EXCEPT !.sends = @ + 1, !.failed = @ + 1,
                      !.state = IF Bounded THEN "ended" ELSE "ready"]
  /\ UNCHANGED <<pc, flaw, harmed, missed, over, driver, smp, target, cells, indep, count>>

LoadStops ==
  /\ bg.state = "ready" /\ Stopping
  /\ bg' = [bg EXCEPT !.state = "ended"]
  /\ UNCHANGED <<pc, flaw, harmed, missed, excuses, failures, over, driver, smp, target, er>>

\* await_load_reaching_executors: busy executors, or a missed check.  Then the
\* sampler and the pairs start on the phase's range.
Warm ==
  /\ pc = "warm" /\ pc' = "drive"
  /\ \/ queue # <<>> /\ UNCHANGED <<missed, excuses>>
     \/ queue = <<>> /\ Check("load", FALSE) /\ Excuse("cold", TRUE)
  /\ smp' = "spawned"
  /\ at' = [p \in Pair |-> [chain |-> Range_(phase)[1], step |-> 1,
              state |-> IF phase = "calibration" \/ Range_(phase)[1] = Range_(phase)[2]
                        THEN "end" ELSE "on"]]
  /\ UNCHANGED <<flaw, harmed, failures, over, batch, phase, phases, model, bg, target, er>>

-----------------------------------------------------------------------------
\* Sampler::spawn: a turn of its loop.  A failed scrape, or one without the
\* metrics, makes the sampling incomplete for good.
Scrape ==
  /\ smp # "off" /\ pc \in {"drive", "join"}
  /\ \/ smp = "spawned" /\ smp' = "complete" /\ UNCHANGED <<failures, excuses>>
     \/ smp # "incomplete" /\ smp' = "incomplete" /\ Fail("scrape")
  /\ UNCHANGED <<pc, flaw, harmed, missed, over, driver, bg, target, er>>

-----------------------------------------------------------------------------
\* drive_pair: between chains the deadline, then the next step of the chain.
StopPair(p) ==
  /\ pc = "drive" /\ at[p].state = "on" /\ at[p].step = 1 /\ over
  /\ at' = [at EXCEPT ![p].state = "end"]
  /\ UNCHANGED <<pc, flaw, harmed, missed, excuses, failures, over, batch, phase, phases,
                 model, bg, smp, target, er>>

NextAt(p) ==
  LET c == at[p]
  IN IF c.step < Len(Steps) THEN [c EXCEPT !.step = @ + 1]
     ELSE [chain |-> c.chain + 1, step |-> 1,
           state |-> IF c.chain + 1 < Range_(phase)[2] THEN "on" ELSE "end"]

StepTx(p) == [step |-> Steps[at[p].step], pair |-> p,
              id |-> step_id(batch, p, at[p].chain, at[p].step)]

Sendable(p) == pc = "drive" /\ at[p].state = "on" /\ ~(at[p].step = 1 /\ over)

\* CausalPair::send: an accepted step is folded into the model.
SendStep(p) ==
  /\ Sendable(p)
  /\ Enqueue(StepTx(p))
  /\ model' = [model EXCEPT ![p] = Applied(@, StepTx(p))]
  /\ at' = [at EXCEPT ![p] = NextAt(p)]
  /\ Excuse("eager", at[p].step > 1 /\ ~Follows(StepTx(p)))
  /\ UNCHANGED <<pc, flaw, harmed, missed, failures, over, batch, phase, phases, bg, smp,
                 target, cells, indep, count>>

\* Its request fails, accepted or not: the pair ends and the phase will fail.
SendStepFails(p) ==
  /\ Sendable(p)
  /\ Fail("send")
  /\ Enqueue(StepTx(p)) \/ UNCHANGED <<queue, deps>>
  /\ at' = [at EXCEPT ![p].state = "broken"]
  /\ UNCHANGED <<pc, flaw, harmed, missed, over, batch, phase, phases, model, bg, smp,
                 target, cells, indep, count>>

\* join_all, and the sleep to the end of the span.
PairsDone ==
  /\ pc = "drive" /\ \A p \in Pair : at[p].state # "on"
  /\ pc' = "join"
  /\ UNCHANGED <<flaw, harmed, missed, excuses, failures, over, driver, bg, smp, target, er>>

\* join_load; waiting for threads lets the sampler's task start.
JoinLoad ==
  /\ pc = "join" /\ bg.state = "ended" /\ smp # "spawned"
  /\ pc' = "finish"
  /\ UNCHANGED <<flaw, harmed, missed, excuses, failures, over, driver, bg, smp, target, er>>

\* chain_txs of the phase
ChainTxs ==
  MapThenSumSet(LAMBDA p : (at[p].chain - Range_(phase)[1]) * Len(Steps) + at[p].step - 1, Pair)

Outcome == [chain_txs |-> ChainTxs, chains |-> ChainTxs \div (Len(Steps) * Pairs),
            delivered |-> bg.delivered]

Workload(ps) == FoldSeq(LAMBDA ph, n : n + ph.chain_txs + ph.delivered, 0, ps)

\* The rest of calibrate, which has no chains: check_failures and the target.
CalibrationEnds ==
  /\ pc = "finish" /\ phase = "calibration" /\ pc' = "drain"
  /\ Check("load", smp = "complete" /\ bg.failed = 0)
  /\ target' = target + bg.delivered
  /\ bg' = NoLoad /\ smp' = "off"
  /\ UNCHANGED <<flaw, harmed, excuses, failures, over, driver, er>>

\* finish_complete and the rest of run_phase: check_failures, then the next
\* phase unless the run is over, else the drain.
PhaseEnds ==
  /\ pc = "finish" /\ phase # "calibration"
  /\ Check("load", smp = "complete" /\ bg.failed = 0)
  /\ IF \E p \in Pair : at[p].state = "broken"
     THEN pc' = "error" /\ UNCHANGED <<phase, phases, target>>
     ELSE /\ phases' = Append(phases, Outcome)
          /\ IF phase = "contention" /\ ~over
             THEN pc' = "spawn" /\ phase' = "backpressure" /\ UNCHANGED target
             ELSE pc' = "drain" /\ target' = target + Workload(phases') /\ UNCHANGED phase
  /\ bg' = NoLoad /\ smp' = "off"
  /\ UNCHANGED <<flaw, harmed, excuses, failures, over, batch, at, model, er>>

\* Mutant: the drain ends with the count.
DrainCount ==
  /\ pc = "drain"
  /\ \/ count >= target /\ pc' = (IF phase = "calibration" THEN "batch" ELSE "checks")
     \/ count < target /\ queue = <<>> /\ pc' = "error"
  /\ UNCHANGED <<flaw, harmed, missed, excuses, failures, over, driver, bg, smp, target, er>>

\* drain: await_executed, then the pipeline's gauges at zero.  The time-out:
\* nothing is left to execute.
Drain ==
  /\ pc = "drain" /\ queue = <<>>
  /\ \/ count >= target /\ pc' = (IF phase = "calibration" THEN "batch" ELSE "checks")
     \/ count < target /\ pc' = "error"
  /\ UNCHANGED <<flaw, harmed, missed, excuses, failures, over, driver, bg, smp, target, er>>

\* The loop of run: another batch, or verify_independent.
Batch ==
  /\ pc = "batch"
  /\ batch < MaxBatches \/ over          \* bound
  /\ pc' = IF over THEN "independent" ELSE "begin"
  /\ UNCHANGED <<flaw, harmed, missed, excuses, failures, over, driver, bg, smp, target, er>>

\* measure_batch: the first scrape, from which executions are counted here; the
\* deadline is looked at again after it.
BeginBatch ==
  /\ pc = "begin"
  /\ Check("load", queue = <<>>)
  /\ target' = 0 /\ count' = 0 /\ phases' = <<>> /\ phase' = "contention" /\ deps' = 0
  /\ pc' = IF over THEN "drain" ELSE "spawn"
  /\ Excuse("deadline", over)
  /\ UNCHANGED <<flaw, harmed, failures, over, batch, at, model, bg, smp,
                 queue, cells, indep>>

\* check_batch
CheckBatch ==
  /\ pc = "checks" /\ pc' = "verify"
  /\ Check("load", /\ queue = <<>> /\ phases # <<>>
                   /\ phases # <<>> => deps >= phases[1].chains * Pairs)
  /\ UNCHANGED <<flaw, harmed, excuses, failures, over, driver, bg, smp, target, er>>

\* Mutant: only the account that both steps write is compared.
VerifyOne ==
  /\ pc = "verify" /\ pc' = "batch" /\ batch' = batch + 1
  /\ Check("pairs", \A p \in Pair : cells[p].a = model[p].a)
  /\ UNCHANGED <<flaw, harmed, excuses, failures, over, phase, phases, at, model, bg, smp, target, er>>

\* verify_pairs: both accounts of every pair against its fold.
VerifyPairs ==
  /\ pc = "verify" /\ pc' = "batch" /\ batch' = batch + 1
  /\ Check("pairs", cells = model)
  /\ UNCHANGED <<flaw, harmed, excuses, failures, over, phase, phases, at, model, bg, smp, target, er>>

VerifyIndependent ==
  /\ pc = "independent" /\ pc' = "done"
  /\ Check("hashes", indep = "hashed")
  /\ Excuse("unreached", indep = "initial")
  /\ UNCHANGED <<flaw, harmed, failures, over, driver, bg, smp, target, er>>

Driver ==
  \/ SpawnLoad \/ Warm \/ PairsDone \/ JoinLoad \/ CalibrationEnds \/ PhaseEnds \/ Drain
  \/ Batch \/ BeginBatch \/ CheckBatch \/ VerifyPairs \/ VerifyIndependent

Next ==
  \/ \E k \in 1..Len(queue) : Execute(k)
  \/ Expire \/ Deliver \/ Confirm \/ DeliverFails \/ LoadStops \/ Scrape
  \/ \E p \in Pair : StopPair(p) \/ SendStep(p) \/ SendStepFails(p)
  \/ Driver

Spec == Init /\ [][Next]_vars

-----------------------------------------------------------------------------
\* background.rs: "At most one unconfirmed transaction per independent account
\* lane", also when a request failed whose transaction was accepted.
OneUnconfirmed ==
  phase = "contention" => Cardinality({j \in 1..Len(queue) : queue[j].step = "I"}) <= 1

\* With a correct ER the pairs never diverge from their fold: they are compared
\* only when every accepted step has been executed, though transactions the load
\* does not count (failed requests the ER accepted) bring the execution count to
\* its target early.  Without an excuse no check at all is missed, and the run
\* fails only for a step that could not be sent.
NoFalseAlarm ==
  flaw = "none" => /\ "pairs" \notin missed
                   /\ missed # {} => excuses # {}
                   /\ pc = "error" => "send" \in excuses

\* Steps executed out of order, lost or repeated, and wrong hashes of the
\* competing load, are caught unless the run failed anyway.
DefectCaught == pc = "done" /\ harmed => missed # {}
=============================================================================
