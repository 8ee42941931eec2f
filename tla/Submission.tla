----------------------------- MODULE Submission ------------------------------
(***************************************************************************)
(* aperture/transaction_lifecycle.rs of redshift with core/src/signed.rs:   *)
(* retried admission, duplicate delivery, subscriptions to a signature      *)
(* before, during and after its execution, and replays after the blockhash  *)
(* has expired or the rollup has restarted.  Every mode has a payer and a   *)
(* cell of its own, so a behaviour is of one mode (`script`).               *)
(*                                                                          *)
(* The rollup is external; `flaw` is one misbehaviour, `harmed` that it has *)
(* happened.  Transaction 0 stands for the readers that keep it busy.       *)
(***************************************************************************)
EXTENDS Integers, Sequences, FiniteSets, SequencesExt

CONSTANTS
  Rounds,  \* rounds of the subscription mode (8 in the code)
  Copies   \* COPIES

VARIABLES
  script, pc, verdict, flaw, harmed,
  wire,      \* [transaction -> copies of it that are not answered yet]
  answer,    \* the answer to the last copy
  cold,      \* the fetch of the cold account: "off", "armed", "held", "rejected"
  queue,     \* admitted and not executed
  known,     \* signatures the rollup refuses to admit again
  fresh,     \* transactions whose blockhash is valid
  ledger,    \* executed transactions
  funds,     \* fees paid by the payer, adds to the cell
  listener,  \* [when it subscribed -> what it has been told]
  memo       \* what the scenario knows

rollup == <<harmed, wire, answer, cold, queue, known, fresh, ledger, funds, listener>>
vars   == <<script, pc, verdict, flaw, memo, rollup>>

SubmissionBounds == Rounds \in Nat /\ Copies \in Nat

Txs == 0..IF Rounds > 5 THEN Rounds ELSE 5
When == {"early", "racing", "pending", "late"}
Client == <<script, pc, verdict, flaw, memo>>
Harm(P) == harmed' = (harmed \/ P)

\* Signed::new with `fail`: the transaction adds and then fails.
Fails(t) == CASE script = "replay"        -> t \in {2, 5}
              [] script = "failing"       -> TRUE
              [] script = "subscriptions" -> t % 2 = 0
              [] OTHER                    -> FALSE
Result(t) == IF Fails(t) THEN "err" ELSE "ok"
Executed(t) == \E n \in 1..Len(ledger) : ledger[n] = t
Fee == 1
\* What the ledger records of t: the transaction's error and the fee it paid.
Meta(t) == [err |-> IF flaw = "recordsOk" THEN "ok" ELSE Result(t),
            fee |-> IF flaw = "recordsNoFee" THEN 0 ELSE Fee]
SlotOf(t) == CHOOSE n \in 1..Len(ledger) : ledger[n] = t

-----------------------------------------------------------------------------
(* The rollup                                                                *)

\* A copy arrives.  It is admitted if its blockhash is valid and its signature
\* unknown, unless an account it needs cannot be fetched.
Admitted(t) ==
  /\ t \in fresh \/ flaw = "expiredRuns"
  /\ t \notin known \/ flaw = "runsTwice"

Arrive(t) ==
  /\ wire[t] > 0 /\ cold = "off"
  /\ wire' = [wire EXCEPT ![t] = @ - 1]
  /\ answer' = IF Admitted(t) THEN "accepted" ELSE "refused"
  /\ queue' = IF Admitted(t) THEN Append(queue, t) ELSE queue
  /\ known' = known \cup {t}
  /\ funds' = IF ~Admitted(t) /\ flaw = "replayCharged" THEN [funds EXCEPT !.paid = @ + 1] ELSE funds
  /\ Harm(funds' # funds)
  /\ UNCHANGED <<Client, cold, fresh, ledger, listener>>

FetchCold(t) ==
  /\ wire[t] > 0 /\ cold = "armed" /\ cold' = "held"
  /\ UNCHANGED <<Client, harmed, wire, answer, queue, known, fresh, ledger, funds, listener>>

ColdFails(t) ==
  /\ wire[t] > 0 /\ cold = "rejected" /\ cold' = "off"
  /\ wire' = [wire EXCEPT ![t] = @ - 1]
  /\ answer' = IF flaw = "errorLost" THEN "accepted" ELSE "refused"
  /\ queue' = IF flaw = "coldRuns" THEN Append(queue, t) ELSE queue
  /\ known' = IF flaw \in {"coldRuns", "coldSticks"} THEN known \cup {t} ELSE known
  /\ Harm(flaw \in {"errorLost", "coldRuns", "coldSticks"})
  /\ UNCHANGED <<Client, fresh, ledger, funds, listener>>

\* Admitted transactions are executed in their order, charged whether they fail
\* or not, and whoever has subscribed is told.
Execute ==
  /\ queue # <<>> /\ queue' = Tail(queue)
  /\ LET t == Head(queue)
         told == IF flaw = "wrongResult" THEN "ok" ELSE Result(t)
     IN /\ ledger' = IF t = 0 THEN ledger ELSE Append(ledger, t)
        /\ funds' = IF t = 0 THEN funds
                    ELSE [paid |-> funds.paid + (IF flaw = "freeFailure" /\ Fails(t) THEN 0 ELSE Fee),
                          value |-> funds.value + (IF Fails(t) /\ flaw # "halfApplied" THEN 0 ELSE 1)]
        /\ listener' = [w \in When |-> IF t # 0 /\ listener[w] = "waiting" THEN told ELSE listener[w]]
        /\ Harm(t # 0 /\ \/ Executed(t) \/ t \notin fresh
                         \/ Fails(t) /\ flaw \in {"freeFailure", "halfApplied"}
                         \/ Meta(t) # [err |-> Result(t), fee |-> Fee]
                         \/ listener' # listener /\ told # Result(t))
  /\ UNCHANGED <<Client, wire, answer, cold, known, fresh>>

\* Blockhashes expire only where the scenario waits for it: its other steps
\* take far less than the 1,200 slots a blockhash lives.
Expire(t) ==
  /\ script = "replay" /\ pc = 11 /\ t \in fresh /\ t <= 3 /\ fresh' = fresh \ {t}
  /\ UNCHANGED <<Client, harmed, wire, answer, cold, queue, known, ledger, funds, listener>>

Rollup == Execute \/ \E t \in Txs \ {0} : Arrive(t) \/ FetchCold(t) \/ ColdFails(t) \/ Expire(t)

-----------------------------------------------------------------------------
(* Calls of the scenario                                                     *)

At(S, k) == script \in S /\ pc = k /\ pc' = k + 1
Ensure(P) == verdict' = IF P THEN verdict ELSE "failed"

\* state: the payer's balance and the cell are as expected.
StateIs(S, k) ==
  /\ At(S, k) /\ Ensure(funds = memo.expected) /\ UNCHANGED <<memo, rollup>>

\* Signed::new for the transaction the mode goes on with.
New(S, k) ==
  /\ At(S, k) /\ memo' = [memo EXCEPT !.tx = @ + 1]
  /\ listener' = [w \in When |-> "off"]
  /\ UNCHANGED <<verdict, harmed, wire, answer, cold, queue, known, fresh, ledger, funds>>

\* Signed::copies, send: every copy is sent before any answer is read.
Send(S, k, n) ==
  /\ At(S, k) /\ wire' = [wire EXCEPT ![memo.tx] = n]
  /\ UNCHANGED <<verdict, memo, harmed, answer, cold, queue, known, fresh, ledger, funds, listener>>

\* subscribe: who comes after the execution is told at once.
Registers(w) ==
  LET t == memo.tx
      deaf == (flaw = "lateLost" /\ Executed(t)) \/ (flaw = "queuedLost" /\ t \in Range(queue))
  IN /\ listener' = [listener EXCEPT ![w] = CASE deaf -> "deaf" [] ~deaf /\ Executed(t) -> Result(t)
                                                 [] OTHER -> "waiting"]
     /\ Harm(deaf)
     /\ UNCHANGED <<wire, answer, cold, queue, known, fresh, ledger, funds>>

Subscribe(S, k, w) == At(S, k) /\ Registers(w) /\ UNCHANGED <<verdict, memo>>

\* One that subscribes while the copies are under way (join!), at any moment.
Race(S, k) ==
  /\ script \in S /\ pc = k /\ pc' = k /\ listener["racing"] = "off" /\ Registers("racing")
  /\ UNCHANGED <<verdict, memo>>

Joined(S, k) ==
  /\ At(S, k) /\ listener["racing"] # "off" /\ wire[memo.tx] = 0
  /\ UNCHANGED <<verdict, memo, rollup>>

\* Mutant: the transaction's outcome is not compared.
OutcomeUnread(S, k) ==
  /\ At(S, k) /\ wire[memo.tx] = 0 /\ Executed(memo.tx)
  /\ memo' = [memo EXCEPT !.expected = funds, !.slot[memo.tx] = SlotOf(memo.tx)]
  /\ UNCHANGED <<verdict, rollup>>

\* Signed::outcome: published, with the error and the fee expected; from here on
\* the scenario counts its fee and its add.
Outcome(S, k) ==
  /\ At(S, k) /\ wire[memo.tx] = 0 /\ Executed(memo.tx)
  /\ Ensure(Meta(memo.tx) = [err |-> Result(memo.tx), fee |-> Fee])
  /\ LET e == memo.expected
     IN memo' = [memo EXCEPT !.slot[memo.tx] = SlotOf(memo.tx),
                             !.expected = [paid |-> e.paid + Fee,
                                           value |-> e.value + (IF Fails(memo.tx) THEN 0 ELSE 1)]]
  /\ UNCHANGED rollup

\* audit: how often each of the transactions is in the blocks since `start`.
Inclusions(t) == Cardinality({n \in memo.start + 1..Len(ledger) : ledger[n] = t})

Audit(S, k, due) ==
  /\ At(S, k) /\ Ensure(\A t \in DOMAIN due : Inclusions(t) = due[t])
  /\ memo' = [memo EXCEPT !.start = Len(ledger)] /\ UNCHANGED rollup

Start(S, k) ==
  /\ At(S, k) /\ memo' = [memo EXCEPT !.start = Len(ledger)] /\ UNCHANGED <<verdict, rollup>>

-----------------------------------------------------------------------------
(* Mode::ColdFetch                                                           *)

InterceptCold(k) ==
  /\ At({"cold"}, k) /\ cold' = "armed"
  /\ UNCHANGED <<verdict, memo, harmed, wire, answer, queue, known, fresh, ledger, funds, listener>>

RejectCold(k) ==
  /\ At({"cold"}, k) /\ cold = "held" /\ cold' = "rejected"
  /\ UNCHANGED <<verdict, memo, harmed, wire, answer, queue, known, fresh, ledger, funds, listener>>

Answered(k, expected) ==
  /\ At({"cold"}, k) /\ wire[memo.tx] = 0 /\ Ensure(answer = expected) /\ UNCHANGED <<memo, rollup>>

NoStatus(k) ==
  /\ At({"cold"}, k) /\ Ensure(~Executed(memo.tx)) /\ UNCHANGED <<memo, rollup>>

ColdFetch ==
  LET S == {"cold"}
  IN \/ Start(S, 1) \/ InterceptCold(2) \/ New(S, 3) \/ Send(S, 4, 1) \/ RejectCold(5)
     \/ Answered(6, "refused") \/ NoStatus(7) \/ StateIs(S, 8)
     \/ Send(S, 9, 1) \/ Answered(10, "accepted") \/ Outcome(S, 11)
     \/ Audit(S, 12, [t \in {1} |-> 1]) \/ StateIs(S, 13)

-----------------------------------------------------------------------------
(* Mode::Concurrent and Mode::Subscriptions                                  *)

Executing == {"concurrent", "failing", "subscriptions"}

\* Readers are queued in front until a pending status has been witnessed for
\* both results.
Queued == script = "subscriptions" /\ Fails(memo.tx) \notin memo.witnessed

QueueReaders(k) ==
  /\ At(Executing, k) /\ queue' = IF Queued THEN Append(queue, 0) ELSE queue
  /\ UNCHANGED <<verdict, memo, harmed, wire, answer, cold, known, fresh, ledger, funds, listener>>

SubscribePending(k) ==
  /\ At(Executing, k)
  /\ IF Queued THEN Registers("pending") ELSE UNCHANGED rollup
  /\ UNCHANGED <<verdict, memo>>

StatusPending(k) ==
  /\ At(Executing, k) /\ memo' = [memo EXCEPT !.pending = Queued /\ ~Executed(memo.tx)]
  /\ UNCHANGED <<verdict, rollup>>

\* Mutant: only the listener that subscribed before the transaction counts.
NotifiedEarly(k) ==
  /\ At(Executing, k) /\ listener["early"] # "waiting"
  /\ Ensure(listener["early"] = Result(memo.tx)) /\ UNCHANGED <<memo, rollup>>

\* Every listener is told the same result.
Notified(k) ==
  /\ At(Executing, k) /\ \A w \in When : listener[w] # "waiting"
  /\ Ensure(\A w \in When : listener[w] \in {"off", Result(memo.tx)}) /\ UNCHANGED <<memo, rollup>>

ReadersDone(k) == At(Executing, k) /\ 0 \notin Range(queue) /\ UNCHANGED <<verdict, memo, rollup>>

AuditOne(k) == Audit(Executing, k, [t \in {memo.tx} |-> 1])

RoundEnds(k) ==
  /\ script \in Executing /\ pc = k
  /\ LET witnessed == memo.witnessed \cup IF memo.pending THEN {Fails(memo.tx)} ELSE {}
         last == script # "subscriptions" \/ witnessed = BOOLEAN \/ memo.tx = Rounds
     IN /\ pc' = IF last THEN k + 1 ELSE 2
        /\ Ensure(last /\ script = "subscriptions" => witnessed = BOOLEAN)
        /\ memo' = [memo EXCEPT !.witnessed = witnessed]
  /\ UNCHANGED rollup

Execution ==
  LET S == Executing
  IN \/ Start(S, 1) \/ New(S, 2) \/ Subscribe(S, 3, "early") \/ QueueReaders(4)
     \/ Send(S, 5, IF script = "subscriptions" THEN 1 ELSE Copies)
     \/ Race(S, 6) \/ Joined(S, 6) \/ SubscribePending(7) \/ StatusPending(8)
     \/ Outcome(S, 9) \/ Subscribe(S, 10, "late") \/ Notified(11) \/ ReadersDone(12)
     \/ AuditOne(13) \/ StateIs(S, 14) \/ RoundEnds(15) \/ StateIs(S, 16)

-----------------------------------------------------------------------------
(* Mode::ExpiryRestart                                                       *)

Expired(k) ==
  /\ At({"replay"}, k) /\ \A t \in 1..3 : t \notin fresh /\ UNCHANGED <<verdict, memo, rollup>>

StillValid(k) ==
  /\ At({"replay"}, k) /\ Ensure({4, 5} \subseteq fresh) /\ UNCHANGED <<memo, rollup>>

\* The rollup comes back with its ledger, and with the signatures in it.
Restart(k) ==
  /\ At({"replay"}, k) /\ queue' = <<>>
  /\ known' = IF flaw = "forgets" THEN {} ELSE Range(ledger)
  /\ ledger' = IF flaw = "losesHistory" THEN Front(ledger) ELSE ledger
  /\ funds' = IF flaw = "rollsBack" THEN [funds EXCEPT !.paid = @ - 1] ELSE funds
  /\ Harm(ledger' # ledger \/ funds' # funds)
  /\ UNCHANGED <<verdict, memo, wire, answer, cold, fresh, listener>>

\* Copies of each probe, answered one way or the other before the next probe's.
Replay(k) ==
  /\ script = "replay" /\ pc = k /\ pc' = k
  /\ memo.replayed < memo.tx /\ \A t \in Txs : wire[t] = 0
  /\ memo' = [memo EXCEPT !.replayed = @ + 1] /\ wire' = [wire EXCEPT ![memo.replayed + 1] = Copies]
  /\ UNCHANGED <<verdict, harmed, answer, cold, queue, known, fresh, ledger, funds, listener>>

Replayed(k) ==
  /\ At({"replay"}, k) /\ memo.replayed = memo.tx /\ \A t \in Txs : wire[t] = 0
  /\ memo' = [memo EXCEPT !.replayed = 0] /\ UNCHANGED <<verdict, rollup>>

\* No copy of a probe has been included again.
AuditNone(k) == Audit({"replay"}, k, [t \in 1..memo.tx |-> 0])

\* Executed probes are still where they were; the one never sent has not run.
Rechecked(k) ==
  /\ At({"replay"}, k)
  /\ \A t \in 1..memo.tx : t # 3 => Executed(t)
  /\ Ensure(/\ \A t \in 1..memo.tx : t # 3 => memo.slot[t] = SlotOf(t)
            /\ ~Executed(3))
  /\ UNCHANGED <<memo, rollup>>

ExpiryRestart ==
  LET S == {"replay"}
  IN \/ Start(S, 1) \/ New(S, 2) \/ Send(S, 3, 1) \/ Outcome(S, 4)
     \/ New(S, 5) \/ Send(S, 6, 1) \/ Outcome(S, 7) \/ New(S, 8)
     \/ Audit(S, 9, [t \in 1..3 |-> IF t = 3 THEN 0 ELSE 1]) \/ StateIs(S, 10)
     \/ Expired(11) \/ StateIs(S, 12)
     \/ Start(S, 13) \/ Replay(14) \/ Replayed(14) \/ AuditNone(15) \/ StateIs(S, 16) \/ Rechecked(17)
     \/ Start(S, 18) \/ New(S, 19) \/ Send(S, 20, 1) \/ Outcome(S, 21)
     \/ New(S, 22) \/ Send(S, 23, 1) \/ Outcome(S, 24)
     \/ Audit(S, 25, [t \in 4..5 |-> 1]) \/ StateIs(S, 26) \/ StillValid(27)
     \/ Restart(28) \/ StateIs(S, 29)
     \/ Start(S, 30) \/ Replay(31) \/ Replayed(31) \/ AuditNone(32) \/ StateIs(S, 33) \/ Rechecked(34)
     \/ StateIs(S, 35)

-----------------------------------------------------------------------------
Script == verdict = "good" /\ (ColdFetch \/ Execution \/ ExpiryRestart) /\ UNCHANGED <<script, flaw>>

End == CASE script = "cold" -> 14 [] script \in Executing -> 17 [] script = "replay" -> 36

Flaws == {"none", "expiredRuns", "runsTwice", "replayCharged", "errorLost", "coldRuns", "coldSticks",
          "wrongResult", "recordsOk", "recordsNoFee", "freeFailure", "halfApplied", "lateLost", "queuedLost",
          "forgets", "losesHistory", "rollsBack"}

Init ==
  /\ script \in {"cold", "replay"} \cup Executing /\ flaw \in Flaws
  /\ pc = 1 /\ verdict = "good" /\ harmed = FALSE
  /\ wire = [t \in Txs |-> 0] /\ answer = "none" /\ cold = "off" /\ queue = <<>> /\ known = {}
  /\ fresh = Txs /\ ledger = <<>> /\ funds = [paid |-> 0, value |-> 0]
  /\ listener = [w \in When |-> "off"]
  /\ memo = [tx |-> 0, start |-> 0, expected |-> funds, slot |-> [t \in Txs |-> 0],
             pending |-> FALSE, witnessed |-> {}, replayed |-> 0]

Passed == verdict = "good" /\ pc = End

Next == verdict = "good" /\ ~Passed /\ (Rollup \/ Script)

\* The rollup acts, and the scenario's calls return.
Spec == Init /\ [][Next]_vars /\ WF_vars(Rollup /\ verdict = "good" /\ ~Passed)
             /\ WF_vars(Script /\ ~Passed)

-----------------------------------------------------------------------------
\* A rollup so quick that no pending status is ever seen fails the subscription
\* mode, which then has not shown what it is for.
Unwitnessed == script = "subscriptions" /\ memo.tx = Rounds /\ memo.witnessed # BOOLEAN

\* A rollup that behaves is not failed, whenever copies arrive and listeners
\* subscribe.
NoFalseAlarm == flaw = "none" /\ verdict = "failed" => Unwitnessed

\* One that executes twice or too late, charges a replay, forgets its history
\* or misreports a result or a fee, is not passed.
DefectCaught == harmed => ~Passed

\* On a rollup that behaves every mode comes to its end.
ScenarioPasses == flaw = "none" => <>(Passed \/ (verdict = "failed" /\ Unwitnessed))
=============================================================================
