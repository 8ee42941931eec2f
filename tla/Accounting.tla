----------------------------- MODULE Accounting -----------------------------
(***************************************************************************)
(* The scenario committor/intent_execution_and_accounting.rs of redshift:   *)
(* bundles of several authorities, the quota of a sponsored session, the    *)
(* fees beyond it and the result callbacks of actions, judged against the   *)
(* scenario's own ledger of what each cell should hold.                     *)
(*                                                                          *)
(* The rollup and base (external) execute one intent at a time, which is    *)
(* all the scenario ever schedules; `flaw` makes them misbehave in one of   *)
(* the ways the scenario says it would notice, and `harmed` records it.     *)
(***************************************************************************)
EXTENDS Integers, Sequences, FiniteSets

CONSTANTS
  SponsoredLimit,  \* commits of a session that nobody pays for, 10 in the code
  PaidLimit        \* free commits of a session whose payer is delegated, 25

Actors      == 1..3
CommitFee   == 3
ActionFee   == 2
CallbackFee == 1
Amount      == 5
Funds       == 100

VARIABLES
  at,        \* the part of the scenario that runs, and its next call
  expected,  \* the headers and delegation of the actors' cells, as the scenario tracks them
  before,    \* balances and header the current check has read
  onBase,    \* [value, revision, owner, nonce] of every cell on base
  onEr,      \* [value, revision, mode] of every cell on the rollup
  money,     \* payers and vault on the rollup, cell 2's lamports, the destination on base
  intent,    \* the scheduled intent
  flaw, harmed, verdict

chain  == <<onBase, onEr, money, intent, harmed>>
client == <<at, expected, before, verdict>>
vars   == <<at, expected, before, onBase, onEr, money, intent, flaw, harmed, verdict>>

Idle == [stage |-> "none", modes |-> <<>>, actions |-> FALSE, callback |-> "none", calls |-> 0]

-----------------------------------------------------------------------------
(* The chains                                                                *)

\* What a transfer or action of the cell's program adds to its header.
Bump(h, x) == [h EXCEPT !.value = @ + x, !.revision = @ + 1]

Fee(nonce, actions, paid) ==
  (IF paid /\ nonce >= PaidLimit + (IF flaw = "feeLate" THEN 1 ELSE 0) THEN CommitFee ELSE 0)
  + (IF paid /\ actions THEN ActionFee ELSE 0)

\* Base executes every commit of the intent, and its actions.
Execute ==
  /\ intent.stage = "sent"
  /\ LET N == DOMAIN intent.modes
         back(a) == a \in N /\ intent.modes[a].kind = "undelegate"
         lost == flaw = "actionLost" /\ intent.actions
         sum == (IF intent.actions THEN Cardinality(N) ELSE 0)
                + (IF intent.actions THEN Cardinality({a \in N : back(a)}) ELSE 0)
     IN /\ onBase' = [a \in Actors |->
               LET snap == [onBase[a] EXCEPT !.value = onEr[a].value, !.revision = onEr[a].revision,
                                             !.nonce = @ + 1]
                   free == [snap EXCEPT !.owner = "program"]
               IN IF a \notin N THEN onBase[a]
                  ELSE IF ~back(a) THEN snap
                  ELSE IF ~intent.actions \/ (lost /\ a = 1) THEN free
                  ELSE Bump(free, intent.modes[a].change)]
        /\ money' = [money EXCEPT !.dest = @ +
               IF intent.callback # "none" THEN (IF intent.callback = "ok" THEN Amount ELSE 0)
               ELSE sum + (IF flaw = "transferTwice" /\ intent.actions THEN 1 ELSE 0)]
        /\ harmed' = (harmed \/ (lost /\ back(1)) \/ (flaw = "transferTwice" /\ intent.actions))
  /\ intent' = [intent EXCEPT !.stage = "landed"]
  /\ UNCHANGED <<onEr, flaw, client>>

\* The receipt is published.
Receive ==
  /\ intent.stage = "landed"
  /\ intent' = [intent EXCEPT !.stage = "done"]
  /\ UNCHANGED <<onBase, onEr, money, harmed, flaw, client>>

\* The result of the action comes back to its cell: a failure counts there and
\* refunds the payer.
Callback ==
  /\ intent.callback # "none" /\ intent.stage \in {"landed", "done"}
  /\ intent.calls < IF flaw = "callbackTwice" THEN 2 ELSE 1
  /\ LET failed == intent.callback = "failed"
         refund == failed /\ flaw # "refundKept"
     IN /\ onEr' = [onEr EXCEPT ![2] = Bump(@, IF failed THEN 1 ELSE 0)]
        /\ money' = [money EXCEPT !.cell = IF refund THEN @ - Amount ELSE @,
                                  !.payer[2] = IF refund THEN @ + Amount ELSE @]
        /\ harmed' = (harmed \/ (failed /\ ~refund) \/ intent.calls = 1)
  /\ intent' = [intent EXCEPT !.calls = @ + 1]
  /\ UNCHANGED <<onBase, flaw, client>>

\* The rollup clones a cell that base has returned and delegated again.
Restore(a) ==
  /\ onEr[a].mode = "locked"
  /\ onBase[a].owner = "er" /\ intent.stage \in {"none", "done"}
  /\ onEr' = [onEr EXCEPT ![a] = [value |-> onBase[a].value, revision |-> onBase[a].revision,
                                  mode |-> "live"]]
  /\ UNCHANGED <<onBase, money, intent, harmed, flaw, client>>

System == Execute \/ Receive \/ Callback \/ \E a \in Actors : Restore(a)

-----------------------------------------------------------------------------
(* Calls of the scenario                                                     *)

Go(k) == at' = [at EXCEPT !.call = k]

Ensure(P) == verdict' = IF P THEN verdict ELSE "failed"

On(part, k) == verdict = "good" /\ at.part = part /\ at.call = k /\ UNCHANGED flaw

\* intents and submit: commits are scheduled and charged; cells to be returned
\* are locked.
Schedule(modes, actions, callback, paid) ==
  LET fee == IF callback # "none" THEN ActionFee + CallbackFee
             ELSE Fee(onBase[1].nonce, actions, paid)
      who == IF callback # "none" THEN 2 ELSE 1
  IN /\ intent' = [Idle EXCEPT !.stage = "sent", !.modes = modes, !.actions = actions,
                               !.callback = callback]
     /\ money' = [money EXCEPT
          !.payer[who] = @ - fee - (IF callback # "none" THEN Amount ELSE 0),
          !.cell = IF callback # "none" THEN @ + Amount ELSE @,
          !.vault = @ + (IF flaw = "vaultMissed" THEN 0 ELSE fee),
          !.dest = 0]
     /\ harmed' = \/ harmed \/ (flaw = "vaultMissed" /\ fee > 0)
                  \/ (flaw = "feeLate" /\ paid /\ onBase[1].nonce = PaidLimit)

Lock(hs, modes) == [a \in Actors |-> IF a \in DOMAIN modes /\ modes[a].kind = "undelegate"
                                     THEN [hs[a] EXCEPT !.mode = "locked"] ELSE hs[a]]

Keep         == [kind |-> "commit", change |-> 0]
Return(x)    == [kind |-> "undelegate", change |-> x]

\* run: the bundles, in order.  A commit that is also finalized is a commit
\* to every check.
Bundles == <<
  [modes |-> <<Return(-50), Return(25)>>, add |-> <<100, 200>>, actions |-> TRUE],
  [modes |-> <<Return(102)>>, add |-> <<0>>, actions |-> TRUE],
  [modes |-> <<Keep, Keep, Return(-25)>>, add |-> <<0, 0, 200>>, actions |-> TRUE],
  [modes |-> <<Keep, Keep>>, add |-> <<2, 0>>, actions |-> TRUE],
  [modes |-> <<Keep, Keep>>, add |-> <<0, 0>>, actions |-> FALSE]>>

Current == Bundles[at.case]

N == 1..Len(Current.modes)

\* redelegate: a new session begins, with its own quota.
Fresh(cell) == [cell EXCEPT !.owner = "er", !.nonce = 0]

\* check_bundle: cells returned by an earlier case are delegated again.
Prepare ==
  /\ On("bundle", "prepare") /\ Go("write")
  /\ onBase' = [a \in Actors |-> IF a \in N /\ ~expected[a].delegated THEN Fresh(onBase[a])
                                                                     ELSE onBase[a]]
  /\ expected' = [a \in Actors |-> IF a \in N THEN [expected[a] EXCEPT !.delegated = TRUE]
                                              ELSE expected[a]]
  /\ UNCHANGED <<before, onEr, money, intent, harmed, verdict>>

Same(cell, want) == cell.value = want.value /\ cell.revision = want.revision

Added(a, h) == IF a \in N /\ Current.add[a] # 0 THEN Bump(h, Current.add[a]) ELSE h

\* The rollup must hold what the scenario tracks before it is written to.
Write ==
  /\ On("bundle", "write") /\ Go("submit")
  /\ \A a \in N : onEr[a].mode = "live" /\ Same(onEr[a], expected[a])
  /\ onEr' = [a \in Actors |-> Added(a, onEr[a])]
  /\ expected' = [a \in Actors |-> Added(a, expected[a])]
  /\ UNCHANGED <<before, onBase, money, intent, harmed, verdict>>

Submit ==
  /\ On("bundle", "submit") /\ Go("judge")
  /\ Schedule(Current.modes, Current.actions, "none", FALSE)
  /\ onEr' = Lock(onEr, Current.modes)
  /\ UNCHANGED <<expected, before, onBase, verdict>>

Returned(a) == a \in N /\ Current.modes[a].kind = "undelegate"

Judge ==
  /\ On("bundle", "judge") /\ intent.stage = "done"
  /\ expected' = [a \in Actors |-> IF Returned(a)
                                   THEN [Bump(expected[a], Current.modes[a].change)
                                           EXCEPT !.delegated = FALSE]
                                   ELSE expected[a]]
  /\ LET transfers == (IF Current.actions THEN Len(Current.modes) ELSE 0)
                      + Cardinality({a \in N : Returned(a)})
     IN Ensure(/\ \A a \in N :
                    /\ Same(onBase[a], expected'[a])
                    /\ onBase[a].owner = IF expected'[a].delegated THEN "er" ELSE "program"
               /\ money.dest = transfers)
  /\ at' = IF at.case < Len(Bundles) THEN [at EXCEPT !.case = @ + 1, !.call = "prepare"]
                                     ELSE [at EXCEPT !.part = "quota", !.call = "begin"]
  /\ UNCHANGED <<before, chain>>

\* increment_and_commit, and the checks of the loop that calls it.
Increment(actions, paid) ==
  /\ onEr' = [onEr EXCEPT ![1] = Bump(@, onBase[1].nonce + 1)]
  /\ before' = [nonce |-> onBase[1].nonce, payer |-> money.payer[1], vault |-> money.vault]
  /\ Schedule(<<Keep>>, actions, "none", paid)
  /\ UNCHANGED <<expected, onBase, verdict>>

\* check_sponsored_quota: commits up to the limit, then one that must be
\* refused and rolled back whole, then the return of the cell.
QuotaBegin ==
  /\ On("quota", "begin") /\ Go("commit")
  /\ Ensure(onBase[1].nonce < SponsoredLimit)
  /\ UNCHANGED <<expected, before, chain>>

QuotaCommit ==
  /\ On("quota", "commit") /\ onBase[1].nonce < SponsoredLimit
  /\ Go("counted") /\ Increment(FALSE, FALSE)

QuotaCounted ==
  /\ On("quota", "counted") /\ intent.stage = "done"
  /\ Go("commit")
  /\ Ensure(onBase[1].nonce = before.nonce + 1)
  /\ UNCHANGED <<expected, before, chain>>

\* The cell is read before the transaction that must be refused, and again.
QuotaRefused ==
  /\ On("quota", "commit") /\ onBase[1].nonce >= SponsoredLimit
  /\ Go("return")
  /\ before' = [header |-> onEr[1]]
  /\ onEr' = [onEr EXCEPT ![1] = IF flaw \in {"quotaIgnored", "quotaHalfDone"} THEN Bump(@, 99) ELSE @]
  /\ harmed' = (harmed \/ flaw \in {"quotaIgnored", "quotaHalfDone"})
  /\ Ensure(flaw # "quotaIgnored" /\ onEr'[1] = before'.header)
  /\ UNCHANGED <<expected, onBase, money, intent>>

QuotaReturn ==
  /\ On("quota", "return") /\ Go("returned")
  /\ IF flaw = "quotaTraps" THEN verdict' = "failed" /\ harmed' = TRUE /\ UNCHANGED <<onEr, money, intent>>
     ELSE /\ Schedule(<<Return(0)>>, FALSE, "none", FALSE)
          /\ onEr' = Lock(onEr, <<Return(0)>>)
          /\ UNCHANGED verdict
  /\ UNCHANGED <<expected, before, onBase>>

\* The cell is back with the image read before the refusal, and is delegated
\* again.
QuotaReturned ==
  /\ On("quota", "returned") /\ intent.stage = "done"
  /\ at' = [at EXCEPT !.part = "paid", !.call = "begin"]
  /\ Ensure(onBase[1].owner = "program" /\ Same(onBase[1], before.header))
  /\ onBase' = [onBase EXCEPT ![1] = Fresh(@)]
  /\ UNCHANGED <<expected, before, onEr, money, intent, harmed>>

\* check_paid_threshold: commits across the limit, the last with an action.
PaidBegin ==
  /\ On("paid", "begin") /\ onEr[1].mode = "live" /\ Go("commit")
  /\ Ensure(onBase[1].nonce < PaidLimit)
  /\ UNCHANGED <<expected, before, chain>>

PaidCommit ==
  /\ On("paid", "commit")
  /\ IF onBase[1].nonce <= PaidLimit + 1
     THEN Go("charged") /\ Increment(onBase[1].nonce = PaidLimit + 1, TRUE)
     ELSE /\ at' = [at EXCEPT !.part = "callback", !.call = "ok"]
          /\ UNCHANGED <<expected, before, chain, verdict>>

\* Mutant: the balances are not compared.
PaidUncharged ==
  /\ On("paid", "charged") /\ intent.stage = "done"
  /\ Go("commit")
  /\ Ensure(/\ onBase[1].nonce = before.nonce + 1
            /\ money.dest = IF before.nonce = PaidLimit + 1 THEN 1 ELSE 0)
  /\ UNCHANGED <<expected, before, chain>>

\* The payer pays, and the vault receives, for every commit from the limit on.
PaidCharged ==
  /\ On("paid", "charged") /\ intent.stage = "done"
  /\ Go("commit")
  /\ LET fee == (IF before.nonce >= PaidLimit THEN CommitFee ELSE 0)
                + (IF before.nonce = PaidLimit + 1 THEN ActionFee ELSE 0)
     IN Ensure(/\ money.payer[1] = before.payer - fee
               /\ money.vault = before.vault + fee
               /\ onBase[1].nonce = before.nonce + 1
               /\ money.dest = IF before.nonce = PaidLimit + 1 THEN 1 ELSE 0)
  /\ UNCHANGED <<expected, before, chain>>

\* check_callback, for an action that succeeds and for one that fails.
CallbackSubmit ==
  /\ verdict = "good" /\ at.part = "callback" /\ at.call \in {"ok", "failed"} /\ UNCHANGED flaw
  /\ onEr[2].mode = "live"
  /\ Go("await")
  /\ before' = [header |-> onEr[2], payer |-> money.payer[2], vault |-> money.vault,
                cell |-> money.cell]
  /\ Schedule([a \in {2} |-> Keep], FALSE, at.call, TRUE)
  /\ UNCHANGED <<expected, onBase, onEr, verdict>>

Failed      == intent.callback = "failed"
Transferred == IF Failed THEN 0 ELSE Amount

\* The wait for the callback's effects ends the first time they are seen.
CallbackAwait ==
  /\ On("callback", "await") /\ intent.stage = "done"
  /\ Same(onEr[2], Bump(before.header, IF Failed THEN 1 ELSE 0))
  /\ money.cell = before.cell + Transferred
  /\ money.payer[2] = before.payer - ActionFee - CallbackFee - Transferred
  /\ Go("judge")
  /\ UNCHANGED <<expected, before, chain, verdict>>

CallbackJudge ==
  /\ On("callback", "judge")
  /\ Go(IF Failed THEN "end" ELSE "failed")
  /\ Ensure(money.dest = Transferred /\ money.vault = before.vault + ActionFee + CallbackFee)
  /\ UNCHANGED <<expected, before, chain>>

Passed == verdict = "good" /\ at.call = "end"

Client == \/ Prepare \/ Write \/ Submit \/ Judge
          \/ QuotaBegin \/ QuotaCommit \/ QuotaCounted \/ QuotaRefused \/ QuotaReturn \/ QuotaReturned
          \/ PaidBegin \/ PaidCommit \/ PaidCharged
          \/ CallbackSubmit \/ CallbackAwait \/ CallbackJudge

\* What the scenario says it would notice.
Flaws == {"actionLost", "transferTwice", "quotaIgnored", "quotaHalfDone", "quotaTraps",
          "feeLate", "vaultMissed", "refundKept"}

Init ==
  /\ at = [part |-> "bundle", call |-> "prepare", case |-> 1]
  /\ expected = [a \in Actors |-> [value |-> 0, revision |-> 0, delegated |-> TRUE]]
  /\ onBase = [a \in Actors |-> [value |-> 0, revision |-> 0, owner |-> "er", nonce |-> 0]]
  /\ onEr = [a \in Actors |-> [value |-> 0, revision |-> 0, mode |-> "live"]]
  /\ money = [payer |-> [a \in Actors |-> Funds], vault |-> 0, cell |-> 0, dest |-> 0]
  /\ before = [nonce |-> 0] /\ intent = Idle
  /\ flaw \in {"none", "callbackTwice"} \cup Flaws
  /\ harmed = FALSE /\ verdict = "good"

Next == ~Passed /\ (Client \/ System)

Spec == Init /\ [][Next]_vars /\ WF_vars(Next)

-----------------------------------------------------------------------------
\* The scenario does not fail chains that execute, charge and call back as they
\* should: its own ledger of headers, sessions and fees is right.
NoFalseAlarm == flaw = "none" => verdict = "good"

\* It does not pass chains that lose or repeat an action's effect, let a
\* session overrun its quota, or charge and refund wrongly.
DefectCaught == harmed /\ flaw \in Flaws => ~Passed

\* On chains that behave it comes to its end.
ScenarioPasses == flaw = "none" => <>Passed

\* "Requires one result callback": chains that call back twice do not pass.
OneCallback == flaw = "callbackTwice" /\ harmed => ~Passed
=============================================================================
