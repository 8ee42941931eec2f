----------------------------- MODULE Activation -----------------------------
(***************************************************************************)
(* Actions that run on a rollup when it learns of a delegation:             *)
(* chainlink/activation_single_shot.rs ("single") and                       *)
(* chainlink/post_delegation_risk_gate.rs ("risk") of redshift.  The first  *)
(* races every path of discovery while a dependency is withheld and then    *)
(* watches for a second effect; the second puts a mock risk service, whose  *)
(* requests are the only evidence that it was asked, in front of the        *)
(* action.                                                                  *)
(*                                                                          *)
(* Base and the rollup are external; `flaw` is one misbehaviour, `harmed`   *)
(* that it has happened.                                                    *)
(***************************************************************************)
EXTENDS Integers

VARIABLES
  script, pc, verdict, flaw, harmed,
  cell,     \* actions the rollup's cell has taken; its value and revision follow
  before,   \* the same, as the scenario read it
  target,   \* [own, er, fails]: the delegated account on base and on the rollup
  dep,      \* the action's dependency: "held" from the rollup, "unwatched" when
            \* the cell is no longer polled, "free"
  stir,     \* what might make the rollup discover the account once more
  risk,     \* RiskService: [score, queries], and the rollup's [verdict, attempt]
  dest      \* tokens at the destination

rollup == <<cell, target, dep, stir, risk, dest, harmed>>
vars   == <<script, pc, verdict, flaw, before, rollup>>

Amount        == 200
RiskThreshold == 5
NoRisk        == [score |-> 0, queries |-> 0, verdict |-> "none", attempt |-> "none"]
NoTarget      == [own |-> "none", er |-> "unknown", fails |-> FALSE]

-----------------------------------------------------------------------------
(* The rollup                                                                *)

Client == <<script, pc, verdict, flaw, before>>

Harm(P) == harmed' = (harmed \/ P)

\* A read, a submission or a notification tells the rollup of the delegation.
Discover ==
  /\ script = "single" /\ target.own = "delegated" /\ target.er = "unknown"
  /\ target' = [target EXCEPT !.er = "waiting"]
  /\ UNCHANGED <<Client, cell, dep, stir, risk, dest, harmed>>

\* The action runs once its dependency is there, whoever discovered it; the
\* account stays, flawed, it does not.  An action that runs early is in time
\* when nothing looks at the cell any more.
Activate ==
  /\ target.er = "waiting" /\ (dep = "free" \/ flaw = "early")
  /\ LET takes == ~target.fails \/ flaw = "failedApplies"
         twice == flaw = "twice" /\ ~target.fails
     IN /\ cell' = IF takes THEN cell + 1 ELSE cell
        /\ target' = [target EXCEPT !.er = IF @ = "waiting" /\ target.fails THEN "rescue"
                                           ELSE IF twice THEN "again"
                                           ELSE IF flaw = "dropsAccount" THEN "gone" ELSE "done"]
        /\ Harm((takes /\ (target.fails \/ dep = "held")) \/ target'.er = "gone")
  /\ UNCHANGED <<Client, dep, stir, risk, dest>>

\* Flawed, a second discovery that was waiting runs it too.
ActivateAgain ==
  /\ target.er = "again"
  /\ cell' = cell + 1 /\ target' = [target EXCEPT !.er = "done"] /\ Harm(TRUE)
  /\ UNCHANGED <<Client, dep, stir, risk, dest>>

\* A failed or refused action returns the account on base.
Rescue ==
  /\ target.er = "rescue" /\ flaw # "noRescue"
  /\ target' = [target EXCEPT !.er = "rescued", !.own = "returned"]
  /\ UNCHANGED <<Client, cell, dep, stir, risk, dest, harmed>>

\* The rollup meets the account again, and remembers; flawed, it does not.
Meet ==
  /\ stir # "none"
  /\ LET again == flaw = stir /\ target.er = "done"
     IN cell' = (IF again THEN cell + 1 ELSE cell) /\ Harm(again)
  /\ stir' = "none"
  /\ UNCHANGED <<Client, target, dep, risk, dest>>

\* RiskService::body: the rollup asks about the owner and is told whether the
\* score reaches the threshold.
Query ==
  /\ script = "risk" /\ target.own = "delegated" /\ target.er = "unknown" /\ flaw # "noQuery"
  /\ risk' = [risk EXCEPT !.queries = 1,
                          !.verdict = IF risk.score >= RiskThreshold THEN "risky" ELSE "safe"]
  /\ target' = [target EXCEPT !.er = "asked"]
  /\ UNCHANGED <<Client, cell, dep, stir, dest, harmed>>

\* It acts on the verdict: a refused merge is not attempted; an allowed one
\* may still fail.
Obey ==
  /\ target.er = "asked" \/ (flaw = "noQuery" /\ target.er = "unknown" /\ target.own = "delegated"
                             /\ script = "risk")
  /\ LET refuses == risk.verdict = "risky" \/ flaw = "alwaysRefuses"
         merges  == ~refuses \/ flaw = "mergesAnyway"
     IN /\ \E result \in IF merges THEN {"ok", "failed"} ELSE {"none"} :
             risk' = [risk EXCEPT !.attempt = result]
        /\ target' = [target EXCEPT !.er = IF refuses THEN "rescue" ELSE "merged"]
        /\ Harm(\/ merges /\ risk.verdict # "safe"
                \/ refuses /\ risk.verdict = "safe"
                \/ flaw = "failedMoves" /\ risk'.attempt = "failed")
        /\ dest' = IF risk'.attempt = "failed" /\ flaw = "failedMoves" THEN Amount ELSE dest
  /\ UNCHANGED <<Client, cell, dep, stir>>

\* A successful merge moves the tokens.
Move ==
  /\ risk.attempt = "ok" /\ dest = 0
  /\ dest' = Amount
  /\ UNCHANGED <<Client, cell, target, dep, stir, risk, harmed>>

Rollup == Discover \/ Activate \/ ActivateAgain \/ Rescue \/ Meet \/ Query \/ Obey \/ Move

-----------------------------------------------------------------------------
(* Calls of the scenarios                                                    *)

At(s, k) == script = s /\ pc = k /\ pc' = k + 1

Ensure(P) == verdict' = IF P THEN verdict ELSE "failed"

Waits(P)  == P /\ UNCHANGED <<verdict, before, rollup>>
Checks(P) == Ensure(P) /\ UNCHANGED <<before, rollup>>

\* delegate_trigger: the owner and the record change in one transaction, with
\* the dependency's fetches already withheld.
DelegateTrigger(k, fails) ==
  /\ At("single", k)
  /\ before' = cell /\ dep' = "held"
  /\ target' = [own |-> "delegated", er |-> "unknown", fails |-> fails]
  /\ UNCHANGED <<verdict, cell, stir, risk, dest, harmed>>

\* The dependency is asked for.
DependencyHeld(k) == At("single", k) /\ Waits(target.er # "unknown")

\* race_discovery: reads, submissions and a base transfer, and no effect while
\* they go on.
RaceDiscovery(k) ==
  /\ At("single", k) /\ Ensure(cell = before) /\ stir' = "race"
  /\ UNCHANGED <<before, cell, target, dep, risk, dest, harmed>>

\* Mutant: what happens while the dependency is held is not looked at.
RacedBlind(k) ==
  /\ At("single", k) /\ stir = "none" /\ dep' = "unwatched"
  /\ UNCHANGED <<verdict, before, cell, target, stir, risk, dest, harmed>>

\* The last poll of its window.
Raced(k) ==
  /\ At("single", k) /\ stir = "none" /\ Ensure(cell = before) /\ dep' = "unwatched"
  /\ UNCHANGED <<before, cell, target, stir, risk, dest, harmed>>

\* stall.remove, a poll's pause later.
Unstall(k) ==
  /\ At("single", k) /\ dep' = "free"
  /\ UNCHANGED <<verdict, before, cell, target, stir, risk, dest, harmed>>

\* run(false) ends when one effect is seen and the account is on the rollup,
\* run(true) with the rescue.
AppliedOnce(k) == At("single", k) /\ Waits(cell = before + 1)
OnRollup(k)    == At("single", k) /\ Checks(target.er # "gone")
Rescued(k)     == At("single", k) /\ target.own = "returned" /\ Checks(cell = before)

\* hold_steady: its windows outlast the rollup's reaction to what it met.
HoldSteady(k) == At("single", k) /\ stir = "none" /\ target.er # "again" /\ Checks(cell = 1)

\* A transfer on base, a cut of both transports and a transfer, a restart.
Stir(k, what) ==
  /\ At("single", k) /\ stir' = what
  /\ UNCHANGED <<verdict, before, cell, target, dep, risk, dest, harmed>>

Restart(k) ==
  /\ At("single", k) /\ stir' = "restart"
  /\ cell' = IF flaw = "forgets" THEN 0 ELSE cell
  /\ Ensure(flaw # "diesOnStop")
  /\ Harm(cell' # cell \/ flaw = "diesOnStop")
  /\ UNCHANGED <<before, target, dep, risk, dest>>

Restarted(k) == At("single", k) /\ Waits(cell = 1)

SingleShot ==
  \/ DelegateTrigger(1, FALSE) \/ DependencyHeld(2) \/ RaceDiscovery(3) \/ Raced(4)
  \/ Unstall(5) \/ AppliedOnce(6) \/ OnRollup(7) \/ HoldSteady(8)
  \/ Stir(9, "notice") \/ Stir(10, "reconnect") \/ HoldSteady(11)
  \/ Restart(12) \/ Restarted(13) \/ Stir(14, "notice") \/ HoldSteady(15)
  \/ DelegateTrigger(16, TRUE) \/ DependencyHeld(17) \/ RaceDiscovery(18) \/ Raced(19)
  \/ Unstall(20) \/ Rescued(21) \/ HoldSteady(22)

\* run_risk_case: the owner's score is set, and the shuttle delegated with its
\* merge.
RiskCase(k, score) ==
  /\ At("risk", k)
  /\ risk' = [NoRisk EXCEPT !.score = score] /\ dest' = 0
  /\ target' = [NoTarget EXCEPT !.own = "delegated"]
  /\ UNCHANGED <<verdict, before, cell, dep, stir, harmed>>

Asked(k) == At("risk", k) /\ Waits(risk.queries > 0)

\* A risky owner's shuttle is returned, without an attempt.
Refused(k) == At("risk", k) /\ target.own = "returned"
                 /\ Checks(risk.attempt = "none" /\ dest = 0)

\* merge_attempt: a safe owner's merge is attempted, and only a success moves
\* the tokens.
Attempted(k) ==
  /\ At("risk", k)
  /\ \/ risk.attempt = "ok" /\ Waits(dest = Amount)
     \/ risk.attempt = "failed" /\ Checks(dest = 0)

RiskGate == RiskCase(1, 9) \/ Asked(2) \/ Refused(3) \/ RiskCase(4, 1) \/ Asked(5) \/ Attempted(6)

-----------------------------------------------------------------------------
End   == [single |-> 23, risk |-> 7]
Flaws == [single |-> {"early", "twice", "failedApplies", "noRescue", "notice", "reconnect",
                      "restart", "forgets", "dropsAccount", "diesOnStop"},
          risk |-> {"noQuery", "mergesAnyway", "alwaysRefuses", "failedMoves", "noRescue"}]

\* The cell is delegated and cloned; the risk service runs.
Init ==
  /\ script \in DOMAIN End /\ flaw \in {"none"} \cup Flaws[script]
  /\ pc = 1 /\ verdict = "good" /\ harmed = FALSE
  /\ cell = 0 /\ before = 0 /\ target = NoTarget /\ dep = "free" /\ stir = "none"
  /\ risk = NoRisk /\ dest = 0

Passed == verdict = "good" /\ pc = End[script]

Script == (SingleShot \/ RiskGate) /\ UNCHANGED <<script, flaw>>

Next == verdict = "good" /\ ~Passed /\ (Rollup \/ Script)

\* The scenario's calls return and the rollup reacts.
Spec == Init /\ [][Next]_vars /\ WF_vars(Next)

-----------------------------------------------------------------------------
\* A rollup that runs an action once, when it can, and obeys the risk service
\* is not failed, whichever way it learns of the delegation.
NoFalseAlarm == flaw = "none" => verdict = "good"

\* One that runs it twice, again after a notification, a reconnect or a restart,
\* or against or without the risk service's word, is not passed, nor is one that
\* runs it early while the cell is polled, drops the account, does not stop
\* cleanly or never returns the account of a failed action.  An action that runs
\* between the last poll and the release of the dependency is taken for the
\* released one.
DefectCaught == harmed \/ flaw = "noRescue" => ~Passed

\* On a rollup that behaves the scenarios come to their end.
ScenarioPasses == flaw = "none" => <>Passed
=============================================================================
