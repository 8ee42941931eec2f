------------------------------- MODULE Upgrade -------------------------------
(***************************************************************************)
(* chainlink/program_upgrade_consistency.rs: two tasks joined on one        *)
(* thread.  One invokes a program on the hot rollup and judges every        *)
(* invocation by the phase it began in; the other upgrades the program on   *)
(* base while the rollups' discovery of it is held, releases it, and moves  *)
(* the phase.  A phase read before the send is compared with what ran after *)
(* it, so the tasks must wait for one another in the right places.          *)
(*                                                                          *)
(* Base and the rollups are external.  `flaw` makes them misbehave in one   *)
(* way the scenario says it checks and `harmed` records that they have.     *)
(***************************************************************************)
EXTENDS Integers

CONSTANTS
  Warm,       \* invocations before the upgrade, 4 in the code
  Unaware,    \* invocations while its observation is held, 8
  Converged,  \* invocations once it is observed, 12
  FailEvery,  \* every so many invocations one must fail, 4
  Ids         \* bound: identities of invocations wrap around

UpgradeBounds ==
  /\ {Warm, Unaware, Converged, FailEvery, Ids} \subseteq Nat \ {0}
  /\ Ids % FailEvery = 0

VARIABLES
  phase,     \* Progress.phase: 0 before, 1 held, 2 released, 3 observed
  due,       \* the phase whose invocations are waited for, and how many more
  done,      \* Progress.done
  call,      \* the invocation in flight
  expected,  \* Invocations.expected: what the two cells should hold
  step,      \* the next call of the upgrade task
  base,      \* [ver, touched]: the program on base, and whether its cells changed
  hot,       \* [ver, busy]: the program on the hot rollup, reloading or not
  cold,      \* the version the cold rollup holds, 0 for none
  cells,     \* what the two cells hold
  fault,     \* [refuse, hold]: rules at the proxy
  flaw, harmed, verdict

progress == <<phase, due, done>>
world    == <<base, hot, cold, cells>>
vars     == <<progress, call, expected, step, world, fault, flaw, harmed, verdict>>

Idle == [at |-> "idle", id |-> 0, current |-> 0, outcome |-> "none", versions |-> {}]

Fails(id) == id % FailEvery = 0

Ensure(P) == verdict' = IF P THEN verdict ELSE "failed"

-----------------------------------------------------------------------------
(* The rollups                                                               *)

Harm(P) == harmed' = (harmed \/ P)

\* A write by version v of invocation id, to both cells or, by mistake, to
\* only one of them.
Write(id, v) == [one |-> <<id, v>>, two |-> <<id, v>>]

\* The send is refused: the program cannot be loaded, or is being replaced;
\* flawed, without a reason.
Refuse ==
  /\ call.at = "sent"
  /\ \/ hot.ver = 0 /\ fault.refuse /\ flaw # "loadAnyway" /\ Harm(FALSE)
     \/ hot.busy /\ Harm(FALSE)
     \/ flaw = "refuses" /\ call.current # 0 /\ Harm(call.current = 3)
  /\ call' = [call EXCEPT !.at = "answered", !.outcome = "refused"]
  /\ UNCHANGED <<progress, expected, step, world, fault, flaw, verdict>>

\* It is accepted, and fails because the program is being replaced.
Abort ==
  /\ call.at = "sent" /\ hot.busy
  /\ call' = [call EXCEPT !.at = "answered", !.outcome = "failed"]
  /\ UNCHANGED <<progress, expected, step, world, fault, flaw, harmed, verdict>>

\* It runs, with the code the rollup holds or, when it holds none, fetches;
\* flawed, with code the rollup has replaced.
Runs == IF hot.ver = 0 THEN {base.ver} ELSE {hot.ver} \cup IF flaw = "revert" THEN {1} ELSE {}

Execute ==
  /\ call.at = "sent" /\ ~hot.busy
  /\ hot.ver # 0 \/ (~fault.hold /\ (~fault.refuse \/ flaw = "loadAnyway"))
  /\ \E ver \in Runs :
     LET mixed == flaw = "mixed" /\ ver = 2
         leaks == flaw = "leak" /\ Fails(call.id)
         commits == flaw = "commits"
     IN /\ hot' = [hot EXCEPT !.ver = IF @ = 0 THEN ver ELSE @]
        /\ cells' = CASE leaks -> [cells EXCEPT !.one = <<call.id, ver>>]
                      [] Fails(call.id) -> cells
                      [] OTHER -> Write(call.id, ver)
        /\ base' = [base EXCEPT !.touched = @ \/ commits]
        /\ call' = [call EXCEPT !.at = "answered",
                                !.outcome = IF Fails(call.id) THEN "custom" ELSE "ok",
                                !.versions = IF mixed THEN {1, 2} ELSE {ver}]
        /\ Harm(\/ mixed \/ leaks \/ commits \/ (hot.ver = 0 /\ fault.refuse)
                \/ ver # hot'.ver /\ call.current = 3)
  /\ UNCHANGED <<progress, expected, step, cold, fault, flaw, verdict>>

\* The hot rollup hears of the upgrade and replaces its copy.
Hear ==
  /\ base.ver = 2 /\ hot.ver = 1 /\ ~hot.busy /\ ~fault.hold /\ flaw # "deaf"
  /\ hot' = [hot EXCEPT !.busy = TRUE]
  /\ UNCHANGED <<progress, call, expected, step, base, cold, cells, fault, flaw, harmed, verdict>>

Reload ==
  /\ hot.busy /\ ~fault.hold
  /\ hot' = [ver |-> base.ver, busy |-> FALSE]
  /\ UNCHANGED <<progress, call, expected, step, base, cold, cells, fault, flaw, harmed, verdict>>

\* A read makes the cold rollup fetch the program.
ColdFetch ==
  /\ step = "cold" /\ cold = 0 /\ ~fault.hold
  /\ cold' = IF flaw = "coldStale" THEN 1 ELSE base.ver
  /\ Harm(cold' # base.ver)
  /\ UNCHANGED <<progress, call, expected, step, base, hot, cells, fault, flaw, verdict>>

Rollups == Refuse \/ Abort \/ Execute \/ Hear \/ Reload \/ ColdFetch

-----------------------------------------------------------------------------
(* Invocations                                                               *)

\* run and invoke: the phase is read, then the transaction is sent.
Invoke ==
  /\ call.at = "idle" /\ ~done
  /\ call' = [Idle EXCEPT !.at = "sent", !.id = (call.id % Ids) + 1, !.current = phase]
  /\ UNCHANGED <<progress, expected, step, world, fault, flaw, harmed, verdict>>

\* verify: which outcomes the phase allows.
Allowed ==
  LET injecting == fault.refuse
      changing  == call.current \in {1, 2}
  IN CASE call.outcome = "refused" -> injecting \/ changing
       [] call.outcome = "failed" -> ~injecting /\ changing
       [] OTHER -> /\ ~injecting
                   /\ \E v \in {1, 2} : call.versions = {v} /\ <<call.current, v>> \in
                        {<<0, 1>>, <<1, 1>>, <<1, 2>>, <<2, 1>>, <<2, 2>>, <<3, 2>>}
                   /\ (call.outcome = "custom") = Fails(call.id)

\* The outcome is judged, the cells are compared and the invocation counted
\* for the phase it began in.  The first one ends the loading failure.
Judge ==
  /\ call.at = "answered"
  /\ expected' = IF call.outcome = "ok" THEN Write(call.id, CHOOSE v \in call.versions : TRUE)
                 ELSE expected
  /\ Ensure(Allowed /\ cells = expected')
  /\ due' = IF due.phase = call.current /\ due.left > 0 THEN [due EXCEPT !.left = @ - 1] ELSE due
  /\ call' = [call EXCEPT !.at = "idle"]
  /\ fault' = [fault EXCEPT !.refuse = FALSE]
  /\ UNCHANGED <<phase, done, step, world, flaw, harmed>>

-----------------------------------------------------------------------------
(* upgrade                                                                   *)

Do(k, next) == step = k /\ step' = next

\* await_count
Counted == due.left = 0

Enter(p, count) == phase' = p /\ due' = [phase |-> p, left |-> count]

\* Enough invocations, the first version cached, and the observation held.
HoldObservation ==
  /\ Do("warm", "upgrade") /\ Counted
  /\ Ensure(hot.ver = 1)
  /\ fault' = [fault EXCEPT !.hold = TRUE]
  /\ Enter(1, 0)
  /\ UNCHANGED <<done, call, expected, world, flaw, harmed>>

UpgradeOnBase ==
  /\ Do("upgrade", "hit")
  /\ base' = [base EXCEPT !.ver = 2]
  /\ UNCHANGED <<progress, call, expected, hot, cold, cells, fault, flaw, harmed, verdict>>

\* The notification is being held: invocations are counted from here, and the
\* cold rollup is asked.
NoteCount ==
  /\ Do("hit", "cold") /\ base.ver = 2
  /\ due' = [phase |-> 1, left |-> Unaware]
  /\ UNCHANGED <<phase, done, call, expected, world, fault, flaw, harmed, verdict>>

\* Mutant: the observation is released without waiting for invocations.
ReleaseAtOnce ==
  /\ step = "cold" /\ fault.hold
  /\ fault' = [fault EXCEPT !.hold = FALSE]
  /\ Enter(2, 0)
  /\ UNCHANGED <<done, call, expected, step, world, flaw, harmed, verdict>>

ReleaseObservation ==
  /\ step = "cold" /\ fault.hold /\ Counted
  /\ fault' = [fault EXCEPT !.hold = FALSE]
  /\ Enter(2, 0)
  /\ UNCHANGED <<done, call, expected, step, world, flaw, harmed, verdict>>

\* The reads of the cold rollup return, and show the new code.
ColdRead ==
  /\ Do("cold", "fresh") /\ phase = 2 /\ cold # 0
  /\ Ensure(cold = 2)
  /\ UNCHANGED <<progress, call, expected, world, fault, flaw, harmed>>

\* The hot rollup shows it too.
Observe ==
  /\ Do("fresh", "converged") /\ hot.ver = 2 /\ ~hot.busy
  /\ Enter(3, Converged)
  /\ UNCHANGED <<done, call, expected, world, fault, flaw, harmed, verdict>>

Finish ==
  /\ Do("converged", "joined") /\ Counted
  /\ done' = TRUE
  /\ UNCHANGED <<phase, due, call, expected, world, fault, flaw, harmed, verdict>>

\* Mutant: the invocation in flight is not waited for.
JoinOne ==
  /\ Do("joined", "end")
  /\ Ensure(~base.touched)
  /\ UNCHANGED <<progress, call, expected, world, fault, flaw, harmed>>

\* Both tasks have ended; base is compared with what it was.
Join ==
  /\ Do("joined", "end") /\ call.at = "idle"
  /\ Ensure(~base.touched)
  /\ UNCHANGED <<progress, call, expected, world, fault, flaw, harmed>>

Traffic  == Invoke \/ Judge
Upgrader == \/ HoldObservation \/ UpgradeOnBase \/ NoteCount \/ ReleaseObservation
            \/ ColdRead \/ Observe \/ Finish \/ Join

-----------------------------------------------------------------------------
Flaws == {"loadAnyway", "mixed", "leak", "commits", "revert", "refuses", "coldStale", "deaf"}

\* setup: the first version is deployed, both rollups are fresh, and the
\* first load is going to be refused.
Init ==
  /\ phase = 0 /\ due = [phase |-> 0, left |-> Warm] /\ done = FALSE
  /\ call = Idle /\ step = "warm"
  /\ base = [ver |-> 1, touched |-> FALSE] /\ hot = [ver |-> 0, busy |-> FALSE] /\ cold = 0
  /\ cells = Write(0, 0) /\ expected = Write(0, 0)
  /\ fault = [refuse |-> TRUE, hold |-> FALSE]
  /\ flaw \in {"none"} \cup Flaws
  /\ harmed = FALSE /\ verdict = "good"

Passed == verdict = "good" /\ step = "end"

Next == verdict = "good" /\ (Traffic \/ Upgrader \/ Rollups)

\* Both tasks run, a transaction is answered, and what is not held is delivered.
Spec == /\ Init /\ [][Next]_vars
        /\ WF_vars(verdict = "good" /\ Traffic) /\ WF_vars(verdict = "good" /\ Upgrader)
        /\ WF_vars(verdict = "good" /\ (Refuse \/ Abort \/ Execute))
        /\ WF_vars(verdict = "good" /\ (Hear \/ Reload)) /\ WF_vars(verdict = "good" /\ ColdFetch)

-----------------------------------------------------------------------------
\* Rollups that run the old code until they observe the new, and the new from
\* then on, are never failed: no invocation is judged by a phase that was over
\* before it ran.
NoFalseAlarm == flaw = "none" => verdict = "good"

\* Rollups that mix versions in a transaction, lose a rollback, write to base, or
\* fall back to the old code or refuse to run once the new has been seen on the
\* hot rollup are not passed, nor is one that never observes the upgrade.  Until
\* then verify allows either version and a refusal, and a rollup that falls back
\* or refuses is not told from one that has yet to replace the program.
DefectCaught == harmed \/ flaw = "deaf" => ~Passed

\* On rollups that behave the scenario comes to its end.
ScenarioPasses == flaw = "none" => <>Passed
=============================================================================
