-------------------------------- MODULE Cache --------------------------------
(***************************************************************************)
(* chainlink/cache_lifecycle of redshift: a rollup with a bounded account   *)
(* cache under eviction pressure.  A traffic task writes to a delegated     *)
(* cell and compares the protected residents after every transaction; a     *)
(* fault task evicts, reconnects, delivers stale answers and completes a    *)
(* held undelegation beside it (`churn`), or completes it while every path  *)
(* of discovery but one is closed (`gap`).  `baseline` is the run of that   *)
(* path without pressure and `preserves` the check other suites reuse.      *)
(*                                                                          *)
(* Base and the rollup are external.  `flaw` makes the rollup misbehave in  *)
(* one way the scenario says it checks, and `harmed` records that it has.   *)
(***************************************************************************)
EXTENDS Integers, FiniteSets

\* A mirror of a base account, the delegated cell the traffic writes, a
\* delegated cell it does not, and a delegated cell that is being given up.
Keys      == {"mirror", "traffic", "quiet", "pending"}
Protected == Keys \ {"mirror"}
Delegated == {"traffic", "quiet"}

\* Values: nothing cached, the first, and those of ER_WRITE, BASE_REWRITE,
\* BASE_REFRESH and the refresh of a churn cycle; the traffic writes its own.
Absent == 0
First == 1
ErValue == 2
Rewritten == 3
Refreshed == 4
Latest == 5
Ids == 6..8

VARIABLES
  mode, pc, verdict, flaw, harmed,
  base,      \* [val, own] of every key on base
  local,     \* what the rollup's cache holds
  live,      \* the keys the rollup holds as delegated
  program,   \* whether it holds the program of the cells
  evicted,   \* its eviction counter has moved since it was last read
  subs,      \* keys it watches over the websocket
  rules,     \* what the proxy holds: [notes, fetches, settle, stale, resub, old, hit]
  call,      \* the traffic task: [at, id, ok, scope]
  expected,  \* the protected images the traffic task expects
  progress,  \* [fresh, completed, done]
  recovery,  \* what the wait of gap mode came to, reported at the end
  raced      \* a check read state that its own scenario was changing

rollup == <<local, live, program, evicted, subs>>
tasks  == <<call, expected, progress>>
vars   == <<mode, pc, verdict, flaw, harmed, base, rollup, rules, tasks, recovery, raced>>

-----------------------------------------------------------------------------
(* Base and the rollup                                                       *)

Same == <<mode, pc, verdict, flaw, tasks, recovery, raced>>
Harm(P) == harmed' = (harmed \/ P)

\* An update of k reaches the rollup: over its websocket or over gRPC, which
\* the proxy does not carry.
Open(k) == (flaw # "deaf") \/ (k \in subs /\ k \notin rules.notes)

Notify(k) ==
  /\ k \notin live /\ Open(k) /\ base[k].val # local[k]
  /\ local[k] # Absent \/ k \in subs
  /\ local' = [local EXCEPT ![k] = base[k].val]
  /\ UNCHANGED <<base, live, program, evicted, subs, rules, harmed, Same>>

\* The rollup learns that base has taken the cell back.
Complete ==
  /\ "pending" \in live /\ base["pending"].own = "program" /\ Open("pending")
  /\ live' = live \ {"pending"}
  /\ local' = [local EXCEPT !["pending"] = base["pending"].val]
  /\ UNCHANGED <<base, program, evicted, subs, rules, harmed, Same>>

\* A client's read fetches what is not cached.
Fetch(k) ==
  /\ local[k] = Absent /\ k \notin rules.fetches
  /\ local' = [local EXCEPT ![k] = base[k].val]
  /\ UNCHANGED <<base, live, program, evicted, subs, rules, harmed, Same>>

\* The connection is made again, watch by watch.
Resubscribe(k) ==
  /\ k \notin subs /\ local[k] # Absent /\ k \notin rules.resub
  /\ subs' = subs \cup {k}
  /\ UNCHANGED <<base, local, live, program, evicted, rules, harmed, Same>>

\* A notification the proxy withholds is counted there.
Withhold ==
  /\ ~rules.hit /\ subs \cap rules.notes # {}
  /\ rules' = [rules EXCEPT !.hit = TRUE]
  /\ UNCHANGED <<base, rollup, harmed, Same>>

\* The undelegation reaches base once it is not held.
SettleOnBase ==
  /\ rules.settle = "free" /\ base["pending"].own = "delegated"
  /\ base' = [base EXCEPT !["pending"] = [val |-> IF flaw = "oldSnapshot" THEN First ELSE ErValue,
                                          own |-> "program"]]
  /\ Harm(flaw = "oldSnapshot")
  /\ UNCHANGED <<rollup, rules, Same>>

\* Completed mirrors are evicted again later.
EvictMirror ==
  /\ pc = "local" /\ local["mirror"] # Absent
  /\ local' = [local EXCEPT !["mirror"] = Absent]
  /\ UNCHANGED <<base, live, program, evicted, subs, rules, harmed, Same>>

\* The transaction of the traffic task runs, or finds its program evicted.
Execute ==
  /\ call.at = "sent"
  /\ IF program
     THEN /\ local' = [local EXCEPT !["traffic"] = IF flaw = "writeLost" THEN @ ELSE call.id]
          /\ base' = IF flaw = "commits" THEN [base EXCEPT !["traffic"].val = call.id] ELSE base
          /\ Harm(flaw \in {"writeLost", "commits"})
          /\ UNCHANGED program
     ELSE program' = TRUE /\ UNCHANGED <<local, base, harmed>>
  /\ call' = [call EXCEPT !.at = "ran", !.ok = program]
  /\ UNCHANGED <<live, evicted, subs, rules, mode, pc, verdict, flaw, expected, progress,
                 recovery, raced>>

-----------------------------------------------------------------------------
(* Traffic                                                                   *)

Ensure(P) == verdict' = IF P THEN verdict ELSE "failed"

Other == <<mode, pc, flaw, harmed, base, rollup, rules, recovery>>

\* The task goes on with its next transaction at once, until it is told to end.
Submit(c) == IF progress.done THEN [c EXCEPT !.at = "idle"]
             ELSE [c EXCEPT !.at = "sent", !.id = IF @ = 8 THEN 6 ELSE @ + 1]

\* A success changes what is expected.  Whether the settlement has been
\* released is read before the images are asked for.
Outcome ==
  /\ call.at = "ran"
  /\ expected' = IF call.ok THEN [expected EXCEPT !["traffic"] = call.id] ELSE expected
  /\ call' = [call EXCEPT !.at = "reading",
                          !.scope = IF progress.completed THEN Delegated ELSE Protected]
  /\ UNCHANGED <<Other, verdict, progress, raced>>

\* Mutant: a transaction that did not run is not followed by a comparison.
CompareWritten ==
  /\ call.at = "reading"
  /\ Ensure(call.ok => local["traffic"] = expected["traffic"])
  /\ raced' = (raced \/ ("pending" \in call.scope /\ progress.completed))
  /\ progress' = [progress EXCEPT !.fresh = @ \/ call.ok]
  /\ call' = Submit(call)
  /\ UNCHANGED <<Other, expected>>

Compare ==
  /\ call.at = "reading"
  /\ Ensure(\A k \in call.scope : local[k] = expected[k])
  /\ raced' = (raced \/ ("pending" \in call.scope /\ progress.completed))
  /\ progress' = [progress EXCEPT !.fresh = @ \/ call.ok]
  /\ call' = Submit(call)
  /\ UNCHANGED <<Other, expected>>

Traffic == Outcome \/ Compare

-----------------------------------------------------------------------------
(* Steps of the fault task                                                   *)

At(ms, k, next) == mode \in ms /\ pc = k /\ pc' = next

Waits(P)  == P /\ UNCHANGED <<verdict, harmed, base, rollup, rules, tasks, recovery, raced>>
Checks(P) == Ensure(P) /\ UNCHANGED <<harmed, base, rollup, rules, tasks, recovery, raced>>

\* The stages' own changes; the rest stays.
Sets(newBase, newRules) ==
  /\ base' = newBase /\ rules' = newRules
  /\ UNCHANGED <<verdict, harmed, rollup, tasks, recovery, raced>>

BaseWrite(k, x) == [base EXCEPT ![k].val = x]

Sent == progress.fresh

\* prepare_accounts: the cells are delegated, with the notifications of their
\* delegation held back, cloned and written on the rollup; the undelegation of
\* one is held on its way to base; the images are noted.
PrepareAccounts ==
  /\ At({"churn", "gap"}, "prepare", "sent")
  /\ base' = [k \in Keys |-> [val |-> First, own |-> IF k = "mirror" THEN "program" ELSE "delegated"]]
  /\ local' = [mirror |-> First, traffic |-> First, quiet |-> ErValue, pending |-> ErValue]
  /\ live' = Protected /\ subs' = Keys
  /\ rules' = [rules EXCEPT !.stale = mode = "churn", !.settle = "held"]
  /\ expected' = [k \in Protected |-> local'[k]]
  /\ call' = Submit(call)
  /\ progress' = [fresh |-> FALSE, completed |-> FALSE, done |-> FALSE]
  /\ UNCHANGED <<verdict, harmed, program, evicted, recovery, raced>>

\* The stale notifications are delivered to a rollup that has moved on.
ReleaseStale ==
  /\ At({"churn", "gap"}, "sent", "evict") /\ Sent
  /\ local' = IF rules.stale /\ flaw = "staleNotice" THEN [local EXCEPT !["quiet"] = First] ELSE local
  /\ Harm(local' # local)
  /\ rules' = [rules EXCEPT !.stale = FALSE]
  /\ UNCHANGED <<verdict, base, live, program, evicted, subs, tasks, recovery, raced>>

\* churn_cache: reading more accounts than fit evicts what may be evicted.
Evicts(x) == CASE flaw = "evictsResident" /\ x = "quiet" -> TRUE
               [] flaw = "retains" /\ x = "mirror" -> FALSE
               [] OTHER -> x \notin live

ChurnCache(ms, k, next) ==
  /\ At(ms, k, next)
  /\ local' = [x \in Keys |-> IF Evicts(x) THEN Absent ELSE local[x]]
  /\ program' \in {FALSE, program}
  /\ Harm(\E x \in Keys : Evicts(x) # (x \notin live))
  /\ evicted' = TRUE /\ subs' = subs \cap live
  /\ UNCHANGED <<verdict, base, live, rules, tasks, recovery, raced>>

Cut(newRules) ==
  /\ subs' = {} /\ rules' = newRules
  /\ UNCHANGED <<verdict, harmed, base, local, live, program, evicted, tasks, recovery, raced>>

\* churn, mode Churn: the mirror is gone; while the connection is being made
\* again a read of it meets a base write, and the older answer comes last.
CheckCold  == At({"churn"}, "cold", "cut") /\ Checks(local["mirror"] = Absent)
Disconnect == At({"churn"}, "cut", "fetch") /\ Cut([rules EXCEPT !.resub = {"pending"}])

OldAnswer ==
  /\ At({"churn"}, "fetch", "write")
  /\ rules' = [rules EXCEPT !.old = base["mirror"].val, !.fetches = {"mirror"}]
  /\ subs' = subs \cup {"mirror"}
  /\ UNCHANGED <<verdict, harmed, base, local, live, program, evicted, tasks, recovery, raced>>

WriteLatest  == At({"churn"}, "write", "notified") /\ Sets(BaseWrite("mirror", Latest), rules)
AwaitLatest  == At({"churn"}, "notified", "old") /\ Waits(local["mirror"] = Latest)

ReleaseOld ==
  /\ At({"churn"}, "old", "resent")
  /\ local' = IF flaw = "staleFetch" THEN [local EXCEPT !["mirror"] = rules.old] ELSE local
  /\ Harm(local' # local)
  /\ rules' = [rules EXCEPT !.fetches = {}, !.old = local'["mirror"]]
  /\ progress' = [progress EXCEPT !.fresh = FALSE]
  /\ UNCHANGED <<verdict, base, live, program, evicted, subs, call, expected, recovery, raced>>

Reconnect == At({"churn"}, "resent", "read") /\ Sent /\ Sets(base, [rules EXCEPT !.resub = {}])

\* What the read was answered with, and what the rollup holds after it.
CheckLatest == At({"churn"}, "read", "again") /\ Checks(rules.old = Latest)
HoldsLatest == At({"churn"}, "again", "held") /\ Waits(local["mirror"] = Latest)
CheckHeld   == At({"churn"}, "held", "settle") /\ Checks(base["pending"].own = "delegated")

\* churn, mode UndelegationReconnectGap, and transport_baseline, which withholds
\* the mirror's fetches too.
Blackout(ms, k, next) ==
  /\ At(ms, k, next)
  /\ Cut([rules EXCEPT !.notes = Keys, !.fetches = IF mode = "gap" THEN Protected ELSE Keys])

\* complete_settlement: the traffic task is told first.
FreeSettlement(ms, k, next) ==
  /\ At(ms, k, next)
  /\ progress' = [progress EXCEPT !.completed = TRUE]
  /\ rules' = [rules EXCEPT !.settle = "free"]
  /\ UNCHANGED <<verdict, harmed, base, rollup, call, expected, recovery, raced>>

Undelegated(ms, k, next) ==
  /\ At(ms, k, next)
  /\ Waits(base["pending"].own = "program" /\ (ms = {"baseline"} \/ base["pending"].val = ErValue))

Rewrite(ms, k, next) == At(ms, k, next) /\ Sets(BaseWrite("pending", Rewritten), rules)

\* The rollup shows the rewritten cell: by itself, or to a normal read.
Refetched == At({"churn"}, "discover", "refresh") /\ Waits(local["pending"] = Rewritten)

\* await_local_value in gap mode: its failure is kept for the end.
Discovered ==
  /\ At({"gap"}, "discover", "refresh")
  /\ \/ local["pending"] = Rewritten /\ recovery' = "ok"
     \/ ~Open("pending") /\ local["pending"] # Rewritten /\ recovery' = "failed"
  /\ UNCHANGED <<verdict, harmed, base, rollup, rules, tasks, raced>>

Refresh(ms, k, next) == At(ms, k, next) /\ Sets(BaseWrite("mirror", Refreshed), rules)

MirrorRefreshed == At({"churn", "gap"}, "mirrored", "local") /\ Waits(local["mirror"] = Refreshed)

CheckLocal ==
  /\ At({"churn", "gap"}, "local", "join")
  /\ Ensure(local["mirror"] \in {Absent, Refreshed})
  /\ progress' = [progress EXCEPT !.done = TRUE]
  /\ UNCHANGED <<harmed, base, rollup, rules, call, expected, recovery, raced>>

\* Both tasks have ended: base's delegated cells are as they were.
CheckBase == At({"churn", "gap"}, "join", "finish") /\ call.at = "idle"
               /\ Checks(\A k \in Delegated : base[k].val = First)

\* Mutant: the failure kept for the end is forgotten there.
FinishAnyway == At({"churn", "gap"}, "finish", "end") /\ Checks(TRUE)

\* finish, and the result that was kept.
Finish == At({"churn", "gap"}, "finish", "end") /\ Checks(recovery # "failed")

Pressure ==
  \/ PrepareAccounts \/ ReleaseStale
  \/ ChurnCache({"churn"}, "evict", "cold") \/ ChurnCache({"gap"}, "evict", "dark")
  \/ CheckCold \/ Disconnect \/ OldAnswer \/ WriteLatest \/ AwaitLatest \/ ReleaseOld \/ Reconnect
  \/ CheckLatest \/ HoldsLatest \/ CheckHeld
  \/ Blackout({"gap"}, "dark", "settle") \/ FreeSettlement({"churn", "gap"}, "settle", "base")
  \/ Undelegated({"churn", "gap"}, "base", "rewrite") \/ Rewrite({"churn", "gap"}, "rewrite", "discover")
  \/ Refetched \/ Discovered \/ Refresh({"churn", "gap"}, "refresh", "mirrored") \/ MirrorRefreshed
  \/ CheckLocal \/ CheckBase \/ Finish

-----------------------------------------------------------------------------
(* transport_baseline, and pressure_preserves                                *)

PrepareBaseline ==
  /\ At({"baseline", "preserves"}, "prepare", IF mode = "baseline" THEN "dark" ELSE "churn")
  /\ base' = [base EXCEPT !["pending"].own = "delegated", !["quiet"].own = "delegated"]
  /\ local' = [k \in Keys |-> IF k \in {"pending", "quiet"} THEN ErValue ELSE First]
  /\ live' = {"pending", "quiet"} /\ subs' = Keys
  /\ rules' = [rules EXCEPT !.settle = "held"]
  /\ UNCHANGED <<verdict, harmed, program, evicted, tasks, recovery, raced>>

\* The blackout must have met something, and nothing may have been evicted.
CheckBlackout ==
  /\ At({"baseline"}, "blacked", "end")
  /\ Ensure(rules.hit /\ ~evicted)
  /\ raced' = (raced \/ ~rules.hit)
  /\ UNCHANGED <<harmed, base, rollup, rules, tasks, recovery>>

\* Flawed, the rollup drops something from its cache without being pressed.
Shrink ==
  /\ mode = "baseline" /\ flaw = "shrinks" /\ pc = "seen" /\ ~evicted
  /\ evicted' = TRUE /\ Harm(TRUE)
  /\ UNCHANGED <<base, local, live, program, subs, rules, Same>>

TransportBaseline ==
  \/ PrepareBaseline \/ Blackout({"baseline"}, "dark", "settle")
  \/ FreeSettlement({"baseline"}, "settle", "base") \/ Undelegated({"baseline"}, "base", "rewrite")
  \/ Rewrite({"baseline"}, "rewrite", "refresh") \/ Refresh({"baseline"}, "refresh", "refreshed")
  \/ At({"baseline"}, "refreshed", "seen") /\ Waits(local["mirror"] = Refreshed)
  \/ At({"baseline"}, "seen", "blacked") /\ Waits(local["pending"] = Rewritten)
  \/ CheckBlackout

\* The mirror's eviction is witnessed, and the residents are as they were
\* before and after it is fetched again.
Residents == local["quiet"] = ErValue /\ local["pending"] = ErValue /\ base["quiet"].val = First

PressurePreserves ==
  \/ ChurnCache({"preserves"}, "churn", "evicted")
  \/ At({"preserves"}, "evicted", "kept") /\ Waits(local["mirror"] = Absent)
  \/ At({"preserves"}, "kept", "refetch") /\ Checks(Residents)
  \/ At({"preserves"}, "refetch", "same") /\ Waits(local["mirror"] = First)
  \/ At({"preserves"}, "same", "end") /\ Checks(Residents)

-----------------------------------------------------------------------------
Flaws == [churn |-> {"staleNotice", "staleFetch", "evictsResident", "writeLost", "commits",
                     "oldSnapshot", "retains"},
          gap |-> {"deaf", "evictsResident", "commits", "oldSnapshot"},
          baseline |-> {"deaf", "shrinks"}, preserves |-> {"evictsResident", "retains"}]

Init ==
  /\ mode \in DOMAIN Flaws /\ flaw \in {"none"} \cup Flaws[mode]
  /\ pc = "prepare" /\ verdict = "good" /\ harmed = FALSE
  /\ base = [k \in Keys |-> [val |-> First, own |-> "program"]]
  /\ local = [k \in Keys |-> Absent] /\ live = {} /\ program = TRUE /\ evicted = FALSE /\ subs = {}
  /\ rules = [notes |-> {}, fetches |-> {}, settle |-> "none", stale |-> FALSE, resub |-> {},
              old |-> Absent, hit |-> FALSE]
  /\ call = [at |-> "none", id |-> 8, ok |-> FALSE, scope |-> {}]
  /\ expected = [k \in Protected |-> Absent]
  /\ progress = [fresh |-> FALSE, completed |-> FALSE, done |-> FALSE]
  /\ recovery = "none" /\ raced = FALSE

Passed == verdict = "good" /\ pc = "end"

\* Which accounts a client is reading, and so makes the rollup fetch.
Reading(k) == \/ k = "mirror" /\ pc \in {"mirrored", "refetch"}
              \/ k = "pending" /\ mode = "churn" /\ pc = "discover"

Rollup == \/ \E k \in Keys : Notify(k) \/ Resubscribe(k) \/ (Reading(k) /\ Fetch(k))
          \/ Complete \/ Withhold \/ SettleOnBase \/ EvictMirror \/ Shrink

Script == (Pressure \/ TransportBaseline \/ PressurePreserves) /\ UNCHANGED <<mode, flaw>>

Next == verdict = "good" /\ ~Passed /\ (Rollup \/ Execute \/ Traffic \/ Script)

\* The two tasks run, transactions are answered and what is open is delivered.
Spec == /\ Init /\ [][Next]_vars
        /\ WF_vars(verdict = "good" /\ Script)
        /\ WF_vars(verdict = "good" /\ (Traffic \/ Execute))
        /\ \A k \in Keys : WF_vars(verdict = "good" /\ (Notify(k) \/ (Reading(k) /\ Fetch(k))))
        /\ WF_vars(verdict = "good" /\ (Complete \/ SettleOnBase))

-----------------------------------------------------------------------------
\* A rollup that keeps its residents and follows base is never failed, however
\* the two tasks interleave; but for the two windows in which a check reads
\* what its own scenario has begun to change (`raced`).
NoFalseAlarm == flaw = "none" /\ verdict = "failed" => raced

\* A rollup that loses a resident, keeps under pressure what is not one, lets an
\* older answer or notification win, settles another image or does not discover
\* the undelegation is not passed; the failure that gap mode keeps back is not forgotten.
DefectCaught == harmed \/ flaw = "deaf" => ~Passed

\* On a rollup that behaves the scenario ends.
ScenarioEnds == flaw = "none" => <>(Passed \/ raced)
=============================================================================
