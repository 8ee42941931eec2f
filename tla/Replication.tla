----------------------------- MODULE Replication -----------------------------
(***************************************************************************)
(* replication/replication_recovery of redshift over the topology of        *)
(* core/topology/replicated.rs: a leader whose ledger is streamed to two    *)
(* verifiers while causal traffic runs.  The scenario stops, starts, kills  *)
(* and wipes verifiers on both sides of the leader's retention and reads    *)
(* every target off a ledger that keeps growing.  `recovery` and            *)
(* `settlement` are its two coverages.                                      *)
(*                                                                          *)
(* Leader and verifiers are external.  The ledger is a number of entries of *)
(* which every Superblock-th seals a superblock; a verifier that differs    *)
(* from the leader finds out when it applies a seal.                        *)
(***************************************************************************)
EXTENDS Integers, FiniteSets

CONSTANTS
  Superblock,  \* entries of a superblock, 512 slots in the code
  Budget,      \* entries a verifier's restart may last, RESTART_BUDGET
  MaxHead,     \* bound on the ledger
  MaxLag       \* bound: entries a streaming verifier may be behind

Verifiers == {0, 1}

VARIABLES
  script, pc, verdict, flaw, harmed,
  head,      \* entries of the leader's ledger
  pruned,    \* superblocks its retention has removed
  served,    \* verifiers it counts as connected
  sent,      \* it has sent a snapshot since the scenario read that counter
  ver,       \* the verifiers: [run, conn, pos, snaps, bad, seen]
  work,      \* the causal writers: [on, owed, lost]
  image,     \* settlement: the revision of its cell on the leader and on the
             \* base, and whether the leader's records are kept and it settles
  memo,      \* what the scenario has sampled: [target, name, mark]
  gap,       \* progress of check_retention_gap's two halves
  final,     \* the last cutoff, in transactions
  slow       \* the ledger outran the room a restart was given

leader == <<head, pruned, served, sent>>
vars   == <<script, pc, verdict, flaw, harmed, leader, ver, work, image, memo, gap, final, slow>>

Seals(n) == n \div Superblock
Txs(n)   == n - Seals(n)
Metric(name, n) == IF name = "superblocks" THEN Seals(n) ELSE Txs(n)

-----------------------------------------------------------------------------
(* Leader and verifiers                                                      *)

Client == <<script, pc, verdict, flaw, memo, gap, final, slow>>

\* The leader appends; what the writers have sent is in the next transaction.
Append ==
  /\ head < MaxHead /\ \A v \in Verifiers : ver[v].conn => head - ver[v].pos < MaxLag
  /\ head' = head + 1
  /\ LET loses == flaw = "losesWrite" /\ work.owed
     IN work' = [work EXCEPT !.owed = FALSE, !.lost = @ \/ loses]
  /\ UNCHANGED <<Client, harmed, pruned, served, sent, ver, image>>

\* Retention removes a sealed superblock no connected verifier still needs.
Prune ==
  /\ pruned < Seals(head)
  /\ \A v \in Verifiers : ver[v].conn => Seals(ver[v].pos) > pruned
  /\ pruned' = pruned + 1
  /\ UNCHANGED <<Client, harmed, head, served, sent, ver, work, image>>

\* A verifier applies the next entry.  Flawed, it executes one transaction
\* wrongly; at a seal it notices, in its metrics or only in its log, and may exit.
Apply(v) ==
  /\ ver[v].conn /\ ver[v].pos < head
  /\ ~(flaw = "starvesSurvivor" /\ Cardinality(served) = 1)
  /\ LET next   == ver[v].pos + 1
         seal   == next % Superblock = 0
         strays == flaw = "diverges" /\ ~seal
         notice == ver[v].bad > 0 /\ seal
     IN \E bad \in {ver[v].bad} \cup (IF strays THEN {next} ELSE {}) :
        \E seen \in IF notice THEN {"metric", "log"} ELSE {ver[v].seen} :
        \E run \in IF notice THEN BOOLEAN ELSE {TRUE} :
          /\ ver' = [ver EXCEPT ![v] = [@ EXCEPT !.pos = next, !.bad = bad, !.seen = seen,
                                                 !.run = run, !.conn = run]]
          /\ flaw' = IF bad # ver[v].bad THEN "diverged" ELSE flaw
  /\ UNCHANGED <<script, pc, verdict, memo, gap, final, slow, harmed, leader, work, image>>

\* A running verifier connects: on its own cursor while the leader has it, from
\* a snapshot when it has not.
Connect(v) ==
  /\ ver[v].run /\ ~ver[v].conn
  /\ LET beyond   == Seals(ver[v].pos) < pruned \/ ver[v].pos = 0
         snapshot == (beyond /\ flaw # "skipsSnapshot") \/ flaw = "alwaysSnapshot"
     IN /\ ver' = [ver EXCEPT ![v] = IF snapshot
             THEN [@ EXCEPT !.conn = TRUE, !.snaps = 1, !.pos = head, !.bad = 0]
             ELSE [@ EXCEPT !.conn = TRUE, !.pos = IF beyond THEN head ELSE @]]
        /\ sent' = (sent \/ snapshot)
        /\ harmed' = (harmed \/ snapshot # beyond)
  /\ served' = served \cup {v}
  /\ UNCHANGED <<Client, head, pruned, work, image>>

\* The leader notices that a stream is gone.
Detach(v) ==
  /\ v \in served /\ ~ver[v].conn /\ flaw # "keepsStream"
  /\ served' = served \ {v}
  /\ UNCHANGED <<Client, harmed, head, pruned, sent, ver, work, image>>

System == Append \/ Prune \/ \E v \in Verifiers : Apply(v) \/ Connect(v) \/ Detach(v)

-----------------------------------------------------------------------------
(* Progress: writers send until they are told to stop                        *)

\* What is owed matters only to a leader that may lose it.
Send ==
  /\ work.on /\ ~work.owed /\ flaw = "losesWrite"
  /\ work' = [work EXCEPT !.owed = TRUE]
  /\ UNCHANGED <<Client, harmed, leader, ver, image>>

-----------------------------------------------------------------------------
(* Calls of the scenario                                                     *)

At(k) == pc = k /\ pc' = k + 1

Ensure(P) == verdict' = IF P THEN verdict ELSE "failed"

World == <<harmed, leader, ver, work, image>>

Waits(P)  == P /\ UNCHANGED <<verdict, World, memo, gap, final, slow>>
Checks(P) == Ensure(P) /\ UNCHANGED <<World, memo, gap, final, slow>>
Notes(m)  == memo' = m /\ UNCHANGED <<verdict, World, gap, final, slow>>

NoMemo == [target |-> 0, name |-> "transactions", mark |-> 0]

\* catch_up_fleet and the scenario's other cutoffs: the leader's metric is read
\* once, then the verifiers are waited for.
Sample(k, name) == At(k) /\ Notes([NoMemo EXCEPT !.name = name, !.target = Metric(name, head)])

\* await_catch_up: a verifier that has exited fails it.  The cutoff is then done with.
CatchUp(k, vs) ==
  /\ At(k) /\ memo' = NoMemo
  /\ \/ \A v \in vs : ver[v].run /\ Metric(memo.name, ver[v].pos) >= memo.target
     \/ \E v \in vs : ~ver[v].run
  /\ Ensure(\A v \in vs : ver[v].run)
  /\ UNCHANGED <<World, gap, final, slow>>

\* await_leader_connections and wait_verifiers_connected
Connections(k, n) == At(k) /\ Waits(Cardinality(served) = n)
Connected(k, vs)  == At(k) /\ Waits(\A v \in vs : ver[v].conn)

\* verify_no_mismatch: every verifier runs, streams, and reports no mismatch.
VerifyNoMismatch(k) ==
  At(k) /\ Checks(\A v \in Verifiers : ver[v].run /\ ver[v].conn /\ ver[v].seen = "none")

\* stop_verifier, gracefully or not: its storage stays as it is.
Stop(k, v) ==
  /\ At(k)
  /\ ver' = [ver EXCEPT ![v] = [@ EXCEPT !.run = FALSE, !.conn = FALSE]]
  /\ sent' = FALSE
  /\ Ensure(ver[v].run)
  /\ UNCHANGED <<harmed, head, pruned, served, work, image, memo, gap, final, slow>>

\* start, with storage that may have been reset.
Start(k, v, wiped) ==
  /\ At(k)
  /\ ver' = [ver EXCEPT ![v] = [@ EXCEPT !.run = TRUE, !.snaps = 0,
                                         !.pos = IF wiped THEN 0 ELSE @,
                                         !.bad = IF wiped THEN 0 ELSE @]]
  /\ sent' = (sent /\ ~wiped)
  /\ UNCHANGED <<verdict, harmed, head, pruned, served, work, image, memo, gap, final, slow>>

BySnapshot(k) == At(k) /\ Checks(ver[1].snaps >= 1 /\ sent)

\* blocks_advance: a window in which the verifier's blocks must grow.
Mark(k, v)     == At(k) /\ Notes([NoMemo EXCEPT !.mark = ver[v].pos])
Advanced(k, v) == At(k) /\ ver[v].pos > memo.mark /\ Notes(NoMemo)

-----------------------------------------------------------------------------
(* check_final_boundary                                                      *)

FinalCutoff(k) ==
  /\ At(k)
  /\ final' = Txs(head) /\ memo' = [memo EXCEPT !.mark = Seals(head)]
  /\ UNCHANGED <<verdict, World, gap, slow>>

\* await_leader_advance: one sealed after the cutoff was read.
FinalSeal(k) == At(k) /\ Waits(Seals(head) >= memo.mark + 1)

FinalTarget(k) == At(k) /\ Notes([memo EXCEPT !.name = "transactions", !.target = final])

\* In settlement coverage verify_no_mismatch reaches an authenticated seal first.
AuthenticatedSeal(k) ==
  \/ script = "settlement" /\ Seals(head) >= 1 /\ Sample(k, "superblocks")
  \/ script = "settlement" /\ CatchUp(k + 1, Verifiers)
  \/ script = "recovery" /\ pc = k /\ pc' = k + 2 /\ Waits(TRUE)

VerifyPairs(k) == At(k) /\ Checks(~work.lost)

FinalBoundary(k) ==
  \/ FinalCutoff(k) \/ FinalSeal(k + 1)
  \/ Sample(k + 2, "superblocks") \/ CatchUp(k + 3, Verifiers)
  \/ FinalTarget(k + 4) \/ CatchUp(k + 5, Verifiers)
  \/ AuthenticatedSeal(k + 6) \/ VerifyNoMismatch(k + 8) \/ VerifyPairs(k + 9)

-----------------------------------------------------------------------------
(* check_recovery                                                            *)

SetWork(k, on) ==
  /\ At(k) /\ script = "recovery" /\ work' = [work EXCEPT !.on = on]
  /\ UNCHANGED <<verdict, harmed, leader, ver, image, memo, gap, final, slow>>

\* check_steady_load
SteadyLoad(k) ==
  SetWork(k, TRUE) \/ Sample(k + 1, "transactions") \/ CatchUp(k + 2, Verifiers) \/ VerifyNoMismatch(k + 3)

\* restart_retained_cursor: a superblock has just been sealed and applied, and
\* the next is far enough away.
MarkSeal(k) == At(k) /\ Notes([memo EXCEPT !.mark = Seals(head)])
NewSeal(k)  == At(k) /\ Seals(head) > memo.mark
                 /\ Notes([memo EXCEPT !.name = "superblocks", !.target = Seals(head)])

\* Mutant: the restart begins wherever the ledger is.
HeadroomIgnored(k, back) ==
  /\ At(k) /\ slow' = (slow \/ Seals(ver[0].pos) < Seals(head))
  /\ memo' = [memo EXCEPT !.mark = head]
  /\ UNCHANGED <<verdict, World, gap, final>>

\* `slow`: yet another superblock was sealed while the last was caught up with.
Headroom(k, back) ==
  /\ pc = k
  /\ pc' = IF Superblock - (head % Superblock) > Budget THEN k + 1 ELSE back
  /\ slow' = (slow \/ (pc' # back /\ Seals(ver[0].pos) < Seals(head)))
  /\ memo' = IF pc' = back THEN NoMemo ELSE [NoMemo EXCEPT !.mark = head]
  /\ UNCHANGED <<verdict, World, gap, final>>

\* The budget, counted from where the room was seen, is compared when the
\* verifier answers, not when it streams.
Restarted(k) ==
  /\ At(k)
  /\ Ensure(head - memo.mark <= Budget)
  /\ slow' = (slow \/ head - memo.mark > Budget)
  /\ UNCHANGED <<World, memo, gap, final>>

\* `slow`: another superblock went by before the verifier was streaming.
Reconnected(k) ==
  /\ At(k) /\ ver[0].conn /\ memo' = NoMemo
  /\ slow' = (slow \/ head - memo.mark > Budget)
  /\ UNCHANGED <<verdict, World, gap, final>>

Incremental(k) == At(k) /\ Checks(ver[0].snaps = 0)

RetainedCursor(k) ==
  \/ MarkSeal(k) \/ NewSeal(k + 1) \/ CatchUp(k + 2, {0}) \/ Headroom(k + 3, k)
  \/ Stop(k + 4, 0) \/ Start(k + 5, 0, FALSE) \/ Restarted(k + 6) \/ Reconnected(k + 7)
  \/ Incremental(k + 8) \/ Sample(k + 9, "transactions") \/ CatchUp(k + 10, {0})
  \/ Connections(k + 11, 2) \/ VerifyNoMismatch(k + 12)

NoGap == [block |-> "none", survivor |-> "none", slot |-> 0]

\* check_retention_gap: a block after the stop is retained, then pruned; the
\* surviving verifier goes on beside it.
GapBegin(k) ==
  /\ At(k) /\ gap' = [block |-> "expected", survivor |-> "before", slot |-> head + 1]
  /\ UNCHANGED <<verdict, World, memo, final, slow>>

Gone(slot) == Seals(slot - 1) < pruned

GapBlock(k) ==
  /\ pc = k
  /\ \/ gap.block = "expected" /\ head >= gap.slot /\ ~Gone(gap.slot)
        /\ gap' = [gap EXCEPT !.block = "retained"]
     \/ gap.block = "retained" /\ Gone(gap.slot)
        /\ gap' = [gap EXCEPT !.block = "pruned"]
  /\ UNCHANGED <<pc, verdict, World, memo, final, slow>>

GapSurvivor(k) ==
  /\ pc = k
  /\ \/ /\ gap.survivor = "before" /\ gap' = [gap EXCEPT !.survivor = "window"]
        /\ memo' = [memo EXCEPT !.mark = ver[0].pos]
     \/ /\ gap.survivor = "window" /\ ver[0].pos > memo.mark
        /\ gap' = [gap EXCEPT !.survivor = "after"]
        /\ memo' = [NoMemo EXCEPT !.target = Txs(head)]
     \/ /\ gap.survivor = "after" /\ Txs(ver[0].pos) >= memo.target
        /\ gap' = [gap EXCEPT !.survivor = "caught"] /\ memo' = NoMemo
  /\ UNCHANGED <<pc, verdict, World, final, slow>>

GapEnd(k) ==
  /\ At(k) /\ gap.block = "pruned" /\ gap.survivor = "caught" /\ gap' = NoGap
  /\ UNCHANGED <<verdict, World, memo, final, slow>>

RetentionGap(k) ==
  \/ Stop(k, 1) \/ Connections(k + 1, 1) \/ GapBegin(k + 2)
  \/ GapBlock(k + 3) \/ GapSurvivor(k + 3) \/ GapEnd(k + 3)

\* recover_snapshot
RecoverSnapshot(k) ==
  \/ Start(k, 1, FALSE) \/ Connected(k + 1, {1}) \/ BySnapshot(k + 2)
  \/ Sample(k + 3, "transactions") \/ CatchUp(k + 4, {1})
  \/ Connections(k + 5, 2) \/ VerifyNoMismatch(k + 6)

\* kill_verifier; the clones it probes meanwhile are Cache's subject.
KillVerifier(k) ==
  \/ Stop(k, 1) \/ Connections(k + 1, 1) \/ Mark(k + 2, 0) \/ Advanced(k + 3, 0)
  \/ Sample(k + 4, "transactions") \/ CatchUp(k + 5, {0})

\* rejoin_wiped
RejoinWiped(k) ==
  \/ Start(k, 1, TRUE) \/ Connected(k + 1, {1}) \/ BySnapshot(k + 2)
  \/ Sample(k + 3, "transactions") \/ CatchUp(k + 4, {1}) \/ Mark(k + 5, 1) \/ Advanced(k + 6, 1)
  \/ Connections(k + 7, 2) \/ VerifyNoMismatch(k + 8)

\* Workload::stop and drain: the writers end at a whole chain, and the last
\* transaction is in the ledger.
StopWorkload(k) == SetWork(k, FALSE) \/ (At(k + 1) /\ Waits(~work.owed))

Recovery ==
  \/ SteadyLoad(6) \/ RetainedCursor(10) \/ RetentionGap(23) \/ RecoverSnapshot(27)
  \/ KillVerifier(34) \/ RejoinWiped(40) \/ StopWorkload(49) \/ FinalBoundary(51)

-----------------------------------------------------------------------------
(* check_settlement_replay                                                   *)

\* `set` and the callback of its commit each write the cell once.
Expected == 2

\* A commit takes the leader's image to the base.
Commits(c, revision) == [c EXCEPT !.base = IF flaw = "settlesStale" THEN @ ELSE revision]

Settles(k, c, P) ==
  /\ At(k) /\ image' = c /\ Ensure(P)
  /\ UNCHANGED <<leader, ver, work, memo, gap, final, slow>>

\* The value is set and committed with an action that calls back; the receipt
\* tells of success, and the leader is waited on for the callback's write.
Settle(k) ==
  /\ LET called == flaw # "losesCallback"
     IN /\ Settles(k, Commits([image EXCEPT !.rollup = IF called THEN 2 ELSE 1], 1), called)
        /\ harmed' = (harmed \/ ~called)

\* A transaction that fails at its end leaves the image alone.
RollBack(k) ==
  /\ LET undone == flaw # "keepsFailed"
     IN /\ Settles(k, [image EXCEPT !.rollup = IF undone THEN @ ELSE @ + 1], image'.rollup = Expected)
        /\ harmed' = (harmed \/ ~undone)

\* A second commit brings that image to the base, and the records are read.
FinalSnapshot(k) ==
  /\ Settles(k, Commits(image, image.rollup), image'.base = Expected)
  /\ harmed' = (harmed \/ image'.base # image.rollup)

\* Stopped cleanly and started, the leader has lost its streams, not its ledger.
RestartLeader(k) ==
  /\ At(k)
  /\ ver' = [v \in Verifiers |-> [ver[v] EXCEPT !.conn = FALSE]] /\ served' = {}
  /\ image' \in CASE flaw = "altersRecord" -> {[image EXCEPT !.records = FALSE],
                                           [image EXCEPT !.rollup = 0], [image EXCEPT !.base = 0]}
                [] flaw = "stopsSettling" -> {[image EXCEPT !.settles = FALSE]}
                [] OTHER -> {image}
  /\ Ensure(flaw # "diesOnStop")
  /\ harmed' = (harmed \/ image' # image \/ flaw = "diesOnStop")
  /\ UNCHANGED <<head, pruned, sent, work, memo, gap, final, slow>>

\* Images and records are what they were.
CheckKept(k) == At(k) /\ Checks(image.rollup = Expected /\ image.base = Expected /\ image.records)

\* A fresh commit settles, and leaves the base with the same data.
FreshCommit(k) ==
  /\ Settles(k, Commits(image, image.rollup), image.settles /\ image'.base = Expected)
  /\ UNCHANGED harmed

\* Coverage::Settlement
Settlement(k) == pc = 6 /\ script = "settlement" /\ pc' = k /\ Waits(TRUE)

SettlementReplay ==
  \/ Settlement(62) \/ Settle(62) \/ RollBack(63) \/ FinalSnapshot(64) \/ FinalBoundary(65)
  \/ RestartLeader(75) \/ Connected(76, Verifiers) \/ FinalBoundary(77)
  \/ CheckKept(87) \/ FreshCommit(88)

-----------------------------------------------------------------------------
CheckReady(k) == At(k) /\ (\A v \in Verifiers : ver[v].conn) /\ Checks(Cardinality(served) = 2)

End == [recovery |-> 61, settlement |-> 89]

\* check_ready, then the fleet catches up on both cursors.
Ready == CheckReady(1) \/ Sample(2, "transactions") \/ CatchUp(3, Verifiers)
           \/ Sample(4, "superblocks") \/ CatchUp(5, Verifiers)

Flaws == [recovery |-> {"diverges", "losesWrite", "starvesSurvivor", "skipsSnapshot",
                        "alwaysSnapshot", "keepsStream"},
          settlement |-> {"diverges", "losesCallback", "keepsFailed", "settlesStale",
                          "diesOnStop", "altersRecord", "stopsSettling"}]

\* replicated: the leader has archived a snapshot before the verifiers start.
Init ==
  /\ script \in DOMAIN End /\ flaw \in {"none"} \cup Flaws[script]
  /\ pc = 1 /\ verdict = "good" /\ harmed = FALSE
  /\ head = 1 /\ pruned = 0 /\ served = Verifiers /\ sent = TRUE
  /\ ver = [v \in Verifiers |-> [run |-> TRUE, conn |-> TRUE, pos |-> 1, snaps |-> 1, bad |-> 0,
                                 seen |-> "none"]]
  /\ work = [on |-> FALSE, owed |-> FALSE, lost |-> FALSE]
  /\ image = [rollup |-> 0, base |-> 0, records |-> TRUE, settles |-> TRUE]
  /\ memo = NoMemo /\ gap = NoGap /\ final = 0 /\ slow = FALSE

Passed == verdict = "good" /\ pc = End[script]

Script == (Ready \/ Recovery \/ SettlementReplay) /\ UNCHANGED <<script, flaw>>

Next == verdict = "good" /\ ~Passed /\ (System \/ Send \/ Script)

Spec == Init /\ [][Next]_vars

-----------------------------------------------------------------------------
\* A fleet that replicates as it should is not failed, wherever the ledger is
\* when its verifiers are stopped and started: a restart that is meant to stay
\* within retention does, unless the ledger outruns the room it was given: the
\* verifier had not applied the newest seal, or streams only after its budget
\* (`slow`).
NoFalseAlarm == flaw = "none" /\ verdict = "failed" => slow

\* No run passes with a verifier that went astray before the final cutoff, a
\* write the leader lost, a recovery by the wrong path or a starved survivor, or
\* with a leader that loses a callback, keeps a failed transaction's write,
\* settles an old image, alters a record or an image when it is restarted, or
\* does not stop cleanly or settle afterwards.
DefectCaught ==
  Passed => /\ ~harmed /\ ~work.lost /\ flaw # "starvesSurvivor"
            /\ \A v \in Verifiers : ver[v].bad = 0 \/ Txs(ver[v].bad) > final
=============================================================================
