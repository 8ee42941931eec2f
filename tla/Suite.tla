-------------------------------- MODULE Suite --------------------------------
(***************************************************************************)
(* One invocation of the suite runner (cli/src/suite/mod.rs and group.rs,  *)
(* started by main.rs): the selected scenarios are split into lanes, one   *)
(* per rollup group and one for the scenarios that bring their own rollup; *)
(* each lane boots its group's rollup, runs its scenarios under a limit,   *)
(* and tears the rollup down; the run then concludes with an exit code.    *)
(*                                                                         *)
(* The runtime is single-threaded, so what a lane does between two awaits  *)
(* is one action: taking a record from `running`, admitting what the limit *)
(* allows and, when nothing is left running, skipping the rest and moving  *)
(* to the lane's next part.  What a scenario does is abstract: it ends     *)
(* with a passed or a failed record, panics included (scenario.rs catches  *)
(* them).  The order in which join_all first polls the lanes is left open. *)
(***************************************************************************)
EXTENDS Naturals, Sequences, FiniteSets, Functions

CONSTANTS
  Catalog,       \* entry -> [er, group, order, prepare]
  Selections,    \* the sequences of entries catalog::select may return
  MaxOption,     \* largest concurrency option considered
  NoGroup,       \* the group of Er::Fresh entries
  NoPreparation  \* an entry without prepare_with

Entries == DOMAIN Catalog
Groups == {Catalog[e].group : e \in Entries} \ {NoGroup}

\* What clap, the catalog and catalog::select guarantee of the constants.
ASSUME SuiteAssumption ==
  /\ MaxOption \in Nat \ {0}
  /\ "cleanup" \notin Entries
  /\ \A e \in Entries :
       /\ Catalog[e].order \in Nat /\ Catalog[e].er \in {"fresh", "shared", "exclusive"}
       /\ (Catalog[e].er = "fresh") <=> (Catalog[e].group = NoGroup)
  /\ \A s \in Selections : s \in Seq(Entries) /\ IsInjective(s)

VARIABLES
  plan,        \* the options of this run; never changes
  step,        \* where Suite::run stands
  base,        \* the base context: none yet, ok or err
  prepared,    \* BasePreparations that succeeded
  lanes,       \* the lanes, in the order they were formed
  rollups,     \* groups whose rollup this run launched and has not stopped
  interrupted, \* the watch channel of interruptible
  ending       \* how the process ended

suiteVars == <<plan, step, base, prepared, lanes, rollups, interrupted, ending>>

-----------------------------------------------------------------------------
\* Suite::new as main.rs calls it: the checks choose their limits and cannot
\* be interrupted; benchmarks are serial, interruptible, keep a report, and
\* may be attached to an existing base or rollup.
Plans ==
  [selection : Selections, redline : {FALSE}, serial : BOOLEAN,
   fresh : 1 .. MaxOption, shared : 1 .. MaxOption, cleanup : BOOLEAN,
   environment : {"managed"}]
    \cup
  [selection : Selections, redline : {TRUE}, serial : {TRUE}, fresh : {1},
   shared : {1}, cleanup : BOOLEAN, environment : {"managed", "base", "attached"}]

\* self.entries.sort_by_key: a stable sort by `order`.
Position(e) == CHOOSE i \in DOMAIN plan.selection : plan.selection[i] = e

Before(d, e) ==
  \/ Catalog[d].order < Catalog[e].order
  \/ Catalog[d].order = Catalog[e].order /\ Position(d) < Position(e)

Sorted(S) ==
  [n \in 1 .. Cardinality(S) |->
     CHOOSE e \in S : Cardinality({d \in S : Before(d, e)}) = n - 1]

Members(g) == {e \in Range(plan.selection) : Catalog[e].group = g}

\* Entries of one group form one lane, at the place of its first entry.
Firsts ==
  {e \in Range(plan.selection) : \A d \in Members(Catalog[e].group) : ~Before(d, e)}

\* Mutant: exclusive entries are not held back.
NewLaneTogether(g) ==
  [group |-> g, phase |-> "boot", er |-> "none", failed |-> FALSE,
   running |-> {}, records |-> <<>>, pending |-> Sorted(Members(g)), held |-> <<>>]

\* The lane of a group before its first poll.  Only a group lane of a parallel
\* run keeps its exclusive entries back.
NewLane(g) ==
  LET held == {e \in Members(g) :
                 ~plan.serial /\ g # NoGroup /\ Catalog[e].er = "exclusive"}
  IN  [group |-> g, phase |-> "boot", er |-> "none", failed |-> FALSE, running |-> {},
       records |-> <<>>, pending |-> Sorted(Members(g) \ held), held |-> Sorted(held)]

Limit(lane) ==
  IF plan.serial \/ lane.phase = "exclusive" THEN 1
  ELSE IF lane.group = NoGroup THEN plan.fresh ELSE plan.shared

\* RunRecord, as far as the run depends on it.
Record(name, result) == [name |-> name, result |-> result]
AllPassed(records) == \A r \in Range(records) : r.result = "passed"

Skip(entries, reason) == [i \in DOMAIN entries |-> Record(entries[i], reason)]

-----------------------------------------------------------------------------

\* The inner while of run_entries: admit while there is room and no reason
\* to stop.
Admit(lane) ==
  LET room == IF lane.failed \/ interrupted THEN 0
              ELSE Limit(lane) - Cardinality(lane.running)
      n == IF room < Len(lane.pending) THEN room ELSE Len(lane.pending)
  IN  [lane EXCEPT !.running = @ \cup Range(SubSeq(lane.pending, 1, n)),
                   !.pending = SubSeq(@, n + 1, Len(@))]

\* Mutant: pending entries are dropped without a record.
DrainedForgets(lane) == [lane EXCEPT !.pending = <<>>]

\* The end of run_entries: what is still pending was not run.
Drained(lane) ==
  [lane EXCEPT !.pending = <<>>,
               !.records = @ \o Skip(lane.pending,
                                      IF interrupted THEN "interrupted" ELSE "earlier")]

\* run_entries from the top of its loop to its await or, when nothing runs,
\* to the end; then the exclusive entries, if they were held back and
\* everything before them passed.
RunEntries(lane) ==
  LET main == Admit(lane)
      over == Drained(main)
      exclusive == Admit([over EXCEPT !.phase = "exclusive", !.pending = over.held,
                                      !.held = <<>>, !.failed = FALSE])
      rest == IF AllPassed(over.records) THEN Drained(exclusive)
              ELSE [over EXCEPT !.held = <<>>, !.records = @ \o Skip(over.held, "earlier")]
  IN  CASE main.running # {} -> main
        [] main.running = {} /\ AllPassed(over.records) /\ exclusive.running # {} -> exclusive
        [] OTHER -> [rest EXCEPT !.phase = "finish"]

-----------------------------------------------------------------------------
SuiteInit ==
  /\ plan \in Plans
  /\ step = "base"
  /\ base = "none"
  /\ prepared = {}
  /\ lanes = <<>>
  /\ rollups = {}
  /\ interrupted = FALSE
  /\ ending = [code |-> "none", down |-> TRUE, saved |-> TRUE]

\* topology::base_only; an attached base is not checked.
Base ==
  /\ step = "base"
  /\ \E result \in IF plan.environment = "managed" THEN {"ok", "err"} ELSE {"ok"} :
       base' = result
  /\ step' = "prepare"
  /\ UNCHANGED <<plan, prepared, lanes, rollups, interrupted, ending>>

PreparationsOf(entries) ==
  {Catalog[e].prepare : e \in Range(entries)} \ {NoPreparation}

\* prepare runs each distinct preparation once and ends at the first error,
\* which replaces the base context; then the lanes are formed.
Prepare ==
  /\ step = "prepare"
  /\ \E n \in IF base = "ok" THEN 0 .. Len(plan.selection) ELSE {0} :
       LET ran == PreparationsOf(SubSeq(plan.selection, 1, n))
       IN  /\ prepared' = ran
           /\ base' = IF base = "ok" /\ ran = PreparationsOf(plan.selection)
                      THEN "ok" ELSE "err"
  /\ \E firsts \in {Sorted(Firsts)} :
       lanes' = [l \in DOMAIN firsts |-> NewLane(Catalog[firsts[l]].group)]
  /\ step' = "lanes"
  /\ UNCHANGED <<plan, rollups, interrupted, ending>>

\* Mutant: the lanes of a serial run are joined like the others.
PolledTogether(l) == step = "lanes"

\* Serial lanes run one after the other.
Polled(l) ==
  /\ step = "lanes"
  /\ plan.serial => \A k \in 1 .. l - 1 : lanes[k].phase = "done"

Owned(lane) == lane.er = "ok" /\ plan.environment # "attached"

\* The fresh lane has no rollup of its own to boot.
StartFresh(l) ==
  /\ Polled(l)
  /\ lanes[l].phase = "boot" /\ lanes[l].group = NoGroup
  /\ lanes' = [lanes EXCEPT ![l] = RunEntries([@ EXCEPT !.phase = "main"])]
  /\ UNCHANGED <<plan, step, base, prepared, rollups, interrupted, ending>>

\* GroupEr::boot.  A failed boot leaves no process behind (Owned is dropped)
\* and is handed to the scenarios, which fail with it.
BootGroup(l) ==
  /\ Polled(l)
  /\ lanes[l].phase = "boot" /\ lanes[l].group # NoGroup
  /\ \E er \in IF base = "ok" THEN {"ok", "err"} ELSE {"err"} :
       LET lane == [lanes[l] EXCEPT !.phase = "main", !.er = er]
       IN  /\ lanes' = [lanes EXCEPT ![l] = RunEntries(lane)]
           /\ rollups' = IF Owned(lane) THEN rollups \cup {lane.group} ELSE rollups
  /\ UNCHANGED <<plan, step, base, prepared, interrupted, ending>>

\* The record of an entry is taken.  Only group lanes stop on a failure.
Ended(lane, e, result) ==
  [lane EXCEPT !.running = @ \ {e},
               !.failed = @ \/ (lane.group # NoGroup /\ result = "failed"),
               !.records = Append(@, Record(e, result))]

\* A scenario handed a boot error fails; any other may pass or fail.
EntryEnds(l, e) ==
  /\ Polled(l)
  /\ e \in lanes[l].running
  /\ \E result \in IF lanes[l].er = "err" THEN {"failed"} ELSE {"passed", "failed"} :
       lanes' = [lanes EXCEPT ![l] = RunEntries(Ended(@, e, result))]
  /\ UNCHANGED <<plan, step, base, prepared, rollups, interrupted, ending>>

\* Mutant: only a lane whose group booted is finished.
FinishLaneBooted(l) ==
  /\ Polled(l)
  /\ lanes[l].phase = "finish" /\ lanes[l].er = "ok"
  /\ lanes' = [lanes EXCEPT ![l].phase = "done"]
  /\ rollups' = rollups \ {lanes[l].group}
  /\ UNCHANGED <<plan, step, base, prepared, interrupted, ending>>

\* GroupEr::finish.  An error adds a cleanup record; the process is gone
\* either way, killed by the drop of Owned.
FinishLane(l) ==
  /\ Polled(l)
  /\ lanes[l].phase = "finish"
  /\ \E clean \in IF Owned(lanes[l]) THEN BOOLEAN ELSE {TRUE} :
       lanes' = [lanes EXCEPT ![l].phase = "done",
                              ![l].records = IF clean THEN @
                                             ELSE Append(@, Record("cleanup", "failed"))]
  /\ rollups' = rollups \ {lanes[l].group}
  /\ UNCHANGED <<plan, step, base, prepared, interrupted, ending>>

AllRecords == UNION {Range(lanes[l].records) : l \in DOMAIN lanes}

\* Mutant: cleanup records do not count.
ConcludeWithoutCleanup ==
  /\ step = "lanes"
  /\ \A l \in DOMAIN lanes : lanes[l].phase = "done"
  /\ ending' = [code |-> CASE interrupted -> "interrupted"
                         [] /\ ~interrupted
                            /\ \A r \in AllRecords : r.name = "cleanup" \/ r.result = "passed"
                              -> "success"
                         [] OTHER -> "failure",
              down |-> TRUE, saved |-> TRUE]
  /\ step' = "exit"
  /\ rollups' = IF base = "ok" THEN {} ELSE rollups
  /\ UNCHANGED <<plan, base, prepared, lanes, interrupted>>

\* The rest of Suite::run, which never awaits: reclaim, Suite::finish with the
\* cleanup it was asked for, the suite report, and the exit code of main.
Conclude ==
  /\ step = "lanes"
  /\ \A l \in DOMAIN lanes : lanes[l].phase = "done"
  /\ \E down \in IF plan.cleanup /\ plan.environment = "managed" THEN BOOLEAN ELSE {TRUE},
        saved \in IF plan.redline THEN BOOLEAN ELSE {TRUE} :
       ending' = [code |-> CASE interrupted -> "interrupted"
                           [] /\ ~interrupted /\ down /\ saved
                              /\ \A r \in AllRecords : r.result = "passed" -> "success"
                           [] OTHER -> "failure",
                down |-> down, saved |-> saved]
  /\ step' = "exit"
  /\ rollups' = IF base = "ok" THEN {} ELSE rollups
  /\ UNCHANGED <<plan, base, prepared, lanes, interrupted>>

\* Ctrl+C, which only interruptible listens to.
InterruptSuite ==
  /\ plan.redline /\ ~interrupted /\ step # "exit"
  /\ interrupted' = TRUE
  /\ UNCHANGED <<plan, step, base, prepared, lanes, rollups, ending>>

LaneStep(l) ==
  \/ StartFresh(l)
  \/ BootGroup(l)
  \/ \E e \in Entries : EntryEnds(l, e)
  \/ FinishLane(l)

SuiteProgress == Base \/ Prepare \/ Conclude \/ \E l \in DOMAIN lanes : LaneStep(l)

SuiteNext == SuiteProgress \/ InterruptSuite

SuiteSpec == SuiteInit /\ [][SuiteNext]_suiteVars

\* The executor polls whatever is ready, and every boot, scenario and
\* teardown is bounded by its own timeouts.
SuiteFairSpec == SuiteSpec /\ WF_suiteVars(SuiteProgress)

-----------------------------------------------------------------------------
\* Where entry e stands in a lane: waiting, held back, running or recorded.
Places(e, lane) ==
  LET in(s) == {i \in DOMAIN s : s[i] = e}
      records == {i \in DOMAIN lane.records : lane.records[i].name = e}
  IN  ({"pending"} \X in(lane.pending)) \cup ({"held"} \X in(lane.held))
        \cup (IF e \in lane.running THEN {<<"running", 0>>} ELSE {})
        \cup ({"recorded"} \X records)

\* Once the lanes are formed every selected scenario is at exactly one place
\* of exactly one lane, through admissions, failures, skips and interruption;
\* a lane that is over has a record of each (run_entries, Suite::lanes).
OnePlaceEach ==
  step \in {"lanes", "exit"} =>
    /\ \A e \in Range(plan.selection) :
         \E l \in DOMAIN lanes :
           /\ \E place \in Places(e, lanes[l]) : Places(e, lanes[l]) = {place}
           /\ \A k \in DOMAIN lanes \ {l} : Places(e, lanes[k]) = {}
    /\ \A l \in DOMAIN lanes :
         lanes[l].phase \in {"finish", "done"} =>
           lanes[l].pending = <<>> /\ lanes[l].held = <<>> /\ lanes[l].running = {}

\* A scenario is recorded as not run only for the reason the record gives: a
\* failure recorded before it in the same group, or an interruption.
SkippedForItsReason ==
  \A l \in DOMAIN lanes : \A i \in DOMAIN lanes[l].records :
    LET record == lanes[l].records[i]
    IN  /\ record.result = "earlier" =>
             \E j \in 1 .. i - 1 : lanes[l].records[j].result = "failed"
        /\ record.result = "interrupted" => interrupted

\* No scenario is lost or recorded twice, and none is skipped without cause.
EachScenarioOnce == OnePlaceEach /\ SkippedForItsReason

\* What a group's lane promises about the rollup its scenarios share.
RunningOf(g) == UNION {lanes[l].running : l \in {k \in DOMAIN lanes : lanes[k].group = g}}
ClosedOf(g) == interrupted \/ \E l \in DOMAIN lanes : lanes[l].group = g /\ lanes[l].failed
LanePromise(g) == INSTANCE Exclusion WITH
  Exclusive <- {e \in Entries : Catalog[e].er = "exclusive"},
  limit     <- IF plan.serial THEN 1 ELSE plan.shared,
  running   <- RunningOf(g),
  closed    <- ClosedOf(g)

\* Every group lane keeps that promise: an exclusive scenario shares the
\* rollup with no other, whatever the concurrency options, and after a failure
\* of the group or an interruption nothing starts on it (Lane::run,
\* run_entries).  The conjunction of LanePromise(g)!Spec over the groups.
LanesImplementExclusion ==
  /\ \A g \in Groups : LanePromise(g)!Init
  /\ [][\A g \in Groups : LanePromise(g)!Turn]_suiteVars

\* At most `fresh` fresh scenarios run at once, and a serial run never has two
\* scenarios running, of whatever lanes.
WithinLimits ==
  /\ \A l \in DOMAIN lanes :
       lanes[l].group = NoGroup => Cardinality(lanes[l].running) <= plan.fresh
  /\ plan.serial =>
       Cardinality(UNION {lanes[l].running : l \in DOMAIN lanes}) <= 1

\* A lane's rollup is up for as long as a scenario that was given it runs, and
\* none that the run launched is left when the process exits (Lane::run
\* finishes the group only after its entries, Suite::run concludes last).
GroupOutlivesItsScenarios ==
  /\ \A l \in DOMAIN lanes :
       Owned(lanes[l]) /\ lanes[l].running # {} => lanes[l].group \in rollups
  /\ step = "exit" => rollups = {}

\* What runs together, and on what, is what the options allow.
Isolation == WithinLimits /\ GroupOutlivesItsScenarios

\* Exit code 0 means every selected scenario was recorded as passed, every
\* group was torn down and, when asked for, the stack was taken down and the
\* report saved; 130 is returned exactly when the run was interrupted.
ExitCodeIsTrue ==
  step = "exit" =>
    /\ ending.code = "success" =>
         /\ \A e \in Range(plan.selection) : Record(e, "passed") \in AllRecords
         /\ \A r \in AllRecords : r.result = "passed"
         /\ ending.down /\ ending.saved
    /\ (ending.code = "interrupted") <=> interrupted

\* redshift's RENT preparation is said to run "before any dependent scenario is
\* scheduled" (redshift/src/scenarios/mod.rs): a scenario that names a
\* preparation is given a rollup to run on only once that succeeded.
PreparedBeforeScheduled ==
  \A l \in DOMAIN lanes : \A e \in lanes[l].running :
    lanes[l].er # "err" /\ Catalog[e].prepare # NoPreparation =>
      Catalog[e].prepare \in prepared
=============================================================================
