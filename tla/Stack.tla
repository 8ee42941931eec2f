------------------------------- MODULE Stack -------------------------------
(***************************************************************************)
(* The managed stack of core/src/topology: the base validator that every   *)
(* scenario shares and that outlives the runs (shared.rs, state.rs), the   *)
(* pool of identities bound to the labels of its rollups (identity.rs),    *)
(* the rollups launched on it (private.rs), and `stack down` (status.rs).  *)
(*                                                                         *)
(* Each scenario of a run is a task.  Tasks of one run share a thread, so  *)
(* a step is what a task does between two awaits; steps that leave files   *)
(* and processes behind are split further where a kill of the run can fall *)
(* between them.  As the README asks, one run or one `stack down` is at    *)
(* work at a time; a run may be killed at any moment, and the processes it *)
(* had spawned live on.                                                    *)
(***************************************************************************)
EXTENDS Naturals, Sequences

CONSTANTS
  Tasks,     \* scenarios of a run; each is also the label of its rollup
  PoolSize,  \* IDENTITY_POOL_SIZE
  MaxBases,  \* bound on the bases booted
  MaxRuns,   \* bound on the runs started
  MaxTorn,   \* bound on the writes of the identity map that are cut short
  NoTask     \* holder of a free lock

ASSUME StackAssumption ==
  /\ PoolSize \in Nat /\ MaxBases \in Nat /\ MaxRuns \in Nat /\ MaxTorn \in Nat
  /\ NoTask \notin Tasks

Bases == 1 .. MaxBases
NoBase == 0
Unbound == [index |-> 0, torn |-> 0]

VARIABLES
  run,      \* the run at work, 0 when there is none
  runs,     \* runs started so far
  pc,       \* where each task stands
  seen,     \* the StackState a task read, or the base it boots
  ctx,      \* the base of its BaseCtx
  slot,     \* its identity, and the value of torn when it was bound
  lock,     \* holder of the stack lock
  named,    \* state.json: the base it names
  proc,     \* the base processes: absent, booting, serving, dead
  booted,   \* bases spawned so far
  pool,     \* identity-pool.json: the labels in the order of their slots, none
            \* when the file is missing or cannot be parsed
  torn,     \* writes of that file that were cut short
  rollups,  \* rollup processes that run
  storage,  \* labels whose storage directory exists
  ledger,   \* the base whose ledger is on disk
  down      \* where `stack down` stands

vars == <<run, runs, pc, seen, ctx, slot, lock, named, proc, booted, pool, torn,
          rollups, storage, ledger, down>>

tasks == <<pc, seen, ctx, slot, lock>>
base == <<named, proc, booted, ledger>>
map == <<pool, torn>>
world == <<rollups, storage>>

Alive(b) == b # NoBase /\ proc[b] \in {"booting", "serving"}

\* kill_pid and kill_matching: TERM, a grace window, then KILL.
Kill(b) == IF b = NoBase THEN proc ELSE [proc EXCEPT ![b] = "dead"]

Locked == {"health", "boot", "ready", "publish"}

-----------------------------------------------------------------------------
Init ==
  /\ run = 0 /\ runs = 0
  /\ pc = [t \in Tasks |-> "idle"]
  /\ seen = [t \in Tasks |-> NoBase]
  /\ ctx = [t \in Tasks |-> NoBase]
  /\ slot = [t \in Tasks |-> Unbound]
  /\ lock = NoTask
  /\ named = NoBase
  /\ proc = [b \in Bases |-> "absent"]
  /\ booted = 0
  /\ pool = <<>> /\ torn = 0
  /\ rollups = {}
  /\ storage = {}
  /\ ledger = NoBase
  /\ down = "idle"

FreshTasks ==
  /\ pc' = [t \in Tasks |-> "idle"]
  /\ seen' = [t \in Tasks |-> NoBase]
  /\ ctx' = [t \in Tasks |-> NoBase]
  /\ slot' = [t \in Tasks |-> Unbound]
  /\ lock' = NoTask

Invoke ==
  /\ run = 0 /\ down = "idle" /\ runs < MaxRuns
  /\ runs' = runs + 1
  /\ run' = runs'
  /\ FreshTasks
  /\ UNCHANGED <<base, map, world, down>>

\* RunRecord::run calls base_only, which queues for the stack lock.
CallBase(t) ==
  /\ run # 0 /\ pc[t] = "idle"
  /\ pc' = [pc EXCEPT ![t] = "lock"]
  /\ UNCHANGED <<run, runs, seen, ctx, slot, lock, base, map, world, down>>

\* The lock, then the beginning of ensure_base up to its await: a base that
\* still runs is asked for its health; state that names another is removed.
Acquire(t) ==
  /\ pc[t] = "lock" /\ lock = NoTask
  /\ lock' = t
  /\ seen' = [seen EXCEPT ![t] = named]
  /\ IF Alive(named)
     THEN pc' = [pc EXCEPT ![t] = "health"] /\ UNCHANGED named
     ELSE pc' = [pc EXCEPT ![t] = "boot"] /\ named' = NoBase
  /\ UNCHANGED <<run, runs, ctx, slot, proc, booted, ledger, map, world, down>>

\* base_only returns with the base it found.
Healthy(t) ==
  /\ pc[t] = "health" /\ proc[seen[t]] = "serving"
  /\ pc' = [pc EXCEPT ![t] = "have"]
  /\ ctx' = [ctx EXCEPT ![t] = seen[t]]
  /\ lock' = NoTask
  /\ UNCHANGED <<run, runs, seen, slot, base, map, world, down>>

\* Mutant: the unhealthy base is forgotten but not killed.
UnhealthySpared(t) ==
  /\ pc[t] = "health"
  /\ named' = NoBase
  /\ pc' = [pc EXCEPT ![t] = "boot"]
  /\ UNCHANGED <<run, runs, seen, ctx, slot, lock, proc, booted, ledger, map, world, down>>

\* The health call fails, perhaps only for a moment: kill_stack.
Unhealthy(t) ==
  /\ pc[t] = "health"
  /\ proc' = Kill(seen[t])
  /\ named' = NoBase
  /\ pc' = [pc EXCEPT ![t] = "boot"]
  /\ UNCHANGED <<run, runs, seen, ctx, slot, lock, booted, ledger, map, world, down>>

Fails(t) ==
  /\ pc' = [pc EXCEPT ![t] = "failed"]
  /\ lock' = IF lock = t THEN NoTask ELSE lock

\* Mutant: the lock outlives the error.
BootFailsLocked(t) ==
  /\ pc[t] = "boot"
  /\ pc' = [pc EXCEPT ![t] = "failed"]
  /\ UNCHANGED <<run, runs, seen, ctx, slot, lock, base, map, world, down>>

\* boot_base gives up before it spawns: a binary, a port, the plan.
BootFails(t) ==
  /\ pc[t] = "boot"
  /\ Fails(t)
  /\ UNCHANGED <<run, runs, seen, ctx, slot, base, map, world, down>>

\* boot_base up to its await: void the labels, spawn the base on a reset
\* ledger.
Spawn(t) ==
  /\ pc[t] = "boot" /\ booted < MaxBases
  /\ booted' = booted + 1
  /\ proc' = [proc EXCEPT ![booted'] = "booting"]
  /\ seen' = [seen EXCEPT ![t] = booted']
  /\ ledger' = booted'
  /\ pool' = <<>>
  /\ pc' = [pc EXCEPT ![t] = "ready"]
  /\ UNCHANGED <<run, runs, ctx, slot, lock, named, torn, world, down>>

\* await_base_ready succeeds ...
Ready(t) ==
  /\ pc[t] = "ready" /\ proc[seen[t]] = "serving"
  /\ pc' = [pc EXCEPT ![t] = "publish"]
  /\ UNCHANGED <<run, runs, seen, ctx, slot, lock, base, map, world, down>>

\* ... or it fails, as write_state may: the base is killed.
NotReady(t) ==
  /\ pc[t] \in {"ready", "publish"}
  /\ proc' = Kill(seen[t])
  /\ Fails(t)
  /\ UNCHANGED <<run, runs, seen, ctx, slot, named, booted, ledger, map, world, down>>

\* write_state renames the new state into place; base_only returns.
Publish(t) ==
  /\ pc[t] = "publish"
  /\ named' = seen[t]
  /\ ctx' = [ctx EXCEPT ![t] = seen[t]]
  /\ pc' = [pc EXCEPT ![t] = "have"]
  /\ lock' = NoTask
  /\ UNCHANGED <<run, runs, seen, slot, proc, booted, ledger, map, world, down>>

-----------------------------------------------------------------------------
SlotOf(t) == CHOOSE i \in DOMAIN pool : pool[i] = t
Bound(t) == \E i \in DOMAIN pool : pool[i] = t

\* The slot of its label, or the next one.  (Slots are numbered from 1.)
NextSlot(t) == [index |-> IF Bound(t) THEN SlotOf(t) ELSE Len(pool) + 1, torn |-> torn]

\* Mutant: a new assignment is not written back.
AssignUnsaved(t) ==
  /\ pc[t] = "have" /\ named # NoBase
  /\ Bound(t) \/ Len(pool) < PoolSize
  /\ slot' = [slot EXCEPT ![t] = NextSlot(t)]
  /\ pc' = [pc EXCEPT ![t] = "fund"]
  /\ UNCHANGED <<run, runs, seen, ctx, lock, base, map, world, down>>

\* launch takes its identity with identity_for_label, which never awaits.
Assign(t) ==
  /\ pc[t] = "have" /\ named # NoBase
  /\ Bound(t) \/ Len(pool) < PoolSize
  /\ pool' = IF Bound(t) THEN pool ELSE Append(pool, t)
  /\ slot' = [slot EXCEPT ![t] = NextSlot(t)]
  /\ pc' = [pc EXCEPT ![t] = "fund"]
  /\ UNCHANGED <<run, runs, seen, ctx, lock, base, torn, world, down>>

\* fs::write truncates the map before it fills it, and what is left of a write
\* that is cut short does not parse: the next reader finds no assignments.
MapTorn(t) ==
  /\ pc[t] = "have" /\ named # NoBase
  /\ ~Bound(t) /\ Len(pool) < PoolSize
  /\ torn < MaxTorn
  /\ torn' = torn + 1
  /\ pool' = <<>>

\* The write fails, and with it the launch ...
AssignTorn(t) ==
  /\ MapTorn(t)
  /\ Fails(t)
  /\ UNCHANGED <<run, runs, seen, ctx, slot, base, world, down>>

\* ... or the run is killed in it.
CrashTorn(t) ==
  /\ MapTorn(t)
  /\ run' = 0
  /\ FreshTasks
  /\ UNCHANGED <<runs, base, world, down>>

\* No state.json, every identity is bound, or a file cannot be opened.
AssignFails(t) ==
  /\ pc[t] = "have"
  /\ Fails(t)
  /\ UNCHANGED <<run, runs, seen, ctx, slot, base, map, world, down>>

Rollup(t) ==
  [label |-> t, slot |-> slot[t].index, torn |-> slot[t].torn, base |-> ctx[t], run |-> run]

\* ensure_identity_funded answers from the base of the context; the old
\* storage of the label goes, the rollup is spawned.
Launch(t) ==
  /\ pc[t] = "fund" /\ proc[ctx[t]] = "serving"
  /\ rollups' = rollups \cup {Rollup(t)}
  /\ storage' = storage \cup {t}
  /\ pc' = [pc EXCEPT ![t] = "run"]
  /\ UNCHANGED <<run, runs, seen, ctx, slot, lock, base, map, down>>

\* The identity is not funded, or a step fails after the old storage went.
LaunchFails(t) ==
  /\ pc[t] = "fund"
  /\ Fails(t)
  /\ storage' \in {storage, storage \ {t}}
  /\ UNCHANGED <<run, runs, seen, ctx, slot, base, map, rollups, down>>

\* The scenario ends: finish or the drop of its rollup, then reclaim.
ScenarioEnds(t) ==
  /\ pc[t] \in {"run", "have"}
  /\ rollups' = rollups \ {Rollup(t)}
  /\ storage' = IF pc[t] = "run" THEN storage \ {t} ELSE storage
  /\ pc' = [pc EXCEPT ![t] = "done"]
  /\ UNCHANGED <<run, runs, seen, ctx, slot, lock, base, map, down>>

RunEnds ==
  /\ run # 0
  /\ \A t \in Tasks : pc[t] \in {"done", "failed"}
  /\ run' = 0
  /\ FreshTasks
  /\ UNCHANGED <<runs, base, map, world, down>>

\* The run is killed: its locks are released, its processes stay.
Crash ==
  /\ run # 0
  /\ run' = 0
  /\ FreshTasks
  /\ UNCHANGED <<runs, base, map, world, down>>

\* External: the validators themselves.
BaseServes(b) ==
  /\ proc[b] = "booting"
  /\ proc' = [proc EXCEPT ![b] = "serving"]
  /\ UNCHANGED <<run, runs, tasks, named, booted, ledger, map, world, down>>

BaseDies(b) ==
  /\ Alive(b)
  /\ proc' = [proc EXCEPT ![b] = "dead"]
  /\ UNCHANGED <<run, runs, tasks, named, booted, ledger, map, world, down>>

-----------------------------------------------------------------------------
\* topology::down, first the base that state.json names ...
DownBase ==
  /\ run = 0 /\ down = "idle"
  /\ proc' = IF Alive(named) THEN Kill(named) ELSE proc
  /\ named' = NoBase
  /\ down' = "sweep"
  /\ UNCHANGED <<run, runs, tasks, booted, ledger, map, world>>

\* Mutant: only rollups are swept.
DownSweepsRollups ==
  /\ down = "sweep"
  /\ rollups' = {}
  /\ down' = "wipe"
  /\ UNCHANGED <<run, runs, tasks, base, map, storage>>

\* ... then every other process that names the stack directory ...
DownSweeps ==
  /\ down = "sweep"
  /\ proc' = [b \in Bases |-> IF Alive(b) THEN "dead" ELSE proc[b]]
  /\ rollups' = {}
  /\ down' = "wipe"
  /\ UNCHANGED <<run, runs, tasks, named, booted, ledger, map, storage>>

\* ... then wipe_storage.  An error ends it half way.
DownWipes ==
  /\ down = "wipe"
  /\ ledger' = NoBase
  /\ storage' = {}
  /\ down' = "done"
  /\ UNCHANGED <<run, runs, tasks, named, proc, booted, map, rollups>>

DownEnds ==
  /\ down \in {"sweep", "wipe", "done"}
  /\ down' = "idle"
  /\ UNCHANGED <<run, runs, tasks, base, map, world>>

TaskStep(t) ==
  \/ CallBase(t) \/ Acquire(t) \/ Healthy(t) \/ Unhealthy(t)
  \/ BootFails(t) \/ Spawn(t) \/ Ready(t) \/ NotReady(t) \/ Publish(t)
  \/ Assign(t) \/ AssignTorn(t) \/ AssignFails(t) \/ Launch(t) \/ LaunchFails(t) \/ ScenarioEnds(t)

Next ==
  \/ Invoke
  \/ \E t \in Tasks : TaskStep(t)
  \/ RunEnds
  \/ Crash \/ \E t \in Tasks : CrashTorn(t)
  \/ \E b \in Bases : BaseServes(b) \/ BaseDies(b)
  \/ DownBase \/ DownSweeps \/ DownWipes \/ DownEnds

Spec == Init /\ [][Next]_vars

(***************************************************************************)
(* The executor polls every task; the health call and the wait for the     *)
(* base have timeouts, so each ends one way or the other.                  *)
(***************************************************************************)
FairSpec == Spec /\ \A t \in Tasks : WF_vars(Acquire(t) \/ (pc[t] \in Locked /\ TaskStep(t)))

-----------------------------------------------------------------------------
\* Type invariant of the files, the processes and the tasks.
TypeOK ==
  /\ run \in 0 .. MaxRuns /\ runs \in 0 .. MaxRuns
  /\ pc \in [Tasks -> {"idle", "lock", "have", "fund", "run", "done", "failed"} \cup Locked]
  /\ seen \in [Tasks -> Bases \cup {NoBase}]
  /\ ctx \in [Tasks -> Bases \cup {NoBase}]
  /\ slot \in [Tasks -> [index : 0 .. PoolSize, torn : 0 .. MaxTorn]]
  /\ lock \in Tasks \cup {NoTask}
  /\ named \in Bases \cup {NoBase}
  /\ proc \in [Bases -> {"absent", "booting", "serving", "dead"}]
  /\ booted \in 0 .. MaxBases
  /\ pool \in Seq(Tasks) /\ Len(pool) <= PoolSize
  /\ torn \in 0 .. MaxTorn
  /\ rollups \subseteq [label : Tasks, slot : 1 .. PoolSize, torn : 0 .. MaxTorn,
                        base : Bases, run : 1 .. MaxRuns]
  /\ storage \subseteq Tasks
  /\ ledger \in Bases \cup {NoBase}
  /\ down \in {"idle", "sweep", "wipe", "done"}

\* Scenarios of a run that hold a context on a base that still runs hold it on
\* the same one, although any of them may have replaced the base meanwhile.
BasesAgree ==
  \A t, u \in Tasks : Alive(ctx[t]) /\ Alive(ctx[u]) => ctx[t] = ctx[u]

\* state.json never names a base that has not come up, whenever the run that
\* booted it was killed, so a later run does not adopt a half-booted base.
NamedHasServed == named # NoBase => proc[named] \in {"serving", "dead"}

\* Two rollups running on one living base, one of them perhaps left behind by a
\* killed run, share an identity only if they carry the same label, or a write
\* of the map (fs::write in identity_for_label) was cut short between the two.
IdentitiesDistinct ==
  \A r, s \in rollups :
    r.base = s.base /\ Alive(r.base) /\ r.slot = s.slot /\ r.torn = s.torn => r.label = s.label

\* While state.json names a base its labels keep their slots: the assignments
\* are only extended, by every step but a write of the map that is cut short.
AssignmentsOnlyGrow ==
  [][named' # NoBase /\ torn' = torn =>
       /\ Len(pool) <= Len(pool')
       /\ \A i \in 1 .. Len(pool) : pool'[i] = pool[i]]_vars

\* "`stack down` stops the base and leftover rollups and deletes their storage",
\* also those of runs that were killed before state.json named the base.
DownLeavesNothing ==
  down = "done" =>
    /\ \A b \in Bases : ~Alive(b)
    /\ rollups = {} /\ storage = {}
    /\ named = NoBase /\ ledger = NoBase

\* Whoever asks for the base gets an answer, unless the run is killed.
CallersAnswered ==
  \A t \in Tasks : pc[t] = "lock" ~> pc[t] \notin {"lock"} \cup Locked
=============================================================================
