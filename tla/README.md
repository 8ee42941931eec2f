# RedSuite in TLA+

RedSuite is a test harness for MagicBlock ephemeral rollups.  It boots a base
chain and rollups, runs three families of scenarios against them (Redline:
benchmarks, Redshift: correctness checks, Redhat: adversarial requests), and
reports.  A verdict is worth as much as the harness and the scenario that give it.
So two kinds of questions are asked here:

- of the **harness**: is load counted right, did a fault that was asked for really
  hit, did scenarios that need a rollup for themselves have it, is no update lost
  between a subscription and a snapshot, are processes stopped at the end;
- of the **scenarios**, which are oracles: do they ever fail a system that behaves
  (`NoFalseAlarm`), and do they ever pass one that has misbehaved in a way they say
  they check (`DefectCaught`)?

Except for the worker threads of a load, everything runs on one thread (`main.rs`
builds a `current_thread` runtime).  So in all modules but `Workers` **a step is
what one task does between two awaits**.  Interleavings happen at awaits, and
futures can be dropped there.

## Inventory

| Part | Code | What is hard | Module |
|---|---|---|---|
| admission engine | `core/src/runner/mod.rs` | stop between tick and admission, false stalls, two places that count completions | `Runner` |
| worker threads | `core/src/runner/workers.rs` | remainders and empty shares; one worker failing while others run | `Workers` |
| pacing | `core/src/transport/rate.rs` | late wakes, cancelled waits | `Pacer` |
| fault proxy | `core/src/netfault/` | held traffic against reset, scopes that end, aborted connections | `NetFault` |
| suite scheduler | `cli/src/suite/mod.rs`, `group.rs`, `main.rs`, `core/src/scenario.rs` | exclusive against shared, interruption, partial failure | `Suite`, `Exclusion` |
| continuous mode | `cli/src/suite/continuous.rs` | exclusive cases in any position, a stop within a round | `Continuous`, `Exclusion` |
| managed stack | `core/src/topology/shared.rs`, `state.rs`, `identity.rs`, `status.rs` | kills between any two writes, replaced bases | `Stack` |
| owned validators | `core/src/topology/process.rs`, `private.rs`, `replicated.rs`, `core/src/resources.rs` | dropped futures, processes that ignore signals | `Rollup` |
| event subscriptions | `core/src/transport/subscription.rs`, `events.rs`, `socket.rs` | messages that cross, one-shot routes, late acknowledgments | `Events` |
| load observers, send clock | `core/src/transport/ws.rs`, `clock.rs` | coalesced writes, confirmations that overtake the answer, windows in succession | `Observers`, `Windows` |
| account waits | `core/src/api/wait.rs` | changes between subscription and snapshot, a shared connection that breaks | `AccountWait` |
| receipts | `core/src/receipt.rs`, `wait.rs` | listings before bodies, intent ids that are used again | `Receipts` |
| Redline scenarios | `redline/src/scenarios/`, `core/src/redline/causal.rs` | ids and counts that must be reconstructed after timed workers stop | `Windows`, `Lanes`, `Contention` |
| Redshift durability | `redshift/.../lifecycle/`, `storage/` | kills under load, pruning beside readers | `Ledger` |
| Redshift replication | `redshift/.../replication/` | restarts near a seal, a target that moves | `Replication` |
| Redshift settlement | `redshift/.../committor/`, `chainlink/settlement_clone_controls.rs` | retries after a lost answer, sessions that end | `Chains`, `Settlement`, `Accounting` |
| Redshift mirroring | `redshift/.../chainlink/` | discovery that races delegation, upgrade or eviction | `Mirror`, `Upgrade`, `Activation`, `Cache`, `Tokens` |
| Redshift submission, tasks | `redshift/.../aperture/transaction_lifecycle.rs`, `core/src/signed.rs`, `scheduler/` | copies, replays, refunds | `Submission`, `Tasks` |
| RPC views, Redhat, contexts, catalog, reports, configuration, fixture program, packaging | see *Not modelled* | | |

How they interact: `main.rs` starts `Suite` or `Continuous`.  A lane takes its base
from `Stack` and launches a rollup, whose life is `Rollup`.  A scenario on a group's
rollup runs inside a `NetFault` scope.  It waits with `AccountWait` and `Receipts`,
which read events through `Events`.  A benchmark runs the engine of `Runner`,
perhaps one per worker (`Workers`), paced by `Pacer`, with `Observers` deciding when
a request is over and `Windows` running one window after the other.

The modules compose by assumption rather than by one large product.  `Suite` takes
a scenario to be something that ends with a record.  `NetFault` takes the sequence
open, body, reset, drop from `run_shared_scenario`.  `AccountWait` takes from
`Events` that a subscription is a queue, `Windows` and `Lanes` take from `Runner`
that the engine admits and drains.  The scenario modules take from `NetFault` that a
message is held until it is released, and from `AccountWait` that a wait ends when
the awaited state is there.  Where a promise has an abstract module the code is
shown to refine it: both schedulers implement `Exclusion`.

## The modules of the harness

**Runner.**  `execute_inner`.  `pc` is the place in the two `select!` loops;
`jobs` and `age` are the futures in flight; `idle`, `draining` are the ages of the
last completion and of the drain.  Ages count periods of the load interval and
saturate at `Timeout`.  All completion modes (count, count with deadline, until)
and both syncing and plain jobs are configurations chosen by `Init`.

**Workers.**  `execute_threaded`: `partition` is written out with `split_budget`,
`Pacing::partition` and `split_iterations`.  `Join` follows the code in joining all
before the first error is returned.  `Workers::stop`, `stop_at` and `Drop` are left
out.

**Pacer.**  `wait` as it compares `now` with `next`: early by less than the timer
resolution, on time, late within the slack, late beyond it.  `log` is a history of
admissions.

**NetFault.**  `gate` is `Disposition`.  `at` says at which stage a message is,
`holds` which guards exist for it, `holding` is the counter in `State`, kept per
scope because a guard may outlive its scope.  `letGo` and `fired` are histories.
Observe rules and diagnostic counters are left out: they decide nothing.

**Exclusion.**  What a scheduler promises of one rollup: at most `limit` scenarios
at once, an exclusive one alone, nothing started once it has closed.

**Suite.**  `lanes` has one record per lane: phase, queue, running, records.  A
scenario's end, the admissions it allows and the skips that follow are one action,
as they are between two awaits.  Each group lane implements `Exclusion`.

**Continuous.**  `run_round` with its `settle`; a round is any permutation.  It
implements `Exclusion`.

**Stack.**  Tasks are the scenarios of a run.  `named` is the base in `state.json`,
`pool` the label assignments, `proc` the base processes.  `Crash` kills the run at
any step; what it had spawned stays.  The map of identities is rewritten in place and
read as empty when it does not parse, so a write that fails (`AssignTorn`) or is
killed half-way (`CrashTorn`) forgets all assignments; `torn` counts these, and a slot
remembers at which count it was bound.  As the repository's README asks, one
invocation is at work at a time.

**Rollup.**  One `Owned` with its `ResourceRecord`, used as `PrivateEr` or as
`Verifier`.  `Cancel` drops an operation's future at an await.  Removing storage may
fail: `finish` returns the error, `reclaim` only warns (`warned`) and leaves it.

**Events.**  Two ends of a connection: router and buffer here, `active` and the two
queues for the server and the wire.  `Garble` is a malformed frame.

**Observers.**  One window of `transaction_load`.  It assumes that the rollup
applies writes to one account in the order of their ids, as `check_final_state` of
the scenario requires too.

**AccountWait.**  `Api::events`, `watch_accounts`, `await_accounts` and
`AccountWatch`, several waits on one `Api`.  `since` is a history: the version a
subscription began with.

**Receipts.**  `CommitWatch`, `check_commit` and `ensure_receipt_absent`.  The
history it searches lists a transaction before its body can be read, and holds
completions of other intents and of an earlier ledger.  `ensure_receipt_absent` of an
outbox waits for the bodies; of a signature it asks once and takes what cannot be read
for absent (`AskSignature`).

## The modules of the scenarios

A scenario is a client program: one disjunct per call, in the order of the code,
each enabled at its own value of `pc`, with the tasks it spawns beside it.  What it
judges (chains, rollup, validators) is **external**: it is modelled from how the
scenario uses it, runs beside the script at its own pace, and has one of a set of
misbehaviours, `flaw`, chosen initially.  `harmed` is a history: the misbehaviour
has happened.  `flaw = "none"` behaves.  A wait that never ends is the code's
timeout: the scenario does not pass.

- **Windows**: the window loops of `transaction_load`, `websocket_fanout` and
  `load_generator_thread_scaling`, with the ids, cursor and send clock that carry
  over from one window to the next.
- **Lanes**: `mixed_sustained_load`; workers on disjoint spans of accounts, and
  `summarize`, which reconstructs what each account must hold from two counters.
- **Contention**: `scheduler_contention` with the sampler and `CausalPair`'s fold.
- **Ledger**: `restart_under_load`, `checkpoint_recovery`,
  `ledger_retention_consistency`, `account_reads_during_resize`.
- **Replication**: `replication_recovery`, both coverages, two verifiers, and the
  settlement replay with its callback, its failing transaction, the records kept over
  the leader's restart and the commit after it.
- **Chains**, **Settlement**: the committor, two rollups and base; the scripts of
  `committor/` and `settlement_clone_controls`.  A watching window ends once nothing
  is in hand, the assumption each such window of the code makes.
- **Accounting**: `intent_execution_and_accounting`: quotas, fees, callbacks.
- **Activation**: `activation_single_shot` and `post_delegation_risk_gate`.
- **Mirror**: `account_mirroring_and_isolation`, `program_clone_allowlist`,
  `program_materialization`.
- **Upgrade**: `program_upgrade_consistency`, two tasks that share a phase.
- **Cache**: `cache_lifecycle`, the script with its traffic and fault tasks.
- **Tasks**: `scheduled_task_lifecycle`.
- **Submission**: `transaction_lifecycle` and `signed.rs`, five modes.
- **Tokens**: `projected_token_lifecycle`, both modes and their amounts.

What the properties say of the scenarios includes limits of the code that are
worth knowing.  They are written into `NoFalseAlarm` or its comment:

- `Windows`: in an open loop nothing keeps two writes of one account in the order of
  their ids (`raced`), and a failed send shifts the next window into the ids of the
  last.  Either may miss a check on a rollup that behaves.
- `Ledger`: the retention scenario may fail a rollup that truncates while it is
  being observed (`memo.overlap`); nothing in the code excludes that.
- `Replication`: a restart that lasts longer than its budget, or that began before
  the newest seal was applied, may legitimately take the other path (`slow`).
- `Cache`: in gap mode the traffic may compare what the script has begun to change
  (`raced`).
- `Submission`: the subscription mode fails a rollup so quick that no pending status
  is ever seen (`Unwitnessed`).
- `Settlement`: a refused duplicate is accepted where the script says so.
- `Contention`: a failed request, or scrape, may miss a check of the load
  (`excuses`), never one of the pairs.

`DefectCaught` claims no more than the checks observe.  `docs/scenario-gaps.md` lists
what they do not establish; where a script meets such a gap the misbehaviour is in the
model and the property leaves it out, as its comment says:

- `Ledger`: after a kill each lane is judged by itself and from its end ("a wholly
  dropped confirmed lane can evade the existing suffix oracle"), so a rollup that lost
  more of a lane than it may is not told from one that lost its tail (`harmed` is then
  `"unseen"`).  Final sizes do not show a growth that a later one covers (`Outgrown`).
- `Tasks`: the count is read once; a cancelled task that runs later is not seen
  ("Canceling a fast task does not establish it executed first or that cancellation
  stopped an executing task").
- `Activation`: an action that runs between the last poll and the release of its
  dependency is taken for the released one ("Joining contenders does not establish
  that each entered the intended race").
- `Upgrade`: until the new program was seen on the hot rollup, either version and a
  refusal are allowed.
- `Windows`: an account that is gone from the rollup is passed over with a warning.

The other rows of that document are about parts that are not modelled (RPC requests,
external timing), or about receipts that branches of the committor scripts accept
(`Settlement`, above) and blockhashes and streams that are not part of the state here.

`Load`, `UnderLoad`, `Scheduling`, `Streams`, `Waits` and `Scripts` put modules that
ask the same questions into one run: a variable says which of them a behaviour is
of, the others' variables do not change.  `MCNetFault` gives `NetFault` its traffic.
Operators whose comment begins with "Mutant" are variants of the definition after
them with one plausible mistake.  They belong to no specification; each makes a
property fail.

## Runs

Deadlock is not checked in any run: every program modelled ends.

| Run | Modules and bounds | States | Shows |
|---|---|---|---|
| `load` | `Runner`: 2 jobs, concurrency 2, timeout 2. `Workers`: 3 threads, 5 iterations, rate 4, concurrency 4 | 784 k | an Ok nobody stopped made every request, no admission once stopped, honest stall verdicts, the engine ends though the network never answers; work is shared once, the joined result is final |
| `under_load` | `Pacer`: intervals 0, 1, 3, resolution 2, slack 3, 12 ticks. `Windows`: 4 accounts, 2 windows of 2, 1 failure. `Lanes`: 3 lanes, 2 workers, 3 jobs each. `Contention`: 1 pair, 1 chain. `Ledger`: 2 lanes, 4 sends, 3 truncations. `Replication`: superblock 3, ledger 9 | 3.2 M | no burst; oracles expect exactly what was sent; no false alarm; no defect passes |
| `netfault_safety` | 3 messages, 2 scopes, 2 handles | 2.8 M | passing means fired and forwarded, nothing stranded |
| `netfault_liveness` | 3 messages, 1 scope, 1 handle | 93 k | reset needs no timeout |
| `scheduling` | `Suite`: 7 scenarios, 3 lanes, limit 2. `Continuous`: 3 shared, 2 exclusive, 2 rounds, limit 3 | 214 k | each scenario once, isolation, both implement `Exclusion`, whole rounds, exit code, neither gets stuck |
| `suite_prepare` | `Suite` as above | stops at the violation | the first divergence below |
| `stack` | 3 tasks, 2 identities, 2 bases, 2 runs, 1 torn map | 1.48 M | one base per run, distinct identities, `down` leaves nothing, callers of `base_only` are answered |
| `rollup` | 4 spawns | 1.5 k | what runs is recorded, nothing is left, operations return |
| `streams` | `Events`: 2 handles, one of them one-shot, 2 events. `Observers`: 3 requests, 2 accounts | 403 k | nothing missed, handles come and go, writes counted once, settled means seen, what is owed arrives |
| `waits` | `AccountWait`: 2 accounts, 2 connections, two waits with 1 write per account or one wait with 3. `Receipts`: 3 landed transactions, listings of 2, 2 attempts | 1.67 M | no setup gap, answers are of this wait, settled and absent are true, a receipt within reach is found |
| `scripts` | `Settlement`, `Accounting`, `Activation`, `Mirror`, `Tasks`, `Upgrade`, `Cache`, `Submission`, `Tokens`, each with every flaw | 155 k | no false alarm, no defect passes, every script ends on chains that behave |
| `accounting_callback` | `Accounting` | stops at the violation | the second divergence below |

Properties that are proved in general (types and bounds of the proved modules and
others listed under Proofs) are not repeated in the runs.

Why the bounds are enough: each is the smallest at which the case it is about
happens with something beside it.  Two jobs at concurrency one or two have one in
flight while the other is kept out, admitted late or finishing; the proofs cover any
number.  Timeout two tells a fresh job from an old one and from one in between.  Two
scopes let a guard outlive its scope.  Three threads with five iterations have
unequal and empty shares; three lanes on two workers have spans of two and one, and
three jobs go round both.  Two windows have an id that is late from the first in the
second.  Two bases are an old and a replacing one; three tasks are two that share a
pool of two and one more than it holds, and one torn map has assignments before and
after it.  Three writes with one account shared by all
have a superseded, an observed and a pending one.  Listings of two with three landed
transactions push a completion out of the window.  A superblock of three entries has
a first, an inner and a sealing one, and nine entries are past retention.  The
scripts have the code's own steps; constants bound only how often a loop goes round
(invocations in `Upgrade`, rounds in `Submission`, quotas in `Accounting`, the
signature window in `Mirror`), at two or more so that it goes round again.

**Fairness.**  Weak fairness only, and of what the executor or a timer owes: a ready
task is polled, a deadline passes.  Validators and the network owe nothing in
`Runner`, `Rollup`, `NetFault` (but that an HTTP exchange ends, by the client's
timeout), `Stack` and `Events`.  `Observers` needs the rollup to notify what it
executed: without it the code's drain timeout ends the window with an error, not
the waiter.  `Receipts` needs listed bodies to become readable and base to confirm or
fail what it was sent: else the wait ends by its timeout.  `Suite` and `Continuous`
rest on scenarios ending by their own timeouts.  In `scripts` the chains answer:
`ScriptsPass` is stated of chains that behave, and asks that no wait of a script is
for something that has already happened or never does.

## Divergences

`suite_prepare` checks what a comment says in `redshift/src/scenarios/mod.rs:217`:
the preparation runs "before any dependent scenario is scheduled".  In
`suite/mod.rs:253` a failed preparation only replaces the base context that group
rollups boot from.  Scenarios of the fresh lane do not use that context, are
scheduled all the same, and the error is reported nowhere if only those are
selected.  One of them, `PostDelegationRiskGate`, depends on the preparation.  The run
starts from a base that came up (`SuiteOnBase`): the scenario runs on it unprepared.

`accounting_callback` checks what `intent_execution_and_accounting.rs:356` says of
`check_callback`: "Requires one result callback", in a wait labelled "callback
completes exactly once" (`:384`).  The wait returns at the first moment at which cell
and payer show one callback, and nothing looks at them again: a second callback that
is delivered later passes.

## Proofs

TLAPS proves the following for all values of the constants, from the `ASSUME`s of
the modules only (that bounds are natural numbers, sets finite, and "no value"
constants distinct); for `Observers` its assumption is a hypothesis of the theorems,
and `AccountWait` needs none.  Where a module holds the proofs of two components, the
second one is named in parentheses.

- **RunnerProofs**: types, `ConcurrencyBound`, `Conservation`,
  `OutcomeAccountsForAdmissions`, `OkMeansAllIterations`, `AbandonedOnlyWhenOld`,
  `StallIsReal`, `NoAdmissionOnceStopped`.  None of these is inductive alone.  The
  invariant adds that the room seen with the pacer's tick lasts until the admission
  (`RoomAtRecheck`); that some job in flight is as old as the last completion
  (`OldestOutlivesIdle`, the reason a stall verdict is honest: `last_completion` is
  reset when a job is admitted to an empty set); that everything left in a drain was
  admitted before it (`DrainedAreOlder`); and why a drain began (`DrainReason`).
- **ContinuousProofs**: that `Continuous` implements `Exclusion`
  (`ImplementsExclusion`), and `ExclusiveRunsAlone`, `WithinLimit`,
  `CompleteRoundsRunEverything`, `RollupOutlivesItsScenarios`,
  `EndsByFailureOrInterrupt`, `NothingStartsAfterStopOrFailure`.  The invariant ties
  exclusive cases to the one place where the loop waits for them (`Isolation`) and
  says that queue, running and settled cover all cases (`Coverage`).  The refinement
  follows step by step from four facts: what runs keeps the promise (`RunningFits`),
  closed stays closed (`ClosedStays`), closing starts nothing
  (`ClosingStartsNothing`), and the limit does not change (`LimitFixed`).
- **ContinuousProofs** (Receipts): `SettledIsSettled` and `AbsentIsAbsent`, for any
  history, limit of its listings, number of attempts and of base transactions.  What
  is taken for the receipt is a completion of this scheduling (`TakenOK`), and no
  search begins before the scheduling has executed (`AnnouncedOK`); the base
  transactions before the first unconfirmed one are confirmed, and a notification is
  of that one (`ConfirmedOK`); what was listed and could be read is to be read still
  or is not the receipt (`InspectedOK`).  Of a signature the theorem says what the code
  can know: it was not readable when asked for.
- **StackProofs**: types, `BasesAgree`, `NamedHasServed`, `IdentitiesDistinct`,
  `AssignmentsOnlyGrow`, `DownLeavesNothing`, for any number of runs, bases, kills and
  identities.  Identities are distinct among rollups bound with no torn map between
  them, and assignments grow but for the step that tears it.  The invariant says that
  only the holder of the lock is inside `base_only` (`Locking`), what it knows of
  `state.json` (`Holder`), and that a context or rollup on a living base is on the
  named one (`Contexts`, `Leased`), and remembers of claims older than the present map
  that they are distinct (`Distinct`).
- **StackProofs** (Rollup): types, `RunningIsRecorded`, `OneProcess`, `NothingLeftBehind`,
  `StorageNotPulled`, for any number of restarts.  Only the child can be alive
  (`Alone`), it is the process spawned last and the recorded one (`Child`), and its
  record is closed early only by reclaim, which has killed it then (`Closed`); storage
  that is left at the end was warned about (`Stored`).
- **NetFaultProofs**: `NothingStranded` and `PassMeansCarriedOut`, for any finite set
  of messages, any traffic, selectors, scopes and handles.  A waiting message has its
  guard in the scope that caught it (`Guarded`); it is held only by a scope that is
  in its body, or it is decided or woken (`Released`); what was let go keeps its
  guard until it has been forwarded (`Traced`); the counters are the numbers of
  guards (`Counted`, which needs the set to be finite); and a trap has
  fired, may still fire, or is remembered as unfired (`Accounted`).
- **WaitProofs**: `NoSetupGap` and `AnswerIsOfThisWait`, for any waits, accounts,
  windows, chunks, writes and broken connections.  Everything queued or shown is of a
  content the account had since the subscription (`Dated`), and on an open
  connection the last in the queue, or the image if the queue is empty, is the
  account as it is (`UpToDate`).
- **WaitProofs** (Pacer): `NoBurst`, `SlotsAreSpaced`, for any interval, resolution
  and slack, from the distance of any two slots (`Spacing`).
- **RunnerProofs** (Observers): `EveryWriteCountedOnce` and `SettledMeansSeen`, for
  any number of requests, accounts and targets, and however notifications are
  coalesced.  A request that waits is registered as long as something it waits for is
  pending (`Waits`); the counters and what is pending add up to what was tracked
  (`WritesCounted`) and subscribed (`SignaturesCounted`), by the cardinality of
  disjoint finite sets; and a window is over only with nothing pending (`WindowOK`).
- **EventsLemmas, EventsProofs**: `NothingMissed` and `HandlesComeAndGo`, for any set
  of handles, number of notifications and length of the wire.  The invariant speaks of
  positions on the wire: a request or its answer is there at most once (`OpenOK`,
  `EndOK`), a notification has its route or comes after the acknowledgement that makes
  it (`RoutedOK`), and what was received and what is on the wire are consecutive
  (`InOrder`).  The first module has the steps of the owner, its task and the
  connection, the second those of the server and the reader.
- **SuiteProofs**: `EachScenarioOnce`, `Isolation`, `ExitCodeIsTrue` and that every
  group lane implements `Exclusion` (`LanesImplementExclusion`), for any catalogue,
  selection and options.  A lane's entries are divided among its queues, what runs and
  its records, none twice (`Divided`); a record gives a reason that was there
  (`Reasoned`); a parallel lane admits no exclusive entry before its turn
  (`KeptApart`); a rollup is up exactly between boot and finish (`RollupsOK`).

Only model-checked: all liveness properties (the prover does not do fairness and
`ENABLED`); everything about `Workers` (`WorkIsShared`, `ResultIsFinal`) and about the
scenario modules, so all of `under_load` but the pacer and all of `scripts`.  What
`split_budget`, `summarize` and the other folds compute for every input, or what
`SelectSeq` leaves of a partition's shares, would need induction over data, which is
out of the prover's reach.

## Not modelled

- **The validators, RPC servers and the network** are environment; they appear as
  what they may do to the harness and the scenarios.
- **RPC scenarios** (`rpc_state_and_events`, `token_rpc_views`, `rpc_compat_smoke`)
  compare answers with fixtures; their parts share no state but the subscription
  connection, which is `Events`.
- **Redhat's scenarios** are about which hostile input a validator refuses, which is
  the validator's behaviour.  They use the proxy and the engine through the calls
  that `NetFault` and `Runner` model.
- **Read-only and latency benchmarks** of Redline judge numbers only.
- **Raw clients** (`wsraw.rs`, `http.rs`, `rpc.rs`): one outstanding request per
  call and no state shared between callers.
- **Contexts**: handles to the parts above.  The blockhash cache stores what it
  fetched after an await, also across a reset; whether that hash is still accepted
  is the validator's decision, and nothing in the code tells.
- **Catalog and selection**: string matching over a fixed list before anything runs;
  `Suite` takes any selection.
- **Reports, statistics, logs, command lines, configuration files**: text and
  arithmetic without control.  The report store publishes by one rename per file.
- **Fixture program**: runs in the validators, one instruction at a time and
  atomically; the scenario modules have its effects.
- **Packaging**: build and download recipes.
- **Ports** are leased, released and then bound by the validator: a race with other
  programs, which the code reports and does not prevent.
- **Two invocations at once** are excluded by the repository's README.
- Parts of modelled components that are left out: `Workers::stop`, `stop_at` and
  `Drop`; untyped keys and slot queries of the event buffer; observe rules of the
  proxy; `stack status`, which only reads; the encoding of messages and
  instructions in all scenarios.
