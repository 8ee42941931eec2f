----------------------------- MODULE UnderLoad ------------------------------
(***************************************************************************)
(* The scenarios that judge a rollup while load runs against it, and the   *)
(* pacer that spaces the load, on an instance: the windows of the          *)
(* throughput benchmarks, the lanes of the mixed workload, scheduler       *)
(* contention, the ledger scenarios and replication.  `part` says what a   *)
(* behaviour is of.  Parts share variables of the same name; a variable    *)
(* its part does not have is unused.                                       *)
(***************************************************************************)
EXTENDS Pacer

VARIABLES
  part,
  kind, closed, flaw, pc, result, missed, stop, remaining, phase, total, cursor,
  first, adm, staged, wire, waiting, delivered, failed, sigs, obs, cell, queue,
  dirty, used, reused, raced, everFailed, harmed, empty, admitted, line, holder,
  sent, todo, engine, jobLog, spoiled, last_ids, counts, excuses, failures, over,
  batch, phases, at, model, bg, smp, target, cells, indep, count, deps, script,
  verdict, ledger, sealed, blocks, pruned, account, pending, lane, gate, records,
  nextId, memo, head, served, ver, work, image, gap, final, slow

W == INSTANCE Windows WITH
  Accounts <- 4, Iterations <- 2, Concurrency <- 2, Duration <- 2, Warmup <- 1,
  MaxFailed <- 1
L == INSTANCE Lanes WITH
  Lanes <- 3, Threads <- 2, Concurrency <- 2, MixPeriod <- 2, HashSlots <- 1,
  WriteSlots <- 0, MaxJobs <- 3, MaxFailed <- 1, log <- jobLog
C == INSTANCE Contention WITH
  Pairs <- 1, Chains <- 1, MaxBatches <- 1, MaxSends <- 2, MaxFailed <- 1
G == INSTANCE Ledger WITH
  Lanes <- {1, 2}, MaxSends <- 4, MaxAdds <- 5, Truncations <- 2, MaxTruncations <- 3
R == INSTANCE Replication WITH
  Superblock <- 3, Budget <- 1, MaxHead <- 9, MaxLag <- 1

ASSUME W!WindowsBounds /\ L!LanesBounds

-----------------------------------------------------------------------------
\* For each part, the variables it does not have.
noPacer == <<kind, closed, flaw, pc, result, missed, stop, remaining, phase, total,
             cursor, first, adm, staged, wire, waiting, delivered, failed, sigs,
             obs, cell, queue, dirty, used, reused, raced, everFailed, harmed,
             empty, admitted, line, holder, sent, todo, engine, jobLog, spoiled,
             last_ids, counts, excuses, failures, over, batch, phases, at, model,
             bg, smp, target, cells, indep, count, deps, script, verdict, ledger,
             sealed, blocks, pruned, account, pending, lane, gate, records, nextId,
             memo, head, served, ver, work, image, gap, final, slow>>
noWindows == <<admitted, line, holder, sent, todo, engine, jobLog, spoiled,
               last_ids, counts, excuses, failures, over, batch, phases, at, model,
               bg, smp, target, cells, indep, count, deps, script, verdict, ledger,
               sealed, blocks, pruned, account, pending, lane, gate, records,
               nextId, memo, head, served, ver, work, image, gap, final, slow>>
noLanes == <<kind, closed, result, stop, remaining, phase, total, cursor, first,
             adm, staged, wire, waiting, sigs, obs, queue, dirty, used, reused,
             raced, everFailed, harmed, empty, excuses, failures, over, batch,
             phases, at, model, bg, smp, target, cells, indep, count, deps, script,
             verdict, ledger, sealed, blocks, pruned, account, pending, lane, gate,
             records, nextId, memo, head, served, ver, work, image, gap, final,
             slow>>
noContention == <<kind, closed, result, stop, remaining, total, cursor, first, adm,
                  staged, wire, waiting, delivered, failed, sigs, obs, cell, dirty,
                  used, reused, raced, everFailed, empty, admitted, line, holder,
                  sent, todo, engine, jobLog, spoiled, last_ids, counts, script,
                  verdict, ledger, sealed, blocks, pruned, account, pending, lane,
                  gate, records, nextId, memo, head, served, ver, work, image, gap,
                  final, slow>>
noLedger == <<kind, closed, result, missed, stop, remaining, phase, total, cursor,
              first, adm, staged, wire, waiting, delivered, failed, sigs, obs, cell,
              queue, dirty, used, reused, raced, everFailed, empty, admitted, line,
              holder, sent, todo, engine, jobLog, spoiled, last_ids, counts,
              excuses, failures, over, batch, phases, at, model, bg, smp, target,
              cells, indep, count, deps, head, served, ver, work, image, gap, final,
              slow>>
noReplication == <<kind, closed, result, missed, stop, remaining, phase, total,
                   cursor, first, adm, staged, wire, waiting, delivered, failed,
                   sigs, obs, cell, queue, dirty, used, reused, raced, everFailed,
                   empty, admitted, line, holder, todo, engine, jobLog, spoiled,
                   last_ids, counts, excuses, failures, over, batch, phases, at,
                   model, bg, smp, target, cells, indep, count, deps, ledger,
                   sealed, blocks, account, pending, lane, gate, records, nextId>>
all == <<part, pacerVars, kind, closed, flaw, pc, result, missed, stop, remaining, phase,
                     total, cursor, first, adm, staged, wire, waiting, delivered,
                     failed, sigs, obs, cell, queue, dirty, used, reused, raced,
                     everFailed, harmed, empty, admitted, line, holder, sent, todo,
                     engine, jobLog, spoiled, last_ids, counts, excuses, failures,
                     over, batch, phases, at, model, bg, smp, target, cells, indep,
                     count, deps, script, verdict, ledger, sealed, blocks, pruned,
                     account, pending, lane, gate, records, nextId, memo, head,
                     served, ver, work, image, gap, final, slow>>

OnlyPacer ==
  /\ kind = "unused" /\ closed = "unused" /\ flaw = "unused" /\ pc = "unused"
  /\ result = "unused" /\ missed = "unused" /\ stop = "unused"
  /\ remaining = "unused" /\ phase = "unused" /\ total = "unused"
  /\ cursor = "unused" /\ first = "unused" /\ adm = "unused" /\ staged = "unused"
  /\ wire = "unused" /\ waiting = "unused" /\ delivered = "unused"
  /\ failed = "unused" /\ sigs = "unused" /\ obs = "unused" /\ cell = "unused"
  /\ queue = "unused" /\ dirty = "unused" /\ used = "unused" /\ reused = "unused"
  /\ raced = "unused" /\ everFailed = "unused" /\ harmed = "unused"
  /\ empty = "unused" /\ admitted = "unused" /\ line = "unused"
  /\ holder = "unused" /\ sent = "unused" /\ todo = "unused" /\ engine = "unused"
  /\ jobLog = "unused" /\ spoiled = "unused" /\ last_ids = "unused"
  /\ counts = "unused" /\ excuses = "unused" /\ failures = "unused"
  /\ over = "unused" /\ batch = "unused" /\ phases = "unused" /\ at = "unused"
  /\ model = "unused" /\ bg = "unused" /\ smp = "unused" /\ target = "unused"
  /\ cells = "unused" /\ indep = "unused" /\ count = "unused" /\ deps = "unused"
  /\ script = "unused" /\ verdict = "unused" /\ ledger = "unused"
  /\ sealed = "unused" /\ blocks = "unused" /\ pruned = "unused"
  /\ account = "unused" /\ pending = "unused" /\ lane = "unused" /\ gate = "unused"
  /\ records = "unused" /\ nextId = "unused" /\ memo = "unused" /\ head = "unused"
  /\ served = "unused" /\ ver = "unused" /\ work = "unused" /\ image = "unused"
  /\ gap = "unused" /\ final = "unused" /\ slow = "unused"

OnlyWindows ==
  /\ admitted = "unused" /\ line = "unused" /\ holder = "unused" /\ sent = "unused"
  /\ todo = "unused" /\ engine = "unused" /\ jobLog = "unused"
  /\ spoiled = "unused" /\ last_ids = "unused" /\ counts = "unused"
  /\ excuses = "unused" /\ failures = "unused" /\ over = "unused"
  /\ batch = "unused" /\ phases = "unused" /\ at = "unused" /\ model = "unused"
  /\ bg = "unused" /\ smp = "unused" /\ target = "unused" /\ cells = "unused"
  /\ indep = "unused" /\ count = "unused" /\ deps = "unused" /\ script = "unused"
  /\ verdict = "unused" /\ ledger = "unused" /\ sealed = "unused"
  /\ blocks = "unused" /\ pruned = "unused" /\ account = "unused"
  /\ pending = "unused" /\ lane = "unused" /\ gate = "unused" /\ records = "unused"
  /\ nextId = "unused" /\ memo = "unused" /\ head = "unused" /\ served = "unused"
  /\ ver = "unused" /\ work = "unused" /\ image = "unused" /\ gap = "unused"
  /\ final = "unused" /\ slow = "unused"

OnlyLanes ==
  /\ kind = "unused" /\ closed = "unused" /\ result = "unused" /\ stop = "unused"
  /\ remaining = "unused" /\ phase = "unused" /\ total = "unused"
  /\ cursor = "unused" /\ first = "unused" /\ adm = "unused" /\ staged = "unused"
  /\ wire = "unused" /\ waiting = "unused" /\ sigs = "unused" /\ obs = "unused"
  /\ queue = "unused" /\ dirty = "unused" /\ used = "unused" /\ reused = "unused"
  /\ raced = "unused" /\ everFailed = "unused" /\ harmed = "unused"
  /\ empty = "unused" /\ excuses = "unused" /\ failures = "unused"
  /\ over = "unused" /\ batch = "unused" /\ phases = "unused" /\ at = "unused"
  /\ model = "unused" /\ bg = "unused" /\ smp = "unused" /\ target = "unused"
  /\ cells = "unused" /\ indep = "unused" /\ count = "unused" /\ deps = "unused"
  /\ script = "unused" /\ verdict = "unused" /\ ledger = "unused"
  /\ sealed = "unused" /\ blocks = "unused" /\ pruned = "unused"
  /\ account = "unused" /\ pending = "unused" /\ lane = "unused" /\ gate = "unused"
  /\ records = "unused" /\ nextId = "unused" /\ memo = "unused" /\ head = "unused"
  /\ served = "unused" /\ ver = "unused" /\ work = "unused" /\ image = "unused"
  /\ gap = "unused" /\ final = "unused" /\ slow = "unused"

OnlyContention ==
  /\ kind = "unused" /\ closed = "unused" /\ result = "unused" /\ stop = "unused"
  /\ remaining = "unused" /\ total = "unused" /\ cursor = "unused"
  /\ first = "unused" /\ adm = "unused" /\ staged = "unused" /\ wire = "unused"
  /\ waiting = "unused" /\ delivered = "unused" /\ failed = "unused"
  /\ sigs = "unused" /\ obs = "unused" /\ cell = "unused" /\ dirty = "unused"
  /\ used = "unused" /\ reused = "unused" /\ raced = "unused"
  /\ everFailed = "unused" /\ empty = "unused" /\ admitted = "unused"
  /\ line = "unused" /\ holder = "unused" /\ sent = "unused" /\ todo = "unused"
  /\ engine = "unused" /\ jobLog = "unused" /\ spoiled = "unused"
  /\ last_ids = "unused" /\ counts = "unused" /\ script = "unused"
  /\ verdict = "unused" /\ ledger = "unused" /\ sealed = "unused"
  /\ blocks = "unused" /\ pruned = "unused" /\ account = "unused"
  /\ pending = "unused" /\ lane = "unused" /\ gate = "unused" /\ records = "unused"
  /\ nextId = "unused" /\ memo = "unused" /\ head = "unused" /\ served = "unused"
  /\ ver = "unused" /\ work = "unused" /\ image = "unused" /\ gap = "unused"
  /\ final = "unused" /\ slow = "unused"

OnlyLedger ==
  /\ kind = "unused" /\ closed = "unused" /\ result = "unused" /\ missed = "unused"
  /\ stop = "unused" /\ remaining = "unused" /\ phase = "unused"
  /\ total = "unused" /\ cursor = "unused" /\ first = "unused" /\ adm = "unused"
  /\ staged = "unused" /\ wire = "unused" /\ waiting = "unused"
  /\ delivered = "unused" /\ failed = "unused" /\ sigs = "unused" /\ obs = "unused"
  /\ cell = "unused" /\ queue = "unused" /\ dirty = "unused" /\ used = "unused"
  /\ reused = "unused" /\ raced = "unused" /\ everFailed = "unused"
  /\ empty = "unused" /\ admitted = "unused" /\ line = "unused"
  /\ holder = "unused" /\ sent = "unused" /\ todo = "unused" /\ engine = "unused"
  /\ jobLog = "unused" /\ spoiled = "unused" /\ last_ids = "unused"
  /\ counts = "unused" /\ excuses = "unused" /\ failures = "unused"
  /\ over = "unused" /\ batch = "unused" /\ phases = "unused" /\ at = "unused"
  /\ model = "unused" /\ bg = "unused" /\ smp = "unused" /\ target = "unused"
  /\ cells = "unused" /\ indep = "unused" /\ count = "unused" /\ deps = "unused"
  /\ head = "unused" /\ served = "unused" /\ ver = "unused" /\ work = "unused"
  /\ image = "unused" /\ gap = "unused" /\ final = "unused" /\ slow = "unused"

OnlyReplication ==
  /\ kind = "unused" /\ closed = "unused" /\ result = "unused" /\ missed = "unused"
  /\ stop = "unused" /\ remaining = "unused" /\ phase = "unused"
  /\ total = "unused" /\ cursor = "unused" /\ first = "unused" /\ adm = "unused"
  /\ staged = "unused" /\ wire = "unused" /\ waiting = "unused"
  /\ delivered = "unused" /\ failed = "unused" /\ sigs = "unused" /\ obs = "unused"
  /\ cell = "unused" /\ queue = "unused" /\ dirty = "unused" /\ used = "unused"
  /\ reused = "unused" /\ raced = "unused" /\ everFailed = "unused"
  /\ empty = "unused" /\ admitted = "unused" /\ line = "unused"
  /\ holder = "unused" /\ todo = "unused" /\ engine = "unused" /\ jobLog = "unused"
  /\ spoiled = "unused" /\ last_ids = "unused" /\ counts = "unused"
  /\ excuses = "unused" /\ failures = "unused" /\ over = "unused"
  /\ batch = "unused" /\ phases = "unused" /\ at = "unused" /\ model = "unused"
  /\ bg = "unused" /\ smp = "unused" /\ target = "unused" /\ cells = "unused"
  /\ indep = "unused" /\ count = "unused" /\ deps = "unused" /\ ledger = "unused"
  /\ sealed = "unused" /\ blocks = "unused" /\ account = "unused"
  /\ pending = "unused" /\ lane = "unused" /\ gate = "unused" /\ records = "unused"
  /\ nextId = "unused"

PacerIdle == PacerInit /\ interval = 1 /\ now = 0

UnderLoadInit ==
  \/ part = "pacer" /\ PacerInit /\ OnlyPacer
  \/ part = "windows" /\ PacerIdle /\ W!Init /\ OnlyWindows
  \/ part = "lanes" /\ PacerIdle /\ L!Init /\ OnlyLanes
  \/ part = "contention" /\ PacerIdle /\ C!Init /\ OnlyContention
  \/ part = "ledger" /\ PacerIdle /\ G!Init /\ OnlyLedger
  \/ part = "replication" /\ PacerIdle /\ R!Init /\ OnlyReplication

PacerStep == part = "pacer" /\ PacerNext /\ UNCHANGED <<part, noPacer>>
WindowsStep == part = "windows" /\ W!Next /\ UNCHANGED <<part, pacerVars, noWindows>>
LanesStep == part = "lanes" /\ L!Next /\ UNCHANGED <<part, pacerVars, noLanes>>
ContentionStep == part = "contention" /\ C!Next /\ UNCHANGED <<part, pacerVars, noContention>>
LedgerStep == part = "ledger" /\ G!Next /\ UNCHANGED <<part, pacerVars, noLedger>>
ReplicationStep == part = "replication" /\ R!Next /\ UNCHANGED <<part, pacerVars, noReplication>>

UnderLoadSpec ==
  /\ UnderLoadInit
  /\ [][\/ PacerStep \/ WindowsStep \/ LanesStep \/ ContentionStep
        \/ LedgerStep \/ ReplicationStep]_all

-----------------------------------------------------------------------------
\* What a check compares with is right: ids are offered once and stay inside
\* the send clock (measure), each lane's last id and the counts of each mode
\* are those of the jobs admitted (mixed_workload), and a competing account
\* has at most one transaction that was not confirmed (background.rs).
OracleIsExact ==
  /\ part = "windows" => W!FreshIds
  /\ part = "lanes" => L!OracleIsExact
  /\ part = "contention" => C!OneUnconfirmed

\* Against a rollup that keeps its promises no check is missed and no wait ends
\* in an error, but for the reasons each module names (failed sends, a write
\* overtaken by the next window, an interrupted load, a slow verifier).
NoFalseAlarm ==
  /\ part = "windows" => W!NoFalseAlarm
  /\ part = "lanes" => L!NoFalseAlarm
  /\ part = "contention" => C!NoFalseAlarm
  /\ part = "ledger" => G!NoFalseAlarm
  /\ part = "replication" => R!NoFalseAlarm

\* A rollup that loses, tears, reorders or rewrites what the scenario is about
\* does not get past its checks, but for the losses that a module says its
\* scenario does not look for (the ends of a killed rollup's lanes, growths that
\* later ones cover, what differs only after a final cutoff).
DefectCaught ==
  /\ part = "windows" => W!DefectCaught
  /\ part = "lanes" => L!DefectCaught
  /\ part = "contention" => C!DefectCaught
  /\ part = "ledger" => G!DefectCaught
  /\ part = "replication" => R!DefectCaught
=============================================================================
