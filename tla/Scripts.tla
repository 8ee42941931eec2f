------------------------------ MODULE Scripts -------------------------------
(***************************************************************************)
(* The redshift scenarios that drive the chains step by step, on an        *)
(* instance: settlement of intents between two rollups, intent accounting, *)
(* activation with post-delegation actions, mirroring and materialisation, *)
(* scheduled tasks, program upgrades, the cache lifecycle, the submission  *)
(* of transactions, and projected tokens.  `part` says what a behaviour is *)
(* of.  Parts share variables of the same name; a variable its part does   *)
(* not have is unused.                                                     *)
(***************************************************************************)
EXTENDS Integers

CONSTANTS A, B  \* the validators of two rollups

VARIABLES
  part,
  base, er, intents, history, trap, sequence, hush, blind, large, deaf, flaw,
  harmed, script, pc, verdict, noted, at, expected, before, onBase, onEr, money,
  intent, cell, target, dep, stir, risk, dest, owned, asked, baseline, tasks,
  orders, refunds, warm, sponsor, memo, phase, due, done, call, step, hot, cold,
  cells, fault, mode, local, live, program, evicted, subs, rules, progress,
  recovery, raced, wire, answer, queue, known, fresh, ledger, funds, listener, ata,
  eata, lent, outer, vault, unseen, trigger, commit, flight

S == INSTANCE Settlement
Q == INSTANCE Accounting WITH SponsoredLimit <- 5, PaidLimit <- 2
D == INSTANCE Activation
M == INSTANCE Mirror WITH SignatureWindow <- 4, MaxOther <- 2
T == INSTANCE Tasks
U == INSTANCE Upgrade WITH
  Warm <- 3, Unaware <- 2, Converged <- 2, FailEvery <- 2, Ids <- 4
C == INSTANCE Cache
P == INSTANCE Submission WITH Rounds <- 4, Copies <- 3
K == INSTANCE Tokens

ASSUME M!MirrorBounds /\ U!UpgradeBounds /\ P!SubmissionBounds

-----------------------------------------------------------------------------
\* For each part, the variables it does not have.
noSettlement == <<at, expected, before, onBase, onEr, money, intent, cell, target,
                  dep, stir, risk, dest, owned, asked, baseline, tasks, orders,
                  refunds, warm, sponsor, memo, phase, due, done, call, step, hot,
                  cold, cells, fault, mode, local, live, program, evicted, subs,
                  rules, progress, recovery, raced, wire, answer, queue, known,
                  fresh, ledger, funds, listener, ata, eata, lent, outer, vault,
                  unseen, trigger, commit, flight>>
noAccounting == <<base, er, intents, history, trap, sequence, hush, blind, large,
                  deaf, script, pc, noted, cell, target, dep, stir, risk, dest,
                  owned, asked, baseline, tasks, orders, refunds, warm, sponsor,
                  memo, phase, due, done, call, step, hot, cold, cells, fault, mode,
                  local, live, program, evicted, subs, rules, progress, recovery,
                  raced, wire, answer, queue, known, fresh, ledger, funds, listener,
                  ata, eata, lent, outer, vault, unseen, trigger, commit, flight>>
noActivation == <<base, er, intents, history, trap, sequence, hush, blind, large,
                  deaf, noted, at, expected, onBase, onEr, money, intent, owned,
                  asked, baseline, tasks, orders, refunds, warm, sponsor, memo,
                  phase, due, done, call, step, hot, cold, cells, fault, mode,
                  local, live, program, evicted, subs, rules, progress, recovery,
                  raced, wire, answer, queue, known, fresh, ledger, funds, listener,
                  ata, eata, lent, outer, vault, unseen, trigger, commit, flight>>
noMirror == <<intents, trap, sequence, hush, blind, large, deaf, noted, at,
              expected, before, onBase, onEr, money, intent, cell, target, dep,
              stir, risk, dest, tasks, orders, refunds, warm, sponsor, memo, phase,
              due, done, call, step, hot, cold, cells, fault, mode, local, live,
              program, evicted, subs, rules, progress, recovery, raced, wire,
              answer, queue, known, fresh, ledger, funds, listener, ata, eata, lent,
              outer, vault, unseen, trigger, commit, flight>>
noTasks == <<base, er, intents, history, trap, sequence, hush, blind, large, deaf,
             script, noted, at, expected, before, onBase, onEr, money, intent,
             target, dep, stir, risk, dest, owned, asked, baseline, phase, due,
             done, call, step, hot, cold, cells, fault, mode, local, live, program,
             evicted, subs, rules, progress, recovery, raced, wire, answer, queue,
             known, fresh, ledger, funds, listener, ata, eata, lent, outer, vault,
             unseen, trigger, commit, flight>>
noUpgrade == <<er, intents, history, trap, sequence, hush, blind, large, deaf,
               script, pc, noted, at, before, onBase, onEr, money, intent, cell,
               target, dep, stir, risk, dest, owned, asked, baseline, tasks, orders,
               refunds, warm, sponsor, memo, mode, local, live, program, evicted,
               subs, rules, progress, recovery, raced, wire, answer, queue, known,
               fresh, ledger, funds, listener, ata, eata, lent, outer, vault,
               unseen, trigger, commit, flight>>
noCache == <<er, intents, history, trap, sequence, hush, blind, large, deaf, script,
             noted, at, before, onBase, onEr, money, intent, cell, target, dep,
             stir, risk, dest, owned, asked, baseline, tasks, orders, refunds, warm,
             sponsor, memo, phase, due, done, step, hot, cold, cells, fault, wire,
             answer, queue, known, fresh, ledger, funds, listener, ata, eata, lent,
             outer, vault, unseen, trigger, commit, flight>>
noSubmission == <<base, er, intents, history, trap, sequence, hush, blind, large,
                  deaf, noted, at, expected, before, onBase, onEr, money, intent,
                  cell, target, dep, stir, risk, dest, owned, asked, baseline,
                  tasks, orders, refunds, warm, sponsor, phase, due, done, call,
                  step, hot, cells, fault, mode, local, live, program, evicted,
                  subs, rules, progress, recovery, raced, ata, eata, lent, outer,
                  vault, unseen, trigger, commit, flight>>
noTokens == <<base, er, intents, history, trap, sequence, blind, large, deaf, noted,
              at, expected, before, onBase, onEr, money, intent, cell, target, dep,
              stir, risk, dest, owned, asked, baseline, tasks, orders, refunds,
              warm, sponsor, phase, due, done, call, step, hot, cold, cells, fault,
              mode, live, program, evicted, subs, rules, progress, recovery, raced,
              wire, answer, queue, known, fresh, ledger, funds, listener>>
all == <<part, base, er, intents, history, trap, sequence, hush, blind, large, deaf,
               flaw, harmed, script, pc, verdict, noted, at, expected, before,
               onBase, onEr, money, intent, cell, target, dep, stir, risk, dest,
               owned, asked, baseline, tasks, orders, refunds, warm, sponsor, memo,
               phase, due, done, call, step, hot, cold, cells, fault, mode, local,
               live, program, evicted, subs, rules, progress, recovery, raced, wire,
               answer, queue, known, fresh, ledger, funds, listener, ata, eata,
               lent, outer, vault, unseen, trigger, commit, flight>>

OnlySettlement ==
  /\ at = "unused" /\ expected = "unused" /\ before = "unused" /\ onBase = "unused"
  /\ onEr = "unused" /\ money = "unused" /\ intent = "unused" /\ cell = "unused"
  /\ target = "unused" /\ dep = "unused" /\ stir = "unused" /\ risk = "unused"
  /\ dest = "unused" /\ owned = "unused" /\ asked = "unused" /\ baseline = "unused"
  /\ tasks = "unused" /\ orders = "unused" /\ refunds = "unused" /\ warm = "unused"
  /\ sponsor = "unused" /\ memo = "unused" /\ phase = "unused" /\ due = "unused"
  /\ done = "unused" /\ call = "unused" /\ step = "unused" /\ hot = "unused"
  /\ cold = "unused" /\ cells = "unused" /\ fault = "unused" /\ mode = "unused"
  /\ local = "unused" /\ live = "unused" /\ program = "unused"
  /\ evicted = "unused" /\ subs = "unused" /\ rules = "unused"
  /\ progress = "unused" /\ recovery = "unused" /\ raced = "unused"
  /\ wire = "unused" /\ answer = "unused" /\ queue = "unused" /\ known = "unused"
  /\ fresh = "unused" /\ ledger = "unused" /\ funds = "unused"
  /\ listener = "unused" /\ ata = "unused" /\ eata = "unused" /\ lent = "unused"
  /\ outer = "unused" /\ vault = "unused" /\ unseen = "unused"
  /\ trigger = "unused" /\ commit = "unused" /\ flight = "unused"

OnlyAccounting ==
  /\ base = "unused" /\ er = "unused" /\ intents = "unused" /\ history = "unused"
  /\ trap = "unused" /\ sequence = "unused" /\ hush = "unused" /\ blind = "unused"
  /\ large = "unused" /\ deaf = "unused" /\ script = "unused" /\ pc = "unused"
  /\ noted = "unused" /\ cell = "unused" /\ target = "unused" /\ dep = "unused"
  /\ stir = "unused" /\ risk = "unused" /\ dest = "unused" /\ owned = "unused"
  /\ asked = "unused" /\ baseline = "unused" /\ tasks = "unused"
  /\ orders = "unused" /\ refunds = "unused" /\ warm = "unused"
  /\ sponsor = "unused" /\ memo = "unused" /\ phase = "unused" /\ due = "unused"
  /\ done = "unused" /\ call = "unused" /\ step = "unused" /\ hot = "unused"
  /\ cold = "unused" /\ cells = "unused" /\ fault = "unused" /\ mode = "unused"
  /\ local = "unused" /\ live = "unused" /\ program = "unused"
  /\ evicted = "unused" /\ subs = "unused" /\ rules = "unused"
  /\ progress = "unused" /\ recovery = "unused" /\ raced = "unused"
  /\ wire = "unused" /\ answer = "unused" /\ queue = "unused" /\ known = "unused"
  /\ fresh = "unused" /\ ledger = "unused" /\ funds = "unused"
  /\ listener = "unused" /\ ata = "unused" /\ eata = "unused" /\ lent = "unused"
  /\ outer = "unused" /\ vault = "unused" /\ unseen = "unused"
  /\ trigger = "unused" /\ commit = "unused" /\ flight = "unused"

OnlyActivation ==
  /\ base = "unused" /\ er = "unused" /\ intents = "unused" /\ history = "unused"
  /\ trap = "unused" /\ sequence = "unused" /\ hush = "unused" /\ blind = "unused"
  /\ large = "unused" /\ deaf = "unused" /\ noted = "unused" /\ at = "unused"
  /\ expected = "unused" /\ onBase = "unused" /\ onEr = "unused"
  /\ money = "unused" /\ intent = "unused" /\ owned = "unused" /\ asked = "unused"
  /\ baseline = "unused" /\ tasks = "unused" /\ orders = "unused"
  /\ refunds = "unused" /\ warm = "unused" /\ sponsor = "unused" /\ memo = "unused"
  /\ phase = "unused" /\ due = "unused" /\ done = "unused" /\ call = "unused"
  /\ step = "unused" /\ hot = "unused" /\ cold = "unused" /\ cells = "unused"
  /\ fault = "unused" /\ mode = "unused" /\ local = "unused" /\ live = "unused"
  /\ program = "unused" /\ evicted = "unused" /\ subs = "unused"
  /\ rules = "unused" /\ progress = "unused" /\ recovery = "unused"
  /\ raced = "unused" /\ wire = "unused" /\ answer = "unused" /\ queue = "unused"
  /\ known = "unused" /\ fresh = "unused" /\ ledger = "unused" /\ funds = "unused"
  /\ listener = "unused" /\ ata = "unused" /\ eata = "unused" /\ lent = "unused"
  /\ outer = "unused" /\ vault = "unused" /\ unseen = "unused"
  /\ trigger = "unused" /\ commit = "unused" /\ flight = "unused"

OnlyMirror ==
  /\ intents = "unused" /\ trap = "unused" /\ sequence = "unused"
  /\ hush = "unused" /\ blind = "unused" /\ large = "unused" /\ deaf = "unused"
  /\ noted = "unused" /\ at = "unused" /\ expected = "unused" /\ before = "unused"
  /\ onBase = "unused" /\ onEr = "unused" /\ money = "unused" /\ intent = "unused"
  /\ cell = "unused" /\ target = "unused" /\ dep = "unused" /\ stir = "unused"
  /\ risk = "unused" /\ dest = "unused" /\ tasks = "unused" /\ orders = "unused"
  /\ refunds = "unused" /\ warm = "unused" /\ sponsor = "unused" /\ memo = "unused"
  /\ phase = "unused" /\ due = "unused" /\ done = "unused" /\ call = "unused"
  /\ step = "unused" /\ hot = "unused" /\ cold = "unused" /\ cells = "unused"
  /\ fault = "unused" /\ mode = "unused" /\ local = "unused" /\ live = "unused"
  /\ program = "unused" /\ evicted = "unused" /\ subs = "unused"
  /\ rules = "unused" /\ progress = "unused" /\ recovery = "unused"
  /\ raced = "unused" /\ wire = "unused" /\ answer = "unused" /\ queue = "unused"
  /\ known = "unused" /\ fresh = "unused" /\ ledger = "unused" /\ funds = "unused"
  /\ listener = "unused" /\ ata = "unused" /\ eata = "unused" /\ lent = "unused"
  /\ outer = "unused" /\ vault = "unused" /\ unseen = "unused"
  /\ trigger = "unused" /\ commit = "unused" /\ flight = "unused"

OnlyTasks ==
  /\ base = "unused" /\ er = "unused" /\ intents = "unused" /\ history = "unused"
  /\ trap = "unused" /\ sequence = "unused" /\ hush = "unused" /\ blind = "unused"
  /\ large = "unused" /\ deaf = "unused" /\ script = "unused" /\ noted = "unused"
  /\ at = "unused" /\ expected = "unused" /\ before = "unused" /\ onBase = "unused"
  /\ onEr = "unused" /\ money = "unused" /\ intent = "unused" /\ target = "unused"
  /\ dep = "unused" /\ stir = "unused" /\ risk = "unused" /\ dest = "unused"
  /\ owned = "unused" /\ asked = "unused" /\ baseline = "unused"
  /\ phase = "unused" /\ due = "unused" /\ done = "unused" /\ call = "unused"
  /\ step = "unused" /\ hot = "unused" /\ cold = "unused" /\ cells = "unused"
  /\ fault = "unused" /\ mode = "unused" /\ local = "unused" /\ live = "unused"
  /\ program = "unused" /\ evicted = "unused" /\ subs = "unused"
  /\ rules = "unused" /\ progress = "unused" /\ recovery = "unused"
  /\ raced = "unused" /\ wire = "unused" /\ answer = "unused" /\ queue = "unused"
  /\ known = "unused" /\ fresh = "unused" /\ ledger = "unused" /\ funds = "unused"
  /\ listener = "unused" /\ ata = "unused" /\ eata = "unused" /\ lent = "unused"
  /\ outer = "unused" /\ vault = "unused" /\ unseen = "unused"
  /\ trigger = "unused" /\ commit = "unused" /\ flight = "unused"

OnlyUpgrade ==
  /\ er = "unused" /\ intents = "unused" /\ history = "unused" /\ trap = "unused"
  /\ sequence = "unused" /\ hush = "unused" /\ blind = "unused" /\ large = "unused"
  /\ deaf = "unused" /\ script = "unused" /\ pc = "unused" /\ noted = "unused"
  /\ at = "unused" /\ before = "unused" /\ onBase = "unused" /\ onEr = "unused"
  /\ money = "unused" /\ intent = "unused" /\ cell = "unused" /\ target = "unused"
  /\ dep = "unused" /\ stir = "unused" /\ risk = "unused" /\ dest = "unused"
  /\ owned = "unused" /\ asked = "unused" /\ baseline = "unused"
  /\ tasks = "unused" /\ orders = "unused" /\ refunds = "unused" /\ warm = "unused"
  /\ sponsor = "unused" /\ memo = "unused" /\ mode = "unused" /\ local = "unused"
  /\ live = "unused" /\ program = "unused" /\ evicted = "unused" /\ subs = "unused"
  /\ rules = "unused" /\ progress = "unused" /\ recovery = "unused"
  /\ raced = "unused" /\ wire = "unused" /\ answer = "unused" /\ queue = "unused"
  /\ known = "unused" /\ fresh = "unused" /\ ledger = "unused" /\ funds = "unused"
  /\ listener = "unused" /\ ata = "unused" /\ eata = "unused" /\ lent = "unused"
  /\ outer = "unused" /\ vault = "unused" /\ unseen = "unused"
  /\ trigger = "unused" /\ commit = "unused" /\ flight = "unused"

OnlyCache ==
  /\ er = "unused" /\ intents = "unused" /\ history = "unused" /\ trap = "unused"
  /\ sequence = "unused" /\ hush = "unused" /\ blind = "unused" /\ large = "unused"
  /\ deaf = "unused" /\ script = "unused" /\ noted = "unused" /\ at = "unused"
  /\ before = "unused" /\ onBase = "unused" /\ onEr = "unused" /\ money = "unused"
  /\ intent = "unused" /\ cell = "unused" /\ target = "unused" /\ dep = "unused"
  /\ stir = "unused" /\ risk = "unused" /\ dest = "unused" /\ owned = "unused"
  /\ asked = "unused" /\ baseline = "unused" /\ tasks = "unused"
  /\ orders = "unused" /\ refunds = "unused" /\ warm = "unused"
  /\ sponsor = "unused" /\ memo = "unused" /\ phase = "unused" /\ due = "unused"
  /\ done = "unused" /\ step = "unused" /\ hot = "unused" /\ cold = "unused"
  /\ cells = "unused" /\ fault = "unused" /\ wire = "unused" /\ answer = "unused"
  /\ queue = "unused" /\ known = "unused" /\ fresh = "unused" /\ ledger = "unused"
  /\ funds = "unused" /\ listener = "unused" /\ ata = "unused" /\ eata = "unused"
  /\ lent = "unused" /\ outer = "unused" /\ vault = "unused" /\ unseen = "unused"
  /\ trigger = "unused" /\ commit = "unused" /\ flight = "unused"

OnlySubmission ==
  /\ base = "unused" /\ er = "unused" /\ intents = "unused" /\ history = "unused"
  /\ trap = "unused" /\ sequence = "unused" /\ hush = "unused" /\ blind = "unused"
  /\ large = "unused" /\ deaf = "unused" /\ noted = "unused" /\ at = "unused"
  /\ expected = "unused" /\ before = "unused" /\ onBase = "unused"
  /\ onEr = "unused" /\ money = "unused" /\ intent = "unused" /\ cell = "unused"
  /\ target = "unused" /\ dep = "unused" /\ stir = "unused" /\ risk = "unused"
  /\ dest = "unused" /\ owned = "unused" /\ asked = "unused" /\ baseline = "unused"
  /\ tasks = "unused" /\ orders = "unused" /\ refunds = "unused" /\ warm = "unused"
  /\ sponsor = "unused" /\ phase = "unused" /\ due = "unused" /\ done = "unused"
  /\ call = "unused" /\ step = "unused" /\ hot = "unused" /\ cells = "unused"
  /\ fault = "unused" /\ mode = "unused" /\ local = "unused" /\ live = "unused"
  /\ program = "unused" /\ evicted = "unused" /\ subs = "unused"
  /\ rules = "unused" /\ progress = "unused" /\ recovery = "unused"
  /\ raced = "unused" /\ ata = "unused" /\ eata = "unused" /\ lent = "unused"
  /\ outer = "unused" /\ vault = "unused" /\ unseen = "unused"
  /\ trigger = "unused" /\ commit = "unused" /\ flight = "unused"

OnlyTokens ==
  /\ base = "unused" /\ er = "unused" /\ intents = "unused" /\ history = "unused"
  /\ trap = "unused" /\ sequence = "unused" /\ blind = "unused" /\ large = "unused"
  /\ deaf = "unused" /\ noted = "unused" /\ at = "unused" /\ expected = "unused"
  /\ before = "unused" /\ onBase = "unused" /\ onEr = "unused" /\ money = "unused"
  /\ intent = "unused" /\ cell = "unused" /\ target = "unused" /\ dep = "unused"
  /\ stir = "unused" /\ risk = "unused" /\ dest = "unused" /\ owned = "unused"
  /\ asked = "unused" /\ baseline = "unused" /\ tasks = "unused"
  /\ orders = "unused" /\ refunds = "unused" /\ warm = "unused"
  /\ sponsor = "unused" /\ phase = "unused" /\ due = "unused" /\ done = "unused"
  /\ call = "unused" /\ step = "unused" /\ hot = "unused" /\ cold = "unused"
  /\ cells = "unused" /\ fault = "unused" /\ mode = "unused" /\ live = "unused"
  /\ program = "unused" /\ evicted = "unused" /\ subs = "unused"
  /\ rules = "unused" /\ progress = "unused" /\ recovery = "unused"
  /\ raced = "unused" /\ wire = "unused" /\ answer = "unused" /\ queue = "unused"
  /\ known = "unused" /\ fresh = "unused" /\ ledger = "unused" /\ funds = "unused"
  /\ listener = "unused"

Init ==
  \/ part = "settlement" /\ S!Init /\ OnlySettlement
  \/ part = "accounting" /\ Q!Init /\ OnlyAccounting
  \/ part = "activation" /\ D!Init /\ OnlyActivation
  \/ part = "mirror" /\ M!Init /\ OnlyMirror
  \/ part = "tasks" /\ T!Init /\ OnlyTasks
  \/ part = "upgrade" /\ U!Init /\ OnlyUpgrade
  \/ part = "cache" /\ C!Init /\ OnlyCache
  \/ part = "submission" /\ P!Init /\ OnlySubmission
  \/ part = "tokens" /\ K!Init /\ OnlyTokens

SettlementStep == part = "settlement" /\ S!Next /\ UNCHANGED <<part, noSettlement>>
AccountingStep == part = "accounting" /\ Q!Next /\ UNCHANGED <<part, noAccounting>>
ActivationStep == part = "activation" /\ D!Next /\ UNCHANGED <<part, noActivation>>
MirrorStep == part = "mirror" /\ M!Next /\ UNCHANGED <<part, noMirror>>
TasksStep == part = "tasks" /\ T!Next /\ UNCHANGED <<part, noTasks>>
UpgradeStep == part = "upgrade" /\ U!Next /\ UNCHANGED <<part, noUpgrade>>
CacheStep == part = "cache" /\ C!Next /\ UNCHANGED <<part, noCache>>
SubmissionStep == part = "submission" /\ P!Next /\ UNCHANGED <<part, noSubmission>>
TokensStep == part = "tokens" /\ K!Next /\ UNCHANGED <<part, noTokens>>

Next ==
  \/ SettlementStep \/ AccountingStep \/ ActivationStep \/ MirrorStep
  \/ TasksStep \/ UpgradeStep \/ CacheStep \/ SubmissionStep \/ TokensStep

Upgrades == part = "upgrade" /\ verdict = "good" /\ UNCHANGED <<part, noUpgrade>>
Caches == part = "cache" /\ verdict = "good" /\ UNCHANGED <<part, noCache>>
Submits ==
  part = "submission" /\ verdict = "good" /\ ~P!Passed /\ UNCHANGED <<part, noSubmission>>
Projects == part = "tokens" /\ verdict = "good" /\ ~K!Passed /\ UNCHANGED <<part, noTokens>>
Schedules == part = "tasks" /\ verdict = "good" /\ ~T!Passed /\ UNCHANGED <<part, noTasks>>

\* The fairness of each module: the script goes on, the chains answer, and so
\* do the processes that run beside a script.
Fairness ==
  /\ WF_all(SettlementStep \/ AccountingStep \/ ActivationStep \/ MirrorStep)
  /\ WF_all(Schedules /\ T!Rollup) /\ WF_all(Schedules /\ T!Script /\ UNCHANGED flaw)
  /\ WF_all(Upgrades /\ U!Traffic) /\ WF_all(Upgrades /\ U!Upgrader)
  /\ WF_all(Upgrades /\ (U!Refuse \/ U!Abort \/ U!Execute))
  /\ WF_all(Upgrades /\ (U!Hear \/ U!Reload)) /\ WF_all(Upgrades /\ U!ColdFetch)
  /\ WF_all(Caches /\ C!Script) /\ WF_all(Caches /\ (C!Traffic \/ C!Execute))
  /\ \A k \in C!Keys : WF_all(Caches /\ (C!Notify(k) \/ (C!Reading(k) /\ C!Fetch(k))))
  /\ WF_all(Submits /\ P!Rollup) /\ WF_all(Submits /\ P!Script)
  /\ WF_all(Projects /\ K!Chains) /\ WF_all(Projects /\ K!Script)
  /\ WF_all(Caches /\ (C!Complete \/ C!SettleOnBase))

Spec == Init /\ [][Next]_all /\ Fairness

-----------------------------------------------------------------------------
\* Chains that behave do not fail a scenario, in whatever order their answers,
\* notifications and settlements come; the exceptions are those the modules
\* name (a duplicate refused where the script tolerates it, a race of the
\* cache's gap mode with its own traffic, a subscription mode that has not met
\* what it is for).
NoFalseAlarm ==
  CASE part = "settlement" -> S!NoFalseAlarm
    [] part = "accounting" -> Q!NoFalseAlarm
    [] part = "activation" -> D!NoFalseAlarm
    [] part = "mirror"     -> M!NoFalseAlarm
    [] part = "tasks"      -> T!NoFalseAlarm
    [] part = "upgrade"    -> U!NoFalseAlarm
    [] part = "cache"      -> C!NoFalseAlarm
    [] part = "submission" -> P!NoFalseAlarm
    [] part = "tokens"     -> K!NoFalseAlarm

\* Chains that misbehave in a way a scenario is about are not passed by it,
\* whenever it happens.
DefectCaught ==
  CASE part = "settlement" -> S!DefectCaught
    [] part = "accounting" -> Q!DefectCaught
    [] part = "activation" -> D!DefectCaught
    [] part = "mirror"     -> M!DefectCaught
    [] part = "tasks"      -> T!DefectCaught
    [] part = "upgrade"    -> U!DefectCaught
    [] part = "cache"      -> C!DefectCaught
    [] part = "submission" -> P!DefectCaught
    [] part = "tokens"     -> K!DefectCaught

Passed ==
  CASE part = "settlement" -> S!Passed
    [] part = "accounting" -> Q!Passed
    [] part = "activation" -> D!Passed
    [] part = "mirror"     -> M!Passed
    [] part = "tasks"      -> T!Passed
    [] part = "upgrade"    -> U!Passed
    [] part = "cache"      -> C!Passed \/ raced
    [] part = "submission" -> P!Passed \/ (verdict = "failed" /\ P!Unwitnessed)
    [] part = "tokens"     -> K!Passed

\* On chains that behave every script comes to its end: no wait of it is for
\* something that has already happened or never does.
ScriptsPass == flaw = "none" => <>Passed
=============================================================================
