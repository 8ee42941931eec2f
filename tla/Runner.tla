------------------------------- MODULE Runner -------------------------------
(***************************************************************************)
(* The admission engine of core/src/runner/mod.rs (execute_inner): a       *)
(* single task that admits requests at a pace, keeps at most `concurrency` *)
(* of them in flight, stops admitting on a count, a deadline or a stop     *)
(* signal, and drains what it admitted before it reports a tally.          *)
(*                                                                         *)
(* Time is counted in periods of the 5 s load interval and only as ages,   *)
(* which saturate at Timeout: nothing in the code compares an age with     *)
(* anything larger.  A job is polled only inside the two select! loops, so *)
(* a job's last step and its record are one step of the engine.            *)
(***************************************************************************)
EXTENDS Naturals, FiniteSets

CONSTANTS
  MaxJobs,         \* bound on the requests one behaviour admits
  MaxConcurrency,  \* largest RunConfig.concurrency considered
  Timeout          \* NETWORK_TIMEOUT, in load intervals

ASSUME RunnerAssumption ==
  /\ MaxJobs \in Nat
  /\ MaxConcurrency \in Nat
  /\ Timeout \in Nat \ {0}

VARIABLES
  cfg,        \* RunConfig and Completion; never changes
  pc,         \* control point of execute_inner
  admitted,   \* requests admitted so far
  jobs,       \* FuturesUnordered: ids in flight
  stage,      \* where Job::run stands, per id
  delivered, failed,  \* the tally's counters
  samples,    \* entries of the tally's delivery statistics
  age,        \* time since the id was admitted
  idle,       \* last_completion.elapsed()
  due,        \* the 5 s interval has a tick to hand out
  draining,   \* time since drain_deadline was set
  stalled,    \* the stall verdict
  stop,       \* the watch channel: open, set, or closed by its sender
  expired     \* the deadline has passed

vars == <<cfg, pc, admitted, jobs, stage, delivered, failed, samples, age,
          idle, due, draining, stalled, stop, expired>>

tally == <<delivered, failed, samples>>
clocks == <<age, idle, due, draining>>
signals == <<stop, expired>>

-----------------------------------------------------------------------------
Ids == 1 .. MaxJobs

\* A total no behaviour reaches: Completion::Until counts no iterations.
Unbounded == MaxJobs + 1

\* Completion::Iterations without and with `until`, and Completion::Until
\* with and without a deadline.
Completions ==
  [total : 0 .. MaxJobs, until : {FALSE}, deadline : {FALSE}]
    \cup [total : 0 .. MaxJobs, until : {TRUE}, deadline : {TRUE}]
    \cup [total : {Unbounded}, until : {TRUE}, deadline : BOOLEAN]

RunConfig ==
  [completion : Completions,
   concurrency : 0 .. MaxConcurrency,
   pacing : {"unlimited", "zero", "paced"},
   sync : BOOLEAN]

Aborted == {"panicked", "dropped"}
Terminal == {"ok", "rejected", "undrained", "stalled"} \cup Aborted

Older(a) == IF a < Timeout THEN a + 1 ELSE a

\* Completion::stopped() resolves, and with it the second half of done().
Stopped ==
  /\ cfg.completion.until
  /\ \/ stop # "open"
     \/ cfg.completion.deadline /\ expired

\* Completion::done
Done == admitted >= cfg.completion.total \/ Stopped

-----------------------------------------------------------------------------
Init ==
  /\ cfg \in RunConfig
  /\ pc = "start"
  /\ admitted = 0
  /\ jobs = {}
  /\ stage = [j \in Ids |-> "request"]
  /\ delivered = 0 /\ failed = 0 /\ samples = 0
  /\ age = [j \in Ids |-> 0]
  /\ idle = 0
  /\ due = FALSE
  /\ draining = 0
  /\ stalled = FALSE
  /\ stop = "open"
  /\ expired = FALSE

\* The two configuration errors, then the state before the first iteration.
Start ==
  /\ pc = "start"
  /\ pc' = IF cfg.concurrency = 0 \/ cfg.pacing = "zero"
           THEN "rejected" ELSE "check"
  /\ UNCHANGED <<cfg, admitted, jobs, stage, tally, clocks, stalled, signals>>

BeginDrain ==
  /\ pc' = "drain"
  /\ draining' = 0

\* The head of the 'admit loop.
Check ==
  /\ pc = "check"
  /\ \/ Done /\ BeginDrain
     \/ ~Done /\ pc' = "select" /\ UNCHANGED draining
  /\ UNCHANGED <<cfg, admitted, jobs, stage, tally, age, idle, due, stalled,
                 signals>>

SelectStopped ==
  /\ pc = "select"
  /\ Stopped
  /\ BeginDrain
  /\ UNCHANGED <<cfg, admitted, jobs, stage, tally, age, idle, due, stalled,
                 signals>>

\* Mutant: the load interval only reports.
IntervalWithoutStall ==
  /\ pc = "select" /\ due /\ due' = FALSE
  /\ UNCHANGED <<cfg, pc, admitted, jobs, stage, tally, age, idle, draining,
                 stalled, signals>>

\* The 5 s tick reports the window and looks for a stall.
Interval ==
  /\ pc = "select"
  /\ due
  /\ due' = FALSE
  /\ \/ /\ jobs # {} /\ idle >= Timeout
        /\ stalled' = TRUE
        /\ BeginDrain
     \/ /\ ~(jobs # {} /\ idle >= Timeout)
        /\ UNCHANGED <<stalled, pc, draining>>
  /\ UNCHANGED <<cfg, admitted, jobs, stage, tally, age, idle, signals>>

\* The pacer is ready and there is room: leave the inner loop.
PacerReady ==
  /\ pc = "select"
  /\ admitted < MaxJobs          \* bound
  /\ Cardinality(jobs) < cfg.concurrency
  /\ pc' = "recheck"
  /\ UNCHANGED <<cfg, admitted, jobs, stage, tally, clocks, stalled, signals>>

AdmitUnchecked ==
  /\ pc = "recheck"
  /\ admitted' = admitted + 1
  /\ idle' = IF jobs = {} THEN 0 ELSE idle
  /\ jobs' = jobs \cup {admitted + 1}
  /\ age' = [age EXCEPT ![admitted + 1] = 0]
  /\ pc' = "check"
  /\ UNCHANGED <<cfg, stage, tally, due, draining, stalled, signals>>

AdmitKeepsIdle ==
  /\ pc = "recheck" /\ ~Done
  /\ admitted' = admitted + 1
  /\ jobs' = jobs \cup {admitted + 1}
  /\ age' = [age EXCEPT ![admitted + 1] = 0]
  /\ pc' = "check"
  /\ UNCHANGED <<cfg, stage, tally, idle, due, draining, stalled, signals>>

\* done() again, then the admission itself.
Admit ==
  /\ pc = "recheck"
  /\ ~Done
  /\ admitted' = admitted + 1
  /\ idle' = IF jobs = {} THEN 0 ELSE idle
  /\ jobs' = jobs \cup {admitted + 1}
  /\ age' = [age EXCEPT ![admitted + 1] = 0]
  /\ pc' = "check"
  /\ UNCHANGED <<cfg, stage, tally, due, draining, stalled, signals>>

RecheckDone ==
  /\ pc = "recheck"
  /\ Done
  /\ BeginDrain
  /\ UNCHANGED <<cfg, admitted, jobs, stage, tally, age, idle, due, stalled,
                 signals>>

\* Job::run moves past its request, or past its delivery towards its sync.
JobAdvances(j) ==
  /\ pc \in {"select", "drain"}
  /\ \/ stage[j] = "request" /\ stage' = [stage EXCEPT ![j] = "deliver"]
     \/ /\ stage[j] = "deliver" /\ cfg.sync
        /\ stage' = [stage EXCEPT ![j] = "sync"]
  /\ UNCHANGED <<cfg, pc, admitted, jobs, tally, clocks, stalled, signals>>

\* RawRunOutcome::record for a job whose delivery was or was not measured.
Record(success, measured) ==
  /\ delivered' = delivered + (IF success THEN 1 ELSE 0)
  /\ failed' = failed + (IF success THEN 0 ELSE 1)
  /\ samples' = samples + (IF measured THEN 1 ELSE 0)

\* A job returns; only the admission loop refreshes last_completion.
JobCompletes(j) ==
  /\ pc \in {"select", "drain"}
  /\ \/ stage[j] = (IF cfg.sync THEN "sync" ELSE "deliver") /\ Record(TRUE, TRUE)
     \/ Record(FALSE, stage[j] = "sync")
  /\ jobs' = jobs \ {j}
  /\ idle' = IF pc = "select" THEN 0 ELSE idle
  /\ UNCHANGED <<cfg, pc, admitted, stage, age, due, draining, stalled, signals>>

DrainForgetsStall ==
  /\ pc = "drain" /\ jobs = {}
  /\ pc' = "ok"
  /\ UNCHANGED <<cfg, admitted, jobs, stage, tally, clocks, stalled, signals>>

DrainEnds ==
  /\ pc = "drain"
  /\ jobs = {}
  /\ pc' = IF stalled THEN "stalled" ELSE "ok"
  /\ UNCHANGED <<cfg, admitted, jobs, stage, tally, clocks, stalled, signals>>

DrainTimesOut ==
  /\ pc = "drain"
  /\ jobs # {}
  /\ draining >= Timeout
  /\ pc' = "undrained"
  /\ UNCHANGED <<cfg, admitted, jobs, stage, tally, clocks, stalled, signals>>

\* A panic in a job or in the request closure unwinds through the engine; the
\* caller may drop the future at any await.  Either way the jobs are dropped.
Abort ==
  /\ \/ /\ \/ pc \in {"select", "drain"} /\ jobs # {}
           \/ pc = "recheck" /\ ~Done
        /\ pc' = "panicked"
     \/ /\ pc \in {"check", "select", "drain"}
        /\ pc' = "dropped"
  /\ jobs' = {}
  /\ UNCHANGED <<cfg, admitted, stage, tally, clocks, stalled, signals>>

-----------------------------------------------------------------------------
\* The environment: time passes, the caller signals or drops its sender.
Clock ==
  /\ pc \in {"select", "drain"}
  /\ age' = [j \in Ids |-> IF j \in jobs THEN Older(age[j]) ELSE age[j]]
  /\ idle' = Older(idle)
  /\ due' = TRUE
  /\ draining' = IF pc = "drain" THEN Older(draining) ELSE draining
  /\ UNCHANGED <<cfg, pc, admitted, jobs, stage, tally, stalled, signals>>

Signal ==
  /\ cfg.completion.until
  /\ pc \notin Terminal
  /\ \/ /\ stop = "open" /\ stop' \in {"set", "closed"}
        /\ UNCHANGED expired
     \/ /\ cfg.completion.deadline /\ ~expired /\ expired' = TRUE
        /\ UNCHANGED stop
  /\ UNCHANGED <<cfg, pc, admitted, jobs, stage, tally, clocks, stalled>>

Engine ==
  \/ Start \/ Check \/ SelectStopped \/ Interval \/ PacerReady
  \/ Admit \/ RecheckDone \/ DrainEnds \/ DrainTimesOut

Next ==
  \/ Engine
  \/ \E j \in jobs : JobAdvances(j) \/ JobCompletes(j)
  \/ Abort
  \/ Clock
  \/ Signal

Spec == Init /\ [][Next]_vars

(***************************************************************************)
(* The engine's own steps are owed by the executor, one by one: the select *)
(* is biased with the stop branch first, the interval skips missed ticks   *)
(* but hands one out, and the clock runs.  Nothing is owed by the network. *)
(***************************************************************************)
Fairness ==
  /\ WF_vars(Start) /\ WF_vars(Check)
  /\ WF_vars(SelectStopped) /\ WF_vars(Interval) /\ WF_vars(PacerReady)
  /\ WF_vars(Admit) /\ WF_vars(RecheckDone)
  /\ WF_vars(DrainEnds) /\ WF_vars(DrainTimesOut)
  /\ WF_vars(Clock)

FairSpec == Spec /\ Fairness

-----------------------------------------------------------------------------
\* Type invariant of the engine's state.
TypeOK ==
  /\ cfg \in RunConfig
  /\ pc \in {"start", "check", "select", "recheck", "drain"} \cup Terminal
  /\ admitted \in 0 .. MaxJobs
  /\ jobs \subseteq 1 .. admitted
  /\ stage \in [Ids -> {"request", "deliver", "sync"}]
  /\ delivered \in Nat /\ failed \in Nat /\ samples \in Nat
  /\ age \in [Ids -> 0 .. Timeout]
  /\ idle \in 0 .. Timeout
  /\ due \in BOOLEAN
  /\ draining \in 0 .. Timeout
  /\ stalled \in BOOLEAN
  /\ stop \in {"open", "set", "closed"}
  /\ expired \in BOOLEAN

\* Never more requests in flight than the configured concurrency: the room
\* tested by the pacer branch is still there when the request is pushed.
ConcurrencyBound == Cardinality(jobs) <= cfg.concurrency

\* Until a panic or a drop, every admitted request is in flight or counted
\* exactly once, whatever order jobs return in and whichever loop records them.
Conservation ==
  pc \notin Aborted => admitted = delivered + failed + Cardinality(jobs)

\* RunOutcome.failed: "Together with `delivered`, this gives the admitted
\* count."  An Ok outcome has lost no request and timed every delivered one.
OutcomeAccountsForAdmissions ==
  pc = "ok" =>
    /\ admitted = delivered + failed
    /\ delivered <= samples /\ samples <= admitted

\* A run that nobody stopped reports Ok only after all its iterations.
OkMeansAllIterations ==
  pc = "ok" /\ ~Stopped => admitted = cfg.completion.total

\* A stop signal, a closed channel or the deadline ends admission at once,
\* also when it arrives between the pacer's tick and the admission.
NoAdmissionOnceStopped == [][Stopped => admitted' = admitted]_vars

\* The stall verdict is never given about a fresh burst: some request has then
\* been outstanding for the whole network timeout.
StallIsReal ==
  [][~stalled /\ stalled' => \E j \in jobs : age[j] >= Timeout]_vars

\* "did not drain" is never said of a request younger than the timeout.
AbandonedOnlyWhenOld ==
  pc = "undrained" => jobs # {} /\ \A j \in jobs : age[j] >= Timeout

\* A counted run always ends, and any run ends once it is stopped, even when
\* the network never answers again.
EventuallyEnds ==
  (cfg.completion.total <= MaxJobs \/ Stopped) ~> (pc \in Terminal)
=============================================================================
