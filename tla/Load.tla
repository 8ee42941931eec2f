-------------------------------- MODULE Load --------------------------------
(***************************************************************************)
(* The two layers of the load generator on an instance: the admission      *)
(* engine (Runner) and the threads that run one engine each (Workers).     *)
(* `layer` says which of them a behaviour is of.                           *)
(***************************************************************************)
EXTENDS Runner

CONSTANT Unlimited

VARIABLES
  layer,                                       \* "engine" or "threads"
  threadCfg, threadPc,                         \* Workers' cfg and pc
  budgets, worker, issued, joined, result      \* of Workers

W == INSTANCE Workers WITH
  MaxThreads <- 3, MaxIterations <- 5, MaxRate <- 4, MaxConcurrency <- 4,
  cfg <- threadCfg, pc <- threadPc

ASSUME W!WorkersAssumption

threadVars == <<threadCfg, threadPc, budgets, worker, issued, joined, result>>
all == <<layer, vars, threadVars>>

-----------------------------------------------------------------------------
ThreadsIdle ==
  /\ threadCfg = "none" /\ threadPc = "none" /\ budgets = "none" /\ worker = <<>>
  /\ issued = <<>> /\ joined = 0 /\ result = "none"

AnEngine == CHOOSE c \in RunConfig : c.completion.total > MaxJobs

LoadInit ==
  \/ layer = "engine" /\ Init /\ ThreadsIdle
  \/ layer = "threads" /\ W!Init /\ Init /\ cfg = AnEngine

EngineStep == layer = "engine" /\ Next /\ UNCHANGED <<layer, threadVars>>
ThreadStep == layer = "threads" /\ W!Next /\ UNCHANGED <<layer, vars>>

\* Runner's fairness; the threads are checked for safety only.
LoadSpec ==
  /\ LoadInit
  /\ [][EngineStep \/ ThreadStep]_all
  /\ layer = "engine" => Fairness

-----------------------------------------------------------------------------
\* No iteration and no share of a limit is lost or given out twice
\* (split_iterations, split_budget).
WorkIsShared == layer = "threads" => W!WorkIsShared

\* What execute_threaded returns is final: of workers that have all ended, and
\* of all of them.
ResultIsFinal == layer = "threads" => W!ResultIsFinal

\* A counted run always ends, and any run ends once it is stopped, even when
\* the network never answers again (execute_inner).
EngineEnds == layer = "engine" => EventuallyEnds
=============================================================================
