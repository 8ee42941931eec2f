----------------------------- MODULE Scheduling -----------------------------
(***************************************************************************)
(* The two schedulers of the command line, the continuous run and one      *)
(* invocation of the suite, on an instance: `mode` is the subcommand the   *)
(* process was started with.  Each keeps to its own variables.             *)
(***************************************************************************)
EXTENDS Continuous, Suite, TLC

CONSTANTS
  s1, s2, s3, x1, x2, y1, f1, f2, alpha, beta, rent  \* the suite's catalog

Entry(er, group, order, prepare) ==
  [er |-> er, group |-> group, order |-> order, prepare |-> prepare]

\* A group with shared and exclusive scenarios, a second group, and fresh
\* scenarios, one of them with a preparation.
CatalogOfSuite ==
  (s1 :> Entry("shared", alpha, 0, NoPreparation))
    @@ (s2 :> Entry("shared", alpha, 1, NoPreparation))
    @@ (x1 :> Entry("exclusive", alpha, 0, NoPreparation))
    @@ (x2 :> Entry("exclusive", alpha, 1, rent))
    @@ (y1 :> Entry("exclusive", beta, 0, NoPreparation))
    @@ (f1 :> Entry("fresh", NoGroup, 0, rent))
    @@ (f2 :> Entry("fresh", NoGroup, 0, NoPreparation))

\* Mixed groups, a lane of each kind, and the family's catalogue order broken
\* by an explicit selection.
SelectionsOfSuite ==
  {<<x1, s1, x2, s2>>, <<s2, s1, y1, f1, f2>>, <<f1, x2, s1, y1>>, <<f1>>,
   <<s1, s2, x1, x2, y1, f1, f2>>}

VARIABLE mode  \* "continuous" or "suite"

all == <<mode, vars, suiteVars>>

-----------------------------------------------------------------------------
StartContinuous ==
  mode = "continuous" /\ Init /\ SuiteInit /\ plan = CHOOSE p \in Plans : TRUE
StartSuite == mode = "suite" /\ SuiteInit /\ Init /\ limit = 1

ContinuousStep == mode = "continuous" /\ Next /\ UNCHANGED <<mode, suiteVars>>
SuiteStep == mode = "suite" /\ SuiteNext /\ UNCHANGED <<mode, vars>>
Either == ContinuousStep \/ SuiteStep

\* Both run on an executor that polls whatever is ready, and every boot,
\* scenario and teardown is bounded by its own timeouts.
FairEither ==
  /\ StartContinuous \/ StartSuite
  /\ [][Either]_all
  /\ WF_all(mode = "continuous" /\ Progress /\ UNCHANGED <<mode, suiteVars>>)
  /\ WF_all(mode = "suite" /\ SuiteProgress /\ UNCHANGED <<mode, vars>>)

\* The suite on a base that came up (base_only succeeded), so that whatever
\* fails afterwards is a preparation, a boot or a scenario.
SuiteOnBase == StartSuite /\ [][SuiteStep /\ (step = "base" /\ step' # "base" => base' = "ok")]_all

-----------------------------------------------------------------------------
\* Neither scheduler gets stuck.  Every suite run ends: no lane waits for another
\* one for ever, and the drain of an interrupted or failed lane completes (run,
\* run_entries).  Every queue of a continuous round is worked off, and a failure
\* or an interruption ends the continuous run.
SchedulersGoOn ==
  /\ mode = "suite" => <>(step = "exit")
  /\ RoundsGoOn
=============================================================================
