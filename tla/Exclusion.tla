------------------------------ MODULE Exclusion ------------------------------
(***************************************************************************)
(* What a scheduler of scenarios promises about one rollup, whatever the   *)
(* order in which it admits them (README, "Choose a run"): at most `limit` *)
(* scenarios run at once, an exclusive one runs with nothing else, and     *)
(* once the scheduler has closed, after a failure or an interruption,      *)
(* nothing more is started while what runs is drained.                     *)
(*                                                                         *)
(* A scheduler may take records and admit scenarios in one step, so a step *)
(* is any change of the running set that keeps the promise.                *)
(***************************************************************************)
EXTENDS Naturals, FiniteSets

CONSTANT Exclusive  \* the scenarios that tolerate no other

VARIABLES
  limit,    \* how many may run at once; never changes
  running,  \* the scenarios running on the rollup
  closed    \* a failure or an interruption was seen

\* A set of scenarios that may share the rollup.
Fits(together) ==
  /\ Cardinality(together) <= limit
  /\ together \cap Exclusive # {} => Cardinality(together) = 1

Init ==
  /\ running = {}
  /\ closed = FALSE

\* Scenarios end, scenarios start, the scheduler closes, or several of these.
Turn ==
  /\ limit' = limit
  /\ closed => closed'
  /\ Fits(running')
  /\ closed' => running' \subseteq running

Spec == Init /\ [][Turn]_<<limit, running, closed>>
=============================================================================
