------------------------------ MODULE Streams -------------------------------
(***************************************************************************)
(* The subscription client (Events) and the observers of a load window     *)
(* that consume such streams (Observers), on an instance.  `side` says     *)
(* which of them a behaviour is of.                                        *)
(***************************************************************************)
EXTENDS Observers, Events

CONSTANTS k1, k2, a1, a2  \* the keys of the client, the accounts of the window

VARIABLE side  \* "client" or "window"

ASSUME EventsAssumption /\ ObserversAssumption

\* Three requests write two accounts: the first two the same one, the last one
\* both, as a copy with two destinations does.
ThreeRequests == <<{a1}, {a1}, {a1, a2}>>

-----------------------------------------------------------------------------
\* The side that a behaviour is not of stays in an initial state.
StreamsInit ==
  /\ side \in {"client", "window"}
  /\ EventsInit /\ ObserversInit
  /\ side = "client" => mode = "open"

ClientStep == side = "client" /\ EventsNext /\ UNCHANGED <<side, windowVars>>
WindowStep == side = "window" /\ ObserversNext /\ UNCHANGED <<side, eventsVars>>

\* The fairness of each module.
StreamsSpec ==
  /\ StreamsInit
  /\ [][ClientStep \/ WindowStep]_<<side, eventsVars, windowVars>>
  /\ side = "client" => EventsFairness
  /\ side = "window" => ObserversFairness

-----------------------------------------------------------------------------
\* Every notification sent for an acknowledged handle reaches its owner, or the
\* handle is dropped, or the connection fails visibly (dispatch, take); and a
\* request that waits for its updates resumes once the rollup has executed it
\* and all its accounts hold its write or a later one (observe, resolve).
Owing == IF side = "client" THEN Owed ELSE Overdue
StreamsGoOn == Owing ~> ~Owing
=============================================================================
