------------------------------- MODULE Rollup -------------------------------
(***************************************************************************)
(* The life of one validator that a scenario owns: process.rs (Owned,      *)
(* terminate, kill_pid), the PrivateEr of private.rs and the Verifier of   *)
(* replicated.rs built on it, and the record resources.rs keeps so that    *)
(* reclaim finds what a failed scenario leaves behind.                     *)
(*                                                                         *)
(* The scenario calls one operation at a time and may drop its future at   *)
(* any await (a timeout, a select, a panic elsewhere in it).  The process  *)
(* may exit on its own, ignore TERM, and outlive even a KILL for a while.  *)
(***************************************************************************)
EXTENDS Naturals, FiniteSets

CONSTANT MaxSpawns  \* bound on the processes spawned

ASSUME RollupAssumption == MaxSpawns \in Nat \ {0}

NoChild == 0
Spawns == 1 .. MaxSpawns

VARIABLES
  kind,     \* "er" or "verifier"; never changes
  stage,    \* where the scenario stands with its rollup
  op,       \* the operation in progress
  signal,   \* the last signal terminate sent
  status,   \* of every process spawned
  spawned,  \* processes spawned so far
  child,    \* Owned.child
  pid,      \* Owned.pid
  record,   \* its ResourceRecord: pid and finished
  directory,\* the storage directory exists
  warned    \* reclaim reported storage it could not remove

rollupVars == <<kind, stage, op, signal, status, spawned, child, pid, record, directory, warned>>
owned == <<child, pid>>
storageVars == <<directory, warned>>

Live == {"running", "term", "kill"}
Exited(i) == status[i] = "exited"

-----------------------------------------------------------------------------
RollupInit ==
  /\ kind \in {"er", "verifier"}
  /\ stage = "launch" /\ op = "launch" /\ signal = "none"
  /\ status = [i \in Spawns |-> "absent"]
  /\ spawned = 0
  /\ child = NoChild /\ pid = 0
  /\ record = [pid |-> 0, finished |-> FALSE]
  /\ directory = FALSE /\ warned = FALSE

\* plan.spawn and the bookkeeping of a process that has just been spawned.
SpawnValidator ==
  /\ spawned < MaxSpawns
  /\ spawned' = spawned + 1
  /\ status' = [status EXCEPT ![spawned'] = "running"]
  /\ child' = spawned' /\ pid' = spawned'
  /\ directory' = TRUE
  /\ UNCHANGED warned

\* launch: old storage goes, the process is spawned, registered and owned.
LaunchRollup ==
  /\ stage = "launch"
  /\ SpawnValidator
  /\ record' = [pid |-> spawned', finished |-> FALSE]
  /\ stage' = "wait"
  /\ UNCHANGED <<kind, op, signal>>

\* A launch that fails before its process is spawned.
RollupLaunchFails ==
  /\ stage = "launch"
  /\ stage' = "over"
  /\ UNCHANGED <<kind, op, signal, status, spawned, owned, record, storageVars>>

\* Mutant: relaunched does not clear the finished mark.
RelaunchFinished ==
  /\ SpawnValidator
  /\ record' = [record EXCEPT !.pid = spawned']
  /\ stage' = "wait"

Relaunch ==
  /\ SpawnValidator
  /\ record' = [pid |-> spawned', finished |-> FALSE]
  /\ stage' = "wait"

\* wait_until: the validator answers while it runs ...
ReadyOk ==
  /\ stage = "wait" /\ status[pid] = "running"
  /\ stage' = "idle"
  /\ UNCHANGED <<kind, op, signal, status, spawned, owned, record, storageVars>>

\* ... or it has exited, or the time is over.  A launch then drops Owned.
ReadyFails ==
  /\ stage = "wait"
  /\ stage' = IF op = "launch" THEN "drop" ELSE "idle"
  /\ UNCHANGED <<kind, op, signal, status, spawned, owned, record, storageVars>>

-----------------------------------------------------------------------------
\* state::remove_storage, whose error the operation returns.
RemoveStorage ==
  /\ directory' \in {FALSE, directory}
  /\ UNCHANGED warned

\* Owned::terminate has reaped the child; the operation goes on without
\* another await: restart spawns the next process, finish removes storage.
Terminated ==
  \/ /\ op = "stop"
     /\ child' = NoChild
     /\ record' = [record EXCEPT !.finished = TRUE]
     /\ stage' = "idle"
     /\ UNCHANGED <<status, spawned, pid, storageVars>>
  \/ /\ op = "finish"
     /\ child' = NoChild
     /\ record' = [record EXCEPT !.finished = TRUE]
     /\ RemoveStorage
     /\ stage' = "drop"
     /\ UNCHANGED <<status, spawned, pid>>
  \/ /\ op = "restart"
     /\ Relaunch
  \/ /\ op = "restart"  \* plan.spawn fails
     /\ child' = NoChild
     /\ record' = [record EXCEPT !.finished = TRUE]
     /\ stage' = "idle"
     /\ UNCHANGED <<status, spawned, pid, storageVars>>

\* stop, restart and finish begin with terminate: nothing to signal if the
\* child has exited already.
Terminate(call, hard) ==
  /\ stage = "idle" /\ child # NoChild
  /\ op' = call
  /\ ~Exited(child)
  /\ signal' = IF hard THEN "kill" ELSE "term"
  /\ status' = [status EXCEPT ![child] = IF @ = "kill" THEN @ ELSE signal']
  /\ stage' = "dying"
  /\ UNCHANGED <<kind, spawned, owned, record, storageVars>>

TerminateExited(call) ==
  /\ stage = "idle" /\ child # NoChild
  /\ op' = call
  /\ Exited(child)
  /\ signal' = "none"
  /\ stage' = "dying"
  /\ UNCHANGED <<kind, status, spawned, owned, record, storageVars>>

\* try_wait reaps the child.
Reap ==
  /\ stage = "dying" /\ Exited(child)
  /\ Terminated
  /\ UNCHANGED <<kind, op, signal>>

\* Mutant: the grace window is never escalated.
EscalateNever ==
  /\ stage = "dying" /\ signal = "term" /\ Exited(child)
  /\ UNCHANGED rollupVars

Escalate ==
  /\ stage = "dying" /\ signal = "term"
  /\ signal' = "kill"
  /\ status' = [status EXCEPT ![child] = IF Exited(child) THEN @ ELSE "kill"]
  /\ UNCHANGED <<kind, stage, op, spawned, owned, record, storageVars>>

\* The hard deadline passes: an error, and the child stays owned.  finish
\* consumes the rollup, so its drop follows.
GiveUp ==
  /\ stage = "dying" /\ signal = "kill"
  /\ stage' = IF op = "finish" THEN "drop" ELSE "idle"
  /\ UNCHANGED <<kind, op, signal, status, spawned, owned, record, storageVars>>

\* The caller drops the future while it awaits.
Cancel ==
  /\ stage \in {"dying", "wait"}
  /\ stage' = IF op \in {"launch", "finish"} THEN "drop" ELSE "idle"
  /\ UNCHANGED <<kind, op, signal, status, spawned, owned, record, storageVars>>

\* Without a child, finish only removes the storage; stop and restart fail.
FinishStopped ==
  /\ stage = "idle" /\ child = NoChild
  /\ op' = "finish"
  /\ RemoveStorage
  /\ stage' = "drop"
  /\ UNCHANGED <<kind, signal, status, spawned, owned, record>>

\* Verifier::start.
Start ==
  /\ kind = "verifier" /\ stage = "idle" /\ child = NoChild
  /\ op' = "start"
  /\ Relaunch
  /\ UNCHANGED <<kind, signal>>

\* Verifier::reset_storage.
ResetStorage ==
  /\ kind = "verifier" /\ stage = "idle" /\ child = NoChild
  /\ RemoveStorage
  /\ UNCHANGED <<kind, stage, op, signal, status, spawned, owned, record>>

-----------------------------------------------------------------------------
\* The body ends, or panics: Owned is dropped before reclaim, or with the
\* tasks of the scenario after it.
BodyEnds ==
  /\ stage = "idle"
  /\ stage' \in {"drop", "reclaim"}
  /\ UNCHANGED <<kind, op, signal, status, spawned, owned, record, storageVars>>

\* Owned::drop: a child that still runs is killed and waited for.
Drop ==
  /\ stage \in {"drop", "lateDrop"}
  /\ status' = IF child = NoChild THEN status ELSE [status EXCEPT ![child] = "exited"]
  /\ child' = NoChild
  /\ record' = IF child = NoChild THEN record ELSE [record EXCEPT !.finished = TRUE]
  /\ stage' = IF stage = "drop" THEN "reclaim" ELSE "over"
  /\ UNCHANGED <<kind, op, signal, spawned, pid, storageVars>>

\* Mutant: reclaim skips the storage of a rollup that is marked finished.
ReclaimRunningOnly ==
  /\ stage = "reclaim"
  /\ LET kill == ~record.finished /\ status[record.pid] \in Live
     IN  /\ status' = IF kill THEN [status EXCEPT ![record.pid] = "kill"] ELSE status
         /\ record' = IF kill THEN [record EXCEPT !.finished = TRUE] ELSE record
  /\ directory' = (directory /\ record.finished)
  /\ stage' = IF child = NoChild THEN "over" ELSE "lateDrop"
  /\ UNCHANGED <<kind, op, signal, spawned, owned, warned>>

\* Resources::reclaim: kill_pid does not wait for the KILL it ends with, and
\* storage that cannot be removed is only warned about.
Reclaim ==
  /\ stage = "reclaim"
  /\ LET kill == ~record.finished /\ status[record.pid] \in Live
     IN  /\ status' = IF kill THEN [status EXCEPT ![record.pid] = "kill"] ELSE status
         /\ record' = IF kill THEN [record EXCEPT !.finished = TRUE] ELSE record
  /\ directory' \in {FALSE, directory}
  /\ warned' = directory'
  /\ stage' = IF child = NoChild THEN "over" ELSE "lateDrop"
  /\ UNCHANGED <<kind, op, signal, spawned, owned>>

\* External: the validator exits, of itself or by a signal.
Exits(i) ==
  /\ status[i] \in Live
  /\ status' = [status EXCEPT ![i] = "exited"]
  /\ UNCHANGED <<kind, stage, op, signal, spawned, owned, record, storageVars>>

RollupNext ==
  \/ LaunchRollup \/ RollupLaunchFails \/ ReadyOk \/ ReadyFails
  \/ \E call \in {"stop", "restart", "finish"} :
       TerminateExited(call) \/ \E hard \in BOOLEAN : Terminate(call, hard)
  \/ Reap \/ Escalate \/ GiveUp \/ Cancel
  \/ FinishStopped \/ Start \/ ResetStorage
  \/ BodyEnds \/ Drop \/ Reclaim
  \/ \E i \in Spawns : Exits(i)

RollupSpec == RollupInit /\ [][RollupNext]_rollupVars

(***************************************************************************)
(* terminate polls its child and two deadlines, and every wait for         *)
(* readiness has a timeout; nothing is owed by the validator.              *)
(***************************************************************************)
RollupFairSpec ==
  /\ RollupSpec
  /\ WF_rollupVars(Reap) /\ WF_rollupVars(Escalate) /\ WF_rollupVars(GiveUp)
  /\ WF_rollupVars(ReadyFails)

-----------------------------------------------------------------------------
\* Type invariant of the rollup and its records.
RollupTypeOK ==
  /\ kind \in {"er", "verifier"}
  /\ stage \in {"launch", "wait", "idle", "dying", "drop", "reclaim", "lateDrop", "over"}
  /\ op \in {"launch", "stop", "restart", "finish", "start"}
  /\ signal \in {"none", "term", "kill"}
  /\ status \in [Spawns -> Live \cup {"absent", "exited"}]
  /\ spawned \in 0 .. MaxSpawns
  /\ child \in 0 .. MaxSpawns /\ pid \in 0 .. MaxSpawns
  /\ record \in [pid : 0 .. MaxSpawns, finished : BOOLEAN]
  /\ directory \in BOOLEAN /\ warned \in BOOLEAN

\* Whatever runs is owned and recorded, so that either Owned's drop or reclaim
\* finds it, through restarts, failed stops and dropped futures.
RunningIsRecorded ==
  \A i \in Spawns :
    status[i] \in {"running", "term"} => child = i /\ record.pid = i /\ ~record.finished

\* Two processes never share the storage directory: the next one is spawned
\* only after the last one has been reaped.
OneProcess == Cardinality({i \in Spawns : status[i] \in Live}) <= 1

\* The storage is never removed under a process that has not been killed.
StorageNotPulled ==
  [][directory /\ ~directory' =>
       \A i \in Spawns : status'[i] \notin {"running", "term"}]_rollupVars

\* "The harness also reclaims private rollups left behind by failed scenarios":
\* when the scenario is over no process is left running, and no storage except
\* what reclaim could not remove and has warned about.
NothingLeftBehind ==
  stage = "over" =>
    /\ directory => warned
    /\ \A i \in Spawns : status[i] \notin {"running", "term"}

\* A stop or restart returns, also when the validator ignores every signal.
OperationsReturn == stage \in {"dying", "wait"} ~> stage \notin {"dying", "wait"}
=============================================================================
