----------------------------- MODULE Settlement -----------------------------
(***************************************************************************)
(* The settlement scenarios of src/redshift/src/scenarios/committor and     *)
(* chainlink/settlement_clone_controls, as the client programs they are.    *)
(* A scenario is a formula: one disjunct per call, in the order of the      *)
(* code, each enabled at its own value of `pc`, while the chains of module  *)
(* Chains run beside it.  A wait that never ends is the timeout of the      *)
(* code: the scenario does not pass.  A watching window ends once nothing   *)
(* is left in hand, the assumption every such window of the code makes.     *)
(*                                                                          *)
(* The scenarios are oracles, so two questions are asked of each: does it   *)
(* ever fail a system that behaves, and does it ever pass one that has      *)
(* misbehaved in a way it says it checks.                                   *)
(***************************************************************************)
EXTENDS Chains

VARIABLES
  script,   \* the scenario that runs
  pc,       \* its next call
  verdict,  \* "good" until a check has failed
  noted     \* the commit nonces a scenario has read and remembers

vars == <<env, flaw, large, script, pc, verdict, noted>>

-----------------------------------------------------------------------------
(* Steps of a scenario                                                       *)

\* A scenario is an operator of S: S(k) is the condition of its k-th step.

\* A query that is repeated until it answers.
Await(P) == P /\ UNCHANGED <<env, verdict, noted>>

\* A check that fails the scenario.
Ensure(P) == /\ verdict' = IF P THEN verdict ELSE "failed"
             /\ UNCHANGED <<env, noted>>

\* Mutant: the window is not watched.
WatchOnce(P) == Ensure(P)

\* A condition that must hold throughout a window.
Hold(P) == (~P \/ Quiet) /\ Ensure(P)

Note == /\ noted' = [c \in Cells |-> Nonce(c)]
        /\ UNCHANGED <<env, verdict>>

\* The nonce of c since it was noted.
Since(c) == Nonce(c) - noted[c]

OnBase(c, x)  == base[c].val = x
OnEr(v, c, x) == er[v][c].val = x /\ er[v][c].mode # "absent"
Caught(t)     == trap[t].got # 0
Came(i, kinds) == i <= Len(intents) /\ intents[i].receipt \in kinds
Any           == {"ok", "duplicate", "error"}

\* A receipt is awaited, and its outcome is checked.
Outcome(i, kinds) == Came(i, Any) /\ Ensure(Came(i, kinds))

\* await_ownership_return: base hands the cell back, with the snapshot.
OwnershipReturns(c, x) == base[c].owner = "program" /\ Ensure(OnBase(c, x))

\* cells.rs create_owned_sized and await_cells: the cell exists, delegated to
\* v, and v has cloned it.
Create(v, c, to) ==
  /\ base' = [base EXCEPT ![c].owner = to, ![c].session = 1]
  /\ er' = [er EXCEPT ![v][c] = [val |-> base[c].val, session |-> 1,
                                 mode |-> IF to = v THEN "live" ELSE "mirror"]]
  /\ UNCHANGED <<committor, proxy, deaf, harmed, verdict, noted>>

\* A write on a rollup that must be accepted, with its read back.
ErWrite(v, c, x) ==
  /\ IF Writable(v, c)
     THEN er' = [er EXCEPT ![v][c].val = x] /\ UNCHANGED verdict
     ELSE verdict' = "failed" /\ UNCHANGED er
  /\ UNCHANGED <<base, committor, proxy, deaf, harmed, noted>>

\* Several cells, one after another.
ErWrites(v, xs) ==
  /\ IF \A c \in DOMAIN xs : Writable(v, c)
     THEN /\ er' = [er EXCEPT ![v] = [c \in Cells |-> IF c \in DOMAIN xs
                                                     THEN [@[c] EXCEPT !.val = xs[c]] ELSE @[c]]]
          /\ UNCHANGED verdict
     ELSE verdict' = "failed" /\ UNCHANGED er
  /\ UNCHANGED <<base, committor, proxy, deaf, harmed, noted>>

\* Mutant: the write is sent and its answer ignored.
ErTried(v, c, x) ==
  /\ er' = IF Writable(v, c) THEN [er EXCEPT ![v][c].val = x] ELSE er
  /\ harmed' = (harmed \/ Writable(v, c))
  /\ UNCHANGED <<base, committor, proxy, deaf, verdict, noted>>

\* A write on a rollup that must be refused.
ErRefused(v, c, x) ==
  /\ er' = IF Writable(v, c) THEN [er EXCEPT ![v][c].val = x] ELSE er
  /\ verdict' = IF Writable(v, c) THEN "failed" ELSE verdict
  /\ harmed' = (harmed \/ Writable(v, c))
  /\ UNCHANGED <<base, committor, proxy, deaf, noted>>

BaseOpen(c) == base[c].owner = "program" \/ flaw = "baseOpen"

BaseWrite(c, x) ==
  /\ IF BaseOpen(c) THEN base' = [base EXCEPT ![c].val = x] /\ UNCHANGED verdict
                    ELSE verdict' = "failed" /\ UNCHANGED base
  /\ UNCHANGED <<er, committor, proxy, deaf, harmed, noted>>

BaseRefused(c, x) ==
  /\ base' = IF BaseOpen(c) THEN [base EXCEPT ![c].val = x] ELSE base
  /\ verdict' = IF BaseOpen(c) THEN "failed" ELSE verdict
  /\ harmed' = (harmed \/ BaseOpen(c))
  /\ UNCHANGED <<er, committor, proxy, deaf, noted>>

\* A settlement is scheduled on a rollup that holds the cells.
Settle(v, cells, kind) ==
  /\ IF kind = "action" \/ \A c \in cells : er[v][c].mode = "live"
     THEN /\ intents' = Append(intents, New(v, kind, cells))
          /\ er' = Locked(v, kind, cells)
          /\ UNCHANGED verdict
     ELSE verdict' = "failed" /\ UNCHANGED <<intents, er>>
  /\ UNCHANGED <<base, history, sequence, proxy, deaf, harmed, noted>>

\* A settlement that must be refused, the transaction that asks for it failing;
\* a system that accepts it, or keeps the intent of a failed transaction, errs.
SettleRefused(v, cells, kind) ==
  /\ LET accepted == flaw = "foreignAccepted"
         kept     == flaw = "partialRollback"
     IN /\ intents' = IF accepted \/ kept THEN Append(intents, New(v, kind, cells)) ELSE intents
        /\ verdict' = IF accepted THEN "failed" ELSE verdict
        /\ harmed' = (harmed \/ accepted \/ kept)
  /\ UNCHANGED <<base, er, history, sequence, proxy, deaf, noted>>

Delegate(c, to) ==
  /\ IF base[c].owner = "program"
     THEN base' = [base EXCEPT ![c].owner = to, ![c].session = @ + 1] /\ UNCHANGED verdict
     ELSE verdict' = "failed" /\ UNCHANGED base
  /\ UNCHANGED <<er, committor, proxy, deaf, harmed, noted>>

\* A read clones what the rollup has not seen.
Fetch(v, c) ==
  /\ er' = IF er[v][c].mode = "absent" THEN [er EXCEPT ![v][c] = Current(v, c)] ELSE er
  /\ UNCHANGED <<base, committor, proxy, deaf, harmed, verdict, noted>>

\* One base transaction commits, finalizes, undelegates and delegates again.
Cycle(c) ==
  /\ base' = [base EXCEPT ![c].cycled = TRUE]
  /\ UNCHANGED <<er, committor, proxy, deaf, harmed, verdict, noted>>

\* The program asks on base for the return of a delegated cell.
RequestReturn(c) ==
  /\ base' = [base EXCEPT ![c].asked = TRUE]
  /\ UNCHANGED <<er, committor, proxy, deaf, harmed, verdict, noted>>

-----------------------------------------------------------------------------
(* Steps at the fault proxy (module NetFault models the proxy itself)        *)

Chains0 == <<base, er, history, sequence, harmed, noted, verdict>>

Arm(t, point, c) ==
  /\ trap' = [trap EXCEPT ![t] = [Off EXCEPT !.point = point, !.cell = c]]
  /\ UNCHANGED <<Chains0, intents, hush, blind, deaf>>

\* A held request never reaches base and is sent again; a held response never
\* reaches the rollup, which is left not knowing.
Discard(t) ==
  /\ intents' = [intents EXCEPT ![trap[t].got].stage =
                   CASE @ = "held" -> "queued" [] @ = "kept" -> "unsure" [] OTHER -> @]
  /\ trap' = [trap EXCEPT ![t] = Off]
  /\ UNCHANGED <<Chains0, hush, blind, deaf>>

Release(t) ==
  /\ intents' = [intents EXCEPT ![trap[t].got].stage =
                   IF trap[t].point = "request" THEN "request" ELSE "pending"]
  /\ trap' = [trap EXCEPT ![t] = [Off EXCEPT !.seq = trap[t].seq]]
  /\ UNCHANGED <<Chains0, hush, blind, deaf>>

Withhold(on) == hush' = on /\ UNCHANGED <<Chains0, intents, trap, blind, deaf>>

Blind(on) == blind' = on /\ UNCHANGED <<Chains0, intents, trap, hush, deaf>>

Disconnect ==
  /\ deaf' = (flaw = "deafReconnect")
  /\ harmed' = (harmed \/ deaf')
  /\ UNCHANGED <<base, er, committor, proxy, verdict, noted>>

\* private.rs restart, with the recovery of persisted intents: one that was
\* not settled is taken up again.
Restart(v) ==
  /\ deaf' = (flaw = "deafRestart")
  /\ harmed' = (harmed \/ deaf')
  /\ intents' = [i \in 1..Len(intents) |->
       IF intents[i].by # v THEN intents[i]
       ELSE IF flaw = "staleWork" /\ intents[i].kind = "commit" /\ intents[i].stage = "done"
       THEN [intents[i] EXCEPT !.stage = "request"]
       ELSE IF intents[i].stage \in {"kept", "pending"} THEN [intents[i] EXCEPT !.stage = "unsure"]
       ELSE intents[i]]
  /\ UNCHANGED <<base, er, history, sequence, proxy, verdict, noted>>

\* A notification held since before the cell was delegated again is delivered.
LateNotice(v, c, x) ==
  /\ er' = IF flaw = "staleNotice" /\ er[v][c].mode = "live" THEN [er EXCEPT ![v][c].val = x] ELSE er
  /\ harmed' = (harmed \/ er' # er)
  /\ UNCHANGED <<base, committor, proxy, deaf, verdict, noted>>

\* Step k of the script.
S(k) == verdict = "good" /\ pc = k /\ pc' = k + 1

-----------------------------------------------------------------------------
(* committor/commit_recovery.rs                                              *)

\* Commits whose response, then confirmation, then connections are lost.
ConfirmationLoss ==
  \/ S(1) /\ Create(A, 1, A)
  \/ S(2) /\ Arm(1, "response", 1)
  \/ S(3) /\ ErWrite(A, 1, 1)
  \/ S(4) /\ Settle(A, {1}, "commit")
  \/ S(5) /\ Await(Caught(1) /\ OnBase(1, 1))
  \/ S(6) /\ Discard(1)
  \/ S(7) /\ Outcome(1, {"ok", "duplicate"})
  \/ S(8) /\ Await(OnBase(1, 1))
  \/ S(9) /\ Arm(1, "response", 1)
  \/ S(10) /\ ErWrite(A, 1, 2)
  \/ S(11) /\ Settle(A, {1}, "commit")
  \/ S(12) /\ Await(Caught(1))
  \/ S(13) /\ Withhold(TRUE)
  \/ S(14) /\ Release(1)
  \/ S(15) /\ Await(OnBase(1, 2))
  \/ S(16) /\ Hold(~Came(2, Any))
  \/ S(17) /\ Withhold(FALSE)
  \/ S(18) /\ Outcome(2, {"ok", "duplicate"})
  \/ S(19) /\ Await(OnBase(1, 2))
  \/ S(20) /\ Disconnect
  \/ S(21) /\ Create(A, 2, A)
  \/ S(22) /\ ErWrite(A, 2, 3)
  \/ S(23) /\ Settle(A, {2}, "commit")
  \/ S(24) /\ Outcome(3, {"ok"})
  \/ S(25) /\ Await(OnBase(2, 3))

\* A commit that landed before its confirmations are hidden, the rollup
\* restarted or not, must not land twice.
CommitBlackout(k, i, x, restarts) ==
  \/ S(k) /\ Note
  \/ S(k + 1) /\ Arm(1, "response", 1)
  \/ S(k + 2) /\ ErWrite(A, 1, x)
  \/ S(k + 3) /\ Settle(A, {1}, "commit")
  \/ S(k + 4) /\ Await(Caught(1) /\ OnBase(1, x))
  \/ S(k + 5) /\ Ensure(Since(1) = 1)
  \/ S(k + 6) /\ Withhold(TRUE)
  \/ S(k + 7) /\ IF restarts THEN Restart(A) ELSE Await(TRUE)
  \/ S(k + 8) /\ Discard(1)
  \/ S(k + 9) /\ Hold(Since(1) = 1)
  \/ S(k + 10) /\ Withhold(FALSE)
  \/ S(k + 11) /\ Outcome(i, {"ok"})
  \/ S(k + 12) /\ Hold(Since(1) = 1)
  \/ S(k + 13) /\ Ensure(OnBase(1, x))

FollowUpCommit(k, i, x) ==
  \/ S(k) /\ Note
  \/ S(k + 1) /\ ErWrite(A, 1, x)
  \/ S(k + 2) /\ Settle(A, {1}, "commit")
  \/ S(k + 3) /\ Outcome(i, {"ok"})
  \/ S(k + 4) /\ Await(OnBase(1, x))
  \/ S(k + 5) /\ Ensure(Since(1) = 1)

\* A standalone action whose confirmation is hidden takes effect once; its
\* receipt may report a failure.
ActionBlackout(k, i) ==
  \/ S(k) /\ Arm(1, "response", 3)
  \/ S(k + 1) /\ Settle(A, {3}, "action")
  \/ S(k + 2) /\ Await(Caught(1) /\ OnBase(3, 1))
  \/ S(k + 3) /\ Withhold(TRUE)
  \/ S(k + 4) /\ Discard(1)
  \/ S(k + 5) /\ Hold(OnBase(3, 1))
  \/ S(k + 6) /\ Withhold(FALSE)
  \/ S(k + 7) /\ Outcome(i, Any)
  \/ S(k + 8) /\ Hold(OnBase(3, 1))

EffectRecovery ==
  \/ S(1) /\ Create(A, 1, A)
  \/ CommitBlackout(2, 1, 1, FALSE)
  \/ FollowUpCommit(16, 2, 2)
  \/ ActionBlackout(22, 3)
  \/ CommitBlackout(31, 4, 3, TRUE)
  \/ FollowUpCommit(45, 5, 4)

-----------------------------------------------------------------------------
(* committor/commit_snapshot_ordering.rs                                     *)

Written(x, cells) == [c \in cells |-> 10 * x + c]

Before(i, j) == \E m, n \in 1..Len(history) : m < n /\ history[m] = i /\ history[n] = j

\* Overlapping bundles of a={1}, b={2}, c={3}: the first is held, retried and
\* settles before the second; the bundle of d={4} overtakes both.
SnapshotOrdering ==
  \/ S(1) /\ Create(A, 1, A)
  \/ S(2) /\ Create(A, 2, A)
  \/ S(3) /\ Create(A, 3, A)
  \/ S(4) /\ Create(A, 4, A)
  \/ S(5) /\ ErWrites(A, Written(1, {1, 2}))
  \/ S(6) /\ Note
  \/ S(7) /\ Arm(1, "request", 1)
  \/ S(8) /\ Settle(A, {1, 2}, "commit")
  \/ S(9) /\ Await(Caught(1))
  \/ S(10) /\ ErWrites(A, Written(2, {2, 3}))
  \/ S(11) /\ Arm(2, "request", 3)
  \/ S(12) /\ Settle(A, {2, 3}, "commit")
  \/ S(13) /\ ErWrites(A, Written(3, {4}))
  \/ S(14) /\ Settle(A, {4}, "commit")
  \/ S(15) /\ ErWrites(A, Written(4, Cells))
  \/ S(16) /\ Outcome(3, {"ok"})
  \/ S(17) /\ Await(OnBase(4, 34))
  \/ S(18) /\ Ensure(Since(4) = 1)
  \/ S(19) /\ Hold(Since(1) = 0 /\ Since(2) = 0)
  \/ S(20) /\ Ensure((intents[1].buffer = "open") = large)
  \/ S(21) /\ Arm(3, "request", 1)
  \/ S(22) /\ Discard(1)
  \/ S(23) /\ Await(Caught(3))
  \/ S(24) /\ Release(3)
  \/ S(25) /\ Outcome(1, {"ok"})
  \/ S(26) /\ Ensure(/\ OnBase(1, 11) /\ OnBase(2, 12)
                     /\ Since(1) = 1 /\ Since(2) = 1)
  \/ S(27) /\ Caught(2) /\ Ensure(trap[2].seq > trap[3].seq)
  \/ S(28) /\ Release(2)
  \/ S(29) /\ Outcome(2, {"ok"})
  \/ S(30) /\ Await(OnBase(2, 22))
  \/ S(31) /\ Ensure(/\ OnBase(3, 23) /\ Since(2) = 2 /\ Since(3) = 1
                     /\ Before(1, 2))
  \/ S(32) /\ ErWrites(A, Written(5, Cells))
  \/ S(33) /\ Arm(1, "request", 1)
  \/ S(34) /\ Settle(A, Cells, "commit")
  \/ S(35) /\ Await(Caught(1))
  \/ S(36) /\ Release(1)
  \/ S(37) /\ Outcome(4, {"ok"})
  \/ S(38) /\ Await(\A c \in Cells : OnBase(c, 50 + c))
  \/ S(39) /\ Await(\A i \in {1, 2, 4} : intents[i].buffer # "open")

-----------------------------------------------------------------------------
(* committor/undelegation_recovery.rs                                        *)

\* rejected_write: the lockout refuses the write and leaves the copy alone.
RejectedWrite(k, x, copy) ==
  \/ S(k) /\ ErRefused(A, 1, x)
  \/ S(k + 1) /\ Ensure(OnEr(A, 1, copy))

UndelegationRecovery(restarts) ==
  \/ S(1) /\ Create(A, 1, A)
  \/ S(2) /\ ErWrite(A, 1, 1)
  \/ S(3) /\ Arm(1, "request", 1)
  \/ S(4) /\ Settle(A, {1}, "undelegate")
  \/ S(5) /\ Await(Caught(1))
  \/ RejectedWrite(6, 2, 1)
  \/ S(8) /\ Arm(2, "request", 1)
  \/ S(9) /\ Discard(1)
  \/ S(10) /\ Await(Caught(2))
  \/ RejectedWrite(11, 3, 1)
  \/ S(13) /\ Ensure(base[1].owner = A)
  \/ S(14) /\ Blind(TRUE)
  \/ S(15) /\ Disconnect
  \/ S(16) /\ Release(2)
  \/ S(17) /\ OwnershipReturns(1, 1)
  \/ S(18) /\ IF restarts THEN Restart(A) ELSE Blind(FALSE)
  \/ S(19) /\ IF restarts THEN Blind(FALSE) ELSE Disconnect
  \/ S(20) /\ BaseWrite(1, 5)
  \/ S(21) /\ Await(OnEr(A, 1, 5))
  \/ S(22) /\ Delegate(1, A)
  \/ S(23) /\ Ensure(base[1].owner = A)
  \/ S(24) /\ Writable(A, 1) /\ ErWrite(A, 1, 6)
  \/ S(25) /\ Ensure(OnEr(A, 1, 6))

-----------------------------------------------------------------------------
(* committor/stale_delegation_session_isolation.rs                           *)

\* hold_steady: base keeps the image and nonce of the new session, the
\* rollup that owns it keeps its own.
Steady(v) == OnBase(1, 2) /\ base[1].owner = v /\ Since(1) = 0 /\ OnEr(v, 1, 3)

\* The old validator's commit of a reassigned cell: refused when it is sent,
\* or scheduled.
StaleCommit ==
  /\ \/ intents' = Append(intents, New(A, "commit", {1}))
     \/ UNCHANGED intents
  /\ UNCHANGED <<base, er, history, sequence, proxy, deaf, harmed, verdict, noted>>

\* A commit of the first session lands and its answer is lost.
RecoverSessionA ==
  \/ S(3) /\ Arm(1, "response", 1)
  \/ S(4) /\ Settle(A, {1}, "commit")
  \/ S(5) /\ Await(Caught(1) /\ OnBase(1, 1) /\ base[1].owner = A)
  \/ S(6) /\ Discard(1)
  \/ S(7) /\ Outcome(1, {"ok", "duplicate"})

\* The session begins on A and is renewed on v, A itself or B.
Isolate(v) ==
  \/ S(1) /\ Create(A, 1, A)
  \/ S(2) /\ ErWrite(A, 1, 1)
  \/ RecoverSessionA
  \/ S(8) /\ Settle(A, {1}, "undelegate")
  \/ S(9) /\ Outcome(2, {"ok", "duplicate"})
  \/ S(10) /\ Await(OnBase(1, 1) /\ base[1].owner = "program")
  \/ S(11) /\ BaseWrite(1, 2)
  \/ S(12) /\ Delegate(1, v)
  \/ S(13) /\ Await(OnBase(1, 2) /\ base[1].owner = v)
  \/ S(14) /\ Fetch(v, 1)
  \/ S(15) /\ Await(OnEr(v, 1, 2) /\ er[v][1].mode = "live")
  \/ S(16) /\ ErWrite(v, 1, 3)
  \/ S(17) /\ Note
  \/ S(18) /\ LateNotice(A, 1, 1)
  \/ S(19) /\ Hold(Steady(v))
  \/ S(20) /\ Restart(A)
  \/ S(21) /\ Hold(Steady(v))
  \/ S(22) /\ IF v = A THEN Await(TRUE) ELSE ErRefused(A, 1, 4)
  \/ S(23) /\ IF v = A THEN Await(TRUE) ELSE StaleCommit
  \/ S(24) /\ IF Len(intents) = 3 THEN Outcome(3, {"error"}) ELSE Await(TRUE)
  \/ S(25) /\ IF v = A THEN Await(TRUE) ELSE Ensure(OnBase(1, 2) /\ base[1].owner = v)
  \/ S(26) /\ Settle(v, {1}, "commit")
  \/ S(27) /\ Outcome(Len(intents), {"ok", "duplicate"})
  \/ S(28) /\ Await(OnBase(1, 3) /\ base[1].owner = v)

-----------------------------------------------------------------------------
(* committor/settlement_lifecycle.rs                                         *)

BaseRequestedUndelegation ==
  \/ S(1) /\ Create(A, 1, A)
  \/ S(2) /\ Ensure(~base[1].asked)
  \/ S(3) /\ ErWrite(A, 1, 1)
  \/ S(4) /\ Ensure(OnBase(1, 0))
  \/ S(5) /\ RequestReturn(1)
  \/ S(6) /\ Await(base[1].owner = "program" /\ OnBase(1, 1) /\ ~base[1].asked)

\* settled: the receipt, base's owner and image, and the rollup's copy.
SettledAs(k, i, c, owner, x) ==
  \/ S(k) /\ Outcome(i, {"ok", "duplicate"})
  \/ S(k + 1) /\ Await(base[c].owner = owner /\ OnBase(c, x))
  \/ S(k + 2) /\ Ensure(OnEr(A, c, x))

CommitUndelegateLifecycle ==
  \/ S(1) /\ Create(A, 1, A)
  \/ S(2) /\ ErWrite(A, 1, 1)
  \/ S(3) /\ Settle(A, {1}, "commit")
  \/ SettledAs(4, 1, 1, A, 1)
  \/ S(7) /\ ErWrite(A, 1, 2)
  \/ S(8) /\ Settle(A, {1}, "undelegate")
  \/ S(9) /\ ErRefused(A, 1, 8)
  \/ SettledAs(10, 2, 1, "program", 2)
  \/ S(13) /\ BaseWrite(1, 3)
  \/ S(14) /\ Ensure(OnBase(1, 3))
  \/ S(15) /\ Delegate(1, A)
  \/ S(16) /\ Ensure(base[1].owner = A)
  \/ S(17) /\ BaseRefused(1, 8)
  \/ S(18) /\ Writable(A, 1) /\ ErWrite(A, 1, er[A][1].val + 1)
  \/ S(19) /\ Ensure(OnEr(A, 1, 4))

LargeAccount(undelegates) ==
  \/ S(1) /\ Create(A, 1, A)
  \/ S(2) /\ ErWrite(A, 1, 1)
  \/ S(3) /\ Settle(A, {1}, IF undelegates THEN "undelegate" ELSE "commit")
  \/ S(4) /\ Outcome(1, {"ok", "duplicate"})
  \/ S(5) /\ Ensure(OnEr(A, 1, 1))
  \/ S(6) /\ Await(OnBase(1, 1) /\ base[1].owner = IF undelegates THEN "program" ELSE A)

\* The cell is delegated to a validator that runs no rollup here.
ForeignOwnership ==
  \/ S(1) /\ Create(A, 1, B)
  \/ S(2) /\ SettleRefused(A, {1}, "commit")
  \/ S(3) /\ Ensure(OnEr(A, 1, 0))
  \/ S(4) /\ Create(A, 2, B)
  \/ S(5) /\ SettleRefused(A, {2}, "undelegate")
  \/ S(6) /\ Ensure(OnEr(A, 2, 0) /\ er[A][2].mode = "mirror")

\* A failed transaction leaves neither its write nor its intent.  Cells {1, 2}
\* are written after they were given up; cells {3, 4} are given up twice.
RejectedIntents ==
  \/ S(1) /\ Create(A, 1, A)
  \/ S(2) /\ Create(A, 2, A)
  \/ S(3) /\ SettleRefused(A, {1, 2}, "undelegate")
  \/ S(4) /\ Hold(~Came(1, Any))
  \/ S(5) /\ Ensure(OnEr(A, 1, 0) /\ OnEr(A, 2, 0))
  \/ S(6) /\ Create(A, 3, A)
  \/ S(7) /\ Create(A, 4, A)
  \/ S(8) /\ SettleRefused(A, {3, 4}, "undelegate")
  \/ S(9) /\ Hold(~Came(1, Any))

FailedUndelegationLockout ==
  \/ S(1) /\ Create(A, 1, A)
  \/ S(2) /\ ErWrite(A, 1, Rejects)
  \/ S(3) /\ Settle(A, {1}, "undelegate")
  \/ S(4) /\ Outcome(1, {"ok", "duplicate"})
  \/ S(5) /\ Await(OnBase(1, Rejects))
  \/ S(6) /\ Ensure(base[1].owner = A)
  \/ S(7) /\ ErRefused(A, 1, 2)

-----------------------------------------------------------------------------
(* chainlink/settlement_clone_controls.rs                                    *)

SelectedCommit ==
  \/ S(1) /\ Create(A, 1, A)
  \/ S(2) /\ Create(A, 2, A)
  \/ S(3) /\ ErWrites(A, Written(1, {1, 2}))
  \/ S(4) /\ Ensure(OnBase(1, 0) /\ OnBase(2, 0))
  \/ S(5) /\ Settle(A, {1}, "commit")
  \/ S(6) /\ Outcome(1, {"ok", "duplicate"})
  \/ S(7) /\ Await(OnBase(1, 11) /\ base[1].owner = A)
  \/ S(8) /\ Ensure(OnBase(2, 0))

\* Cell 3 is a wallet.
Redelegation ==
  \/ S(1) /\ Create(A, 3, A)
  \/ S(2) /\ Cycle(3)
  \/ S(3) /\ Hold(er[A][3].mode # "absent")
  \/ S(4) /\ Ensure(base[3].owner = A)
  \/ S(5) /\ Ensure(OnEr(A, 3, 0))
  \/ S(6) /\ ErWrite(A, 3, 1)

-----------------------------------------------------------------------------
(* The scenarios and what each says it checks                                *)

Flaws == [confirmationLoss |-> {"eagerReceipt", "deafReconnect"},
          effectRecovery |-> {"doubleEffect", "duplicateRefused"},
          ordering |-> {"lateSnapshot", "unordered", "headOfLine", "leakedBuffer"},
          reconnect |-> {"openLockout", "deafReconnect"},
          restart |-> {"openLockout", "deafRestart"},
          sameValidator |-> {"staleNotice", "staleWork"},
          otherValidator |-> {"oldValidatorLands"},
          request |-> {"requestLeft"},
          lifecycle |-> {"openLockout", "baseOpen"},
          largeCommit |-> {}, largeReturn |-> {},
          foreign |-> {"foreignAccepted"},
          rejected |-> {"partialRollback"},
          lockout |-> {"openLockout", "lockoutLifted"},
          selected |-> {"siblingSettled"},
          cycle |-> {"cycleDrops"}]

Steps == [confirmationLoss |-> 25, effectRecovery |-> 50, ordering |-> 39, reconnect |-> 25,
          restart |-> 25, sameValidator |-> 28, otherValidator |-> 28, request |-> 6,
          lifecycle |-> 19, largeCommit |-> 6, largeReturn |-> 6, foreign |-> 6,
          rejected |-> 9, lockout |-> 7, selected |-> 8, cycle |-> 6]

Passed == verdict = "good" /\ pc > Steps[script]

\* A send that is refused as a duplicate of one that landed is an outcome of
\* earlier versions that these scenarios accept.
Tolerated == {"confirmationLoss", "sameValidator", "otherValidator"}

Init ==
  /\ ChainInit
  /\ script \in DOMAIN Flaws
  /\ flaw \in {"none"} \cup Flaws[script]
            \cup (IF script \in Tolerated THEN {"duplicateRefused"} ELSE {})
  /\ large \in IF script = "ordering" THEN BOOLEAN ELSE {script \in {"largeCommit", "largeReturn"}}
  /\ pc = 1 /\ verdict = "good"
  /\ noted = [c \in Cells |-> 0]

Client ==
  \/ script = "confirmationLoss" /\ ConfirmationLoss
  \/ script = "effectRecovery" /\ EffectRecovery
  \/ script = "ordering" /\ SnapshotOrdering
  \/ script = "reconnect" /\ UndelegationRecovery(FALSE)
  \/ script = "restart" /\ UndelegationRecovery(TRUE)
  \/ script = "sameValidator" /\ Isolate(A)
  \/ script = "otherValidator" /\ Isolate(B)
  \/ script = "request" /\ BaseRequestedUndelegation
  \/ script = "lifecycle" /\ CommitUndelegateLifecycle
  \/ script = "largeCommit" /\ LargeAccount(FALSE)
  \/ script = "largeReturn" /\ LargeAccount(TRUE)
  \/ script = "foreign" /\ ForeignOwnership
  \/ script = "rejected" /\ RejectedIntents
  \/ script = "lockout" /\ FailedUndelegationLockout
  \/ script = "selected" /\ SelectedCommit
  \/ script = "cycle" /\ Redelegation

Next == \/ Client /\ UNCHANGED <<flaw, large, script>>
        \/ ~Passed /\ System /\ UNCHANGED <<flaw, large, script, pc, verdict, noted>>

Spec == Init /\ [][Next]_vars /\ WF_vars(Next)

-----------------------------------------------------------------------------
\* A scenario never fails a system that behaves, whatever the order in which
\* settlement, notifications and the scenario's own calls interleave, nor one
\* whose only fault is the duplicate refusal it says it accepts.
NoFalseAlarm ==
  flaw = "none" \/ (flaw = "duplicateRefused" /\ script \in Tolerated) => verdict # "failed"

\* A scenario never passes a system that has misbehaved in a way it checks.
DefectCaught ==
  /\ harmed /\ flaw \in Flaws[script] => ~Passed
  /\ flaw = "headOfLine" => ~Passed
=============================================================================
