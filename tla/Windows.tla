------------------------------- MODULE Windows -------------------------------
(***************************************************************************)
(* The window loops of redline: transaction_load (`write`, `compute` and    *)
(* `copy`), websocket_fanout and load_generator_thread_scaling.  Each offers *)
(* load in windows of bounded capacity until its duration is used up or it   *)
(* is told to stop, numbers every transaction, and reconciles deliveries,    *)
(* notifications and the final cells with the numbers of the window.         *)
(*                                                                          *)
(* The engine that admits and drains a window is Runner's and Workers', the *)
(* observers' connections are Observers'; here they are reduced to what the *)
(* loops rely on.  The ER is external: it executes accepted transactions,   *)
(* those on a common account in the order it accepted them.  A missed check *)
(* is recorded (`check!` warns), an error ends the loop.                    *)
(***************************************************************************)
EXTENDS Integers, Sequences, FiniteSets, FiniteSetsExt, SequencesExt

CONSTANTS
  Accounts,     \* size of the account pool
  Iterations,   \* capacity of a window, and of the send clock
  Concurrency,  \* requests in flight
  Duration,     \* bound: windows a duration has room for
  Warmup,       \* transactions of warm_up
  MaxFailed     \* bound: sends that fail

WindowsBounds ==
  {Accounts, Iterations, Concurrency, Duration, Warmup, MaxFailed} \subseteq Nat /\ Accounts > 2

VARIABLES
  kind, closed,  \* the scenario; whether a permit is held until the id is observed
  flaw, pc, result, missed, stop,
  remaining,     \* what is left of the duration
  phase,         \* the driver configuration being measured (scaling)
  total,         \* deliveries of the phase's windows so far
  cursor,        \* ids up to here are used up
  first,         \* SendClock.first_id
  adm,           \* [worker -> iterations it has been admitted]
  staged, wire,  \* ids admitted; ids sent and not accepted
  waiting,       \* ids accepted whose request is still counted as in flight
  delivered, failed,
  sigs,          \* SignatureState: [pending, confirmed, failed]
  obs,           \* AccountState: [pending, observed, superseded]
  cell,          \* ER: the accounts, [on: it has it, id: last written, hash: it is right]
  queue, dirty,  \* ER: accepted transactions, accounts to notify of
  used,          \* ids ever sent
  reused, raced, everFailed, harmed, empty  \* history, for the properties

run    == <<kind, closed, flaw, phase>>
loop   == <<pc, result, missed, remaining, total, cursor, first>>
window == <<adm, staged, wire, waiting, delivered, failed>>
er     == <<cell, queue, dirty>>
hist   == <<used, reused, raced, everFailed, harmed, empty>>
vars   == <<run, loop, stop, window, sigs, obs, er, hist>>

Pool == 0..Accounts - 1

\* targets: one account in turn, or copy_three's two destinations.
Targets(id) ==
  IF kind \in {"write", "compute"} THEN {(id - 1) % Accounts}
  ELSE LET from == ((id - 1) * 3) % Accounts IN {(from + 1) % Accounts, (from + 2) % Accounts}

\* The targets an observer is told of: one in transaction_load, both in
\* websocket_fanout, none where nothing is observed.
Tracked(id) ==
  CASE kind \in {"write", "compute"} -> Targets(id)
    [] kind = "copy"    -> {((id - 1) * 3 + 1) % Accounts}
    [] kind = "fanout"  -> Targets(id)
    [] kind = "scaling" -> {}

Signed == kind \in {"write", "compute", "copy"}
Jobs   == staged \cup wire \cup waiting

\* check!: a miss is recorded and the scenario goes on.
Note(P) == missed' = (missed \/ ~P)

-----------------------------------------------------------------------------
(* The ER and what it sends back                                             *)

\* sendTransaction is answered once the transaction is accepted; what becomes
\* of it is of no concern to thread_scaling.
Accept(id) ==
  /\ id \in wire
  /\ wire' = wire \ {id} /\ waiting' = waiting \cup {id}
  /\ queue' = IF kind = "scaling" THEN queue ELSE Append(queue, id)
  /\ raced' = (raced \/ \E other \in staged \cup wire : other < id /\ Targets(other) \cap Targets(id) # {})
  /\ UNCHANGED <<run, loop, stop, adm, staged, delivered, failed, sigs, obs, cell, dirty, used,
                 reused, everFailed, harmed, empty>>

\* A transaction none before it conflicts with is executed; its signature is
\* confirmed.  Flawed, its write is lost, in whole or where no observer looks,
\* or it fails, or the hash it computes is wrong.
Execute(i) ==
  /\ i \in DOMAIN queue
  /\ \A j \in 1..i - 1 : Targets(queue[j]) \cap Targets(queue[i]) = {}
  /\ LET id   == queue[i]
         bad  == flaw = "failsTx" /\ id > cursor
         kept == IF id <= cursor THEN Targets(id)
                 ELSE IF flaw \in {"losesWrite", "failsTx"} THEN {}
                 ELSE IF flaw = "tearsWrite" THEN Tracked(id) ELSE Targets(id)
     IN /\ queue' = RemoveAt(queue, i)
        /\ cell' = [a \in Pool |-> IF a \in kept THEN [on |-> TRUE, id |-> id, hash |-> flaw # "miscomputes"]
                                 ELSE cell[a]]
        /\ dirty' = dirty \cup kept
        /\ harmed' = (harmed \/ kept # Targets(id) \/ (flaw = "miscomputes" /\ id > cursor))
        /\ sigs' = IF id \notin sigs.pending THEN sigs
                   ELSE [pending |-> sigs.pending \ {id},
                         confirmed |-> sigs.confirmed + (IF bad THEN 0 ELSE 1),
                         failed |-> sigs.failed + (IF bad THEN 1 ELSE 0)]
  /\ UNCHANGED <<run, loop, stop, window, obs, used, reused, raced, everFailed, empty>>

\* Flawed, the ER never notifies of one account.
Muted(a) == flaw = "losesNotice" /\ a = 0

\* AccountState::observe: one notification may stand for several writes; the
\* newest is observed, older ones that are still pending are superseded.
Notify(a) ==
  /\ a \in dirty /\ dirty' = dirty \ {a} /\ ~Muted(a)
  /\ LET seen == {p \in obs.pending : p = <<cell[a].id, a>>}
         old  == {p \in obs.pending : p[2] = a /\ p[1] < cell[a].id}
     IN obs' = [pending |-> obs.pending \ (seen \cup old),
                observed |-> obs.observed + Cardinality(seen),
                superseded |-> obs.superseded + Cardinality(old)]
  /\ UNCHANGED <<run, loop, stop, window, sigs, cell, queue, hist>>

LoseNotice(a) ==
  /\ a \in dirty /\ Muted(a)
  /\ harmed' = (harmed \/ \E p \in obs.pending : p[2] = a /\ p[1] <= cell[a].id)
  /\ dirty' = dirty \ {a}
  /\ UNCHANGED <<run, loop, stop, window, sigs, obs, cell, queue, used, reused, raced, everFailed, empty>>

\* Flawed, the ER no longer has an account it has executed writes of.
Vanish(a) ==
  /\ flaw = "losesAccount" /\ cell[a].on /\ a \notin dirty
  /\ cell' = [cell EXCEPT ![a].on = FALSE]
  /\ UNCHANGED <<run, loop, stop, window, sigs, obs, queue, dirty, hist>>

ER ==
  \/ \E a \in Pool : Vanish(a)
  \/ \E id \in wire : Accept(id)
  \/ \E i \in DOMAIN queue : Execute(i)
  \/ \E a \in dirty : Notify(a) \/ LoseNotice(a)

Interrupt ==
  /\ ~stop /\ stop' = TRUE
  /\ UNCHANGED <<run, loop, window, sigs, obs, er, hist>>

-----------------------------------------------------------------------------
(* A window                                                                  *)

\* The second configuration of thread_scaling has two workers, each with its
\* own contiguous share of the iterations.
Threads == IF kind = "scaling" /\ phase = 2 THEN {0, 1} ELSE {0}
Share(w) == IF Cardinality(Threads) = 1 THEN Iterations
            ELSE IF w = 0 THEN Iterations - Iterations \div 2 ELSE Iterations \div 2
From(w)  == IF w = 0 THEN 0 ELSE Share(0)

NoWindow == adm = [w \in {0, 1} |-> 0] /\ staged = {} /\ wire = {} /\ waiting = {}

\* The observers of transaction_load are connected anew; those of
\* websocket_fanout live on and only their counts were taken.
OpenWindow ==
  /\ pc = "top" /\ remaining > 0 /\ ~stop
  /\ pc' = "admit" /\ first' = cursor + 1
  /\ adm' = [w \in {0, 1} |-> 0] /\ delivered' = 0 /\ failed' = 0
  /\ sigs' = [pending |-> {}, confirmed |-> 0, failed |-> 0]
  /\ obs' = IF kind = "fanout" THEN obs ELSE [pending |-> {}, observed |-> 0, superseded |-> 0]
  /\ UNCHANGED <<run, result, missed, stop, remaining, total, cursor, staged, wire, waiting, er, hist>>

\* request: the targets are tracked before anything is sent.
Admit(w) ==
  /\ pc = "admit" /\ w \in Threads /\ adm[w] < Share(w) /\ ~stop
  /\ Cardinality(Jobs) < Concurrency
  /\ LET id == cursor + From(w) + adm[w] + 1
     IN /\ staged' = staged \cup {id}
        /\ obs' = [obs EXCEPT !.pending = @ \cup {<<id, a>> : a \in Tracked(id)}]
        /\ reused' = (reused \/ id \in used)
        /\ used' = used \cup {id}
  /\ adm' = [adm EXCEPT ![w] = @ + 1]
  /\ UNCHANGED <<run, loop, stop, wire, waiting, delivered, failed, sigs, er, raced, everFailed, harmed, empty>>

\* SendClock::slot_of: stamping an id out of its range panics.
InClock(id) == id \in first..first + Iterations - 1

\* sign, subscribe, deliver.
Send(id) ==
  /\ id \in staged
  /\ staged' = staged \ {id} /\ wire' = wire \cup {id}
  /\ sigs' = IF Signed THEN [sigs EXCEPT !.pending = @ \cup {id}] ELSE sigs
  /\ result' = IF kind # "scaling" /\ ~InClock(id) THEN "panic" ELSE result
  /\ UNCHANGED <<run, pc, missed, remaining, total, cursor, first, stop, adm, waiting, delivered,
                 failed, obs, er, hist>>

\* Preparing or sending fails.
Fail(id) ==
  /\ id \in staged \cup wire /\ failed < MaxFailed /\ everFailed = "no"
  /\ staged' = staged \ {id} /\ wire' = wire \ {id}
  /\ failed' = failed + 1 /\ everFailed' = "send"
  /\ UNCHANGED <<run, loop, stop, adm, waiting, delivered, sigs, obs, er, used, reused, raced, harmed, empty>>

\* The permit is released: on the answer, or in a closed loop when the
\* signature and the update have been seen.
Deliver(id) ==
  /\ id \in waiting
  /\ closed => id \notin sigs.pending /\ \A p \in obs.pending : p[1] # id
  /\ waiting' = waiting \ {id} /\ delivered' = delivered + 1
  /\ UNCHANGED <<run, loop, stop, adm, staged, wire, failed, sigs, obs, er, hist>>

\* Held for an update that does not come, the request times out and fails.
SyncTimeout(id) ==
  /\ closed /\ id \in waiting /\ queue = <<>> /\ dirty = {}
  /\ id \in sigs.pending \/ \E p \in obs.pending : p[1] = id
  /\ waiting' = waiting \ {id} /\ failed' = failed + 1
  /\ everFailed' = IF everFailed = "no" THEN "sync" ELSE everFailed
  /\ UNCHANGED <<run, loop, stop, adm, staged, wire, delivered, sigs, obs, er, used, reused, raced,
                 harmed, empty>>

\* The window is full, its deadline has passed, or the run was told to stop;
\* what was admitted has been drained.
Drained ==
  /\ pc = "admit" /\ Jobs = {}
  /\ pc' = IF kind = "scaling" THEN "advance"
           ELSE IF kind = "fanout" /\ delivered = 0 THEN "tail" ELSE "settle"
  /\ Note(failed = 0)
  /\ UNCHANGED <<run, result, remaining, total, cursor, first, stop, window, sigs, obs, er, hist>>

\* await_all and await_settled, when nothing failed; a wait nothing can end
\* any more times out.
Settled ==
  /\ pc = "settle"
  /\ \/ (failed > 0 \/ (sigs.pending = {} /\ obs.pending = {}))
        /\ pc' = "outcome" /\ UNCHANGED result
     \/ failed = 0 /\ queue = <<>> /\ dirty = {} /\ (sigs.pending # {} \/ obs.pending # {})
        /\ pc' = "end" /\ result' = "err"
  /\ UNCHANGED <<run, missed, remaining, total, cursor, first, stop, window, sigs, obs, er, hist>>

\* Mutant: an update that superseded another is counted as a loss.
OutcomeObserved ==
  /\ pc = "outcome" /\ pc' = "state"
  /\ Note(/\ obs.observed = (IF kind = "fanout" THEN 2 ELSE 1) * delivered
          /\ Signed => sigs.failed = 0 /\ sigs.confirmed = delivered)
  /\ obs' = [obs EXCEPT !.observed = 0, !.superseded = 0]
  /\ UNCHANGED <<run, result, remaining, total, cursor, first, stop, window, sigs, er, hist>>

\* take_outcome and finalize: every tracked write was observed or superseded.
Outcome ==
  /\ pc = "outcome" /\ pc' = "state"
  /\ Note(/\ obs.observed + obs.superseded = (IF kind = "fanout" THEN 2 ELSE 1) * delivered
          /\ Signed => sigs.failed = 0 /\ sigs.confirmed = delivered)
  /\ obs' = [obs EXCEPT !.observed = 0, !.superseded = 0]
  /\ UNCHANGED <<run, result, remaining, total, cursor, first, stop, window, sigs, er, hist>>

LastOn(a) == LET on == {id \in cursor + 1..cursor + delivered : a \in Targets(id)}
             IN IF on = {} THEN 0 ELSE Max(on)

\* An account the ER does not have is passed over with a warning.
Holds(a, id) == cell[a].on => cell[a].id = id /\ cell[a].hash

\* Mutant: only the accounts an observer was told of are read back.
FinalStateTracked ==
  /\ pc = "state" /\ pc' = IF delivered = 0 THEN "tail" ELSE "advance"
  /\ Note(\A a \in Tracked(cursor + delivered) : LastOn(a) # 0 => Holds(a, LastOn(a)))
  /\ UNCHANGED <<run, result, remaining, total, cursor, first, stop, window, sigs, obs, er, hist>>

\* check_final_state: the last id of the window that writes an account, and the
\* hash of a compute load.
FinalState ==
  /\ pc = "state" /\ pc' = IF delivered = 0 THEN "tail" ELSE "advance"
  /\ Note(\A a \in Pool : LastOn(a) # 0 => Holds(a, LastOn(a)))
  /\ UNCHANGED <<run, result, remaining, total, cursor, first, stop, window, sigs, obs, er, hist>>

\* Mutant: the ids of a window are taken to be the delivered ones.
AdvanceDelivered ==
  /\ pc = "advance" /\ pc' = IF delivered = 0 THEN "tail" ELSE "top"
  /\ cursor' = cursor + delivered
  /\ total' = total + delivered
  /\ remaining' \in 0..remaining - 1
  /\ UNCHANGED <<run, result, missed, first, stop, window, sigs, obs, er, hist>>

\* The ids of the window are used up.  Workers stop anywhere in their shares,
\* so thread_scaling skips the capacity, even of an empty window.  The admission wall is measured from
\* later than the deadline was: some of the duration may remain.
Advance ==
  /\ pc = "advance" /\ pc' = IF delivered = 0 THEN "tail" ELSE "top"
  /\ cursor' = cursor + (IF kind = "scaling" THEN Iterations ELSE delivered)
  /\ total' = total + delivered
  /\ remaining' \in 0..remaining - 1
  /\ UNCHANGED <<run, result, missed, first, stop, window, sigs, obs, er, hist>>

LoopDone ==
  /\ pc = "top" /\ (remaining = 0 \/ stop) /\ pc' = "tail"
  /\ UNCHANGED <<run, result, missed, remaining, total, cursor, first, stop, window, sigs, obs, er, hist>>

\* Something was measured, or the run was interrupted.
LoopTail ==
  /\ pc = "tail"
  /\ Note(total > 0 \/ (stop /\ kind # "scaling"))
  /\ empty' = (empty \/ total = 0)
  /\ IF kind = "scaling" /\ phase = 1
     THEN pc' = "top" /\ phase' = 2 /\ remaining' = Duration /\ total' = 0 /\ UNCHANGED result
     ELSE pc' = "end" /\ result' = "ok" /\ UNCHANGED <<phase, remaining, total>>
  /\ UNCHANGED <<kind, closed, flaw, cursor, first, stop, window, sigs, obs, er, used, reused, raced, everFailed, harmed>>

Loop == OpenWindow \/ Drained \/ Settled \/ Outcome \/ FinalState \/ Advance \/ LoopDone \/ LoopTail

Request == (\E w \in {0, 1} : Admit(w)) \/ (\E id \in Jobs : Send(id) \/ Fail(id) \/ Deliver(id) \/ SyncTimeout(id))

\* warm_up: its transactions were delivered and may not have been executed.
Warm == IF kind \in {"fanout", "scaling"} THEN <<>> ELSE [i \in 1..Warmup |-> i]

Init ==
  /\ kind \in {"write", "compute", "copy", "fanout", "scaling"} /\ closed \in BOOLEAN /\ (closed => Signed)
  /\ flaw \in {"none", "losesWrite", "tearsWrite", "failsTx", "losesNotice", "losesAccount", "miscomputes"}
  /\ (kind = "compute") <=> (flaw = "miscomputes")  \* else it is as `write`
  /\ flaw # "none" => kind # "scaling" /\ (flaw = "failsTx" => Signed)
  /\ pc = "top" /\ result = "none" /\ missed = FALSE /\ stop = FALSE
  /\ remaining = Duration /\ phase = 1 /\ total = 0
  /\ cursor = (IF kind = "fanout" THEN 0 ELSE Warmup) /\ first = 0
  /\ NoWindow /\ delivered = 0 /\ failed = 0
  /\ sigs = [pending |-> {}, confirmed |-> 0, failed |-> 0]
  /\ obs = [pending |-> {}, observed |-> 0, superseded |-> 0]
  /\ cell = [a \in Pool |-> [on |-> TRUE, id |-> 0, hash |-> TRUE]] /\ queue = Warm /\ dirty = {}
  /\ used = 1..cursor /\ reused = FALSE /\ raced = FALSE /\ everFailed = "no" /\ harmed = FALSE /\ empty = FALSE

Next == result = "none" /\ (ER \/ Request \/ Loop \/ Interrupt)

Spec == Init /\ [][Next]_vars

-----------------------------------------------------------------------------
\* No id is offered twice, in whichever window and by whichever worker, unless
\* a request failed (only the deliveries of such a window are counted, so the
\* next one begins inside it); an id is never outside the send clock's range.
FreshIds == result # "panic" /\ (reused => everFailed # "no" /\ kind # "scaling")

\* On an ER that executes what it accepts, a check is missed or a wait times
\* out only if a request failed, two writes of an account were accepted in the
\* other order than they were numbered (`raced`: nothing in an open loop keeps
\* them apart), or nothing was delivered at all.
NoFalseAlarm ==
  flaw = "none" /\ (missed \/ result = "err") =>
    raced \/ everFailed = "send" \/ empty

\* A transaction that failed, a notification or a write that was lost or a wrong
\* hash does not go unnoticed.  An account that is gone from the ER does: the
\* check of the final state passes it over.
DefectCaught == result = "ok" /\ harmed => missed
=============================================================================
