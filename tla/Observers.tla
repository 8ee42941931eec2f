----------------------------- MODULE Observers ------------------------------
(***************************************************************************)
(* One measured window of the transaction load: every request is tracked   *)
(* by AccountUpdates and SignatureConfirmations (transport/ws.rs) before   *)
(* it is delivered, and the window is settled when both have seen it.      *)
(*                                                                         *)
(* The rollup writes an id into the target accounts.  It may coalesce the  *)
(* writes of a slot into one notification; signature and account           *)
(* notifications are independent and may overtake the answer to the        *)
(* delivery.  Writes to one account are applied in the order of their ids, *)
(* which check_final_state of the scenario requires of the rollup as well. *)
(***************************************************************************)
EXTENDS Naturals, Sequences, FiniteSets

CONSTANTS
  Requests,  \* how many requests the window has
  Accounts,
  Targets    \* the accounts tracked for each id

\* Every request tracks some account.
ObserversAssumption ==
  /\ Requests \in Nat
  /\ IsFiniteSet(Accounts)
  /\ Targets \in [1 .. Requests -> (SUBSET Accounts) \ {{}}]

Req == 1 .. Requests

VARIABLES
  mode,        \* "open" or "closed" loop; never changes
  phase,       \* of the window: "run", "drain", "done" or "error"
  job,         \* where each request stands
  pending,     \* AccountState.pending
  by_account,  \* AccountState.by_account
  observed, superseded,
  awaiting,    \* AccountState.waiters
  unconfirmed, \* SignatureState.pending
  confirmed, failures,
  awaitingSig, \* SignatureState.waiters
  received,    \* requests the rollup has and has not executed
  executed,    \* requests it has executed
  written,     \* the id in each account
  dirty,       \* accounts with a write not yet notified
  updates,     \* account notifications on the wire
  signatures   \* signature notifications on the wire

windowVars ==
  <<mode, phase, job, pending, by_account, observed, superseded, awaiting, unconfirmed,
    confirmed, failures, awaitingSig, received, executed, written, dirty, updates,
    signatures>>
accountState == <<pending, by_account, observed, superseded, awaiting>>
signatureState == <<unconfirmed, confirmed, failures, awaitingSig>>
rollup == <<received, executed, written, dirty, updates, signatures>>

Ended == {"delivered", "synced", "failed"}

-----------------------------------------------------------------------------
ObserversInit ==
  /\ mode \in {"open", "closed"} /\ phase = "run"
  /\ job = [i \in Req |-> "idle"]
  /\ pending = [i \in Req |-> {}] /\ by_account = [a \in Accounts |-> {}]
  /\ observed = 0 /\ superseded = 0 /\ awaiting = {}
  /\ unconfirmed = {} /\ confirmed = 0 /\ failures = 0 /\ awaitingSig = {}
  /\ received = {} /\ executed = {} /\ dirty = {}
  /\ written = [a \in Accounts |-> 0]
  /\ updates = <<>> /\ signatures = {}

\* The request closure of measure: track, in the order of the ids.
Track(i) ==
  /\ phase = "run" /\ job[i] = "idle"
  /\ \A j \in Req : j < i => job[j] # "idle"
  /\ pending' = [pending EXCEPT ![i] = Targets[i]]
  /\ by_account' = [a \in Accounts |->
                      IF a \in Targets[i] THEN by_account[a] \cup {i} ELSE by_account[a]]
  /\ job' = [job EXCEPT ![i] = "tracked"]
  /\ UNCHANGED <<mode, phase, observed, superseded, awaiting, signatureState, rollup>>

\* SignatureConfirmations::subscribe, acknowledged.
Subscribe(i) ==
  /\ job[i] = "tracked"
  /\ unconfirmed' = unconfirmed \cup {i}
  /\ job' = [job EXCEPT ![i] = "subscribed"]
  /\ UNCHANGED <<mode, phase, accountState, confirmed, failures, awaitingSig, rollup>>

Deliver(i) ==
  /\ job[i] = "subscribed"
  /\ received' = received \cup {i}
  /\ job' = [job EXCEPT ![i] = "delivering"]
  /\ UNCHANGED <<mode, phase, accountState, signatureState, executed, written, dirty, updates,
                 signatures>>

\* The answer to the delivery; a closed loop goes on to sync.
Delivered(i) ==
  /\ job[i] = "delivering"
  /\ job' = [job EXCEPT ![i] = IF mode = "closed" THEN "sync" ELSE "delivered"]
  /\ UNCHANGED <<mode, phase, accountState, signatureState, rollup>>

\* prepare, subscribe or the delivery fails; or a wait of sync times out.
Fails(i) ==
  /\ job[i] \in {"tracked", "subscribed", "delivering", "awaitSig", "awaitUpdate"}
  /\ job' = [job EXCEPT ![i] = "failed"]
  /\ UNCHANGED <<mode, phase, accountState, signatureState, rollup>>

\* SignatureConfirmations::await_id.
AwaitSignature(i) ==
  /\ job[i] = "sync"
  /\ awaitingSig' = IF i \in unconfirmed THEN awaitingSig \cup {i} ELSE awaitingSig
  /\ job' = [job EXCEPT ![i] = "awaitSig"]
  /\ UNCHANGED <<mode, phase, accountState, unconfirmed, confirmed, failures, rollup>>

\* It resolves, and AccountUpdates::await_id begins in the same poll.
AwaitUpdate(i) ==
  /\ job[i] = "awaitSig" /\ i \notin awaitingSig
  /\ awaiting' = IF pending[i] # {} THEN awaiting \cup {i} ELSE awaiting
  /\ job' = [job EXCEPT ![i] = "awaitUpdate"]
  /\ UNCHANGED <<mode, phase, pending, by_account, observed, superseded, signatureState, rollup>>

Synced(i) ==
  /\ job[i] = "awaitUpdate" /\ i \notin awaiting
  /\ job' = [job EXCEPT ![i] = "synced"]
  /\ UNCHANGED <<mode, phase, accountState, signatureState, rollup>>

-----------------------------------------------------------------------------
\* Mutant: only strictly older writes count, the observed one is forgotten.
SettledKeepsNone(a, id) == {j \in by_account[a] : j < id}

\* The ids of account a that an update with this id settles.
Settled(a, id) == {j \in by_account[a] : j <= id}

\* Mutant: the waiters of superseded writes are not resolved.
ResolvedObserved(a, id) == {j \in Settled(a, id) : j = id /\ pending[j] = {a}}

\* The ids for which this was the last account they waited for.
Resolved(a, id) == {j \in Settled(a, id) : pending[j] = {a}}

\* AccountState::observe: the id itself is observed, older ones superseded.
Observe ==
  /\ updates # <<>> /\ phase \in {"run", "drain"}
  /\ LET a == Head(updates)[1]
         id == Head(updates)[2]
         hit == id \in by_account[a]
     IN  /\ observed' = observed + IF hit THEN 1 ELSE 0
         /\ superseded' = superseded + Cardinality({j \in by_account[a] : j < id})
         /\ pending' = [j \in Req |-> IF j \in Settled(a, id) THEN pending[j] \ {a}
                                      ELSE pending[j]]
         /\ by_account' = [by_account EXCEPT ![a] = @ \ Settled(a, id)]
         /\ awaiting' = awaiting \ Resolved(a, id)
  /\ updates' = Tail(updates)
  /\ UNCHANGED <<mode, phase, job, signatureState, received, executed, written, dirty,
                 signatures>>

\* SignatureState::observe, once: the route is retired with it.
ObserveSignature(n) ==
  /\ n \in signatures /\ phase \in {"run", "drain"}
  /\ signatures' = signatures \ {n}
  /\ unconfirmed' = unconfirmed \ {n.id}
  /\ LET hit == n.id \in unconfirmed
     IN  /\ confirmed' = IF hit /\ n.ok THEN confirmed + 1 ELSE confirmed
         /\ failures' = IF hit /\ ~n.ok THEN failures + 1 ELSE failures
         /\ awaitingSig' = IF hit THEN awaitingSig \ {n.id} ELSE awaitingSig
  /\ UNCHANGED <<mode, phase, job, accountState, received, executed, written, dirty, updates>>

-----------------------------------------------------------------------------
\* Every request has ended.
Drain ==
  /\ phase = "run" /\ \A i \in Req : job[i] \in Ended
  /\ phase' = "drain"
  /\ UNCHANGED <<mode, job, accountState, signatureState, rollup>>

NoFailure == \A i \in Req : job[i] # "failed"

\* Mutant: the window is finalized with writes still pending.
FinalizeUnsettled ==
  /\ phase = "drain"
  /\ NoFailure => unconfirmed = {}
  /\ phase' = "done"
  /\ UNCHANGED <<mode, job, accountState, signatureState, rollup>>

\* await_all, then await_settled, unless a request failed; then finalize.
Finalize ==
  /\ phase = "drain"
  /\ NoFailure => unconfirmed = {} /\ \A i \in Req : pending[i] = {}
  /\ phase' = "done"
  /\ UNCHANGED <<mode, job, accountState, signatureState, rollup>>

\* One of the two waits times out.
WindowTimesOut ==
  /\ phase = "drain" /\ NoFailure
  /\ unconfirmed # {} \/ \E i \in Req : pending[i] # {}
  /\ phase' = "error"
  /\ UNCHANGED <<mode, job, accountState, signatureState, rollup>>

-----------------------------------------------------------------------------
\* External: the rollup executes a transaction, or it fails there.
Execute(i, ok) ==
  /\ i \in received
  /\ \A j \in Req : j < i /\ Targets[j] \cap Targets[i] # {} =>
       j \in executed \/ (job[j] = "failed" /\ j \notin received)
  /\ received' = received \ {i}
  /\ executed' = executed \cup {i}
  /\ written' = [a \in Accounts |-> IF ok /\ a \in Targets[i] THEN i ELSE written[a]]
  /\ dirty' = IF ok THEN dirty \cup Targets[i] ELSE dirty
  /\ signatures' = signatures \cup {[id |-> i, ok |-> ok]}
  /\ UNCHANGED <<mode, phase, job, accountState, signatureState, updates>>

\* External: the account as it is now, all its writes since the last in one.
Notify(a) ==
  /\ a \in dirty
  /\ dirty' = dirty \ {a}
  /\ updates' = Append(updates, <<a, written[a]>>)
  /\ UNCHANGED <<mode, phase, job, accountState, signatureState, received, executed, written,
                 signatures>>

ObserversNext ==
  \/ \E i \in Req :
       \/ Track(i) \/ Subscribe(i) \/ Deliver(i) \/ Delivered(i) \/ Fails(i)
       \/ AwaitSignature(i) \/ AwaitUpdate(i) \/ Synced(i)
       \/ \E ok \in BOOLEAN : Execute(i, ok)
  \/ Observe \/ \E n \in signatures : ObserveSignature(n)
  \/ Drain \/ Finalize \/ WindowTimesOut
  \/ \E a \in Accounts : Notify(a)

ObserversSpec == ObserversInit /\ [][ObserversNext]_windowVars

(***************************************************************************)
(* The requests and both readers are polled by the runtime, and the rollup *)
(* notifies what it has executed.                                          *)
(***************************************************************************)
ObserversFairness ==
  /\ WF_windowVars(Observe)
  /\ \A i \in Req : /\ WF_windowVars(AwaitSignature(i) \/ AwaitUpdate(i) \/ Synced(i))
                    /\ \A ok \in BOOLEAN : WF_windowVars(ObserveSignature([id |-> i, ok |-> ok]))
  /\ \A a \in Accounts : WF_windowVars(Notify(a))

-----------------------------------------------------------------------------
\* "Both indexes contain the same pending writes."
IndexesAgree == \A i \in Req, a \in Accounts : a \in pending[i] <=> i \in by_account[a]

\* The writes of these requests, one for each account tracked for an id.
Writes(ids) == {w \in ids \X Accounts : w[2] \in Targets[w[1]]}

Tracked == {i \in Req : job[i] # "idle"}
PendingWrites == {w \in Req \X Accounts : w[2] \in pending[w[1]]}

\* Every tracked write is pending, in both indexes, observed or superseded, and
\* one of them only (track, observe).
EveryWriteCountedOnce ==
  /\ IndexesAgree
  /\ observed + superseded + Cardinality(PendingWrites) = Cardinality(Writes(Tracked))

\* The checks that end measure pass whenever no request failed and every
\* transaction was executed: each write was seen, each signature confirmed.
OutcomeMatchesDelivered ==
  phase = "done" /\ NoFailure =>
    /\ observed + superseded = Cardinality(Writes(Req))
    /\ confirmed + failures = Cardinality(Req)

\* In a closed loop a permit is released only when the request's signature and
\* all its writes have been seen.
PermitHeldUntilSeen ==
  \A i \in Req : job[i] = "synced" => i \notin unconfirmed /\ pending[i] = {}

\* Neither a request nor the window is settled before everything was seen
\* (sync, finalize).
SettledMeansSeen == PermitHeldUntilSeen /\ OutcomeMatchesDelivered

\* Requests that wait for updates though all their accounts hold their write
\* or a later one.
Overdue ==
  /\ phase \notin {"done", "error"}
  /\ \E i \in Req : job[i] = "awaitUpdate" /\ \A a \in Targets[i] : written[a] >= i
=============================================================================
