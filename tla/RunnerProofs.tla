---------------------------- MODULE RunnerProofs ----------------------------
(***************************************************************************)
(* Proofs of the safety properties of the load engine: of the observers of *)
(* a measured window (Observers), for any number of requests and any       *)
(* accounts they write, and of the admission engine (Runner), for every    *)
(* bound on the jobs, the concurrency and the timeout.                     *)
(***************************************************************************)
EXTENDS Runner, Observers, Integers, TLAPS

-----------------------------------------------------------------------------
(***************************************************************************)
(* Proofs about one measured window of the transaction load (AccountState  *)
(* and SignatureState of transport/ws.rs), for any number of requests and  *)
(* any accounts they write.                                                *)
(*                                                                         *)
(* What a wait of sync relies on is inductive: a request that waits is     *)
(* registered as long as something it waits for is pending, and what one   *)
(* index says is what the other says.                                      *)
(***************************************************************************)

\* Where a request can stand.
Jobs == {"idle", "tracked", "subscribed", "delivering", "sync", "awaitSig", "awaitUpdate",
         "synced", "delivered", "failed"}

\* The shape of the state that the argument needs.
ObserversTypeOK ==
  /\ job \in [Req -> Jobs]
  /\ pending \in [Req -> SUBSET Accounts]
  /\ by_account \in [Accounts -> SUBSET Req]
  /\ written \in [Accounts -> Nat]
  /\ dirty \subseteq Accounts
  /\ updates \in Seq(Accounts \X Nat)

\* Where a request stands, against the state of the two observers.
Waits(i) ==
  /\ job[i] = "idle" => pending[i] = {}
  /\ job[i] = "awaitSig" /\ i \in unconfirmed => i \in awaitingSig
  /\ job[i] \in {"awaitUpdate", "synced"} => i \notin unconfirmed
  /\ job[i] = "awaitUpdate" /\ pending[i] # {} => i \in awaiting
  /\ job[i] = "synced" => pending[i] = {}

ObserversInv == ObserversTypeOK /\ IndexesAgree /\ \A i \in Req : Waits(i)

\* The window begins with nothing tracked.
LEMMA ObserversInitInv == ObserversInit => ObserversInv
<1>1. ASSUME ObserversInit PROVE ObserversTypeOK
  BY <1>1 DEF ObserversInit, ObserversTypeOK, Jobs
<1>2. ASSUME ObserversInit PROVE IndexesAgree /\ \A i \in Req : Waits(i)
  BY <1>2 DEF ObserversInit, IndexesAgree, Waits
<1>. QED
  BY <1>1, <1>2 DEF ObserversInv

\* AccountUpdates::track: both indexes get the write, for the same accounts.
LEMMA TrackStep ==
  ASSUME ObserversAssumption, ObserversInv, NEW n \in Req, Track(n)
  PROVE  ObserversInv'
<1>. USE DEF ObserversInv
<1>1. /\ pending' = [pending EXCEPT ![n] = Targets[n]] /\ Targets[n] \in SUBSET Accounts
      /\ by_account' = [a \in Accounts |->
                          IF a \in Targets[n] THEN by_account[a] \cup {n} ELSE by_account[a]]
      /\ job[n] = "idle" /\ job' = [job EXCEPT ![n] = "tracked"]
      /\ UNCHANGED <<awaiting, unconfirmed, awaitingSig, written, dirty, updates>>
  BY DEF Track, ObserversAssumption, Req, signatureState, rollup
<1>2. ObserversTypeOK'
  BY <1>1 DEF ObserversTypeOK, Jobs
<1>3. IndexesAgree'
  BY <1>1 DEF IndexesAgree, ObserversTypeOK, Waits
<1>4. ASSUME NEW i \in Req PROVE Waits(i)'
  BY <1>1, <1>4 DEF Waits, ObserversTypeOK
<1>. QED
  BY <1>2, <1>3, <1>4

\* A request moves on without the account index: subscribe, deliver, the two
\* waits of sync, and its failure.
LEMMA RequestStep ==
  ASSUME ObserversInv, NEW n \in Req,
         \/ Subscribe(n) \/ Deliver(n) \/ Delivered(n) \/ Fails(n)
         \/ AwaitSignature(n) \/ AwaitUpdate(n) \/ Synced(n)
  PROVE  ObserversInv'
<1>. USE DEF ObserversInv
<1>1. UNCHANGED <<pending, by_account, written, dirty, updates>>
  BY DEF Subscribe, Deliver, Delivered, Fails, AwaitSignature, AwaitUpdate, Synced,
         accountState, signatureState, rollup
<1>2. job' \in [Req -> Jobs] /\ \A i \in Req : i # n => job'[i] = job[i]
  BY Zenon DEF ObserversTypeOK, Jobs, Subscribe, Deliver, Delivered, Fails, AwaitSignature, AwaitUpdate, Synced
<1>3. ObserversTypeOK' /\ IndexesAgree'
  BY <1>1, <1>2 DEF ObserversTypeOK, IndexesAgree
<1>4. \A i \in Req : i # n => /\ i \in unconfirmed' <=> i \in unconfirmed
                              /\ i \in awaitingSig' <=> i \in awaitingSig
                              /\ i \in awaiting' <=> i \in awaiting
  BY DEF Subscribe, Deliver, Delivered, Fails, AwaitSignature, AwaitUpdate, Synced,
         accountState, signatureState
<1>5. ASSUME NEW i \in Req, i # n PROVE Waits(i)'
  BY <1>1, <1>2, <1>4, <1>5 DEF Waits
<1>6. Waits(n)'
  <2>1. CASE Subscribe(n) \/ Deliver(n) \/ Delivered(n) \/ Fails(n)
    <3>1. job'[n] \in {"subscribed", "delivering", "sync", "delivered", "failed"}
      BY <2>1 DEF ObserversTypeOK, Subscribe, Deliver, Delivered, Fails
    <3>. QED
      BY <3>1 DEF Waits
  <2>2. CASE AwaitSignature(n)
    BY <2>2 DEF AwaitSignature, Waits, ObserversTypeOK
  <2>3. CASE AwaitUpdate(n)
    BY <1>1, <2>3 DEF AwaitUpdate, Waits, ObserversTypeOK, signatureState
  <2>4. CASE Synced(n)
    BY <1>1, <2>4 DEF Synced, Waits, ObserversTypeOK, signatureState, accountState
  <2>. QED
    BY <2>1, <2>2, <2>3, <2>4
<1>. QED
  BY <1>3, <1>5, <1>6

\* AccountState::observe: the write itself and those it supersedes leave both
\* indexes, and a waiter is resolved only when nothing of it is pending.
LEMMA ObserveStep == ASSUME ObserversInv, Observe PROVE ObserversInv'
<1>. USE DEF ObserversInv
<1>. DEFINE b == Head(updates)[1]
            id == Head(updates)[2]
<1>1. b \in Accounts /\ id \in Nat /\ Tail(updates) \in Seq(Accounts \X Nat)
  <2>1. updates \in Seq(Accounts \X Nat) /\ updates # <<>>
    BY DEF Observe, ObserversTypeOK
  <2>2. Head(updates) \in Accounts \X Nat /\ Tail(updates) \in Seq(Accounts \X Nat)
    BY <2>1
  <2>. QED
    BY <2>2
<1>2. /\ pending' = [j \in Req |-> IF j \in Settled(b, id) THEN pending[j] \ {b} ELSE pending[j]]
      /\ by_account' = [by_account EXCEPT ![b] = @ \ Settled(b, id)]
      /\ awaiting' = awaiting \ Resolved(b, id)
      /\ updates' = Tail(updates)
      /\ UNCHANGED <<job, unconfirmed, awaitingSig, written, dirty>>
  BY DEF Observe, signatureState
<1>. HIDE DEF b, id
<1>3. Settled(b, id) \subseteq by_account[b]
      /\ Resolved(b, id) \subseteq {j \in Settled(b, id) : pending[j] = {b}}
  BY DEF Settled, Resolved
<1>4. ObserversTypeOK'
  BY <1>1, <1>2 DEF ObserversTypeOK
<1>5. IndexesAgree'
  BY <1>1, <1>2, <1>3 DEF IndexesAgree, ObserversTypeOK
<1>6. ASSUME NEW i \in Req PROVE Waits(i)'
  <2>1. pending'[i] \subseteq pending[i] /\ (i \in Resolved(b, id) => pending'[i] = {})
    BY <1>2, <1>3
  <2>. QED
    BY <1>2, <2>1 DEF Waits
<1>. QED
  BY <1>4, <1>5, <1>6

\* Steps that leave requests and account index alone; a signature that is
\* observed is no longer pending, and only its own waiter is resolved.
LEMMA OtherStep ==
  ASSUME ObserversInv,
         \/ \E n \in signatures : ObserveSignature(n)
         \/ Drain \/ Finalize \/ WindowTimesOut
         \/ UNCHANGED windowVars
  PROVE  ObserversInv'
<1>. USE DEF ObserversInv
<1>1. UNCHANGED <<job, pending, by_account, awaiting, written, dirty, updates>>
  BY DEF ObserveSignature, Drain, Finalize, WindowTimesOut, accountState, rollup, windowVars
<1>2. \A i \in Req : i \in unconfirmed' =>
        i \in unconfirmed /\ (i \in awaitingSig => i \in awaitingSig')
  BY DEF ObserveSignature, Drain, Finalize, WindowTimesOut, signatureState, windowVars
<1>3. ObserversTypeOK' /\ IndexesAgree'
  BY <1>1 DEF ObserversTypeOK, IndexesAgree
<1>4. ASSUME NEW i \in Req PROVE Waits(i)'
  BY <1>1, <1>2, <1>4 DEF Waits
<1>. QED
  BY <1>3, <1>4

\* The rollup executes and notifies: the observers do not see it yet.
LEMMA RollupStep ==
  ASSUME ObserversAssumption, ObserversInv,
         \/ \E i \in Req, ok \in BOOLEAN : Execute(i, ok)
         \/ \E a \in Accounts : Notify(a)
  PROVE  ObserversInv'
<1>. USE DEF ObserversInv
<1>1. UNCHANGED <<job, pending, by_account, awaiting, unconfirmed, awaitingSig>>
  BY DEF Execute, Notify, accountState, signatureState
<1>2. written' \in [Accounts -> Nat] /\ dirty' \subseteq Accounts /\ updates' \in Seq(Accounts \X Nat)
  <2>1. ASSUME NEW i \in Req, NEW ok \in BOOLEAN, Execute(i, ok)
        PROVE  written' \in [Accounts -> Nat] /\ dirty' \subseteq Accounts
               /\ updates' \in Seq(Accounts \X Nat)
    <3>1. i \in Nat /\ Targets[i] \subseteq Accounts
      BY DEF ObserversAssumption, Req
    <3>. QED
      BY <2>1, <3>1 DEF Execute, ObserversTypeOK
  <2>2. ASSUME NEW a \in Accounts, Notify(a)
        PROVE  written' \in [Accounts -> Nat] /\ dirty' \subseteq Accounts
               /\ updates' \in Seq(Accounts \X Nat)
    <3>1. <<a, written[a]>> \in Accounts \X Nat /\ updates \in Seq(Accounts \X Nat)
      BY DEF ObserversTypeOK
    <3>2. Append(updates, <<a, written[a]>>) \in Seq(Accounts \X Nat)
      BY <3>1
    <3>. QED
      BY <2>2, <3>2 DEF Notify, ObserversTypeOK
  <2>. QED
    BY <2>1, <2>2
<1>3. ObserversTypeOK' /\ IndexesAgree'
  BY <1>1, <1>2 DEF ObserversTypeOK, IndexesAgree
<1>4. ASSUME NEW i \in Req PROVE Waits(i)'
  BY <1>1, <1>4 DEF Waits
<1>. QED
  BY <1>3, <1>4

\* The invariant holds throughout the window.
LEMMA ObserversInvariance == ASSUME ObserversAssumption PROVE ObserversSpec => []ObserversInv
<1>1. ASSUME ObserversInv, [ObserversNext]_windowVars PROVE ObserversInv'
  BY <1>1, TrackStep, RequestStep, ObserveStep, OtherStep, RollupStep DEF ObserversNext
<1>. QED
  BY ObserversInitInv, <1>1, PTL DEF ObserversSpec

-----------------------------------------------------------------------------
(***************************************************************************)
(* The counters.  What was counted, together with what is pending, is what *)
(* was tracked; for signatures as long as no request has failed, since one *)
(* that fails may or may not have subscribed.                              *)
(***************************************************************************)
Subscribed == {i \in Req : job[i] \notin {"idle", "tracked"}}

CountersOK ==
  /\ observed \in Nat /\ superseded \in Nat /\ confirmed \in Nat /\ failures \in Nat
  /\ unconfirmed \subseteq Subscribed

WritesCounted ==
  observed + superseded + Cardinality(PendingWrites) = Cardinality(Writes(Tracked))

SignaturesCounted ==
  NoFailure => confirmed + failures + Cardinality(unconfirmed) = Cardinality(Subscribed)

WindowOK ==
  /\ phase # "run" => \A i \in Req : job[i] \in Ended
  /\ phase = "done" /\ NoFailure => unconfirmed = {} /\ \A i \in Req : pending[i] = {}

CInv == CountersOK /\ WritesCounted /\ SignaturesCounted /\ WindowOK

INSTANCE FiniteSetTheorems

\* The sets that are counted are finite.
LEMMA Finite ==
  ASSUME ObserversAssumption
  PROVE  /\ IsFiniteSet(Req) /\ IsFiniteSet(Req \X Accounts)
         /\ \A S \in SUBSET Req : IsFiniteSet(S) /\ Cardinality(S) \in Nat
         /\ \A S \in SUBSET (Req \X Accounts) : IsFiniteSet(S) /\ Cardinality(S) \in Nat
<1>1. IsFiniteSet(Req)
  BY FS_Interval DEF ObserversAssumption, Req
<1>2. IsFiniteSet(Req \X Accounts)
  BY <1>1, FS_Product DEF ObserversAssumption
<1>3. ASSUME NEW U, IsFiniteSet(U), NEW S \in SUBSET U
      PROVE  IsFiniteSet(S) /\ Cardinality(S) \in Nat
  BY <1>3, FS_Subset, FS_CardinalityType
<1>. QED
  BY <1>1, <1>2, <1>3

\* The number of elements of two sets that share none.
LEMMA Disjoint ==
  ASSUME NEW S, NEW T, IsFiniteSet(S), IsFiniteSet(T), S \cap T = {}
  PROVE  Cardinality(S \cup T) = Cardinality(S) + Cardinality(T)
<1>1. Cardinality(S) \in Nat /\ Cardinality(T) \in Nat
  BY FS_CardinalityType
<1>2. Cardinality(S \cap T) = 0
  BY FS_EmptySet
<1>3. Cardinality(S \cup T) = Cardinality(S) + Cardinality(T) - Cardinality(S \cap T)
  BY FS_Union
<1>. QED
  BY <1>1, <1>2, <1>3

\* The window begins with all counters at zero.
LEMMA InitCounts == ASSUME ObserversInit PROVE CInv
<1>1. Subscribed = {} /\ Tracked = {} /\ PendingWrites = {} /\ Writes(Tracked) = {}
  BY DEF ObserversInit, Subscribed, Tracked, PendingWrites, Writes
<1>2. /\ Cardinality(Subscribed) = 0 /\ Cardinality(PendingWrites) = 0
      /\ Cardinality(Writes(Tracked)) = 0 /\ Cardinality({}) = 0
  BY <1>1, FS_EmptySet, Zenon
<1>3. CountersOK /\ WindowOK
  BY <1>1 DEF ObserversInit, CountersOK, WindowOK
<1>4. WritesCounted /\ SignaturesCounted
  BY <1>2 DEF ObserversInit, WritesCounted, SignaturesCounted
<1>. QED
  BY <1>3, <1>4 DEF CInv

\* track: the writes of the request are new, and all of them are pending.
LEMMA TrackCounts ==
  ASSUME ObserversAssumption, ObserversInv, CInv, NEW n \in Req, Track(n)
  PROVE  CInv'
<1>1. /\ pending' = [pending EXCEPT ![n] = Targets[n]] /\ Targets[n] \in SUBSET Accounts
      /\ job[n] = "idle" /\ job' = [job EXCEPT ![n] = "tracked"] /\ phase = "run"
      /\ UNCHANGED <<phase, observed, superseded, unconfirmed, confirmed, failures>>
  BY DEF Track, ObserversAssumption, Req, signatureState
<1>2. job \in [Req -> Jobs] /\ pending \in [Req -> SUBSET Accounts] /\ pending[n] = {}
  BY <1>1 DEF ObserversInv, ObserversTypeOK, Waits
<1>. DEFINE new == {w \in {n} \X Accounts : w[2] \in Targets[w[1]]}
<1>3. Tracked' = Tracked \cup {n} /\ n \notin Tracked /\ Tracked \subseteq Req
  BY <1>1, <1>2 DEF Tracked
<1>4. Writes(Tracked)' = Writes(Tracked) \cup new /\ Writes(Tracked) \cap new = {}
  BY <1>3 DEF Writes
<1>5. PendingWrites' = PendingWrites \cup new /\ PendingWrites \cap new = {}
  BY <1>1, <1>2 DEF PendingWrites
<1>6. /\ IsFiniteSet(new) /\ IsFiniteSet(Writes(Tracked)) /\ IsFiniteSet(PendingWrites)
      /\ Cardinality(new) \in Nat /\ Cardinality(Writes(Tracked)) \in Nat
      /\ Cardinality(PendingWrites) \in Nat
  BY <1>3, Finite DEF Writes, PendingWrites
<1>7. WritesCounted'
  <2>1. Cardinality(Writes(Tracked)') = Cardinality(Writes(Tracked)) + Cardinality(new)
    BY <1>4, <1>6, Disjoint
  <2>2. Cardinality(PendingWrites') = Cardinality(PendingWrites) + Cardinality(new)
    BY <1>5, <1>6, Disjoint
  <2>. HIDE DEF new
  <2>. QED
    BY <1>1, <1>6, <2>1, <2>2 DEF CInv, CountersOK, WritesCounted
<1>8. Subscribed' = Subscribed /\ NoFailure' = NoFailure
  BY <1>1, <1>2 DEF Subscribed, NoFailure
<1>. QED
  BY <1>1, <1>7, <1>8 DEF CInv, CountersOK, SignaturesCounted, WindowOK


\* Where nothing is tracked and no request moves, the writes stay counted.
LEMMA SameWrites ==
  ASSUME CInv, UNCHANGED <<pending, observed, superseded>>, Tracked' = Tracked
  PROVE  WritesCounted'
<1>1. PendingWrites' = PendingWrites /\ Writes(Tracked)' = Writes(Tracked)
  BY DEF PendingWrites, Writes
<1>. QED
  BY <1>1 DEF CInv, WritesCounted

\* subscribe: one more signature is awaited.
LEMMA SubscribeCounts ==
  ASSUME ObserversAssumption, ObserversInv, CInv, NEW n \in Req, Subscribe(n)
  PROVE  CInv'
<1>1. /\ job[n] = "tracked" /\ job' = [job EXCEPT ![n] = "subscribed"]
      /\ unconfirmed' = unconfirmed \cup {n}
      /\ UNCHANGED <<phase, pending, observed, superseded, confirmed, failures>>
  BY DEF Subscribe, accountState
<1>2. job \in [Req -> Jobs]
  BY DEF ObserversInv, ObserversTypeOK
<1>3. Tracked' = Tracked /\ Subscribed' = Subscribed \cup {n} /\ n \notin Subscribed
      /\ NoFailure' = NoFailure
  BY <1>1, <1>2 DEF Tracked, Subscribed, NoFailure
<1>4. WritesCounted'
  BY <1>1, <1>3, SameWrites
<1>5. /\ unconfirmed \subseteq Subscribed /\ n \notin unconfirmed
      /\ CountersOK'
  BY <1>1, <1>3 DEF CInv, CountersOK
<1>6. SignaturesCounted'
  <2>1. /\ IsFiniteSet(unconfirmed) /\ IsFiniteSet(Subscribed)
        /\ Cardinality(unconfirmed) \in Nat /\ Cardinality(Subscribed) \in Nat
    BY <1>5, Finite DEF Subscribed
  <2>2. Cardinality(unconfirmed') = Cardinality(unconfirmed) + 1
        /\ Cardinality(Subscribed') = Cardinality(Subscribed) + 1
    BY Zenon, <1>1, <1>3, <1>5, <2>1, FS_AddElement
  <2>. QED
    BY <1>1, <1>3, <2>1, <2>2 DEF CInv, CountersOK, SignaturesCounted
<1>7. WindowOK'
  BY <1>1 DEF CInv, WindowOK, Ended
<1>. QED
  BY <1>4, <1>5, <1>6, <1>7 DEF CInv

\* A request moves on after it has subscribed, or fails: nothing is counted.
LEMMA MoveCounts ==
  ASSUME ObserversAssumption, ObserversInv, CInv, NEW n \in Req,
         \/ Deliver(n) \/ Delivered(n) \/ Fails(n)
         \/ AwaitSignature(n) \/ AwaitUpdate(n) \/ Synced(n)
  PROVE  CInv'
<1>1. UNCHANGED <<phase, pending, observed, superseded, unconfirmed, confirmed, failures>>
  BY DEF Deliver, Delivered, Fails, AwaitSignature, AwaitUpdate, Synced,
         accountState, signatureState
<1>2. /\ job[n] \notin {"idle", "failed", "delivered", "synced"}
      /\ job'[n] \notin {"idle", "tracked"}
      /\ job[n] = "tracked" => job'[n] = "failed"
      /\ \A i \in Req : i # n => job'[i] = job[i]
  BY DEF Deliver, Delivered, Fails, AwaitSignature, AwaitUpdate, Synced, ObserversInv, ObserversTypeOK
<1>3. Tracked' = Tracked
  BY <1>2 DEF Tracked
<1>4. WritesCounted'
  BY <1>1, <1>3, SameWrites
<1>5. Subscribed \subseteq Subscribed' /\ CountersOK'
  BY <1>1, <1>2 DEF CInv, CountersOK, Subscribed
<1>6. NoFailure' => NoFailure /\ Subscribed' = Subscribed
  BY <1>2 DEF NoFailure, Subscribed
<1>7. SignaturesCounted' /\ WindowOK'
  <2>1. phase = "run"
    BY <1>2 DEF CInv, WindowOK, Ended
  <2>. QED
    BY <1>1, <1>6, <2>1 DEF CInv, SignaturesCounted, WindowOK
<1>. QED
  BY <1>4, <1>5, <1>7 DEF CInv

\* Of these ids those up to n, and those below n.
LEMMA UpTo ==
  ASSUME NEW S \in SUBSET Nat, NEW n \in Nat, IsFiniteSet(S)
  PROVE  Cardinality({j \in S : j <= n}) =
           Cardinality({j \in S : j < n}) + IF n \in S THEN 1 ELSE 0
<1>. DEFINE below == {j \in S : j < n}
<1>1. IsFiniteSet(below) /\ Cardinality(below) \in Nat
  BY FS_Subset, FS_CardinalityType
<1>0. \A j \in S : (j <= n <=> j < n \/ j = n) /\ (j < n => j # n)
  OBVIOUS
<1>2. CASE n \in S
  <2>1. {j \in S : j <= n} = below \cup {n} /\ n \notin below
    BY <1>0, <1>2, Zenon
  <2>. QED
    BY Zenon, <1>1, <1>2, <2>1, FS_AddElement
<1>3. CASE n \notin S
  <2>1. {j \in S : j <= n} = below
    BY <1>0, <1>3, Zenon
  <2>. QED
    BY <1>1, <1>3, <2>1
<1>. QED
  BY <1>2, <1>3

\* As many ids as pairs of them with one account.
LEMMA Paired ==
  ASSUME NEW S, NEW b, IsFiniteSet(S)
  PROVE  IsFiniteSet(S \X {b}) /\ Cardinality(S \X {b}) = Cardinality(S)
<1>. DEFINE f == [j \in S |-> <<j, b>>]
<1>1. f \in [S -> S \X {b}] /\ \A i, j \in S : f[i] = f[j] => i = j
  OBVIOUS
<1>2. \A t \in S \X {b} : \E j \in S : f[j] = t
  OBVIOUS
<1>3. f \in Bijection(S, S \X {b})
  BY <1>1, <1>2 DEF Bijection, Injection, Surjection, IsInjective
<1>. QED
  BY <1>3, FS_Bijection DEF ExistsBijection

\* What is left of a finite set when a part of it is gone.
LEMMA Without ==
  ASSUME NEW S, IsFiniteSet(S), NEW T \in SUBSET S
  PROVE  Cardinality(S \ T) = Cardinality(S) - Cardinality(T)
<1>1. S \cap T = T
  OBVIOUS
<1>. QED
  BY Zenon, <1>1, FS_Difference

\* observe: what leaves the indexes is counted, the id itself as observed and
\* the older ones as superseded.
LEMMA ObserveCounts == ASSUME ObserversAssumption, ObserversInv, CInv, Observe PROVE CInv'
<1>. DEFINE b == Head(updates)[1]
            id == Head(updates)[2]
            older == {j \in by_account[b] : j < id}
            seen == {j \in by_account[b] : j <= id}
            gone == seen \X {b}
<1>1. b \in Accounts /\ id \in Nat
  <2>1. updates \in Seq(Accounts \X Nat) /\ updates # <<>>
    BY DEF Observe, ObserversInv, ObserversTypeOK
  <2>2. Head(updates) \in Accounts \X Nat
    BY <2>1
  <2>. QED
    BY <2>2
<1>2. /\ pending' = [j \in Req |-> IF j \in seen THEN pending[j] \ {b} ELSE pending[j]]
      /\ observed' = observed + IF id \in by_account[b] THEN 1 ELSE 0
      /\ superseded' = superseded + Cardinality(older)
      /\ UNCHANGED <<phase, job, unconfirmed, confirmed, failures>>
  BY DEF Observe, Settled, signatureState
<1>. HIDE DEF b, id
<1>3. /\ by_account[b] \subseteq Req /\ Req \subseteq Nat
      /\ \A j \in Req : b \in pending[j] <=> j \in by_account[b]
      /\ pending \in [Req -> SUBSET Accounts]
  BY <1>1 DEF ObserversInv, ObserversTypeOK, IndexesAgree, Req
<1>4. PendingWrites' = PendingWrites \ gone /\ gone \subseteq PendingWrites
  BY Zenon, <1>1, <1>2, <1>3 DEF PendingWrites
<1>5. /\ IsFiniteSet(by_account[b]) /\ IsFiniteSet(seen) /\ IsFiniteSet(PendingWrites)
      /\ Cardinality(seen) \in Nat /\ Cardinality(older) \in Nat
      /\ Cardinality(PendingWrites) \in Nat
  <2>1. seen \subseteq Req /\ older \subseteq Req
    BY <1>3
  <2>. QED
    BY <1>3, <2>1, Finite DEF PendingWrites
<1>6. Cardinality(seen) = Cardinality(older) + IF id \in by_account[b] THEN 1 ELSE 0
  BY <1>1, <1>3, <1>5, UpTo
<1>. HIDE DEF older, seen
<1>7. Cardinality(gone) = Cardinality(seen)
  BY Zenon, <1>5, Paired
<1>8. Cardinality(PendingWrites') = Cardinality(PendingWrites) - Cardinality(gone)
  BY <1>4, <1>5, Without
<1>9. Tracked' = Tracked /\ Writes(Tracked)' = Writes(Tracked) /\ Cardinality(Writes(Tracked)) \in Nat
  BY <1>2, Finite DEF Tracked, Writes
<1>. HIDE DEF gone
<1>10. WritesCounted' /\ CountersOK'
  <2>1. observed' + superseded' = observed + superseded + Cardinality(gone)
        /\ observed' \in Nat /\ superseded' \in Nat /\ observed \in Nat /\ superseded \in Nat
    BY <1>2, <1>5, <1>6, <1>7 DEF CInv, CountersOK
  <2>2. WritesCounted'
    BY <1>5, <1>7, <1>8, <1>9, <2>1 DEF CInv, WritesCounted
  <2>3. Subscribed' = Subscribed
    BY <1>2 DEF Subscribed
  <2>. QED
    BY <1>2, <2>1, <2>2, <2>3 DEF CInv, CountersOK
<1>11. SignaturesCounted'
  BY <1>2 DEF CInv, SignaturesCounted, Subscribed, NoFailure
<1>12. WindowOK'
  <2>1. phase # "done" /\ phase' # "done"
    BY <1>2 DEF Observe
  <2>. QED
    BY <1>2, <2>1 DEF CInv, WindowOK
<1>. QED
  BY <1>10, <1>11, <1>12 DEF CInv

\* SignatureState::observe: a signature that was awaited is counted once.
LEMMA SignatureCounts ==
  ASSUME ObserversAssumption, ObserversInv, CInv, NEW n \in signatures, ObserveSignature(n)
  PROVE  CInv'
<1>1. /\ unconfirmed' = unconfirmed \ {n.id}
      /\ confirmed' = IF n.id \in unconfirmed /\ n.ok THEN confirmed + 1 ELSE confirmed
      /\ failures' = IF n.id \in unconfirmed /\ ~n.ok THEN failures + 1 ELSE failures
      /\ UNCHANGED <<phase, job, pending, observed, superseded>>
      /\ phase # "done"
  BY DEF ObserveSignature, accountState
<1>2. Subscribed' = Subscribed /\ Tracked' = Tracked /\ NoFailure' = NoFailure
  BY <1>1 DEF Subscribed, Tracked, NoFailure
<1>3. WritesCounted'
  BY <1>1, <1>2, SameWrites
<1>4. CountersOK' /\ WindowOK'
  BY <1>1, <1>2 DEF CInv, CountersOK, WindowOK
<1>5. SignaturesCounted'
  <2>1. IsFiniteSet(unconfirmed) /\ Cardinality(unconfirmed) \in Nat /\ Cardinality(Subscribed) \in Nat
    BY Finite DEF CInv, CountersOK, Subscribed
  <2>2. Cardinality(unconfirmed') =
          IF n.id \in unconfirmed THEN Cardinality(unconfirmed) - 1 ELSE Cardinality(unconfirmed)
    BY Zenon, <1>1, <2>1, FS_RemoveElement
  <2>3. confirmed' + failures' = IF n.id \in unconfirmed THEN confirmed + failures + 1
                               ELSE confirmed + failures
    BY <1>1 DEF CInv, CountersOK
  <2>4. confirmed' + failures' + Cardinality(unconfirmed') =
          confirmed + failures + Cardinality(unconfirmed)
    BY <2>1, <2>2, <2>3 DEF CInv, CountersOK
  <2>. QED
    BY <1>2, <2>4 DEF CInv, SignaturesCounted
<1>. QED
  BY <1>3, <1>4, <1>5 DEF CInv

\* The window moves on, the rollup works, or nothing happens.
LEMMA PhaseCounts ==
  ASSUME CInv,
         \/ Drain \/ Finalize \/ WindowTimesOut
         \/ \E i \in Req, ok \in BOOLEAN : Execute(i, ok)
         \/ \E a \in Accounts : Notify(a)
         \/ UNCHANGED windowVars
  PROVE  CInv'
<1>1. UNCHANGED <<job, pending, observed, superseded, unconfirmed, confirmed, failures>>
  BY DEF Drain, Finalize, WindowTimesOut, Execute, Notify, accountState, signatureState, windowVars
<1>2. Subscribed' = Subscribed /\ Tracked' = Tracked /\ NoFailure' = NoFailure
  BY <1>1 DEF Subscribed, Tracked, NoFailure
<1>3. WritesCounted'
  BY <1>1, <1>2, SameWrites
<1>4. CountersOK' /\ SignaturesCounted'
  BY <1>1, <1>2 DEF CInv, CountersOK, SignaturesCounted
<1>5. WindowOK'
  <2>1. CASE phase' = phase
    BY <1>1, <1>2, <2>1 DEF CInv, WindowOK
  <2>2. CASE Drain \/ Finalize \/ WindowTimesOut
    BY <1>1, <1>2, <2>2 DEF CInv, WindowOK, Drain, Finalize, WindowTimesOut
  <2>. QED
    BY <2>1, <2>2 DEF Execute, Notify, windowVars
<1>. QED
  BY <1>3, <1>4, <1>5 DEF CInv

\* The counters are right throughout the window.
LEMMA ObserversCounting == ASSUME ObserversAssumption PROVE ObserversSpec => [](ObserversInv /\ CInv)
<1>1. ASSUME ObserversInv, CInv, [ObserversNext]_windowVars PROVE CInv'
  <2>1. CASE \E i \in Req : Track(i)
    BY <1>1, <2>1, TrackCounts
  <2>2. CASE \E i \in Req : Subscribe(i)
    BY <1>1, <2>2, SubscribeCounts
  <2>3. CASE \E i \in Req : \/ Deliver(i) \/ Delivered(i) \/ Fails(i)
                            \/ AwaitSignature(i) \/ AwaitUpdate(i) \/ Synced(i)
    BY <1>1, <2>3, MoveCounts
  <2>4. CASE Observe
    BY <1>1, <2>4, ObserveCounts
  <2>5. CASE \E n \in signatures : ObserveSignature(n)
    BY <1>1, <2>5, SignatureCounts
  <2>6. CASE \/ Drain \/ Finalize \/ WindowTimesOut
             \/ \E i \in Req, ok \in BOOLEAN : Execute(i, ok)
             \/ \E a \in Accounts : Notify(a)
             \/ UNCHANGED windowVars
    BY <1>1, <2>6, PhaseCounts
  <2>. QED
    BY <1>1, <2>1, <2>2, <2>3, <2>4, <2>5, <2>6 DEF ObserversNext
<1>. QED
  BY ObserversInvariance, InitCounts, <1>1, PTL DEF ObserversSpec

\* Every tracked write is pending in both indexes, observed or superseded, and
\* counted once (track, observe of AccountState), for any window.
THEOREM CountsCorrect == ASSUME ObserversAssumption PROVE ObserversSpec => []EveryWriteCountedOnce
<1>1. ObserversInv /\ CInv => EveryWriteCountedOnce
  BY DEF ObserversInv, CInv, WritesCounted, EveryWriteCountedOnce
<1>. QED
  BY ObserversCounting, <1>1, PTL

\* Neither a request nor the window is settled before everything was seen: the
\* checks that end measure pass whenever no request failed (await_id,
\* await_all, await_settled), for any window.
THEOREM SettledCorrect == ASSUME ObserversAssumption PROVE ObserversSpec => []SettledMeansSeen
<1>1. ASSUME ObserversInv, CInv PROVE SettledMeansSeen
  <2>1. PermitHeldUntilSeen
    BY <1>1 DEF ObserversInv, Waits, PermitHeldUntilSeen
  <2>2. ASSUME phase = "done", NoFailure
        PROVE  /\ observed + superseded = Cardinality(Writes(Req))
               /\ confirmed + failures = Cardinality(Req)
    <3>1. Tracked = Req /\ Subscribed = Req
      BY <1>1, <2>2 DEF CInv, WindowOK, Ended, Tracked, Subscribed
    <3>2. unconfirmed = {} /\ PendingWrites = {}
      BY <1>1, <2>2 DEF CInv, WindowOK, PendingWrites
    <3>3. Cardinality({}) = 0
      BY FS_EmptySet
    <3>. QED
      BY <1>1, <2>2, <3>1, <3>2, <3>3
      DEF CInv, CountersOK, WritesCounted, SignaturesCounted
  <2>. QED
    BY <2>1, <2>2 DEF SettledMeansSeen, OutcomeMatchesDelivered
<1>. QED
  BY ObserversCounting, <1>1, PTL

-----------------------------------------------------------------------------
(***************************************************************************)
(* The admission engine.                                                   *)
(***************************************************************************)
\* The room seen by the pacer branch lasts until the admission it leads to.
RoomAtRecheck ==
  pc = "recheck" => admitted < MaxJobs /\ Cardinality(jobs) < cfg.concurrency

\* While requests are admitted, some request in flight is at least as old as
\* the last completion: this is what makes a stall verdict honest.
OldestOutlivesIdle ==
  pc \in {"check", "select", "recheck"} /\ jobs # {} =>
    \E j \in jobs : age[j] >= idle

\* Every request still in flight was admitted before the drain began.
DrainedAreOlder ==
  pc \in {"drain", "undrained"} => \A j \in jobs : age[j] >= draining

\* A drain that is neither stopped nor stalled follows the last iteration.
DrainReason ==
  /\ admitted <= cfg.completion.total
  /\ stalled => pc \in {"drain", "stalled", "undrained"} \cup Aborted
  /\ pc \in {"drain", "ok"} /\ ~stalled /\ ~Stopped =>
       admitted >= cfg.completion.total
  /\ pc = "ok" => ~stalled

\* Deliveries are timed: all the successful ones and no request twice.
SampleBounds == delivered <= samples /\ samples <= delivered + failed

\* What the first and the terminal states say.
Ends ==
  /\ pc = "start" => jobs = {}
  /\ pc = "ok" => jobs = {}
  /\ pc = "undrained" => jobs # {} /\ draining >= Timeout

IInv ==
  /\ TypeOK /\ RoomAtRecheck /\ ConcurrencyBound /\ Conservation
  /\ OldestOutlivesIdle /\ DrainedAreOlder /\ DrainReason
  /\ SampleBounds /\ Ends

-----------------------------------------------------------------------------
\* The parts of the configuration that the arithmetic is about.
LEMMA CfgType ==
  ASSUME cfg \in RunConfig
  PROVE  /\ cfg.completion.total \in Nat
         /\ cfg.concurrency \in Nat
<1>1. cfg.completion \in Completions /\ cfg.concurrency \in 0 .. MaxConcurrency
  BY DEF RunConfig
<1>2. ASSUME NEW c \in Completions
      PROVE  c.total \in Nat
  <2>1. CASE c \in [total : 0 .. MaxJobs, until : {FALSE}, deadline : {FALSE}]
    BY <2>1, RunnerAssumption DEF RunnerAssumption
  <2>2. CASE c \in [total : 0 .. MaxJobs, until : {TRUE}, deadline : {TRUE}]
    BY <2>2, RunnerAssumption DEF RunnerAssumption
  <2>3. CASE c \in [total : {Unbounded}, until : {TRUE}, deadline : BOOLEAN]
    BY <2>3, RunnerAssumption DEF RunnerAssumption, Unbounded
  <2>4. QED
    BY Zenon, <2>1, <2>2, <2>3 DEF Completions
<1>3. cfg.concurrency \in Nat
  BY <1>1, RunnerAssumption DEF RunnerAssumption
<1>4. QED
  BY <1>1, <1>2, <1>3

\* The jobs in flight are finitely many, and pushing or popping one changes
\* their number by one.
LEMMA JobsFinite ==
  ASSUME TypeOK
  PROVE  /\ IsFiniteSet(jobs)
         /\ Cardinality(jobs) \in Nat
         /\ Cardinality(jobs \cup {admitted + 1}) = Cardinality(jobs) + 1
         /\ \A j \in jobs : Cardinality(jobs \ {j}) = Cardinality(jobs) - 1
<1>1. IsFiniteSet(1 .. admitted)
  BY RunnerAssumption, FS_Interval DEF RunnerAssumption, TypeOK
<1>2. IsFiniteSet(jobs)
  BY Zenon, <1>1, FS_Subset DEF TypeOK
<1>3. admitted + 1 \notin jobs
  BY RunnerAssumption DEF RunnerAssumption, TypeOK
<1>4. QED
  BY <1>2, <1>3, FS_CardinalityType, FS_AddElement, FS_RemoveElement

-----------------------------------------------------------------------------
\* The initial states satisfy the inductive invariant.
LEMMA InitInv == Init => IInv
<1> SUFFICES ASSUME Init PROVE IInv
  OBVIOUS
<1>a. due \in BOOLEAN /\ stalled \in BOOLEAN /\ expired \in BOOLEAN
  BY Zenon DEF Init
<1>1. TypeOK
  BY <1>a, RunnerAssumption DEF RunnerAssumption, Init, TypeOK, Ids
<1>2. Cardinality(jobs) = 0
  BY FS_EmptySet DEF Init
<1>3. QED
  BY <1>1, <1>2, CfgType
  DEF IInv, Init, TypeOK, RoomAtRecheck, ConcurrencyBound, Conservation,
      OldestOutlivesIdle, DrainedAreOlder, DrainReason, SampleBounds, Ends,
      Aborted

-----------------------------------------------------------------------------
\* Every step of the engine and of its environment keeps the types.
LEMMA TypeStep == TypeOK /\ RoomAtRecheck /\ [Next]_vars => TypeOK'
<1> SUFFICES ASSUME TypeOK, RoomAtRecheck, [Next]_vars PROVE TypeOK'
  OBVIOUS
<1> USE RunnerAssumption DEF RunnerAssumption, TypeOK, Terminal, Aborted, Ids
<1>1. CASE Start
  <2>1. pc' \in {"rejected", "check"}
    BY <1>1 DEF Start
  <2>2. QED
    BY <1>1, <2>1 DEF Start, tally, clocks, signals
<1>2. CASE Check
  BY <1>2 DEF Check, BeginDrain, tally, signals
<1>3. CASE SelectStopped
  BY <1>3 DEF SelectStopped, BeginDrain, tally, signals
<1>4. CASE Interval
  <2>1. due' \in BOOLEAN /\ stalled' \in BOOLEAN
    BY <1>4, Zenon DEF Interval
  <2>2. pc' \in {pc, "drain"} /\ draining' \in {draining, 0}
    BY <1>4 DEF Interval, BeginDrain
  <2>3. QED
    BY <1>4, <2>1, <2>2 DEF Interval, tally, signals
<1>5. CASE PacerReady
  BY <1>5 DEF PacerReady, tally, clocks, signals
<1>6. CASE Admit
  BY <1>6 DEF Admit, RoomAtRecheck, tally, signals
<1>7. CASE RecheckDone
  BY <1>7 DEF RecheckDone, BeginDrain, tally, signals
<1>8. CASE DrainEnds
  BY <1>8 DEF DrainEnds, tally, clocks, signals
<1>9. CASE DrainTimesOut
  BY <1>9 DEF DrainTimesOut, tally, clocks, signals
<1>10. ASSUME NEW j \in jobs, JobAdvances(j) PROVE TypeOK'
  BY <1>10 DEF JobAdvances, tally, clocks, signals
<1>11. ASSUME NEW j \in jobs, JobCompletes(j) PROVE TypeOK'
  <2>1. delivered' \in Nat /\ failed' \in Nat /\ samples' \in Nat
    BY <1>11 DEF JobCompletes, Record
  <2>2. jobs' \subseteq 1 .. admitted /\ idle' \in 0 .. Timeout
    BY <1>11 DEF JobCompletes
  <2>3. UNCHANGED <<cfg, pc, admitted, stage, age, due, draining, stalled, stop, expired>>
    BY <1>11 DEF JobCompletes, signals
  <2>4. QED
    BY <2>1, <2>2, <2>3
<1>12. CASE Abort
  BY <1>12 DEF Abort, tally, clocks, signals
<1>13. CASE Clock
  <2>1. due' \in BOOLEAN
    BY <1>13, Zenon DEF Clock
  <2>2. QED
    BY <1>13, <2>1 DEF Clock, Older, tally, signals
<1>14. CASE Signal
  <2>1. expired' \in BOOLEAN /\ stop' \in {"open", "set", "closed"}
    BY <1>14, Zenon DEF Signal
  <2>2. QED
    BY <1>14, <2>1 DEF Signal, tally, clocks
<1>15. CASE UNCHANGED vars
  BY <1>15 DEF vars
<1>16. QED
  BY Zenon, <1>1, <1>2, <1>3, <1>4, <1>5, <1>6, <1>7, <1>8, <1>9, <1>10, <1>11,
     <1>12, <1>13, <1>14, <1>15 DEF Next, Engine

-----------------------------------------------------------------------------
\* A step outside the admission and the completions leaves the jobs, the
\* counters and the configuration alone.
LEMMA QuietStep ==
  ASSUME \/ Start \/ Check \/ SelectStopped \/ Interval \/ PacerReady
         \/ RecheckDone \/ DrainEnds \/ DrainTimesOut \/ Clock \/ Signal
         \/ (\E j \in jobs : JobAdvances(j)) \/ UNCHANGED vars
  PROVE  UNCHANGED <<cfg, admitted, jobs, delivered, failed, samples>>
BY DEF Start, Check, SelectStopped, Interval, PacerReady, RecheckDone,
       DrainEnds, DrainTimesOut, Clock, Signal, JobAdvances, vars, tally

\* The configuration never changes.
LEMMA CfgConstant == [Next]_vars => cfg' = cfg
BY Zenon, QuietStep DEF Next, Engine, vars, Admit, JobCompletes, Abort

\* A run that was stopped stays stopped.
LEMMA StoppedStays == [Next]_vars /\ Stopped => Stopped'
<1> SUFFICES ASSUME [Next]_vars, Stopped PROVE Stopped'
  OBVIOUS
<1>1. cfg' = cfg
  BY CfgConstant
<1>2. /\ stop # "open" => stop' # "open"
      /\ expired => expired'
  <2>1. CASE Signal
    <3>1. stop # "open" => stop' # "open"
      BY <2>1, SMT DEF Signal
    <3>2. expired => expired'
      BY <2>1, Zenon DEF Signal
    <3>3. QED
      BY <3>1, <3>2
  <2>2. CASE ~Signal
    <3>1. UNCHANGED <<stop, expired>>
      BY Zenon, <2>2 DEF Next, Engine, Start, Check, SelectStopped, Interval,
         PacerReady, Admit, RecheckDone, DrainEnds, DrainTimesOut, Clock,
         JobAdvances, JobCompletes, Abort, vars, signals
    <3>2. QED
      BY <3>1
  <2>3. QED
    BY <2>1, <2>2
<1>3. QED
  BY <1>1, <1>2 DEF Stopped

-----------------------------------------------------------------------------
\* Counting: room, concurrency, conservation and the samples.
LEMMA CountStep ==
  IInv /\ [Next]_vars =>
    RoomAtRecheck' /\ ConcurrencyBound' /\ Conservation' /\ SampleBounds'
<1> SUFFICES ASSUME IInv, [Next]_vars
    PROVE RoomAtRecheck' /\ ConcurrencyBound' /\ Conservation' /\ SampleBounds'
  OBVIOUS
<1> USE DEF RoomAtRecheck, ConcurrencyBound, Conservation, SampleBounds, Aborted
<1>1. TypeOK /\ RoomAtRecheck /\ ConcurrencyBound /\ Conservation /\ SampleBounds
  BY DEF IInv
<1>2. /\ admitted \in Nat /\ delivered \in Nat /\ failed \in Nat
      /\ samples \in Nat /\ cfg.concurrency \in Nat /\ MaxJobs \in Nat
      /\ Cardinality(jobs) \in Nat
  BY <1>1, CfgType, JobsFinite, RunnerAssumption DEF TypeOK, RunnerAssumption
<1>3. CASE PacerReady
  BY <1>1, <1>2, <1>3 DEF PacerReady, tally
<1>4. CASE Admit
  BY <1>1, <1>2, <1>4, JobsFinite DEF Admit, tally
<1>5. ASSUME NEW j \in jobs, JobCompletes(j)
      PROVE RoomAtRecheck' /\ ConcurrencyBound' /\ Conservation' /\ SampleBounds'
  <2>1. Cardinality(jobs \ {j}) = Cardinality(jobs) - 1
    BY <1>1, JobsFinite
  <2>2. /\ delivered' + failed' = delivered + failed + 1
        /\ delivered' <= samples' /\ samples' <= delivered' + failed'
        /\ delivered' \in Nat /\ failed' \in Nat
    <3>1. \/ delivered' = delivered + 1 /\ failed' = failed /\ samples' = samples + 1
          \/ /\ delivered' = delivered /\ failed' = failed + 1
             /\ samples' \in {samples, samples + 1}
      BY <1>5, <1>2 DEF JobCompletes, Record
    <3>2. QED
      BY <3>1, <1>1, <1>2
  <2>3. jobs' = jobs \ {j} /\ UNCHANGED <<cfg, pc, admitted>>
        /\ pc \in {"select", "drain"}
    BY <1>5 DEF JobCompletes
  <2>4. Cardinality(jobs') = Cardinality(jobs) - 1
    BY <2>1, <2>3
  <2>5. Cardinality(jobs') <= cfg'.concurrency
    BY <1>1, <1>2, <2>3, <2>4
  <2>6. admitted' = delivered' + failed' + Cardinality(jobs')
    <3>1. admitted = delivered + failed + Cardinality(jobs)
      BY <1>1, <2>3
    <3>2. admitted' = admitted
      BY <2>3
    <3>3. delivered' + failed' = delivered + failed + 1
      BY <2>2
    <3>4. delivered' \in Int /\ failed' \in Int
      BY <2>2
    <3>5. delivered + failed + 1 + (Cardinality(jobs) - 1) = admitted
      BY <3>1, <1>2
    <3>6. delivered' + failed' + (Cardinality(jobs) - 1) = admitted
      BY <3>3, <3>5
    <3>7. QED
      BY <3>2, <3>6, <2>4
  <2>7. QED
    BY <2>2, <2>3, <2>5, <2>6
<1>6. CASE Abort
  <2>1. Cardinality({}) = 0
    BY FS_EmptySet
  <2>2. jobs' = {} /\ pc' \in Aborted /\ UNCHANGED <<cfg, delivered, failed, samples>>
    BY <1>6 DEF Abort, tally
  <2>3. QED
    BY <1>1, <1>2, <2>1, <2>2
<1>7. CASE UNCHANGED vars
  BY <1>1, <1>7 DEF vars
<1>8. ASSUME \/ Start \/ Check \/ SelectStopped \/ Interval
             \/ RecheckDone \/ DrainEnds \/ DrainTimesOut \/ Clock \/ Signal
             \/ \E j \in jobs : JobAdvances(j)
      PROVE RoomAtRecheck' /\ ConcurrencyBound' /\ Conservation' /\ SampleBounds'
  <2>1. UNCHANGED <<cfg, admitted, jobs, delivered, failed, samples>>
    BY <1>8, QuietStep
  <2>2. (pc' = pc \/ pc' # "recheck") /\ (pc' \notin Aborted => pc \notin Aborted)
    BY <1>8 DEF Start, Check, SelectStopped, Interval, RecheckDone, DrainEnds,
       DrainTimesOut, Clock, Signal, JobAdvances, BeginDrain
  <2>3. QED
    BY <1>1, <1>2, <2>1, <2>2
<1>9. QED
  BY <1>3, <1>4, <1>5, <1>6, <1>7, <1>8 DEF Next, Engine

-----------------------------------------------------------------------------
\* Ages: the oldest job against the last completion, and against the drain.
LEMMA AgeStep ==
  IInv /\ [Next]_vars => OldestOutlivesIdle' /\ DrainedAreOlder'
<1> SUFFICES ASSUME IInv, [Next]_vars PROVE OldestOutlivesIdle' /\ DrainedAreOlder'
  OBVIOUS
<1> USE DEF OldestOutlivesIdle, DrainedAreOlder
<1>1. TypeOK /\ OldestOutlivesIdle /\ DrainedAreOlder
  BY DEF IInv
<1>2. /\ age \in [Ids -> 0 .. Timeout] /\ idle \in 0 .. Timeout
      /\ draining \in 0 .. Timeout /\ jobs \subseteq Ids /\ Timeout \in Nat
      /\ admitted \in 0 .. MaxJobs /\ MaxJobs \in Nat /\ jobs \subseteq 1 .. admitted
  BY <1>1, RunnerAssumption DEF TypeOK, RunnerAssumption, Ids
<1>3. \A j \in jobs : age[j] \in Nat /\ age[j] >= 0
  BY <1>2
<1>4. CASE Admit
  <2>1. /\ pc = "recheck" /\ pc' = "check"
        /\ jobs' = jobs \cup {admitted + 1}
        /\ age' = [age EXCEPT ![admitted + 1] = 0]
        /\ idle' = IF jobs = {} THEN 0 ELSE idle
    BY <1>4 DEF Admit
  <2>2. admitted + 1 \in Ids
    BY <1>2, <2>1 DEF IInv, RoomAtRecheck, Ids
  <2>3. CASE jobs = {}
    BY <2>1, <2>2, <2>3, <1>2
  <2>4. CASE jobs # {}
    <3>1. PICK j \in jobs : age[j] >= idle
      BY <1>1, <2>1, <2>4
    <3>2. j # admitted + 1 /\ j \in Ids
      BY <1>2
    <3>3. j \in jobs' /\ age'[j] >= idle'
      BY <1>2, <2>1, <2>4, <3>1, <3>2
    <3>4. QED
      BY <2>1, <3>3
  <2>5. QED
    BY <2>3, <2>4
<1>5. ASSUME NEW k \in jobs, JobCompletes(k)
      PROVE OldestOutlivesIdle' /\ DrainedAreOlder'
  BY Zenon, <1>1, <1>2, <1>3, <1>5 DEF JobCompletes
<1>6. CASE Clock
  <2>1. /\ jobs' = jobs /\ pc' = pc /\ idle' = Older(idle)
        /\ \A j \in jobs : age'[j] = Older(age[j])
        /\ pc = "drain" => draining' = Older(draining)
        /\ pc \in {"select", "drain"}
    BY <1>2, <1>6 DEF Clock
  <2>2. \A a, b \in 0 .. Timeout : a >= b => Older(a) >= Older(b)
    BY <1>2 DEF Older
  <2>3. \A j \in jobs : age[j] \in 0 .. Timeout
    BY <1>2
  <2>4. OldestOutlivesIdle'
    BY <1>1, <1>2, <2>1, <2>2, <2>3
  <2>5. DrainedAreOlder'
    BY <1>1, <1>2, <2>1, <2>2, <2>3
  <2>6. QED
    BY <2>4, <2>5
<1>7. CASE Abort
  BY <1>7 DEF Abort
<1>8. CASE \/ Check \/ SelectStopped \/ Interval \/ RecheckDone
  <2>1. /\ UNCHANGED <<jobs, age, idle>>
        /\ pc \in {"check", "select", "recheck"}
        /\ \/ pc' = "drain" /\ draining' = 0
           \/ pc' = "select"
    BY <1>8 DEF Check, SelectStopped, Interval, RecheckDone, BeginDrain
  <2>2. QED
    BY <1>1, <1>3, <2>1
<1>9. CASE \/ Start \/ PacerReady \/ DrainEnds \/ DrainTimesOut \/ Signal
           \/ UNCHANGED vars \/ \E j \in jobs : JobAdvances(j)
  <2>1. /\ UNCHANGED <<jobs, age, idle, draining>>
    BY <1>9 DEF Start, PacerReady, DrainEnds, DrainTimesOut, Signal, vars,
                JobAdvances, clocks
  <2>2. CASE Start
    BY <2>2, <2>1 DEF Start, IInv, Ends
  <2>3. CASE ~Start
    BY <1>1, <1>9, <2>1, <2>3 DEF PacerReady, DrainEnds, DrainTimesOut, Signal,
       vars, JobAdvances
  <2>4. QED
    BY <2>2, <2>3
<1>10. QED
  BY <1>4, <1>5, <1>6, <1>7, <1>8, <1>9 DEF Next, Engine

-----------------------------------------------------------------------------
\* Why the engine drains, and what it may report afterwards.
LEMMA EndStep == IInv /\ [Next]_vars => DrainReason' /\ Ends'
<1> SUFFICES ASSUME IInv, [Next]_vars PROVE DrainReason' /\ Ends'
  OBVIOUS
<1> USE DEF DrainReason, Ends, Aborted
<1>1. TypeOK /\ DrainReason /\ Ends
  BY DEF IInv
<1>2. /\ admitted \in Nat /\ cfg.completion.total \in Nat
      /\ cfg' = cfg
  BY <1>1, CfgType, CfgConstant, RunnerAssumption DEF TypeOK, RunnerAssumption
<1>3. Stopped => Stopped'
  BY StoppedStays
<1>4. CASE Admit
  BY <1>1, <1>2, <1>4 DEF Admit, Done
<1>5. CASE Check \/ SelectStopped \/ RecheckDone
  <2>1. UNCHANGED <<admitted, jobs, stalled>> /\ pc \in {"check", "select", "recheck"}
    BY <1>5 DEF Check, SelectStopped, RecheckDone
  <2>2. pc' = "select" \/ (pc' = "drain" /\ Done)
    BY <1>5 DEF Check, SelectStopped, RecheckDone, BeginDrain, Done
  <2>3. QED
    BY <1>1, <1>2, <1>3, <2>1, <2>2 DEF Done
<1>6. CASE Interval
  <2>1. UNCHANGED <<admitted, jobs>> /\ pc = "select"
    BY <1>6 DEF Interval
  <2>2. \/ pc' = "drain" /\ stalled'
        \/ pc' = pc /\ (stalled' <=> stalled)
    BY <1>6, Zenon DEF Interval, BeginDrain
  <2>3. QED
    BY <1>1, <1>2, <2>1, <2>2
<1>7. CASE PacerReady \/ Start \/ Abort
  BY <1>1, <1>2, <1>3, <1>7 DEF PacerReady, Start, Abort
<1>a. CASE Clock \/ \E j \in jobs : JobCompletes(j)
  <2>1. UNCHANGED <<admitted, stalled, pc>> /\ pc \in {"select", "drain"}
    BY Zenon, <1>a DEF Clock, JobCompletes
  <2>2. QED
    BY <1>1, <1>2, <1>3, <2>1
<1>8. CASE DrainEnds
  BY <1>1, <1>2, <1>3, <1>8 DEF DrainEnds
<1>9. CASE DrainTimesOut
  BY <1>1, <1>2, <1>3, <1>9 DEF DrainTimesOut, clocks
<1>10. CASE Signal \/ UNCHANGED vars \/ \E j \in jobs : JobAdvances(j)
  <2>1. UNCHANGED <<pc, admitted, jobs, stalled, draining>>
    BY <1>10 DEF Signal, vars, JobAdvances, clocks
  <2>2. QED
    BY <1>1, <1>2, <1>3, <2>1
<1>11. QED
  BY <1>4, <1>5, <1>6, <1>7, <1>8, <1>9, <1>10, <1>a
  DEF Next, Engine

\* The invariant is inductive.
LEMMA Inductive == IInv /\ [Next]_vars => IInv'
BY TypeStep, CountStep, AgeStep, EndStep DEF IInv

\* Every reachable state of the engine satisfies the inductive invariant.
THEOREM Invariance == Spec => []IInv
BY InitInv, Inductive, PTL DEF Spec

-----------------------------------------------------------------------------
\* The engine's state always has its types.
THEOREM TypeCorrect == Spec => []TypeOK
<1>1. IInv => TypeOK
  BY DEF IInv
<1>2. QED
  BY <1>1, Invariance, PTL

\* The concurrency bound holds and no admitted request is lost or counted twice,
\* for any number of requests and any concurrency.
THEOREM Counting == Spec => [](ConcurrencyBound /\ Conservation)
<1>1. IInv => ConcurrencyBound /\ Conservation
  BY DEF IInv
<1>2. QED
  BY <1>1, Invariance, PTL

\* What an Ok outcome says: delivered and failed add up to the admissions, and
\* an unstopped run made all its iterations.
THEOREM OutcomeCorrect ==
  Spec => [](OutcomeAccountsForAdmissions /\ OkMeansAllIterations)
<1>1. IInv => OutcomeAccountsForAdmissions /\ OkMeansAllIterations
  <2> SUFFICES ASSUME IInv, pc = "ok"
      PROVE  /\ admitted = delivered + failed
             /\ delivered <= samples /\ samples <= admitted
             /\ ~Stopped => admitted = cfg.completion.total
    BY DEF OutcomeAccountsForAdmissions, OkMeansAllIterations
  <2>1. Cardinality(jobs) = 0
    BY FS_EmptySet DEF IInv, Ends
  <2>2. admitted = delivered + failed
    BY <2>1 DEF IInv, Conservation, Aborted, TypeOK
  <2>3. ~Stopped => admitted = cfg.completion.total
    BY CfgType, RunnerAssumption DEF IInv, DrainReason, TypeOK, RunnerAssumption
  <2>4. QED
    BY <2>2, <2>3 DEF IInv, SampleBounds
<1>2. QED
  BY <1>1, Invariance, PTL

\* Only requests that had the whole network timeout are ever abandoned.
THEOREM AbandonCorrect == Spec => []AbandonedOnlyWhenOld
<1>1. IInv => AbandonedOnlyWhenOld
  <2> SUFFICES ASSUME IInv, pc = "undrained"
      PROVE  jobs # {} /\ \A j \in jobs : age[j] >= Timeout
    BY DEF AbandonedOnlyWhenOld
  <2>1. jobs # {} /\ draining >= Timeout
    BY DEF IInv, Ends
  <2>2. ASSUME NEW j \in jobs PROVE age[j] >= Timeout
    <3>1. age[j] >= draining /\ age[j] \in Nat /\ draining \in Nat /\ Timeout \in Nat
      BY RunnerAssumption DEF IInv, DrainedAreOlder, TypeOK, Ids, RunnerAssumption
    <3>2. QED
      BY <2>1, <3>1
  <2>3. QED
    BY <2>1, <2>2
<1>2. QED
  BY <1>1, Invariance, PTL

\* The stall verdict is never a false alarm.
THEOREM StallCorrect == Spec => StallIsReal
<1>1. IInv /\ [Next]_vars =>
        [~stalled /\ stalled' => \E j \in jobs : age[j] >= Timeout]_vars
  <2> SUFFICES ASSUME IInv, Next, ~stalled, stalled'
      PROVE  \E j \in jobs : age[j] >= Timeout
    BY DEF vars
  <2>1. Interval
    BY Zenon DEF Next, Engine, Start, Check, SelectStopped, PacerReady, Admit,
       RecheckDone, DrainEnds, DrainTimesOut, Clock, Signal, JobAdvances,
       JobCompletes, Abort
  <2>2. pc = "select" /\ jobs # {} /\ idle >= Timeout
    BY Zenon, <2>1 DEF Interval
  <2>3. PICK j \in jobs : age[j] >= idle
    BY <2>2 DEF IInv, OldestOutlivesIdle
  <2>4. age[j] \in Nat /\ idle \in Nat /\ Timeout \in Nat
    BY RunnerAssumption DEF IInv, TypeOK, Ids, RunnerAssumption
  <2>5. QED
    BY <2>2, <2>3, <2>4
<1>2. QED
  BY <1>1, Invariance, PTL DEF Spec, StallIsReal

\* No request is admitted after a stop, whenever the stop arrives.
THEOREM StopCorrect == Spec => NoAdmissionOnceStopped
<1>1. [Next]_vars => [Stopped => admitted' = admitted]_vars
  <2> SUFFICES ASSUME Next, Stopped PROVE admitted' = admitted
    BY DEF vars
  <2>1. QED
    BY Zenon DEF Next, Engine, Start, Check, SelectStopped, Interval, PacerReady,
       Admit, RecheckDone, DrainEnds, DrainTimesOut, Clock, Signal,
       JobAdvances, JobCompletes, Abort, Done
<1>2. QED
  BY <1>1, PTL DEF Spec, NoAdmissionOnceStopped

=============================================================================
