----------------------------- MODULE SuiteProofs ----------------------------
(***************************************************************************)
(* Proofs about one invocation of the suite runner (Suite), for any        *)
(* catalog, selection and limits.                                          *)
(***************************************************************************)
EXTENDS Suite, Integers, TLAPS

-----------------------------------------------------------------------------
\* What the proofs use of finite sets.  SetFactsHold derives it from the library.
EmptySets ==
  /\ IsFiniteSet({}) /\ Cardinality({}) = 0
  /\ \A S : IsFiniteSet(S) => (Cardinality(S) = 0 <=> S = {})
Sizes == \A S : IsFiniteSet(S) => Cardinality(S) \in Nat
Subsets ==
  \A S : \A T \in SUBSET S : IsFiniteSet(S) =>
    /\ IsFiniteSet(T) /\ Cardinality(T) <= Cardinality(S)
    /\ Cardinality(S) = Cardinality(T) => S = T
Unions ==
  \A S, T : IsFiniteSet(S) /\ IsFiniteSet(T) =>
    /\ IsFiniteSet(S \cup T)
    /\ Cardinality(S \cup T) = Cardinality(S) + Cardinality(T) - Cardinality(S \cap T)
Intervals ==
  \A a, b \in Int : /\ IsFiniteSet(a .. b)
                    /\ Cardinality(a .. b) = IF a > b THEN 0 ELSE b - a + 1
Injections ==
  \A S, T : \A f \in Injection(S, T) : IsFiniteSet(T) /\ Cardinality(S) = Cardinality(T) =>
    f \in Surjection(S, T)
Surjections ==
  \A S, T : \A f \in Surjection(S, T) : IsFiniteSet(S) =>
    IsFiniteSet(T) /\ Cardinality(T) <= Cardinality(S)
SetFacts ==
  EmptySets /\ Sizes /\ Subsets /\ Unions /\ Intervals /\ Injections /\ Surjections

\* A part of a sequence without repetitions has none.
LEMMA Shifted ==
  ASSUME NEW s, IsInjective(s), NEW b, NEW n \in Nat, NEW k \in Nat, DOMAIN b = 1 .. k,
         \A i \in 1 .. k : i + n \in DOMAIN s /\ b[i] = s[i + n]
  PROVE  IsInjective(b)
<1>1. ASSUME NEW i \in 1 .. k, NEW j \in 1 .. k, b[i] = b[j] PROVE i = j
  <2>1. i + n = j + n
    BY <1>1 DEF IsInjective
  <2> QED BY <2>1
<1> QED BY <1>1 DEF IsInjective

\* The elements of a sequence are no more than its places.
LEMMA Counted ==
  ASSUME SetFacts, NEW s, NEW n \in Nat, s \in [1 .. n -> Range(s)]
  PROVE  IsFiniteSet(Range(s)) /\ Cardinality(Range(s)) <= n
<1>1. IsFiniteSet(1 .. n) /\ Cardinality(1 .. n) = n
  BY DEF SetFacts, Intervals
<1>2. s \in Surjection(1 .. n, Range(s))
  BY DEF Surjection, Range
<1> QED BY <1>1, <1>2 DEF SetFacts, Surjections

\* The first n of a queue, and the rest of it.
Halves(E, s, n, a, b) ==
  /\ a \in Seq(E) /\ Len(a) = n /\ \A i \in 1 .. n : i \in DOMAIN s /\ a[i] = s[i]
  /\ b \in Seq(E) /\ Len(b) = Len(s) - n
  /\ \A i \in 1 .. Len(s) - n : i + n \in DOMAIN s /\ b[i] = s[i + n]

\* SubSeq cuts a queue in two.
LEMMA Cut ==
  ASSUME NEW E, NEW s \in Seq(E), NEW n \in 0 .. Len(s)
  PROVE  Halves(E, s, n, SubSeq(s, 1, n), SubSeq(s, n + 1, Len(s)))
<1>1. /\ SubSeq(s, 1, n) \in Seq(E) /\ Len(SubSeq(s, 1, n)) = n
      /\ \A i \in 1 .. n : i \in DOMAIN s /\ SubSeq(s, 1, n)[i] = s[i]
      /\ SubSeq(s, n + 1, Len(s)) \in Seq(E) /\ Len(SubSeq(s, n + 1, Len(s))) = Len(s) - n
      /\ \A i \in 1 .. Len(s) - n : i + n \in DOMAIN s
                                    /\ SubSeq(s, n + 1, Len(s))[i] = s[i + n]
  OBVIOUS
<1> QED BY <1>1, Zenon DEF Halves

\* A queue without repetitions, in two parts.
LEMMA Parts ==
  ASSUME SetFacts, NEW E, NEW s \in Seq(E), IsInjective(s), NEW n \in 0 .. Len(s),
         NEW a, NEW b, Halves(E, s, n, a, b)
  PROVE  /\ IsInjective(b) /\ (b = <<>> <=> n = Len(s))
         /\ Range(a) \cup Range(b) = Range(s) /\ Range(a) \cap Range(b) = {}
         /\ n > 0 => Range(a) # {}
         /\ IsFiniteSet(Range(a)) /\ Cardinality(Range(a)) <= n
<1>0. /\ a \in Seq(E) /\ Len(a) = n /\ \A i \in 1 .. n : i \in DOMAIN s /\ a[i] = s[i]
      /\ b \in Seq(E) /\ Len(b) = Len(s) - n
      /\ \A i \in 1 .. Len(s) - n : i + n \in DOMAIN s /\ b[i] = s[i + n]
  BY Zenon DEF Halves
<1> USE <1>0
<1>1. DOMAIN a = 1 .. n /\ DOMAIN b = 1 .. Len(s) - n
  OBVIOUS
<1>3. DOMAIN s = 1 .. Len(s) /\ Len(s) \in Nat /\ n \in Nat /\ Len(s) - n \in Nat
  OBVIOUS
<1>4. \A i \in DOMAIN s : i \in 1 .. n \/ (i - n \in 1 .. Len(s) - n /\ (i - n) + n = i)
  BY <1>3
<1>5. IsInjective(b)
  BY Zenon, <1>1, <1>3, Shifted
<1>6. Range(a) \cup Range(b) = Range(s)
  <2>1. Range(a) \cup Range(b) \subseteq Range(s)
    <3>1. (\A i \in 1 .. n : a[i] \in Range(s)) /\ \A i \in 1 .. Len(s) - n : b[i] \in Range(s)
      BY DEF Range
    <3>2. \A x \in Range(a) : x \in Range(s)
      BY <1>1, <3>1 DEF Range
    <3>3. \A x \in Range(b) : x \in Range(s)
      BY Zenon, <1>1, <3>1 DEF Range
    <3> QED BY <3>2, <3>3
  <2>2. \A i \in DOMAIN s : s[i] \in Range(a) \cup Range(b)
    <3>1. ASSUME NEW i \in DOMAIN s, i \in 1 .. n PROVE s[i] \in Range(a)
      BY <3>1, <1>1 DEF Range
    <3>2. ASSUME NEW i \in DOMAIN s, i - n \in 1 .. Len(s) - n, (i - n) + n = i
          PROVE  s[i] \in Range(b)
      BY <3>2, <1>1 DEF Range
    <3> QED BY <3>1, <3>2, <1>4
  <2> QED BY Zenon, <2>1, <2>2 DEF Range
<1>7. Range(a) \cap Range(b) = {}
  <2>1. \A i \in 1 .. n, j \in 1 .. Len(s) - n : i # j + n
    BY <1>3
  <2>2. ASSUME NEW i \in 1 .. n, NEW j \in 1 .. Len(s) - n PROVE a[i] # b[j]
    BY ZenonT(40), <2>1, <1>1 DEF IsInjective
  <2> QED BY <1>1, <2>2 DEF Range
<1>8. n > 0 => Range(a) # {}
  <2>1. n > 0 => 1 \in DOMAIN a
    BY <1>1, <1>3
  <2> QED BY Zenon, <2>1 DEF Range
<1>9. IsFiniteSet(Range(a)) /\ Cardinality(Range(a)) <= n
  <2>1. a \in [1 .. n -> Range(a)]
    BY <1>1 DEF Range
  <2> QED BY Zenon, <2>1, <1>3, Counted
<1>10. b = <<>> <=> n = Len(s)
  <2>1. b = <<>> <=> Len(b) = 0
    OBVIOUS
  <2>2. Len(s) - n = 0 <=> n = Len(s)
    BY <1>3
  <2> QED BY <2>1, <2>2
<1> QED BY <1>5, <1>6, <1>7, <1>8, <1>9, <1>10

\* A sequence goes on with another.
LEMMA Joined ==
  ASSUME NEW R, NEW r \in Seq(R), NEW t \in Seq(R), NEW q, q = r \o t
  PROVE  /\ q \in Seq(R) /\ Len(q) = Len(r) + Len(t)
         /\ \A i \in 1 .. Len(r) : q[i] = r[i]
         /\ \A i \in 1 .. Len(t) : q[Len(r) + i] = t[i]
OBVIOUS

\* q is r and then a record for each entry of p.
Continues(R, r, p, reason, q) ==
  /\ q \in Seq(R) /\ Len(q) = Len(r) + Len(p) /\ DOMAIN q = 1 .. Len(r) + Len(p)
  /\ \A i \in DOMAIN r : i \in DOMAIN q /\ q[i] = r[i]
  /\ \A i \in DOMAIN p : Len(r) + i \in DOMAIN q /\ q[Len(r) + i] = Record(p[i], reason)
  /\ \A i \in DOMAIN q : i \in DOMAIN r \/ \E j \in DOMAIN p : i = Len(r) + j

\* The records of what was not run come after the others.
LEMMA Skipped ==
  ASSUME NEW R, NEW r \in Seq(R), NEW E, NEW p \in Seq(E), NEW reason,
         \A e \in E : Record(e, reason) \in R
  PROVE  Continues(R, r, p, reason, r \o Skip(p, reason))
<1> DEFINE q == r \o Skip(p, reason)
<1> DEFINE t == Skip(p, reason)
<1>1. t \in Seq(R) /\ Len(t) = Len(p) /\ \A i \in DOMAIN p : t[i] = Record(p[i], reason)
  BY DEF Skip
<1>2. DOMAIN p = 1 .. Len(p) /\ DOMAIN r = 1 .. Len(r) /\ Len(p) \in Nat /\ Len(r) \in Nat
  OBVIOUS
<1> HIDE DEF t, q
<1>3. /\ q \in Seq(R) /\ Len(q) = Len(r) + Len(p)
      /\ \A i \in 1 .. Len(r) : q[i] = r[i]
      /\ \A i \in 1 .. Len(p) : q[Len(r) + i] = t[i]
  <2>1. q = r \o t
    BY DEF t, q
  <2>2. /\ q \in Seq(R) /\ Len(q) = Len(r) + Len(t)
        /\ \A i \in 1 .. Len(r) : q[i] = r[i]
        /\ \A i \in 1 .. Len(t) : q[Len(r) + i] = t[i]
    <3>1. r \in Seq(R) /\ t \in Seq(R) /\ q = r \o t
      BY <2>1, <1>1, Zenon
    <3> QED BY ONLY <3>1, Joined
  <2> QED BY <2>2, <1>1, Zenon
<1>4. DOMAIN q = 1 .. Len(r) + Len(p)
  BY <1>3
<1>5. \A i \in 1 .. Len(r) + Len(p) :
        i \in 1 .. Len(r) \/ \E j \in 1 .. Len(p) : i = Len(r) + j
  <2>1. \A m, n \in Nat : \A i \in 1 .. m + n : i \in 1 .. m \/ (i - m \in 1 .. n /\ i = m + (i - m))
    OBVIOUS
  <2> QED BY ZenonT(40), <1>2, <2>1
<1>6. \A m, n \in Nat : 1 .. m \subseteq 1 .. m + n /\ \A i \in 1 .. n : m + i \in 1 .. m + n
  OBVIOUS
<1>7. Continues(R, r, p, reason, q)
  BY Zenon, <1>1, <1>2, <1>3, <1>4, <1>5, <1>6 DEF Continues
<1> QED BY <1>7 DEF q

-----------------------------------------------------------------------------
\* The entries that were selected, and a strict total order of some of them.
Selected == Range(plan.selection)
Ordered(S) ==
  /\ \A d \in S : ~Before(d, d)
  /\ \A d, e \in S : d = e \/ Before(d, e) \/ Before(e, d)
  /\ \A c, d, e \in S : Before(c, d) /\ Before(d, e) => Before(c, e)

\* What catalog::select returns can be sorted.
LEMMA Sortable ==
  ASSUME SetFacts, plan.selection \in Seq(Entries), IsInjective(plan.selection)
  PROVE  Selected \subseteq Entries /\ IsFiniteSet(Selected) /\ Ordered(Selected)
<1> DEFINE s == plan.selection
<1>1. s \in Seq(Entries) /\ s \in [1 .. Len(s) -> Range(s)] /\ Len(s) \in Nat
  BY DEF Range
<1>2. Selected \subseteq Entries /\ IsFiniteSet(Selected)
  <2>1. IsFiniteSet(Selected)
    BY <1>1, Counted DEF Selected
  <2>2. Selected \subseteq Entries
    BY <1>1 DEF Selected, Range
  <2> QED BY <2>1, <2>2
<1>3. ASSUME NEW x \in Selected PROVE Position(x) \in Nat /\ s[Position(x)] = x
  BY <1>1 DEF Selected, Range, Position
<1>5. \A e \in Selected : Catalog[e].order \in Nat
  BY <1>2, SuiteAssumption
<1>6. \A x, y \in Selected : Position(x) = Position(y) => x = y
  BY <1>3
<1> HIDE DEF s
<1>7. Ordered(Selected)
  <2>1. \A d \in Selected : ~Before(d, d)
    BY <1>3, <1>5 DEF Before
  <2>2. \A d, e \in Selected : d = e \/ Before(d, e) \/ Before(e, d)
    <3>1. ASSUME NEW d \in Selected, NEW e \in Selected, d # e
          PROVE  Before(d, e) \/ Before(e, d)
      <4>1. Position(d) # Position(e) /\ Position(d) \in Nat /\ Position(e) \in Nat
        BY <1>3, <1>6, <3>1
      <4>2. Catalog[d].order \in Nat /\ Catalog[e].order \in Nat
        BY <1>5
      <4> QED BY <4>1, <4>2 DEF Before
    <3> QED BY <3>1
  <2>3. \A c, d, e \in Selected : Before(c, d) /\ Before(d, e) => Before(c, e)
    BY <1>3, <1>5 DEF Before
  <2> QED BY <2>1, <2>2, <2>3 DEF Ordered
<1> QED BY <1>2, <1>7

\* Sorting loses and repeats nothing: what is sorted is placed by the number
\* of entries before it, and no two have the same number.
LEMMA SortedOK ==
  ASSUME SetFacts, NEW S, IsFiniteSet(S), Ordered(S)
  PROVE  /\ Sorted(S) \in Seq(S) /\ IsInjective(Sorted(S)) /\ Range(Sorted(S)) = S
         /\ S # {} => \E e \in S : \A d \in S : ~Before(d, e)
<1> DEFINE under(e) == {d \in S : Before(d, e)}
           rank(e) == Cardinality(under(e))
           n == Cardinality(S)
<1>1. n \in Nat
  BY DEF SetFacts, Sizes
<1>2. ASSUME NEW e \in S
      PROVE  under(e) \in SUBSET S /\ IsFiniteSet(under(e)) /\ rank(e) \in 0 .. n - 1
  <2>1. under(e) \in SUBSET S /\ under(e) # S
    BY DEF Ordered
  <2>2. IsFiniteSet(under(e)) /\ Cardinality(under(e)) <= n /\ Cardinality(under(e)) # n
    BY <2>1 DEF SetFacts, Subsets
  <2>3. Cardinality(under(e)) \in Nat
    BY <2>2 DEF SetFacts, Sizes
  <2> QED BY <1>1, <2>1, <2>2, <2>3
<1>3. ASSUME NEW d \in S, NEW e \in S, Before(d, e) PROVE rank(d) # rank(e)
  <2>1. under(d) \in SUBSET under(e) /\ under(d) # under(e)
    BY <1>3 DEF Ordered
  <2>2. Cardinality(under(d)) # Cardinality(under(e))
    BY Zenon, <1>2, <2>1 DEF SetFacts, Subsets
  <2> QED BY <2>2
<1> HIDE DEF under, rank, n
<1>4. \A d, e \in S : rank(d) = rank(e) => d = e
  BY <1>3 DEF Ordered
<1>5. \A k \in 0 .. n - 1 : \E e \in S : rank(e) = k
  <2> DEFINE f == [e \in S |-> rank(e)]
  <2>1. f \in Injection(S, 0 .. n - 1)
    BY <1>2, <1>4 DEF Injection, IsInjective
  <2>2. IsFiniteSet(0 .. n - 1) /\ Cardinality(0 .. n - 1) = n
    BY <1>1 DEF SetFacts, Intervals
  <2>3. f \in Surjection(S, 0 .. n - 1)
    BY <2>1, <2>2 DEF n, SetFacts, Injections
  <2> QED BY Zenon, <2>3 DEF Surjection
<1>6. Sorted(S) = [k \in 1 .. n |-> CHOOSE e \in S : rank(e) = k - 1]
  BY DEF Sorted, n, rank, under
<1>7. ASSUME NEW k \in 1 .. n PROVE Sorted(S)[k] \in S /\ rank(Sorted(S)[k]) = k - 1
  <2>1. \E e \in S : rank(e) = k - 1
    BY <1>1, <1>5
  <2> QED BY <1>6, <2>1
<1>8. Sorted(S) \in Seq(S) /\ DOMAIN Sorted(S) = 1 .. n
  BY <1>1, <1>6, <1>7
<1>9. IsInjective(Sorted(S))
  <2>1. ASSUME NEW i \in 1 .. n, NEW j \in 1 .. n, Sorted(S)[i] = Sorted(S)[j] PROVE i = j
    <3>1. i - 1 = j - 1
      BY <1>7, <2>1
    <3> QED BY <3>1
  <2> QED BY <1>8, <2>1 DEF IsInjective
<1>10. ASSUME NEW e \in S PROVE rank(e) + 1 \in 1 .. n /\ Sorted(S)[rank(e) + 1] = e
  <2>1. rank(e) + 1 \in 1 .. n /\ (rank(e) + 1) - 1 = rank(e)
    BY <1>1, <1>2
  <2> QED BY <1>4, <1>7, <2>1
<1>11. Range(Sorted(S)) = S
  BY <1>7, <1>8, <1>10 DEF Range
<1>12. ASSUME S # {} PROVE \E e \in S : \A d \in S : ~Before(d, e)
  <2>1. n # 0
    BY <1>12 DEF n, SetFacts, EmptySets
  <2>2. PICK e \in S : rank(e) = 0
    BY <1>1, <1>5, <2>1
  <2>3. under(e) = {}
    BY <1>2, <2>2 DEF rank, SetFacts, EmptySets
  <2> QED BY <2>3 DEF under
<1> QED BY <1>8, <1>9, <1>11, <1>12

-----------------------------------------------------------------------------
\* What a lane is made of.
RecordType ==
  [name : Entries \cup {"cleanup"}, result : {"passed", "failed", "earlier", "interrupted"}]
LaneType ==
  [group : Groups \cup {NoGroup}, phase : {"boot", "main", "exclusive", "finish", "done"},
   er : {"none", "ok", "err"}, failed : BOOLEAN, running : SUBSET Entries,
   records : Seq(RecordType), pending : Seq(Entries), held : Seq(Entries)]

\* The entries of a lane are divided among its queues, what runs and its
\* records, and none is twice in any of them.
Named(records) == {records[i].name : i \in DOMAIN records}
OncePerName(records) ==
  \A i, j \in DOMAIN records : records[i].name = records[j].name => i = j
Divided(x) ==
  /\ IsInjective(x.pending) /\ IsInjective(x.held) /\ OncePerName(x.records)
  /\ Range(x.pending) \cap Range(x.held) = {}
  /\ x.running \cap (Range(x.pending) \cup Range(x.held)) = {}
  /\ Named(x.records) \cap (Range(x.pending) \cup Range(x.held) \cup x.running) = {}
  /\ Range(x.pending) \cup Range(x.held) \cup x.running \cup (Named(x.records) \ {"cleanup"})
       = Members(x.group)

\* SkippedForItsReason of one sequence of records.
Reasoned(records) ==
  \A i \in DOMAIN records :
    /\ records[i].result = "earlier" => \E j \in 1 .. i - 1 : records[j].result = "failed"
    /\ records[i].result = "interrupted" => interrupted

\* A lane fails with one of its scenarios.
Failing(x) == x.failed => \E i \in DOMAIN x.records : x.records[i].result = "failed"

\* What does not depend on the part of its run the lane is in.
Sound(x) == x \in LaneType /\ Divided(x) /\ Reasoned(x.records) /\ Failing(x)

\* Only a parallel run holds entries back, and until it is their turn no
\* exclusive one is admitted.
KeptApart(x) ==
  /\ x.held # <<>> => ~plan.serial /\ x.group # NoGroup
  /\ ~plan.serial /\ x.group # NoGroup =>
       \A e \in Range(x.pending) \cup x.running : Catalog[e].er # "exclusive"

Within(x) == IsFiniteSet(x.running) /\ Cardinality(x.running) <= Limit(x)

\* A lane between two of its steps.
LaneOK(x) ==
  /\ Sound(x) /\ Within(x)
  /\ x.phase \in {"boot", "main"} => KeptApart(x)
  /\ x.phase \notin {"boot", "main"} => x.held = <<>>
  /\ x.phase = "boot" => x.running = {} /\ x.records = <<>> /\ ~x.failed /\ x.er = "none"
  /\ x.phase \in {"finish", "done"} => x.pending = <<>> /\ x.running = {}
  /\ x.phase # "done" => "cleanup" \notin Named(x.records)

\* There is one lane for each group selected, and lanes of a serial run take
\* turns.
LanesOK ==
  /\ \A l \in DOMAIN lanes : LaneOK(lanes[l])
  /\ \A k, l \in DOMAIN lanes : lanes[k].group = lanes[l].group => k = l
  /\ \A e \in Range(plan.selection) : \E l \in DOMAIN lanes : lanes[l].group = Catalog[e].group
  /\ plan.serial => \A l \in DOMAIN lanes : lanes[l].phase # "boot" =>
                      \A k \in 1 .. l - 1 : lanes[k].phase = "done"

\* A rollup is up exactly while its lane is between boot and finish.
Booted(x) == x.phase \in {"main", "exclusive", "finish"}
RollupsOK ==
  /\ \A l \in DOMAIN lanes : Owned(lanes[l]) /\ Booted(lanes[l]) => lanes[l].group \in rollups
  /\ \A g \in rollups : \E l \in DOMAIN lanes : lanes[l].group = g /\ Booted(lanes[l])

SuiteInv ==
  /\ plan \in Plans
  /\ step \in {"base", "prepare", "lanes", "exit"}
  /\ interrupted \in BOOLEAN /\ (interrupted => plan.redline)
  /\ \E n \in Nat : DOMAIN lanes = 1 .. n
  /\ step \in {"base", "prepare"} => lanes = <<>>
  /\ step \in {"lanes", "exit"} => LanesOK
  /\ step = "exit" => \A l \in DOMAIN lanes : lanes[l].phase = "done"
  /\ RollupsOK
  /\ ExitCodeIsTrue

-----------------------------------------------------------------------------
\* The options a run can have.
LEMMA Options ==
  ASSUME plan \in Plans
  PROVE  /\ plan.selection \in Seq(Entries) /\ IsInjective(plan.selection)
         /\ plan.serial \in BOOLEAN /\ plan.redline \in BOOLEAN
         /\ plan.fresh \in Nat \ {0} /\ plan.shared \in Nat \ {0}
         /\ plan.redline => plan.serial
<1>1. 1 \in Nat \ {0} /\ \A n \in 1 .. MaxOption : n \in Nat \ {0}
  BY SuiteAssumption
<1>2. plan.selection \in Selections
  BY Zenon DEF Plans
<1>3. plan.serial \in BOOLEAN /\ plan.redline \in BOOLEAN
  BY Zenon DEF Plans
<1>4. plan.redline => plan.serial
  BY Zenon DEF Plans
<1>5. (plan.fresh \in 1 .. MaxOption \/ plan.fresh = 1)
      /\ (plan.shared \in 1 .. MaxOption \/ plan.shared = 1)
  BY Zenon DEF Plans
<1> QED BY <1>1, <1>2, <1>3, <1>4, <1>5, SuiteAssumption

\* A limit always admits something.
LEMMA Limits ==
  ASSUME plan \in Plans, NEW x
  PROVE  Limit(x) \in Nat \ {0}
<1>1. 1 \in Nat \ {0}
  OBVIOUS
<1> QED BY <1>1, Options, Zenon DEF Limit

\* What Admit moves, in terms of the sequence it moves it from.
LEMMA AdmitMoves ==
  ASSUME SetFacts, plan \in Plans, NEW x \in LaneType, Within(x), interrupted \in BOOLEAN
  PROVE  \E n \in 0 .. Len(x.pending) :
           /\ Admit(x) = [x EXCEPT !.running = @ \cup Range(SubSeq(x.pending, 1, n)),
                                   !.pending = SubSeq(@, n + 1, Len(@))]
           /\ Cardinality(x.running) \in Nat /\ Cardinality(x.running) + n <= Limit(x)
           /\ x.failed \/ interrupted => n = 0
           /\ x.running = {} /\ n = 0 => x.pending = <<>> \/ x.failed \/ interrupted
<1> DEFINE room == IF x.failed \/ interrupted THEN 0 ELSE Limit(x) - Cardinality(x.running)
           n == IF room < Len(x.pending) THEN room ELSE Len(x.pending)
<1>1. Cardinality(x.running) \in Nat
  BY DEF Within, SetFacts, Sizes
<1>2. Limit(x) \in Nat \ {0} /\ Len(x.pending) \in Nat /\ x.failed \in BOOLEAN
  BY Limits DEF LaneType
<1>3. \/ room \in Nat /\ Cardinality(x.running) + room <= Limit(x)
      \/ room = 0 /\ Cardinality(x.running) <= Limit(x)
  BY <1>1, <1>2 DEF Within
<1>4. n \in 0 .. Len(x.pending) /\ Cardinality(x.running) + n <= Limit(x)
  BY <1>1, <1>2 DEF Within
<1>5. x.failed \/ interrupted => n = 0
  BY <1>2
<1>6. x.running = {} /\ n = 0 => x.pending = <<>> \/ x.failed \/ interrupted
  <2>1. x.running = {} => Cardinality(x.running) = 0
    BY DEF SetFacts, EmptySets
  <2>2. Len(x.pending) = 0 => x.pending = <<>>
    BY DEF LaneType
  <2> QED BY <1>1, <1>2, <2>1, <2>2
<1>7. Admit(x) = [x EXCEPT !.running = @ \cup Range(SubSeq(x.pending, 1, n)),
                           !.pending = SubSeq(@, n + 1, Len(@))]
  BY DEF Admit
<1> HIDE DEF n
<1> QED BY Zenon, <1>1, <1>4, <1>5, <1>6, <1>7

\* What a step of a lane never changes.
Frame(x, y) ==
  y.group = x.group /\ y.er = x.er /\ y.phase = x.phase /\ y.failed = x.failed /\ y.held = x.held

\* Admitting keeps the lane sound and within its limit, admits only what was
\* pending, nothing after a failure or an interruption, and something otherwise.
LEMMA AdmitOK ==
  ASSUME SetFacts, plan \in Plans, interrupted \in BOOLEAN, NEW x, Sound(x), Within(x)
  PROVE  /\ Sound(Admit(x)) /\ Within(Admit(x)) /\ Frame(x, Admit(x))
         /\ Admit(x).records = x.records
         /\ Range(Admit(x).pending) \cup Admit(x).running = Range(x.pending) \cup x.running
         /\ x.failed \/ interrupted => Admit(x).running = x.running
         /\ Admit(x).running = {} => x.running = {} /\ (Admit(x).pending = <<>> \/ x.failed \/ interrupted)
<1>0. x \in LaneType /\ x.pending \in Seq(Entries) /\ x.running \in SUBSET Entries
      /\ IsInjective(x.pending)
  BY DEF Sound, LaneType, Divided
<1>1. PICK n \in 0 .. Len(x.pending) :
           /\ Admit(x) = [x EXCEPT !.running = @ \cup Range(SubSeq(x.pending, 1, n)),
                                   !.pending = SubSeq(@, n + 1, Len(@))]
           /\ Cardinality(x.running) \in Nat /\ Cardinality(x.running) + n <= Limit(x)
           /\ x.failed \/ interrupted => n = 0
           /\ x.running = {} /\ n = 0 => x.pending = <<>> \/ x.failed \/ interrupted
  BY Zenon, <1>0, AdmitMoves
<1> DEFINE a == SubSeq(x.pending, 1, n)
           b == SubSeq(x.pending, n + 1, Len(x.pending))
           y == Admit(x)
<1>2. Halves(Entries, x.pending, n, a, b)
  BY ONLY <1>0, n \in 0 .. Len(x.pending), Cut
<1>3. y = [x EXCEPT !.running = @ \cup Range(a), !.pending = b]
  BY <1>1
<1> HIDE DEF a, b, y
<1>4. /\ IsInjective(b) /\ (b = <<>> <=> n = Len(x.pending))
      /\ Range(a) \cup Range(b) = Range(x.pending) /\ Range(a) \cap Range(b) = {}
      /\ n > 0 => Range(a) # {}
      /\ IsFiniteSet(Range(a)) /\ Cardinality(Range(a)) <= n
  BY ONLY SetFacts, <1>0, <1>2, n \in 0 .. Len(x.pending), Parts
<1>5. n = 0 => Range(a) = {}
  <2>1. DOMAIN a = 1 .. n
    BY <1>2 DEF Halves
  <2> QED BY <2>1 DEF Range
<1>6. /\ y.group = x.group /\ y.er = x.er /\ y.phase = x.phase /\ y.failed = x.failed
      /\ y.held = x.held /\ y.records = x.records
      /\ y.running = x.running \cup Range(a) /\ y.pending = b
  BY <1>0, <1>3 DEF LaneType
<1>7. y \in LaneType
  <2>1. Range(a) \subseteq Entries
    BY <1>2 DEF Range, Halves
  <2>2. b \in Seq(Entries)
    BY <1>2 DEF Halves
  <2> QED BY Zenon, <1>0, <1>3, <2>1, <2>2 DEF LaneType
<1>8. Divided(y)
  BY <1>4, <1>6 DEF Sound, Divided
<1>9. Sound(y)
  BY <1>6, <1>7, <1>8 DEF Sound, Failing
<1>10. Within(y)
  <2>1. Limit(y) = Limit(x)
    BY <1>6 DEF Limit
  <2>2. /\ IsFiniteSet(x.running \cup Range(a))
        /\ Cardinality(x.running \cup Range(a))
             = Cardinality(x.running) + Cardinality(Range(a)) - Cardinality(x.running \cap Range(a))
    BY Zenon, <1>4 DEF Within, SetFacts, Unions
  <2>3. Cardinality(x.running \cap Range(a)) \in Nat /\ Cardinality(Range(a)) \in Nat
    BY <1>4 DEF SetFacts, Subsets, Sizes
  <2>4. Cardinality(x.running \cup Range(a)) <= Limit(x)
    BY <1>1, <1>4, <2>2, <2>3, Limits
  <2> QED BY <1>6, <2>1, <2>2, <2>4 DEF Within
<1>11. n \in Nat
  BY <1>0
<1>12. y.running = {} => x.running = {} /\ (y.pending = <<>> \/ x.failed \/ interrupted)
  <2>1. SUFFICES ASSUME y.running = {}
                 PROVE  x.running = {} /\ (b = <<>> \/ x.failed \/ interrupted)
    BY <1>6
  <2>2. x.running = {} /\ n = 0
    BY <1>4, <1>6, <1>11, <2>1
  <2>3. x.pending = <<>> => n = Len(x.pending)
    BY <2>2
  <2> QED BY <1>1, <1>4, <2>2, <2>3
<1> QED BY Zenon, <1>1, <1>4, <1>5, <1>6, <1>9, <1>10, <1>12 DEF Frame, y

\* Records r may be followed by one for each of p, with the given result.
MayFollow(r, p, result) ==
  /\ r \in Seq(RecordType) /\ OncePerName(r) /\ Reasoned(r)
  /\ p \in Seq(Entries \cup {"cleanup"}) /\ IsInjective(p) /\ Named(r) \cap Range(p) = {}
  /\ result = "interrupted" => interrupted
  /\ result = "earlier" /\ p # <<>> => \E i \in DOMAIN r : r[i].result = "failed"

\* Recording entries not recorded yet, as not run only for a reason that holds,
\* keeps the records in order.
LEMMA SkipsOK ==
  ASSUME NEW r, NEW p, NEW reason, MayFollow(r, p, reason),
         NEW q, Continues(RecordType, r, p, reason, q)
  PROVE  /\ q \in Seq(RecordType) /\ OncePerName(q) /\ Reasoned(q)
         /\ Named(q) = Named(r) \cup Range(p)
         /\ \A i \in DOMAIN r : i \in DOMAIN q /\ q[i] = r[i]
<1>1. /\ r \in Seq(RecordType) /\ OncePerName(r) /\ Reasoned(r)
      /\ p \in Seq(Entries \cup {"cleanup"}) /\ IsInjective(p) /\ Named(r) \cap Range(p) = {}
      /\ reason = "interrupted" => interrupted
      /\ reason = "earlier" /\ p # <<>> => \E i \in DOMAIN r : r[i].result = "failed"
  BY Zenon DEF MayFollow
<1> USE <1>1
<1>2. /\ q \in Seq(RecordType)
      /\ \A i \in DOMAIN r : i \in DOMAIN q /\ q[i] = r[i]
      /\ \A i \in DOMAIN p : Len(r) + i \in DOMAIN q /\ q[Len(r) + i] = Record(p[i], reason)
      /\ \A i \in DOMAIN q : i \in DOMAIN r \/ \E j \in DOMAIN p : i = Len(r) + j
  BY Zenon DEF Continues
<1>3. /\ Len(r) \in Nat /\ DOMAIN r = 1 .. Len(r)
      /\ \A i \in DOMAIN p : i \in Nat /\ i > 0 /\ Len(r) + i \in DOMAIN q
                            /\ q[Len(r) + i].name = p[i] /\ q[Len(r) + i].result = reason
  <2>1. \A e : Record(e, reason).name = e /\ Record(e, reason).result = reason
    BY DEF Record
  <2>2. Len(r) \in Nat /\ DOMAIN r = 1 .. Len(r) /\ \A i \in DOMAIN p : i \in Nat /\ i > 0
    OBVIOUS
  <2> QED BY ONLY <1>2, <2>1, <2>2
<1>4. \A i \in DOMAIN q : i \in DOMAIN r \/ \E j \in DOMAIN p : i = Len(r) + j
  BY <1>2
<1>5. \A i \in DOMAIN r : i \in DOMAIN q /\ q[i] = r[i]
  BY <1>2
<1>6. (\A i \in DOMAIN r : r[i].name \notin Range(p)) /\ \A j \in DOMAIN p : p[j] \in Range(p)
  BY DEF Named, Range
<1>7. OncePerName(q)
  <2>1. ASSUME NEW i \in DOMAIN q, NEW j \in DOMAIN q, q[i].name = q[j].name PROVE i = j
    <3>1. CASE i \in DOMAIN r /\ j \in DOMAIN r
      BY <1>5, <2>1, <3>1 DEF OncePerName
    <3>2. CASE i \in DOMAIN r /\ \E m \in DOMAIN p : j = Len(r) + m
      BY <1>3, <1>5, <1>6, <2>1, <3>2
    <3>3. CASE j \in DOMAIN r /\ \E m \in DOMAIN p : i = Len(r) + m
      BY <1>3, <1>5, <1>6, <2>1, <3>3
    <3>4. ASSUME NEW m \in DOMAIN p, NEW n \in DOMAIN p, i = Len(r) + m, j = Len(r) + n PROVE i = j
      <4>1. p[m] = p[n]
        BY <1>3, <2>1, <3>4
      <4> QED BY <3>4, <4>1 DEF IsInjective
    <3> QED BY <1>4, <3>1, <3>2, <3>3, <3>4
  <2> QED BY <2>1 DEF OncePerName
<1>8. Reasoned(q)
  <2>1. ASSUME NEW i \in DOMAIN r
        PROVE  /\ q[i].result = "earlier" => \E j \in 1 .. i - 1 : q[j].result = "failed"
               /\ q[i].result = "interrupted" => interrupted
    <3>1. \A j \in 1 .. i - 1 : j \in DOMAIN r
      BY <1>3
    <3> QED BY <1>5, <3>1 DEF Reasoned
  <2>2. ASSUME NEW j \in DOMAIN p, NEW i, i = Len(r) + j
        PROVE  /\ q[i].result = "earlier" => \E m \in 1 .. i - 1 : q[m].result = "failed"
               /\ q[i].result = "interrupted" => interrupted
    <3>1. p # <<>>
      OBVIOUS
    <3>2. \A m \in DOMAIN r : m \in 1 .. i - 1
      BY <1>3, <2>2
    <3> QED BY <1>3, <1>5, <2>2, <3>1, <3>2
  <2> QED BY <1>4, <2>1, <2>2 DEF Reasoned
<1>9. Named(q) = Named(r) \cup Range(p)
  <2>1. ASSUME NEW i \in DOMAIN q PROVE q[i].name \in Named(r) \cup Range(p)
    BY <1>3, <1>4, <1>5, <1>6 DEF Named
  <2>2. ASSUME NEW i \in DOMAIN r PROVE r[i].name \in Named(q)
    BY <1>5 DEF Named
  <2>3. ASSUME NEW j \in DOMAIN p PROVE p[j] \in Named(q)
    BY <1>3 DEF Named
  <2> QED BY <2>1, <2>2, <2>3 DEF Named, Range
<1> QED BY <1>2, <1>7, <1>8, <1>9

\* Lane y is lane x after the entries of one of its queues, p, were recorded as
\* not run, for a reason there is.
Leaves(x, y, p, reason) ==
  /\ p \in Seq(Entries) /\ reason \in {"earlier", "interrupted"}
  /\ reason = "interrupted" => interrupted
  /\ reason = "earlier" /\ p # <<>> =>
       \E i \in DOMAIN x.records : x.records[i].result = "failed"
  /\ Continues(RecordType, x.records, p, reason, y.records)
  /\ y \in LaneType /\ y.group = x.group /\ y.failed = x.failed /\ y.running = x.running
  /\ \/ p = x.pending /\ y.pending = <<>> /\ y.held = x.held
     \/ p = x.held /\ y.held = <<>> /\ y.pending = x.pending

\* That leaves the lane sound.
LEMMA LeaveQueue ==
  ASSUME NEW x, Sound(x), NEW y, NEW p, NEW reason, Leaves(x, y, p, reason)
  PROVE  Sound(y) /\ Named(y.records) = Named(x.records) \cup Range(p)
<1> USE DEF Leaves
<1>1. /\ x.records \in Seq(RecordType) /\ OncePerName(x.records) /\ Reasoned(x.records)
      /\ IsInjective(p) /\ Named(x.records) \cap Range(p) = {}
  BY DEF Sound, LaneType, Divided
<1>2. /\ y.records \in Seq(RecordType) /\ OncePerName(y.records) /\ Reasoned(y.records)
      /\ Named(y.records) = Named(x.records) \cup Range(p)
      /\ \A i \in DOMAIN x.records : i \in DOMAIN y.records /\ y.records[i] = x.records[i]
  <2>1. p \in Seq(Entries \cup {"cleanup"})
    OBVIOUS
  <2>2. MayFollow(x.records, p, reason)
    BY <1>1, <2>1 DEF MayFollow
  <2> QED BY <2>2, SkipsOK
<1>3. IsInjective(<<>>) /\ Range(<<>>) = {}
  BY DEF IsInjective, Range
<1>4. "cleanup" \notin Range(p)
  BY SuiteAssumption DEF Range
<1>5. Divided(y)
  BY <1>1, <1>2, <1>3, <1>4 DEF Sound, Divided
<1>6. Failing(y)
  BY <1>2 DEF Sound, Failing
<1> QED BY <1>2, <1>5, <1>6 DEF Sound

\* The end of run_entries: what is still pending is recorded with its reason.
LEMMA DrainedOK ==
  ASSUME interrupted \in BOOLEAN, NEW x, Sound(x), x.pending = <<>> \/ x.failed \/ interrupted
  PROVE  /\ Sound(Drained(x)) /\ Frame(x, Drained(x))
         /\ Drained(x).pending = <<>> /\ Drained(x).running = x.running
         /\ Named(Drained(x).records) = Named(x.records) \cup Range(x.pending)
<1> DEFINE reason == IF interrupted THEN "interrupted" ELSE "earlier"
           y == Drained(x)
<1>1. /\ x \in LaneType /\ x.pending \in Seq(Entries) /\ x.records \in Seq(RecordType)
      /\ x.failed \in BOOLEAN /\ Failing(x)
  BY DEF Sound, LaneType
<1>2. \A e \in Entries : Record(e, reason) \in RecordType
  BY DEF Record, RecordType
<1>3. y = [x EXCEPT !.pending = <<>>, !.records = x.records \o Skip(x.pending, reason)]
  BY DEF Drained
<1>4. reason \in {"earlier", "interrupted"} /\ (reason = "interrupted" => interrupted)
      /\ (reason = "earlier" => ~interrupted)
  OBVIOUS
<1> HIDE DEF reason
<1>5. Continues(RecordType, x.records, x.pending, reason, x.records \o Skip(x.pending, reason))
  BY <1>1, <1>2, Skipped
<1> DEFINE q == x.records \o Skip(x.pending, reason)
<1> HIDE DEF q, y
<1>6. y = [x EXCEPT !.pending = <<>>, !.records = q]
  BY <1>3 DEF q
<1>7. q \in Seq(RecordType) /\ Continues(RecordType, x.records, x.pending, reason, q)
  BY Zenon, <1>5 DEF q, Continues
<1>8. /\ y \in LaneType /\ y.pending = <<>> /\ y.records = q /\ y.running = x.running
      /\ Frame(x, y)
  <2>1. q \in Seq(RecordType) /\ <<>> \in Seq(Entries)
    BY <1>7
  <2>2. /\ y.pending = <<>> /\ y.records = q /\ y.running = x.running
        /\ y.group = x.group /\ y.er = x.er /\ y.phase = x.phase /\ y.failed = x.failed
        /\ y.held = x.held
    BY <1>1, <1>6 DEF LaneType
  <2>3. y \in LaneType
    BY Zenon, <1>1, <1>6, <2>1 DEF LaneType
  <2> QED BY <2>2, <2>3 DEF Frame
<1>9. reason = "earlier" /\ x.pending # <<>> => \E i \in DOMAIN x.records : x.records[i].result = "failed"
  BY <1>1, <1>4 DEF Failing
<1>10. Sound(y) /\ Named(y.records) = Named(x.records) \cup Range(x.pending)
  <2>1. Continues(RecordType, x.records, x.pending, reason, y.records)
    BY <1>7, <1>8
  <2>2. y.group = x.group /\ y.failed = x.failed /\ y.held = x.held
    BY <1>8 DEF Frame
  <2>3. Leaves(x, y, x.pending, reason)
    BY <1>1, <1>4, <1>8, <1>9, <2>1, <2>2 DEF Leaves
  <2> QED BY <2>3, LeaveQueue
<1> QED BY <1>8, <1>10 DEF y

\* Lane::run skips what it held back when something before it did not pass.
LEMMA SkipHeldOK ==
  ASSUME NEW x, Sound(x),
         x.held # <<>> => \E i \in DOMAIN x.records : x.records[i].result = "failed",
         NEW y, y = [x EXCEPT !.held = <<>>, !.records = @ \o Skip(x.held, "earlier")]
  PROVE  /\ Sound(y) /\ y.group = x.group /\ y.er = x.er /\ y.failed = x.failed
         /\ y.pending = x.pending /\ y.held = <<>> /\ y.running = x.running
         /\ Named(y.records) = Named(x.records) \cup Range(x.held)
<1>1. x \in LaneType /\ x.held \in Seq(Entries) /\ x.records \in Seq(RecordType)
  BY DEF Sound, LaneType
<1>2. \A e \in Entries : Record(e, "earlier") \in RecordType
  BY DEF Record, RecordType
<1>5. Continues(RecordType, x.records, x.held, "earlier", x.records \o Skip(x.held, "earlier"))
  BY ONLY <1>1, <1>2, Skipped
<1> DEFINE q == x.records \o Skip(x.held, "earlier")
<1>6. y = [x EXCEPT !.held = <<>>, !.records = q]
  OBVIOUS
<1>7. q \in Seq(RecordType) /\ Continues(RecordType, x.records, x.held, "earlier", q)
  BY Zenon, <1>5 DEF Continues
<1> HIDE DEF q
<1>8. /\ y \in LaneType /\ y.held = <<>> /\ y.records = q /\ y.running = x.running
      /\ y.group = x.group /\ y.er = x.er /\ y.failed = x.failed /\ y.pending = x.pending
  <2>1. q \in Seq(RecordType) /\ <<>> \in Seq(Entries)
    BY <1>7
  <2>2. /\ y.held = <<>> /\ y.records = q /\ y.running = x.running
        /\ y.group = x.group /\ y.er = x.er /\ y.failed = x.failed /\ y.pending = x.pending
    BY ONLY <1>1, <1>6 DEF LaneType
  <2>3. y \in LaneType
    BY ONLY Zenon, <1>1, <1>6, <2>1 DEF LaneType
  <2> QED BY Zenon, <2>2, <2>3
<1>9. Continues(RecordType, x.records, x.held, "earlier", y.records)
  BY Zenon, <1>7, <1>8
<1>10. Sound(y) /\ Named(y.records) = Named(x.records) \cup Range(x.held)
  <2>1. Leaves(x, y, x.held, "earlier")
    BY <1>1, <1>8, <1>9 DEF Leaves
  <2> QED BY Zenon, <2>1, LeaveQueue
<1> QED BY <1>8, <1>10

\* The turn of the exclusive entries.
LEMMA SwitchOK ==
  ASSUME SetFacts, plan \in Plans, NEW x, Sound(x), x.pending = <<>>, x.running = {},
         NEW y, y = [x EXCEPT !.phase = "exclusive", !.pending = x.held, !.held = <<>>, !.failed = FALSE]
  PROVE  /\ Sound(y) /\ Within(y) /\ y.group = x.group /\ y.er = x.er /\ y.phase = "exclusive"
         /\ y.failed = FALSE /\ y.held = <<>> /\ y.pending = x.held /\ y.running = {} /\ y.records = x.records
<1>1. /\ y \in LaneType /\ y.group = x.group /\ y.er = x.er /\ y.phase = "exclusive"
      /\ y.failed = FALSE /\ y.held = <<>> /\ y.pending = x.held /\ y.running = {} /\ y.records = x.records
  BY Zenon DEF Sound, LaneType
<1>2. IsInjective(<<>>) /\ Range(<<>>) = {}
  BY DEF IsInjective, Range
<1>3. Divided(y)
  BY <1>1, <1>2 DEF Sound, Divided
<1>4. Within(y)
  <2>1. Limit(y) \in Nat \ {0} /\ IsFiniteSet({}) /\ Cardinality({}) = 0
    BY Limits DEF SetFacts, EmptySets
  <2>2. y.running = {}
    BY <1>1
  <2> QED BY ONLY <2>1, <2>2 DEF Within
<1> QED BY <1>1, <1>3, <1>4 DEF Sound, Failing

\* run_entries is over: the lane has only its group left to finish.
LEMMA OverOK ==
  ASSUME SetFacts, plan \in Plans, NEW x, Sound(x), x.pending = <<>>, x.held = <<>>, x.running = {},
         "cleanup" \notin Named(x.records), NEW y, y = [x EXCEPT !.phase = "finish"]
  PROVE  /\ LaneOK(y) /\ y.phase = "finish" /\ y.running = {} /\ y.group = x.group /\ y.er = x.er
         /\ y.failed = x.failed
<1>1. /\ y \in LaneType /\ y.group = x.group /\ y.er = x.er /\ y.phase = "finish"
      /\ y.failed = x.failed /\ y.held = x.held /\ y.pending = x.pending /\ y.running = x.running
      /\ y.records = x.records
  BY DEF Sound, LaneType
<1>2. Sound(y)
  BY <1>1 DEF Sound, Divided, Failing
<1>3. Within(y)
  <2>1. Limit(y) \in Nat \ {0} /\ IsFiniteSet({}) /\ Cardinality({}) = 0
    BY Limits DEF SetFacts, EmptySets
  <2>2. y.running = {}
    BY <1>1
  <2> QED BY ONLY <2>1, <2>2 DEF Within
<1> QED BY <1>1, <1>2, <1>3 DEF LaneOK

\* A lane whose rollup is up, about to go on with its entries.
Ready(x) ==
  /\ Sound(x) /\ Within(x) /\ x.phase \in {"main", "exclusive"}
  /\ x.phase = "main" => KeptApart(x)
  /\ x.phase = "exclusive" => x.held = <<>>
  /\ "cleanup" \notin Named(x.records)

\* Lane y is lane x gone on until it waits for an entry or has none left.
Ran(x, y) ==
  /\ LaneOK(y) /\ Booted(y) /\ y.group = x.group /\ y.er = x.er /\ y.failed = x.failed
  /\ x.failed \/ interrupted => y.running \subseteq x.running

\* A lane at an await of run_entries.
LEMMA WaitingOK ==
  ASSUME NEW x, Ready(x)
  PROVE  LaneOK(x) /\ Booted(x)
BY DEF Ready, LaneOK, Booted

\* If not all of its records passed, and it may hold entries back, one failed.
LEMMA SomeFailed ==
  ASSUME plan \in Plans, interrupted => plan.redline,
         NEW x, Sound(x), x.held # <<>> => ~plan.serial, ~AllPassed(x.records), x.held # <<>>
  PROVE  \E i \in DOMAIN x.records : x.records[i].result = "failed"
<1>1. ~interrupted
  BY Options
<1>2. PICK i \in DOMAIN x.records : x.records[i].result # "passed"
  BY DEF AllPassed, Range
<1>3. x.records[i] \in RecordType /\ i \in Nat /\ \A j \in 1 .. i - 1 : j \in DOMAIN x.records
  BY DEF Sound, LaneType
<1>4. CASE x.records[i].result = "earlier"
  BY <1>3, <1>4 DEF Sound, Reasoned
<1>5. x.records[i].result # "interrupted"
  BY <1>1 DEF Sound, Reasoned
<1> QED BY <1>2, <1>3, <1>4, <1>5 DEF RecordType

\* run_entries, and then the exclusive entries, loses no entry, admits no more
\* than the limit, and nothing after a failure or an interruption.
LEMMA RunEntriesOK ==
  ASSUME SetFacts, plan \in Plans, interrupted \in BOOLEAN, interrupted => plan.redline, NEW x, Ready(x)
  PROVE  Ran(x, RunEntries(x))
<1> DEFINE main == Admit(x)
           over == Drained(main)
           next == [over EXCEPT !.phase = "exclusive", !.pending = over.held,
                                !.held = <<>>, !.failed = FALSE]
           exclusive == Admit(next)
           last == Drained(exclusive)
           skipped == [over EXCEPT !.held = <<>>, !.records = @ \o Skip(over.held, "earlier")]
           end(z) == [z EXCEPT !.phase = "finish"]
<1>1. RunEntries(x) = CASE main.running # {} -> main
        [] main.running = {} /\ AllPassed(over.records) /\ exclusive.running # {} -> exclusive
        [] OTHER -> end(IF AllPassed(over.records) THEN last ELSE skipped)
  BY Zenon DEF RunEntries
<1>2. /\ Sound(main) /\ Within(main) /\ Frame(x, main)
      /\ main.records = x.records
      /\ Range(main.pending) \cup main.running = Range(x.pending) \cup x.running
      /\ x.failed \/ interrupted => main.running = x.running
      /\ main.running = {} => main.pending = <<>> \/ x.failed \/ interrupted
  BY AdmitOK DEF Ready
<1> HIDE DEF main
<1>3. CASE main.running # {}
  <2>1. RunEntries(x) = main
    BY <1>1, <1>3, Zenon
  <2>2. Ready(main)
    BY <1>2 DEF Ready, Frame, KeptApart
  <2> QED BY <1>2, <2>1, <2>2, WaitingOK DEF Ran, Frame
<1>4. CASE main.running = {}
  <2>1. /\ Sound(over) /\ Frame(main, over) /\ over.pending = <<>> /\ over.running = {}
        /\ Named(over.records) = Named(main.records) \cup Range(main.pending)
    BY <1>2, <1>4, DrainedOK DEF Frame
  <2> HIDE DEF over
  <2>2. "cleanup" \notin Named(over.records)
    <3>1. Range(main.pending) \subseteq Entries
      BY <1>2 DEF Sound, LaneType, Range
    <3> QED BY <1>2, <2>1, <3>1, SuiteAssumption DEF Ready
  <2>3. CASE AllPassed(over.records)
    <3>1. x.failed = FALSE
      <4>1. ~over.failed
        BY <2>1, <2>3 DEF Sound, Failing, AllPassed, Range
      <4>2. over.failed = x.failed /\ over.failed \in BOOLEAN
        BY <1>2, <2>1 DEF Frame, Sound, LaneType
      <4> QED BY <4>1, <4>2
    <3>2. /\ Sound(next) /\ Within(next) /\ next.group = over.group /\ next.er = over.er
          /\ next.phase = "exclusive" /\ next.failed = FALSE /\ next.held = <<>>
          /\ next.pending = over.held /\ next.running = {} /\ next.records = over.records
      BY Zenon, <2>1, SwitchOK
    <3> HIDE DEF next
    <3>3. /\ Sound(exclusive) /\ Within(exclusive) /\ Frame(next, exclusive)
          /\ exclusive.records = next.records
          /\ Range(exclusive.pending) \cup exclusive.running = Range(next.pending) \cup next.running
          /\ next.failed \/ interrupted => exclusive.running = next.running
          /\ exclusive.running = {} => exclusive.pending = <<>> \/ next.failed \/ interrupted
      BY Zenon, <3>2, AdmitOK
    <3> HIDE DEF exclusive
    <3>4. CASE exclusive.running # {}
      <4>1. RunEntries(x) = exclusive
        BY <1>1, <1>4, <2>3, <3>4, Zenon
      <4>2. Ready(exclusive)
        BY <2>2, <3>2, <3>3 DEF Ready, Frame
      <4> QED BY Zenon, <1>2, <2>1, <3>1, <3>2, <3>3, <4>1, <4>2, WaitingOK DEF Ran, Frame
    <3>5. CASE exclusive.running = {}
      <4>1. RunEntries(x) = end(last)
        BY <1>1, <1>4, <2>3, <3>5, Zenon
      <4>2. /\ Sound(last) /\ Frame(exclusive, last) /\ last.pending = <<>> /\ last.running = {}
            /\ Named(last.records) = Named(exclusive.records) \cup Range(exclusive.pending)
        BY Zenon, <3>2, <3>3, <3>5, DrainedOK DEF Frame
      <4> HIDE DEF last
      <4>3. "cleanup" \notin Named(last.records)
        <5>1. Range(exclusive.pending) \subseteq Entries
          BY <3>3 DEF Sound, LaneType, Range
        <5> QED BY <2>2, <3>2, <3>3, <4>2, <5>1, SuiteAssumption
      <4>4. /\ LaneOK(end(last)) /\ end(last).phase = "finish" /\ end(last).running = {}
            /\ end(last).group = last.group /\ end(last).er = last.er
            /\ end(last).failed = last.failed
        BY <3>2, <3>3, <4>2, <4>3, OverOK DEF Frame
      <4> HIDE DEF end
      <4> QED BY ZenonT(40), <1>2, <2>1, <3>1, <3>2, <3>3, <4>1, <4>2, <4>4 DEF Ran, Frame, Booted
    <3> QED BY <3>4, <3>5
  <2>4. CASE ~AllPassed(over.records)
    <3>1. RunEntries(x) = end(skipped)
      BY <1>1, <1>4, <2>4, Zenon
    <3>2. over.held # <<>> => ~plan.serial
      BY <1>2, <2>1 DEF Ready, KeptApart, Frame
    <3>3. over.held # <<>> => \E i \in DOMAIN over.records : over.records[i].result = "failed"
      BY <2>1, <2>4, <3>2, SomeFailed
    <3>4. /\ Sound(skipped) /\ skipped.group = over.group /\ skipped.er = over.er
          /\ skipped.failed = over.failed
          /\ skipped.pending = over.pending /\ skipped.held = <<>> /\ skipped.running = over.running
          /\ Named(skipped.records) = Named(over.records) \cup Range(over.held)
      BY Zenon, <2>1, <3>3, SkipHeldOK
    <3> HIDE DEF skipped
    <3>5. "cleanup" \notin Named(skipped.records)
      <4>1. Range(over.held) \subseteq Entries
        BY <2>1 DEF Sound, LaneType, Range
      <4> QED BY <2>2, <3>4, <4>1, SuiteAssumption
    <3>6. /\ LaneOK(end(skipped)) /\ end(skipped).phase = "finish" /\ end(skipped).running = {}
          /\ end(skipped).group = skipped.group /\ end(skipped).er = skipped.er
          /\ end(skipped).failed = skipped.failed
      BY <2>1, <3>4, <3>5, OverOK
    <3> HIDE DEF end
    <3> QED BY <1>2, <2>1, <3>1, <3>4, <3>6 DEF Ran, Frame, Booted
  <2> QED BY <2>3, <2>4
<1> QED BY <1>3, <1>4

\* Some of the entries that were selected can be sorted as well.
LEMMA SomeSortable ==
  ASSUME SetFacts, plan \in Plans, NEW S \in SUBSET Selected
  PROVE  S \in SUBSET Entries /\ IsFiniteSet(S) /\ Ordered(S)
<1>1. Selected \subseteq Entries /\ IsFiniteSet(Selected) /\ Ordered(Selected)
  BY Options, Sortable
<1>2. IsFiniteSet(S)
  BY <1>1 DEF SetFacts, Subsets
<1> QED BY <1>1, <1>2 DEF Ordered

\* A new lane has the entries of its group, each once, in its two queues.
LEMMA NewLaneOK ==
  ASSUME SetFacts, plan \in Plans, NEW g \in Groups \cup {NoGroup}
  PROVE  LaneOK(NewLane(g)) /\ NewLane(g).group = g /\ NewLane(g).phase = "boot"
<1> DEFINE held == {e \in Members(g) : ~plan.serial /\ g # NoGroup /\ Catalog[e].er = "exclusive"}
           rest == Members(g) \ held
           x == NewLane(g)
<1>1. held \in SUBSET Selected /\ rest \in SUBSET Selected
  BY DEF Members, Selected
<1>2. held \in SUBSET Entries /\ Sorted(held) \in Seq(held) /\ IsInjective(Sorted(held))
      /\ Range(Sorted(held)) = held
  BY Zenon, <1>1, SomeSortable, SortedOK
<1>3. rest \in SUBSET Entries /\ Sorted(rest) \in Seq(rest) /\ IsInjective(Sorted(rest))
      /\ Range(Sorted(rest)) = rest
  BY <1>1, SomeSortable, SortedOK
<1>4. x = [group |-> g, phase |-> "boot", er |-> "none", failed |-> FALSE, running |-> {},
           records |-> <<>>, pending |-> Sorted(rest), held |-> Sorted(held)]
  BY DEF NewLane
<1>5. \A e \in Members(g) : e \in held <=> ~plan.serial /\ g # NoGroup /\ Catalog[e].er = "exclusive"
  OBVIOUS
<1>6. held \cup rest = Members(g) /\ held \cap rest = {}
  OBVIOUS
<1> HIDE DEF held, rest, x
<1>7. /\ x.group = g /\ x.phase = "boot" /\ x.er = "none" /\ x.failed = FALSE /\ x.running = {}
      /\ x.records = <<>> /\ x.pending = Sorted(rest) /\ x.held = Sorted(held)
  BY ONLY <1>4
<1>8. x \in LaneType
  <2>1. Sorted(held) \in Seq(Entries) /\ Sorted(rest) \in Seq(Entries) /\ <<>> \in Seq(RecordType)
    BY <1>2, <1>3
  <2> QED BY ONLY <1>4, <2>1, g \in Groups \cup {NoGroup} DEF LaneType
<1>9. Named(x.records) = {} /\ OncePerName(x.records) /\ Reasoned(x.records)
  BY <1>7 DEF Named, OncePerName, Reasoned
<1>10. Divided(x)
  BY ONLY <1>2, <1>3, <1>6, <1>7, <1>9 DEF Divided
<1>11. Within(x)
  <2>1. Limit(x) \in Nat \ {0} /\ IsFiniteSet({}) /\ Cardinality({}) = 0
    BY Limits DEF SetFacts, EmptySets
  <2> QED BY ONLY <1>7, <2>1 DEF Within
<1>12. KeptApart(x)
  <2>1. held # {} => ~plan.serial /\ g # NoGroup
    BY <1>5, <1>6
  <2>2. Sorted(held) # <<>> => held # {}
    BY <1>2
  <2>3. ~plan.serial /\ g # NoGroup => \A e \in rest : Catalog[e].er # "exclusive"
    BY <1>5, <1>6
  <2> QED BY ONLY <1>3, <1>7, <2>1, <2>2, <2>3 DEF KeptApart
<1>13. LaneOK(x)
  BY ONLY <1>7, <1>8, <1>9, <1>10, <1>11, <1>12 DEF LaneOK, Sound, Failing
<1> QED BY <1>7, <1>13 DEF x

\* Each group that was selected has one first entry.
LEMMA FirstsOK ==
  ASSUME SetFacts, plan \in Plans
  PROVE  /\ Firsts \in SUBSET Selected
         /\ \A d, e \in Firsts : Catalog[d].group = Catalog[e].group => d = e
         /\ \A e \in Selected : \E f \in Firsts : Catalog[f].group = Catalog[e].group
<1>1. Firsts \in SUBSET Selected
  BY DEF Firsts, Selected
<1>2. Ordered(Selected)
  BY Options, Sortable
<1>3. ASSUME NEW d \in Firsts, NEW e \in Firsts, Catalog[d].group = Catalog[e].group PROVE d = e
  <2>1. ~Before(d, e) /\ ~Before(e, d)
    BY <1>1, <1>3 DEF Firsts, Members, Selected
  <2> QED BY <1>1, <1>2, <2>1 DEF Ordered
<1>4. ASSUME NEW e \in Selected PROVE \E f \in Firsts : Catalog[f].group = Catalog[e].group
  <2> DEFINE M == Members(Catalog[e].group)
  <2>1. M \in SUBSET Selected /\ e \in M
    BY DEF Members, Selected
  <2>2. PICK f \in M : \A d \in M : ~Before(d, f)
    BY <2>1, SomeSortable, SortedOK
  <2>3. f \in Range(plan.selection) /\ Catalog[f].group = Catalog[e].group
    BY DEF Members
  <2>4. f \in Firsts
    BY <2>2, <2>3 DEF Firsts
  <2> QED BY <2>3, <2>4
<1> QED BY <1>1, <1>3, <1>4

\* A lane nobody polls stays as it is.
LEMMA Stays ==
  ASSUME plan' = plan, interrupted => interrupted', NEW x, LaneOK(x)
  PROVE  LaneOK(x)'
<1>1. Members(x.group)' = Members(x.group) /\ Limit(x)' = Limit(x)
  BY DEF Members, Limit
<1>2. Divided(x)'
  BY <1>1 DEF LaneOK, Sound, Divided
<1>3. Reasoned(x.records)'
  BY DEF LaneOK, Sound, Reasoned
<1>4. Sound(x)' /\ Within(x)' /\ (KeptApart(x)' <=> KeptApart(x))
  BY <1>1, <1>2, <1>3 DEF LaneOK, Sound, Within, Failing, KeptApart
<1> QED BY <1>4 DEF LaneOK

\* One more record.
LEMMA Recorded ==
  ASSUME NEW r \in Seq(RecordType), OncePerName(r), Reasoned(r),
         NEW e \in Entries \cup {"cleanup"}, e \notin Named(r), NEW result \in {"passed", "failed"}
  PROVE  /\ Append(r, Record(e, result)) \in Seq(RecordType)
         /\ OncePerName(Append(r, Record(e, result))) /\ Reasoned(Append(r, Record(e, result)))
         /\ Named(Append(r, Record(e, result))) = Named(r) \cup {e}
         /\ \A i \in DOMAIN r : i \in DOMAIN Append(r, Record(e, result))
                               /\ Append(r, Record(e, result))[i] = r[i]
         /\ \E i \in DOMAIN Append(r, Record(e, result)) :
               Append(r, Record(e, result))[i] = Record(e, result)
<1> DEFINE q == Append(r, Record(e, result))
<1> DEFINE p == <<e>>
<1>1. /\ p \in Seq(Entries \cup {"cleanup"}) /\ DOMAIN p = {1} /\ Len(p) = 1 /\ p[1] = e
      /\ Range(p) = {e} /\ IsInjective(p)
  BY DEF Range, IsInjective
<1> HIDE DEF p
<1>2. Record(e, result) \in RecordType
  BY DEF Record, RecordType
<1>3. /\ q \in Seq(RecordType) /\ Len(q) = Len(r) + 1 /\ DOMAIN q = 1 .. Len(r) + 1
      /\ DOMAIN r = 1 .. Len(r) /\ Len(r) \in Nat
      /\ \A i \in DOMAIN r : q[i] = r[i]
      /\ q[Len(r) + 1] = Record(e, result)
  BY <1>2
<1> HIDE DEF q
<1>4. Continues(RecordType, r, p, result, q)
  <2>1. \A n \in Nat : \A i \in 1 .. n + 1 : i \in 1 .. n \/ i = n + 1
    OBVIOUS
  <2>2. \A n \in Nat : 1 .. n \subseteq 1 .. n + 1 /\ n + 1 \in 1 .. n + 1
    OBVIOUS
  <2>3. \A i \in DOMAIN r : i \in DOMAIN q /\ q[i] = r[i]
    BY ONLY <1>3, <2>2
  <2>4. \A i \in DOMAIN p : Len(r) + i \in DOMAIN q /\ q[Len(r) + i] = Record(p[i], result)
    BY ONLY <1>1, <1>3, <2>2
  <2>5. \A i \in DOMAIN q : i \in DOMAIN r \/ \E j \in DOMAIN p : i = Len(r) + j
    BY ONLY <1>1, <1>3, <2>1
  <2> QED BY ONLY <1>1, <1>3, <2>3, <2>4, <2>5 DEF Continues
<1>5. /\ q \in Seq(RecordType) /\ OncePerName(q) /\ Reasoned(q)
      /\ Named(q) = Named(r) \cup Range(p)
      /\ \A i \in DOMAIN r : i \in DOMAIN q /\ q[i] = r[i]
  <2>1. MayFollow(r, p, result)
    BY <1>1 DEF MayFollow
  <2> QED BY ONLY <1>4, <2>1, SkipsOK
<1>6. Len(r) + 1 \in DOMAIN q
  BY <1>3
<1> QED BY <1>1, <1>3, <1>5, <1>6 DEF q

\* A lane whose group has just been booted, or that has none.
Started(w, er) == [w EXCEPT !.phase = "main", !.er = er]

\* It is ready to run its entries.
LEMMA BootedOK ==
  ASSUME NEW w, LaneOK(w), w.phase = "boot", NEW er \in {"none", "ok", "err"}
  PROVE  /\ Ready(Started(w, er)) /\ Started(w, er).group = w.group /\ Started(w, er).er = er
         /\ Started(w, er).failed = w.failed /\ Started(w, er).running = w.running
<1> DEFINE x == Started(w, er)
<1>1. /\ x \in LaneType /\ x.group = w.group /\ x.er = er /\ x.failed = w.failed
      /\ x.running = w.running /\ x.phase = "main" /\ x.pending = w.pending /\ x.held = w.held
      /\ x.records = w.records
  BY Zenon DEF LaneOK, Sound, LaneType, Started
<1> HIDE DEF x
<1>2. Limit(x) = Limit(w)
  BY <1>1 DEF Limit
<1>3. /\ Divided(w) /\ Reasoned(w.records) /\ Failing(w) /\ Within(w) /\ KeptApart(w)
      /\ "cleanup" \notin Named(w.records)
  BY DEF LaneOK, Sound
<1>4. Divided(x) /\ Failing(x) /\ KeptApart(x) /\ Within(x)
  BY ONLY <1>1, <1>2, <1>3 DEF Divided, Failing, KeptApart, Within
<1>5. Ready(x)
  BY ONLY <1>1, <1>3, <1>4 DEF Ready, Sound
<1> QED BY <1>1, <1>5 DEF x

\* A lane that was given the record of one of its running entries is ready to
\* go on, and knows of a failure.
LEMMA EndedOK ==
  ASSUME SetFacts, plan \in Plans, NEW w, LaneOK(w), NEW e \in w.running, NEW result \in {"passed", "failed"}
  PROVE  /\ Ready(Ended(w, e, result)) /\ Booted(w)
         /\ Ended(w, e, result).group = w.group /\ Ended(w, e, result).er = w.er
         /\ w.failed => Ended(w, e, result).failed
         /\ Ended(w, e, result).running = w.running \ {e}
<1> DEFINE x == Ended(w, e, result)
           fails == w.failed \/ (w.group # NoGroup /\ result = "failed")
<1>1. /\ w \in LaneType /\ Divided(w) /\ OncePerName(w.records) /\ Reasoned(w.records) /\ Failing(w)
      /\ IsFiniteSet(w.running) /\ Cardinality(w.running) <= Limit(w)
      /\ w.phase \in {"main", "exclusive"} /\ Booted(w)
      /\ w.records \in Seq(RecordType) /\ e \in Entries /\ e \notin Named(w.records)
      /\ "cleanup" \notin Named(w.records)
      /\ w.phase = "main" => KeptApart(w)
      /\ w.phase = "exclusive" => w.held = <<>>
  BY DEF LaneOK, Sound, Within, LaneType, Divided, Booted
<1> DEFINE q == Append(w.records, Record(e, result))
<1>2. /\ q \in Seq(RecordType) /\ OncePerName(q) /\ Reasoned(q)
      /\ Named(q) = Named(w.records) \cup {e}
      /\ \A i \in DOMAIN w.records : i \in DOMAIN q /\ q[i] = w.records[i]
      /\ \E i \in DOMAIN q : q[i] = Record(e, result)
  BY <1>1, Recorded
<1>3. x = [w EXCEPT !.running = @ \ {e}, !.failed = fails, !.records = q]
  BY DEF Ended
<1>a. fails \in BOOLEAN /\ (fails => w.failed \/ result = "failed") /\ (w.failed => fails)
  BY <1>1 DEF LaneType
<1> HIDE DEF q, x, fails
<1>4. /\ x.group = w.group /\ x.er = w.er /\ x.failed = fails /\ x.phase = w.phase
      /\ x.running = w.running \ {e} /\ x.pending = w.pending /\ x.held = w.held /\ x.records = q
  BY ONLY <1>1, <1>3 DEF LaneType
<1>5. x \in LaneType
  <2>1. q \in Seq(RecordType)
    BY <1>2
  <2> QED BY ONLY Zenon, <1>1, <1>3, <2>1, <1>a DEF LaneType
<1>6. Divided(x)
  <2>1. e # "cleanup"
    BY <1>1, SuiteAssumption
  <2> QED BY ONLY <1>1, <1>2, <1>4, <2>1, e \in w.running DEF Divided
<1>7. Failing(x)
  <2>1. Record(e, result).result = result
    BY DEF Record
  <2> QED BY ONLY <1>1, <1>2, <1>4, <2>1, <1>a DEF Failing
<1>8. Within(x)
  <2>1. Limit(x) = Limit(w) /\ Limit(w) \in Nat
    BY <1>4, Limits DEF Limit
  <2>2. IsFiniteSet(w.running \ {e}) /\ Cardinality(w.running \ {e}) <= Cardinality(w.running)
    BY <1>1 DEF SetFacts, Subsets
  <2>3. Cardinality(w.running \ {e}) \in Nat /\ Cardinality(w.running) \in Nat
    BY <1>1, <2>2 DEF SetFacts, Sizes
  <2> QED BY ONLY <1>1, <1>4, <2>1, <2>2, <2>3 DEF Within
<1>9. w.phase = "main" => KeptApart(x)
  BY ONLY <1>1, <1>4 DEF KeptApart
<1>10. "cleanup" \notin Named(x.records)
  BY ONLY <1>1, <1>2, <1>4, SuiteAssumption
<1>11. Ready(x)
  BY ONLY <1>1, <1>2, <1>4, <1>5, <1>6, <1>7, <1>8, <1>9, <1>10 DEF Ready, Sound
<1> QED BY <1>1, <1>a, <1>4, <1>11 DEF x

\* A lane whose group was finished, cleanly or with a record of the error.
Finished(w, clean) ==
  [w EXCEPT !.phase = "done",
            !.records = IF clean THEN @ ELSE Append(@, Record("cleanup", "failed"))]

\* It is over.
LEMMA FinishedOK ==
  ASSUME SetFacts, plan \in Plans, NEW w, LaneOK(w), w.phase = "finish", NEW clean \in BOOLEAN
  PROVE  /\ LaneOK(Finished(w, clean)) /\ Finished(w, clean).phase = "done"
         /\ Finished(w, clean).group = w.group /\ Finished(w, clean).er = w.er
         /\ Finished(w, clean).failed = w.failed /\ Finished(w, clean).running = w.running
<1> DEFINE y == Finished(w, clean)
<1>1. /\ w \in LaneType /\ Divided(w) /\ OncePerName(w.records) /\ Reasoned(w.records) /\ Failing(w)
      /\ w.records \in Seq(RecordType) /\ "cleanup" \notin Named(w.records)
      /\ w.pending = <<>> /\ w.held = <<>> /\ w.running = {}
  BY DEF LaneOK, Sound, LaneType, Divided
<1> DEFINE q == IF clean THEN w.records ELSE Append(w.records, Record("cleanup", "failed"))
<1>2. /\ q \in Seq(RecordType) /\ OncePerName(q) /\ Reasoned(q)
      /\ Named(q) \ {"cleanup"} = Named(w.records) \ {"cleanup"}
      /\ \A i \in DOMAIN w.records : i \in DOMAIN q /\ q[i] = w.records[i]
  <2>1. CASE clean
    BY <1>1, <2>1
  <2>2. CASE ~clean
    <3>1. q = Append(w.records, Record("cleanup", "failed"))
      BY <2>2
    <3>2. "cleanup" \in Entries \cup {"cleanup"} /\ "failed" \in {"passed", "failed"}
      OBVIOUS
    <3> HIDE DEF q
    <3> QED BY <1>1, <3>1, <3>2, Recorded
  <2> QED BY <2>1, <2>2
<1>3. y = [w EXCEPT !.phase = "done", !.records = q]
  BY DEF Finished
<1> HIDE DEF q, y
<1>4. /\ y.group = w.group /\ y.er = w.er /\ y.failed = w.failed /\ y.phase = "done"
      /\ y.running = w.running /\ y.pending = w.pending /\ y.held = w.held /\ y.records = q
  BY ONLY <1>1, <1>3 DEF LaneType
<1>5. y \in LaneType
  <2>1. q \in Seq(RecordType)
    BY <1>2
  <2> QED BY ONLY Zenon, <1>1, <1>3, <2>1 DEF LaneType
<1>6. Divided(y)
  <2>1. Range(<<>>) = {}
    BY DEF Range
  <2> QED BY ONLY <1>1, <1>2, <1>4, <2>1 DEF Divided
<1>7. Failing(y)
  BY ONLY <1>1, <1>2, <1>4 DEF Failing
<1>8. Within(y)
  <2>1. Limit(y) \in Nat \ {0} /\ IsFiniteSet({}) /\ Cardinality({}) = 0
    BY Limits DEF SetFacts, EmptySets
  <2>2. y.running = {}
    BY <1>1, <1>4
  <2> QED BY ONLY <2>1, <2>2 DEF Within
<1>9. LaneOK(y)
  BY ONLY <1>1, <1>2, <1>4, <1>5, <1>6, <1>7, <1>8 DEF LaneOK, Sound
<1> QED BY <1>4, <1>9 DEF y

-----------------------------------------------------------------------------
\* Lane l takes a step, to y: the lane stays in order, a failure is not
\* forgotten, and after one, or an interruption, nothing starts.
Moves(l, y) ==
  /\ l \in DOMAIN lanes /\ step = "lanes" /\ Polled(l)
  /\ lanes' = [lanes EXCEPT ![l] = y]
  /\ UNCHANGED <<plan, step, interrupted>>
  /\ LaneOK(y) /\ y.phase # "boot" /\ y.group = lanes[l].group
  /\ lanes[l].phase # "done"
  /\ lanes[l].failed => y.failed
  /\ y.failed \/ interrupted => y.running \subseteq lanes[l].running

\* The lanes after such a step.
LEMMA Moved ==
  ASSUME SuiteInv, NEW l, NEW y, Moves(l, y)
  PROVE  /\ DOMAIN lanes' = DOMAIN lanes /\ lanes'[l] = y /\ l \in DOMAIN lanes
         /\ \A k \in DOMAIN lanes : k # l => lanes'[k] = lanes[k]
         /\ \A k \in DOMAIN lanes : lanes'[k].group = lanes[k].group
BY DEF Moves, SuiteInv

\* It leaves the lanes in order.
LEMMA MovesLanes ==
  ASSUME SuiteInv, NEW l, NEW y, Moves(l, y)
  PROVE  LanesOK'
<1>1. /\ DOMAIN lanes' = DOMAIN lanes /\ lanes'[l] = y /\ l \in DOMAIN lanes
      /\ \A k \in DOMAIN lanes : k # l => lanes'[k] = lanes[k]
      /\ \A k \in DOMAIN lanes : lanes'[k].group = lanes[k].group
  BY Moved
<1>2. LanesOK /\ plan' = plan /\ interrupted' = interrupted
  BY DEF SuiteInv, Moves
<1>3. \A k \in DOMAIN lanes' : LaneOK(lanes[k])'
  <2> TAKE k \in DOMAIN lanes'
  <2>1. PICK x : x = lanes'[k]
    OBVIOUS
  <2>2. LaneOK(x)
    BY <1>1, <1>2, <2>1 DEF Moves, LanesOK
  <2>3. LaneOK(x)'
    BY <1>2, <2>2, Stays
  <2> QED BY <2>1, <2>3
<1>4. \A j, k \in DOMAIN lanes' : lanes'[j].group = lanes'[k].group => j = k
  BY <1>1, <1>2 DEF LanesOK
<1>5. \A e \in Range(plan'.selection) : \E k \in DOMAIN lanes' : lanes'[k].group = Catalog[e].group
  BY <1>1, <1>2 DEF LanesOK
<1>6. ASSUME plan'.serial, NEW k \in DOMAIN lanes', lanes'[k].phase # "boot", NEW j \in 1 .. k - 1
      PROVE  lanes'[j].phase = "done"
  <2>1. j \in DOMAIN lanes /\ k \in DOMAIN lanes /\ j # k /\ k \in Nat /\ j \in Nat
    BY <1>1, <1>6 DEF SuiteInv
  <2>2. CASE k = l
    BY <1>1, <1>2, <1>6, <2>1, <2>2 DEF Moves, Polled
  <2>3. CASE k # l
    <3>1. lanes[k].phase # "boot"
      BY <1>1, <1>6, <2>1, <2>3
    <3>2. lanes[j].phase = "done"
      BY <1>2, <1>6, <2>1, <3>1 DEF LanesOK
    <3>3. j # l
      BY <3>2 DEF Moves
    <3> QED BY <1>1, <2>1, <3>2, <3>3
  <2> QED BY <2>2, <2>3
<1> QED BY <1>3, <1>4, <1>5, <1>6 DEF LanesOK

\* While a lane keeps its rollup, what is up is what its lanes need.
LEMMA MovesRollups ==
  ASSUME SuiteInv, NEW l, NEW y, Moves(l, y), Booted(y), rollups' = rollups,
         Owned(y) => Booted(lanes[l]) /\ Owned(lanes[l])
  PROVE  RollupsOK'
<1>1. /\ DOMAIN lanes' = DOMAIN lanes /\ lanes'[l] = y /\ l \in DOMAIN lanes
      /\ \A k \in DOMAIN lanes : k # l => lanes'[k] = lanes[k]
      /\ \A k \in DOMAIN lanes : lanes'[k].group = lanes[k].group
  BY Moved
<1>2. RollupsOK /\ plan' = plan /\ \A x : (Owned(x)' <=> Owned(x)) /\ (Booted(x)' <=> Booted(x))
  BY DEF SuiteInv, Moves, Owned, Booted
<1>3. ASSUME NEW k \in DOMAIN lanes', Owned(lanes'[k]), Booted(lanes'[k])
      PROVE  lanes'[k].group \in rollups
  BY <1>1, <1>2, <1>3 DEF RollupsOK, Moves
<1>4. ASSUME NEW g \in rollups PROVE \E k \in DOMAIN lanes' : lanes'[k].group = g /\ Booted(lanes'[k])
  BY <1>1, <1>2 DEF RollupsOK
<1> QED BY <1>2, <1>3, <1>4 DEF RollupsOK, Owned, Booted

\* A step of a lane keeps the invariant if it keeps to its rollup.
LEMMA MovesInv ==
  ASSUME SuiteInv, NEW l, NEW y, Moves(l, y), RollupsOK'
  PROVE  SuiteInv'
<1>1. LanesOK' /\ DOMAIN lanes' = DOMAIN lanes
  BY Moved, MovesLanes
<1>2. plan' = plan /\ step' = "lanes" /\ interrupted' = interrupted
  BY DEF Moves
<1>3. ExitCodeIsTrue'
  BY <1>2 DEF ExitCodeIsTrue
<1>4. /\ plan \in Plans /\ interrupted \in BOOLEAN /\ (interrupted => plan.redline)
      /\ \E n \in Nat : DOMAIN lanes = 1 .. n
  BY DEF SuiteInv
<1> QED BY ONLY <1>1, <1>2, <1>3, <1>4, RollupsOK' DEF SuiteInv

\* What a polled lane is.
LEMMA PolledOK ==
  ASSUME SuiteInv, NEW l \in DOMAIN lanes, Polled(l)
  PROVE  /\ plan \in Plans /\ interrupted \in BOOLEAN /\ (interrupted => plan.redline)
         /\ step = "lanes" /\ LaneOK(lanes[l]) /\ lanes[l] \in LaneType
BY DEF SuiteInv, LanesOK, Polled, LaneOK, Sound

\* The fresh lane starts.
LEMMA StartFreshOK ==
  ASSUME SetFacts, SuiteInv, NEW l \in DOMAIN lanes, StartFresh(l)
  PROVE  (\E y : Moves(l, y)) /\ SuiteInv'
<1> DEFINE w == lanes[l]
           x == Started(w, "none")
           y == RunEntries(x)
<1>1. /\ plan \in Plans /\ interrupted \in BOOLEAN /\ (interrupted => plan.redline)
      /\ step = "lanes" /\ LaneOK(w) /\ w \in LaneType /\ Polled(l)
  BY PolledOK DEF StartFresh
<1>2. w.phase = "boot" /\ w.er = "none"
  BY <1>1 DEF StartFresh, LaneOK
<1>3. /\ Ready(x) /\ x.group = w.group /\ x.er = "none" /\ x.failed = w.failed /\ x.running = w.running
  BY <1>1, <1>2, BootedOK
<1>4. x = [w EXCEPT !.phase = "main"]
  BY Zenon, <1>1, <1>2 DEF LaneType, Started
<1>5. lanes' = [lanes EXCEPT ![l] = y] /\ UNCHANGED <<plan, step, rollups, interrupted>>
  BY Zenon, <1>4 DEF StartFresh
<1> HIDE DEF x
<1>6. Ran(x, y)
  BY <1>1, <1>3, RunEntriesOK
<1> HIDE DEF y
<1>7. Moves(l, y)
  BY <1>1, <1>2, <1>3, <1>5, <1>6 DEF Moves, Ran, Booted
<1>8. RollupsOK'
  BY <1>3, <1>5, <1>6, <1>7, MovesRollups DEF Ran, Owned
<1> QED BY <1>7, <1>8, MovesInv

\* A group lane starts, with or without a rollup.
LEMMA BootGroupOK ==
  ASSUME SetFacts, SuiteInv, NEW l \in DOMAIN lanes, BootGroup(l)
  PROVE  (\E y : Moves(l, y)) /\ SuiteInv'
<1> DEFINE w == lanes[l]
           x(er) == Started(w, er)
           y(er) == RunEntries(x(er))
<1>1. /\ plan \in Plans /\ interrupted \in BOOLEAN /\ (interrupted => plan.redline)
      /\ step = "lanes" /\ LaneOK(w) /\ w \in LaneType /\ Polled(l)
  BY PolledOK DEF BootGroup
<1>2. w.phase = "boot"
  BY DEF BootGroup
<1>3. PICK er \in {"ok", "err"} :
        /\ lanes' = [lanes EXCEPT ![l] = y(er)]
        /\ rollups' = IF Owned(x(er)) THEN rollups \cup {x(er).group} ELSE rollups
  BY Zenon DEF BootGroup, Started
<1>4. UNCHANGED <<plan, step, interrupted>>
  BY DEF BootGroup
<1>5. /\ Ready(x(er)) /\ x(er).group = w.group /\ x(er).er = er /\ x(er).failed = w.failed
      /\ x(er).running = w.running
  BY <1>1, <1>2, BootedOK
<1> HIDE DEF x
<1>6. Ran(x(er), y(er))
  BY <1>1, <1>5, RunEntriesOK
<1> HIDE DEF y
<1>7. Moves(l, y(er))
  BY <1>1, <1>2, <1>3, <1>4, <1>5, <1>6 DEF Moves, Ran, Booted
<1>8. RollupsOK'
  <2>1. /\ DOMAIN lanes' = DOMAIN lanes /\ lanes'[l] = y(er)
        /\ \A k \in DOMAIN lanes : k # l => lanes'[k] = lanes[k]
        /\ \A k \in DOMAIN lanes : lanes'[k].group = lanes[k].group
    BY <1>7, Moved
  <2>2. RollupsOK /\ \A z : (Owned(z)' <=> Owned(z)) /\ (Booted(z)' <=> Booted(z))
    BY <1>4 DEF SuiteInv, Owned, Booted
  <2>3. (Owned(y(er)) <=> Owned(x(er))) /\ y(er).group = w.group /\ Booted(y(er))
    BY <1>5, <1>6 DEF Ran, Owned
  <2>4. rollups' = IF Owned(y(er)) THEN rollups \cup {w.group} ELSE rollups
    BY <1>3, <1>5, <2>3
  <2>5. ASSUME NEW k \in DOMAIN lanes', Owned(lanes'[k]), Booted(lanes'[k])
        PROVE  lanes'[k].group \in rollups'
    BY <2>1, <2>2, <2>3, <2>4, <2>5 DEF RollupsOK
  <2>6. ASSUME NEW g \in rollups' PROVE \E k \in DOMAIN lanes' : lanes'[k].group = g /\ Booted(lanes'[k])
    BY <2>1, <2>2, <2>3, <2>4 DEF RollupsOK
  <2> QED BY <2>2, <2>5, <2>6 DEF RollupsOK, Owned, Booted
<1> QED BY <1>7, <1>8, MovesInv

\* A scenario ends and its lane goes on.
LEMMA EntryEndsOK ==
  ASSUME SetFacts, SuiteInv, NEW l \in DOMAIN lanes, NEW e \in Entries, EntryEnds(l, e)
  PROVE  (\E y : Moves(l, y)) /\ SuiteInv'
<1> DEFINE w == lanes[l]
           x(result) == Ended(w, e, result)
           y(result) == RunEntries(x(result))
<1>1. /\ plan \in Plans /\ interrupted \in BOOLEAN /\ (interrupted => plan.redline)
      /\ step = "lanes" /\ LaneOK(w) /\ w \in LaneType /\ Polled(l)
  BY PolledOK DEF EntryEnds
<1>2. e \in w.running /\ UNCHANGED <<plan, step, rollups, interrupted>>
  BY DEF EntryEnds
<1>3. PICK result \in {"passed", "failed"} : lanes' = [lanes EXCEPT ![l] = y(result)]
  BY Zenon DEF EntryEnds
<1>5. /\ Ready(x(result)) /\ Booted(w) /\ x(result).group = w.group /\ x(result).er = w.er
      /\ w.failed => x(result).failed
      /\ x(result).running = w.running \ {e}
  BY <1>1, <1>2, EndedOK, SMTT(20)
<1> HIDE DEF x
<1>6. Ran(x(result), y(result))
  BY <1>1, <1>5, RunEntriesOK
<1> HIDE DEF y
<1>7. Moves(l, y(result))
  <2>1. w.phase # "done" /\ y(result).phase # "boot"
    BY <1>5, <1>6 DEF Ran, Booted
  <2>2. w.failed => y(result).failed
    BY <1>5, <1>6 DEF Ran
  <2>3. y(result).failed \/ interrupted => y(result).running \subseteq w.running
    BY <1>5, <1>6 DEF Ran
  <2>4. LaneOK(y(result)) /\ y(result).group = w.group
    BY <1>5, <1>6 DEF Ran
  <2> QED BY <1>1, <1>2, <1>3, <2>1, <2>2, <2>3, <2>4 DEF Moves
<1>8. RollupsOK'
  <2>1. Booted(y(result)) /\ (Owned(y(result)) => Owned(w))
    BY <1>5, <1>6 DEF Ran, Owned
  <2> QED BY <1>2, <1>5, <1>7, <2>1, MovesRollups
<1> QED BY <1>7, <1>8, MovesInv

\* A lane tears its rollup down.
LEMMA FinishLaneOK ==
  ASSUME SetFacts, SuiteInv, NEW l \in DOMAIN lanes, FinishLane(l)
  PROVE  (\E y : Moves(l, y)) /\ SuiteInv'
<1> DEFINE w == lanes[l]
           y(clean) == Finished(w, clean)
<1>1. /\ plan \in Plans /\ step = "lanes" /\ LaneOK(w) /\ w \in LaneType /\ Polled(l)
  BY PolledOK DEF FinishLane
<1>2. w.phase = "finish" /\ UNCHANGED <<plan, step, interrupted>> /\ rollups' = rollups \ {w.group}
  BY DEF FinishLane
<1>3. PICK clean \in BOOLEAN : lanes' = [lanes EXCEPT ![l] = y(clean)]
  <2>1. PICK clean \in BOOLEAN :
          lanes' = [lanes EXCEPT ![l].phase = "done",
                                 ![l].records = IF clean THEN @
                                                ELSE Append(@, Record("cleanup", "failed"))]
    BY Zenon DEF FinishLane
  <2>2. lanes' = [lanes EXCEPT ![l] = y(clean)]
    BY Zenon, <1>1, <2>1 DEF Finished, LaneType
  <2> QED BY Zenon, <2>2
<1>4. /\ LaneOK(y(clean)) /\ y(clean).phase = "done" /\ y(clean).group = w.group
      /\ y(clean).failed = w.failed /\ y(clean).running = w.running
  BY <1>1, <1>2, FinishedOK
<1> HIDE DEF y
<1>5. Moves(l, y(clean))
  BY <1>1, <1>2, <1>3, <1>4 DEF Moves
<1>6. RollupsOK'
  <2>1. /\ DOMAIN lanes' = DOMAIN lanes /\ lanes'[l] = y(clean)
        /\ \A k \in DOMAIN lanes : k # l => lanes'[k] = lanes[k]
        /\ \A k \in DOMAIN lanes : lanes'[k].group = lanes[k].group
    BY <1>5, Moved
  <2>2. /\ RollupsOK /\ \A z : (Owned(z)' <=> Owned(z)) /\ (Booted(z)' <=> Booted(z))
        /\ \A k \in DOMAIN lanes : lanes[k].group = w.group => k = l
    BY <1>1, <1>2 DEF SuiteInv, LanesOK, Owned, Booted
  <2>3. ~Booted(y(clean))
    BY <1>4 DEF Booted
  <2>4. ASSUME NEW k \in DOMAIN lanes', Owned(lanes'[k]), Booted(lanes'[k])
        PROVE  lanes'[k].group \in rollups'
    BY <1>2, <2>1, <2>2, <2>3, <2>4 DEF RollupsOK
  <2>5. ASSUME NEW g \in rollups' PROVE \E k \in DOMAIN lanes' : lanes'[k].group = g /\ Booted(lanes'[k])
    BY <1>2, <2>1, <2>2 DEF RollupsOK
  <2> QED BY <2>2, <2>4, <2>5 DEF RollupsOK, Owned, Booted
<1> QED BY <1>5, <1>6, MovesInv

\* Lanes nobody polls stay in order.
LEMMA AllStay ==
  ASSUME LanesOK, RollupsOK, UNCHANGED <<plan, lanes>>, interrupted => interrupted'
  PROVE  LanesOK' /\ (rollups' = rollups => RollupsOK')
<1>1. \A k \in DOMAIN lanes' : LaneOK(lanes[k])'
  <2> TAKE k \in DOMAIN lanes'
  <2>1. PICK x : x = lanes'[k]
    OBVIOUS
  <2>2. LaneOK(x)
    BY <2>1 DEF LanesOK
  <2>3. LaneOK(x)'
    BY <2>2, Stays
  <2> QED BY <2>1, <2>3
<1>2. LanesOK'
  BY <1>1 DEF LanesOK
<1> QED BY <1>2 DEF RollupsOK, Owned, Booted

\* The lanes are formed: one for each group selected, with its entries.
LEMMA PrepareOK ==
  ASSUME SetFacts, SuiteInv, Prepare
  PROVE  LanesOK' /\ (\E n \in Nat : DOMAIN lanes' = 1 .. n) /\ \A l \in DOMAIN lanes' : lanes'[l].phase = "boot"
<1> DEFINE firsts == Sorted(Firsts)
<1>1. plan \in Plans /\ UNCHANGED <<plan, interrupted>>
  BY DEF SuiteInv, Prepare
<1>2. lanes' = [l \in DOMAIN firsts |-> NewLane(Catalog[firsts[l]].group)]
  BY Zenon DEF Prepare
<1>3. /\ Firsts \in SUBSET Selected /\ Selected \subseteq Entries
      /\ \A d, e \in Firsts : Catalog[d].group = Catalog[e].group => d = e
      /\ \A e \in Selected : \E f \in Firsts : Catalog[f].group = Catalog[e].group
  BY <1>1, FirstsOK, SomeSortable
<1>4. firsts \in Seq(Firsts) /\ IsInjective(firsts) /\ Range(firsts) = Firsts
  BY <1>1, <1>3, SomeSortable, SortedOK
<1> HIDE DEF firsts
<1>5. DOMAIN lanes' = DOMAIN firsts /\ DOMAIN firsts = 1 .. Len(firsts) /\ Len(firsts) \in Nat
      /\ \A l \in DOMAIN firsts : firsts[l] \in Firsts
  BY <1>2, <1>4
<1>6. ASSUME NEW l \in DOMAIN lanes'
      PROVE  /\ LaneOK(lanes'[l]) /\ lanes'[l].group = Catalog[firsts[l]].group /\ lanes'[l].phase = "boot"
  <2>1. lanes'[l] = NewLane(Catalog[firsts[l]].group)
    BY <1>2, <1>5
  <2>2. Catalog[firsts[l]].group \in Groups \cup {NoGroup}
    BY <1>3, <1>5 DEF Groups
  <2> QED BY <1>1, <2>1, <2>2, NewLaneOK
<1>7. \A l \in DOMAIN lanes' : LaneOK(lanes[l])'
  <2> TAKE l \in DOMAIN lanes'
  <2>1. PICK x : x = lanes'[l]
    OBVIOUS
  <2>2. LaneOK(x)'
    BY <1>1, <1>6, <2>1, Stays
  <2> QED BY <2>1, <2>2
<1>8. \A k, l \in DOMAIN lanes' : lanes'[k].group = lanes'[l].group => k = l
  BY <1>3, <1>4, <1>5, <1>6 DEF IsInjective
<1>9. \A e \in Range(plan'.selection) : \E l \in DOMAIN lanes' : lanes'[l].group = Catalog[e].group
  <2>1. ASSUME NEW f \in Firsts PROVE \E l \in DOMAIN firsts : firsts[l] = f
    BY <1>4 DEF Range
  <2> QED BY <1>1, <1>3, <1>5, <1>6, <2>1 DEF Selected
<1> QED BY Zenon, <1>5, <1>6, <1>7, <1>8, <1>9 DEF LanesOK

\* Every lane is over: the records tell what the exit code says.
LEMMA ConcludeOK ==
  ASSUME SuiteInv, Conclude
  PROVE  ExitCodeIsTrue' /\ rollups' = {}
<1>1. /\ plan \in Plans /\ interrupted \in BOOLEAN /\ LanesOK /\ RollupsOK
      /\ \A l \in DOMAIN lanes : lanes[l].phase = "done"
      /\ UNCHANGED <<plan, lanes, interrupted>>
  BY DEF SuiteInv, Conclude
<1>2. rollups = {} /\ rollups' = {}
  BY <1>1 DEF RollupsOK, Booted, Conclude
<1>3. ASSUME \A r \in AllRecords : r.result = "passed", NEW e \in Range(plan.selection)
      PROVE  Record(e, "passed") \in AllRecords
  <2>1. PICK l \in DOMAIN lanes : lanes[l].group = Catalog[e].group
    BY <1>1 DEF LanesOK
  <2> DEFINE x == lanes[l]
  <2>2. LaneOK(x) /\ x.phase = "done"
    BY <1>1 DEF LanesOK
  <2>3. e \in Members(x.group)
    BY <2>1 DEF Members
  <2>4. e \in Named(x.records)
    <3>1. x.pending = <<>> /\ x.held = <<>> /\ x.running = {} /\ Divided(x)
      BY <2>2 DEF LaneOK, Sound
    <3>2. Range(<<>>) = {}
      BY DEF Range
    <3> QED BY ONLY <2>3, <3>1, <3>2 DEF Divided
  <2>5. PICK i \in DOMAIN x.records : x.records[i].name = e
    BY <2>4 DEF Named
  <2>6. x.records[i] \in RecordType /\ x.records[i] \in AllRecords
    BY <2>2 DEF LaneOK, Sound, LaneType, AllRecords, Range
  <2>7. x.records[i] = Record(e, "passed")
    BY <1>3, <2>5, <2>6 DEF RecordType, Record
  <2> QED BY <2>6, <2>7
<1>4. /\ ending'.code = "success" =>
           (\A r \in AllRecords : r.result = "passed") /\ ending'.down /\ ending'.saved
      /\ (ending'.code = "interrupted") <=> interrupted
  <2>1. PICK down \in BOOLEAN, saved \in BOOLEAN :
          ending' = [code |-> CASE interrupted -> "interrupted"
                           [] /\ ~interrupted /\ down /\ saved
                              /\ \A r \in AllRecords : r.result = "passed" -> "success"
                           [] OTHER -> "failure",
                     down |-> down, saved |-> saved]
    BY Zenon DEF Conclude
  <2>2. ending'.down = down /\ ending'.saved = saved
    BY <2>1
  <2> DEFINE all == \A r \in AllRecords : r.result = "passed"
  <2>3. ending'.code = CASE interrupted -> "interrupted"
                         [] ~interrupted /\ down /\ saved /\ all -> "success"
                         [] OTHER -> "failure"
    BY <2>1
  <2>4. all \in BOOLEAN
    OBVIOUS
  <2> HIDE DEF all
  <2>5. CASE interrupted
    <3>1. ending'.code = "interrupted"
      BY <2>3, <2>5
    <3> QED BY <3>1, <2>5
  <2>6. CASE ~interrupted /\ down /\ saved /\ all
    <3>1. ending'.code = "success"
      BY <2>3, <2>6
    <3> QED BY <3>1, <2>2, <2>6 DEF all
  <2>7. CASE ~interrupted /\ ~(down /\ saved /\ all)
    <3>1. ending'.code = "failure"
      BY <2>3, <2>7
    <3> QED BY <3>1, <2>7
  <2> QED BY <2>5, <2>6, <2>7
<1>5. AllRecords' = AllRecords
  BY <1>1 DEF AllRecords
<1>6. ExitCodeIsTrue'
  BY <1>1, <1>3, <1>4, <1>5 DEF ExitCodeIsTrue
<1> QED BY <1>2, <1>6

\* Where an entry of the lane is.
LEMMA OnePlace ==
  ASSUME NEW x, LaneOK(x), NEW e \in Entries, e \in Members(x.group)
  PROVE  \E place \in Places(e, x) : Places(e, x) = {place}
<1> DEFINE in(s) == {i \in DOMAIN s : s[i] = e}
           records == {i \in DOMAIN x.records : x.records[i].name = e}
<1>1. /\ IsInjective(x.pending) /\ IsInjective(x.held) /\ OncePerName(x.records)
      /\ Range(x.pending) \cap Range(x.held) = {}
      /\ x.running \cap (Range(x.pending) \cup Range(x.held)) = {}
      /\ Named(x.records) \cap (Range(x.pending) \cup Range(x.held) \cup x.running) = {}
      /\ e \in Range(x.pending) \cup Range(x.held) \cup x.running \cup Named(x.records)
  BY DEF LaneOK, Sound, Divided
<1>2. Places(e, x) = ({"pending"} \X in(x.pending)) \cup ({"held"} \X in(x.held))
                       \cup (IF e \in x.running THEN {<<"running", 0>>} ELSE {})
                       \cup ({"recorded"} \X records)
  BY DEF Places
<1>3. /\ e \notin Range(x.pending) => in(x.pending) = {}
      /\ e \notin Range(x.held) => in(x.held) = {}
      /\ e \notin Named(x.records) => records = {}
  BY DEF Range, Named
<1>4. e \in Range(x.pending) => \E i \in DOMAIN x.pending : in(x.pending) = {i}
  BY <1>1 DEF Range, IsInjective
<1>5. e \in Range(x.held) => \E i \in DOMAIN x.held : in(x.held) = {i}
  BY <1>1 DEF Range, IsInjective
<1>6. e \in Named(x.records) => \E i \in DOMAIN x.records : records = {i}
  BY <1>1 DEF Named, OncePerName
<1>7. \A t, i : {t} \X {i} = {<<t, i>>} /\ {t} \X {} = {}
  OBVIOUS
<1> DEFINE A == in(x.pending)
           B == in(x.held)
<1>8. Places(e, x) = ({"pending"} \X A) \cup ({"held"} \X B)
                       \cup (IF e \in x.running THEN {<<"running", 0>>} ELSE {})
                       \cup ({"recorded"} \X records)
  BY <1>2
<1>9. \/ e \notin x.running /\ B = {} /\ records = {} /\ \E i : A = {i}
      \/ e \notin x.running /\ A = {} /\ records = {} /\ \E i : B = {i}
      \/ e \notin x.running /\ A = {} /\ B = {} /\ \E i : records = {i}
      \/ e \in x.running /\ A = {} /\ B = {} /\ records = {}
  <2> HIDE DEF in, records
  <2> QED BY ONLY Zenon, <1>1, <1>3, <1>4, <1>5, <1>6
<1> HIDE DEF A, B, records
<1>10. ASSUME NEW p, Places(e, x) = {p} PROVE \E place \in Places(e, x) : Places(e, x) = {place}
  BY <1>10
<1>11. ASSUME e \notin x.running, B = {}, records = {}, NEW i, A = {i}
       PROVE  Places(e, x) = {<<"pending", i>>}
  BY ONLY <1>7, <1>8, <1>11
<1>12. ASSUME e \notin x.running, A = {}, records = {}, NEW i, B = {i}
       PROVE  Places(e, x) = {<<"held", i>>}
  BY ONLY <1>7, <1>8, <1>12
<1>13. ASSUME e \notin x.running, A = {}, B = {}, NEW i, records = {i}
       PROVE  Places(e, x) = {<<"recorded", i>>}
  BY ONLY <1>7, <1>8, <1>13
<1>14. ASSUME e \in x.running, A = {}, B = {}, records = {}
       PROVE  Places(e, x) = {<<"running", 0>>}
  BY ONLY <1>7, <1>8, <1>14
<1> QED BY ZenonT(30), <1>9, <1>10, <1>11, <1>12, <1>13, <1>14

\* An entry of another lane is not in this one.
LEMMA NoPlace ==
  ASSUME NEW x, LaneOK(x), NEW e \in Entries, e \notin Members(x.group)
  PROVE  Places(e, x) = {}
<1>1. /\ e \notin Range(x.pending) /\ e \notin Range(x.held) /\ e \notin x.running
      /\ e \notin Named(x.records)
  BY SuiteAssumption DEF LaneOK, Sound, Divided
<1>2. /\ {i \in DOMAIN x.pending : x.pending[i] = e} = {}
      /\ {i \in DOMAIN x.held : x.held[i] = e} = {}
      /\ {i \in DOMAIN x.records : x.records[i].name = e} = {}
  BY <1>1 DEF Range, Named
<1> QED BY <1>1, <1>2 DEF Places

-----------------------------------------------------------------------------
\* The invariant holds when the run starts.
LEMMA SuiteInitOK ==
  ASSUME SuiteInit
  PROVE  SuiteInv
<1>1. DOMAIN lanes = 1 .. 0 /\ 0 \in Nat
  BY DEF SuiteInit
<1>2. RollupsOK /\ ExitCodeIsTrue
  BY <1>1 DEF SuiteInit, RollupsOK, ExitCodeIsTrue
<1> QED BY Zenon, <1>1, <1>2 DEF SuiteInit, SuiteInv

\* Every step keeps it.
LEMMA SuiteNextOK ==
  ASSUME SetFacts, SuiteInv, [SuiteNext]_suiteVars
  PROVE  SuiteInv'
<1>1. CASE Base
  <2>1. /\ step = "base" /\ step' = "prepare" /\ lanes = <<>>
        /\ UNCHANGED <<plan, lanes, rollups, interrupted>>
    BY <1>1 DEF Base, SuiteInv
  <2>2. RollupsOK' /\ ExitCodeIsTrue'
    BY <2>1 DEF SuiteInv, RollupsOK, ExitCodeIsTrue, Owned, Booted
  <2> QED BY <2>1, <2>2 DEF SuiteInv
<1>2. CASE Prepare
  <2>1. step = "prepare" /\ step' = "lanes" /\ lanes = <<>> /\ UNCHANGED <<plan, rollups, interrupted>>
    BY <1>2 DEF Prepare, SuiteInv
  <2>2. /\ LanesOK' /\ (\E n \in Nat : DOMAIN lanes' = 1 .. n)
        /\ \A l \in DOMAIN lanes' : lanes'[l].phase = "boot"
    BY <1>2, PrepareOK
  <2>3. rollups = {}
    BY <2>1 DEF SuiteInv, RollupsOK
  <2>4. RollupsOK' /\ ExitCodeIsTrue'
    BY <2>1, <2>2, <2>3 DEF RollupsOK, Booted, ExitCodeIsTrue
  <2> QED BY <2>1, <2>2, <2>4 DEF SuiteInv
<1>3. CASE Conclude
  <2>1. /\ step = "lanes" /\ step' = "exit" /\ UNCHANGED <<plan, lanes, interrupted>>
        /\ \A l \in DOMAIN lanes : lanes[l].phase = "done"
    BY <1>3 DEF Conclude
  <2>2. LanesOK' /\ ExitCodeIsTrue' /\ rollups' = {}
    BY <1>3, <2>1, AllStay, ConcludeOK DEF SuiteInv
  <2>3. RollupsOK'
    BY <2>1, <2>2 DEF RollupsOK, Booted
  <2> QED BY <2>1, <2>2, <2>3 DEF SuiteInv
<1>4. ASSUME NEW l \in DOMAIN lanes, LaneStep(l) PROVE SuiteInv'
  BY <1>4, StartFreshOK, BootGroupOK, EntryEndsOK, FinishLaneOK DEF LaneStep
<1>5. CASE InterruptSuite
  <2>1. /\ plan.redline /\ step # "exit" /\ interrupted' = TRUE
        /\ UNCHANGED <<plan, step, lanes, rollups>>
    BY <1>5 DEF InterruptSuite
  <2>2. step = "lanes" => LanesOK'
    BY <2>1, AllStay DEF SuiteInv
  <2>3. RollupsOK' /\ ExitCodeIsTrue'
    BY <2>1 DEF SuiteInv, RollupsOK, ExitCodeIsTrue, Owned, Booted
  <2> QED BY <2>1, <2>2, <2>3 DEF SuiteInv
<1>6. CASE UNCHANGED suiteVars
  <2>1. UNCHANGED <<plan, step, lanes, rollups, interrupted, ending>>
    BY <1>6 DEF suiteVars
  <2>2. step \in {"lanes", "exit"} => LanesOK'
    BY <2>1, AllStay DEF SuiteInv
  <2>3. RollupsOK' /\ ExitCodeIsTrue'
    BY <2>1 DEF SuiteInv, RollupsOK, ExitCodeIsTrue, Owned, Booted, AllRecords
  <2> QED BY <2>1, <2>2, <2>3 DEF SuiteInv
<1> QED BY <1>1, <1>2, <1>3, <1>4, <1>5, <1>6 DEF SuiteNext, SuiteProgress

\* What was selected is recorded once each, whatever fails, is skipped or is
\* interrupted.
LEMMA OnceEach ==
  ASSUME SuiteInv
  PROVE  EachScenarioOnce
<1>1. OnePlaceEach
  <2>1. SUFFICES ASSUME step \in {"lanes", "exit"}
                 PROVE  /\ \A e \in Range(plan.selection) :
                             \E l \in DOMAIN lanes :
                               /\ \E place \in Places(e, lanes[l]) : Places(e, lanes[l]) = {place}
                               /\ \A k \in DOMAIN lanes \ {l} : Places(e, lanes[k]) = {}
                        /\ \A l \in DOMAIN lanes :
                             lanes[l].phase \in {"finish", "done"} =>
                               lanes[l].pending = <<>> /\ lanes[l].held = <<>> /\ lanes[l].running = {}
    BY Zenon DEF OnePlaceEach
  <2>2. LanesOK /\ plan \in Plans
    BY <2>1 DEF SuiteInv
  <2>3. ASSUME NEW e \in Range(plan.selection)
        PROVE  \E l \in DOMAIN lanes :
                 /\ \E place \in Places(e, lanes[l]) : Places(e, lanes[l]) = {place}
                 /\ \A k \in DOMAIN lanes \ {l} : Places(e, lanes[k]) = {}
    <3>1. e \in Entries
      BY <2>2, Options DEF Range
    <3>2. PICK l \in DOMAIN lanes : lanes[l].group = Catalog[e].group
      BY <2>2 DEF LanesOK
    <3>3. e \in Members(lanes[l].group)
      BY <3>2 DEF Members
    <3>4. ASSUME NEW k \in DOMAIN lanes \ {l} PROVE e \notin Members(lanes[k].group)
      BY <2>2, <3>2 DEF Members, LanesOK
    <3>5. \A k \in DOMAIN lanes : LaneOK(lanes[k])
      BY <2>2 DEF LanesOK
    <3> QED BY <3>1, <3>3, <3>4, <3>5, OnePlace, NoPlace
  <2>4. \A l \in DOMAIN lanes : lanes[l].phase \in {"finish", "done"} =>
          lanes[l].pending = <<>> /\ lanes[l].held = <<>> /\ lanes[l].running = {}
    BY <2>2 DEF LanesOK, LaneOK
  <2> QED BY Zenon, <2>3, <2>4
<1>2. SkippedForItsReason
  <2>1. \A l \in DOMAIN lanes : Reasoned(lanes[l].records)
    BY DEF SuiteInv, LanesOK, LaneOK, Sound
  <2> QED BY <2>1, Zenon DEF SkippedForItsReason, Reasoned
<1> QED BY <1>1, <1>2 DEF EachScenarioOnce

\* In a serial run only one lane has scenarios running.
LEMMA OneAtATime ==
  ASSUME SuiteInv, plan.serial, NEW k \in DOMAIN lanes, NEW l \in DOMAIN lanes,
         lanes[k].running # {}, lanes[l].running # {}
  PROVE  k = l
<1>1. LanesOK /\ k \in Nat /\ l \in Nat /\ \E n \in Nat : DOMAIN lanes = 1 .. n
  BY DEF SuiteInv
<1>2. \A m \in {k, l} : lanes[m].phase # "boot" /\ lanes[m].phase # "done"
  BY <1>1 DEF LanesOK, LaneOK
<1>3. /\ \A j \in 1 .. l - 1 : lanes[j].phase = "done"
      /\ \A j \in 1 .. k - 1 : lanes[j].phase = "done"
  BY <1>1, <1>2 DEF LanesOK
<1>4. k \in 1 .. l - 1 \/ l \in 1 .. k - 1 \/ k = l
  BY <1>1
<1> QED BY <1>2, <1>3, <1>4

\* What runs together is what the options allow, and rollups outlive it.
LEMMA Isolated ==
  ASSUME SetFacts, SuiteInv
  PROVE  Isolation
<1>1. \A l \in DOMAIN lanes : LaneOK(lanes[l])
  BY DEF SuiteInv, LanesOK
<1>2. plan \in Plans /\ RollupsOK
  BY DEF SuiteInv
<1>3. ASSUME NEW l \in DOMAIN lanes
      PROVE  /\ lanes[l].group = NoGroup => Cardinality(lanes[l].running) <= plan.fresh
             /\ plan.serial => Cardinality(lanes[l].running) <= 1
  <2>1. IsFiniteSet(lanes[l].running) /\ Cardinality(lanes[l].running) <= Limit(lanes[l])
    BY <1>1 DEF LaneOK, Within
  <2>2. Cardinality(lanes[l].running) \in Nat
    BY <2>1 DEF SetFacts, Sizes
  <2>3. plan.fresh \in Nat \ {0}
    BY <1>2, Options
  <2>4. /\ lanes[l].group = NoGroup => Limit(lanes[l]) = 1 \/ Limit(lanes[l]) = plan.fresh
        /\ plan.serial => Limit(lanes[l]) = 1
    BY Zenon DEF Limit
  <2> QED BY <2>1, <2>2, <2>3, <2>4
<1>4. ASSUME plan.serial PROVE Cardinality(UNION {lanes[l].running : l \in DOMAIN lanes}) <= 1
  <2>1. CASE \A l \in DOMAIN lanes : lanes[l].running = {}
    <3>1. UNION {lanes[l].running : l \in DOMAIN lanes} = {}
      BY <2>1
    <3> QED BY <3>1 DEF SetFacts, EmptySets
  <2>2. ASSUME NEW l \in DOMAIN lanes, lanes[l].running # {}
        PROVE  UNION {lanes[k].running : k \in DOMAIN lanes} = lanes[l].running
    <3>1. \A k \in DOMAIN lanes : lanes[k].running # {} => k = l
      BY <1>4, <2>2, OneAtATime
    <3> QED BY <3>1
  <2> QED BY Zenon, <1>3, <1>4, <2>1, <2>2
<1>5. WithinLimits
  BY <1>3, <1>4 DEF WithinLimits
<1>6. GroupOutlivesItsScenarios
  <2>1. ASSUME NEW l \in DOMAIN lanes, Owned(lanes[l]), lanes[l].running # {}
        PROVE  lanes[l].group \in rollups
    <3>1. Booted(lanes[l])
      BY <1>1, <2>1 DEF LaneOK, Sound, LaneType, Booted
    <3> QED BY <1>2, <2>1, <3>1 DEF RollupsOK
  <2>2. step = "exit" => rollups = {}
    BY <1>2 DEF SuiteInv, RollupsOK, Booted
  <2> QED BY <2>1, <2>2 DEF GroupOutlivesItsScenarios
<1> QED BY <1>5, <1>6 DEF Isolation

-----------------------------------------------------------------------------
\* Refinement: every group lane implements Exclusion.

\* What runs on a group's rollup is what its one lane runs.
LEMMA LaneOfGroup ==
  ASSUME SuiteInv, NEW l \in DOMAIN lanes
  PROVE  /\ RunningOf(lanes[l].group) = lanes[l].running
         /\ ClosedOf(lanes[l].group) <=> interrupted \/ lanes[l].failed
<1>1. LanesOK
  BY DEF SuiteInv
<1>2. {k \in DOMAIN lanes : lanes[k].group = lanes[l].group} = {l}
  BY <1>1 DEF LanesOK
<1> QED BY <1>2 DEF RunningOf, ClosedOf

\* A group without a lane has nothing running.
LEMMA NoLane ==
  ASSUME NEW g, \A l \in DOMAIN lanes : lanes[l].group # g
  PROVE  RunningOf(g) = {} /\ (ClosedOf(g) <=> interrupted)
BY DEF RunningOf, ClosedOf

\* What runs on a group's rollup fits together.
AllFit == \A g \in Groups : LanePromise(g)!Fits(RunningOf(g))

\* It does in every state of the invariant.
LEMMA LaneFits ==
  ASSUME SetFacts, SuiteInv
  PROVE  AllFit
<1> SUFFICES ASSUME NEW g \in Groups PROVE LanePromise(g)!Fits(RunningOf(g))
  BY DEF AllFit
<1> DEFINE limit == IF plan.serial THEN 1 ELSE plan.shared
           Alone == {e \in Entries : Catalog[e].er = "exclusive"}
           R == RunningOf(g)
<1>1. limit \in Nat \ {0} /\ plan.serial \in BOOLEAN
  <2>1. 1 \in Nat \ {0}
    OBVIOUS
  <2> QED BY <2>1, Options, Zenon DEF SuiteInv
<1>2. Cardinality(R) <= limit /\ (R \cap Alone # {} => Cardinality(R) = 1)
  <2>1. CASE \A l \in DOMAIN lanes : lanes[l].group # g
    <3>1. R = {} /\ Cardinality({}) = 0
      BY <2>1, NoLane DEF SetFacts, EmptySets
    <3> HIDE DEF R, limit
    <3> QED BY <1>1, <3>1
  <2>2. ASSUME NEW l \in DOMAIN lanes, lanes[l].group = g
        PROVE  Cardinality(R) <= limit /\ (R \cap Alone # {} => Cardinality(R) = 1)
    <3> DEFINE x == lanes[l]
    <3>1. LaneOK(x) /\ R = x.running
      BY <2>2, LaneOfGroup DEF SuiteInv, LanesOK
    <3>2. IsFiniteSet(R) /\ Cardinality(R) \in Nat /\ Cardinality(R) <= Limit(x)
      BY <3>1 DEF LaneOK, Within, SetFacts, Sizes
    <3>3. g # NoGroup
      BY DEF Groups
    <3>4. Limit(x) = 1 \/ (Limit(x) = limit /\ ~plan.serial /\ x.phase # "exclusive")
      BY <2>2, <3>3, Zenon DEF Limit
    <3>5. ASSUME ~plan.serial, x.phase # "exclusive" PROVE R \cap Alone = {}
      <4>1. CASE x.phase \in {"boot", "main"}
        BY <2>2, <3>1, <3>3, <3>5, <4>1 DEF LaneOK, KeptApart
      <4>2. CASE x.phase \in {"finish", "done"}
        BY <3>1, <4>2 DEF LaneOK
      <4> QED BY <3>1, <3>5, <4>1, <4>2 DEF LaneOK, Sound, LaneType
    <3>6. R # {} => Cardinality(R) # 0
      BY <3>2 DEF SetFacts, EmptySets
    <3> HIDE DEF R, Alone, limit, x
    <3>7. Cardinality(R) <= limit
      BY <1>1, <3>2, <3>4
    <3>8. R \cap Alone # {} => Limit(x) = 1 /\ R # {}
      BY <3>4, <3>5
    <3> QED BY <3>2, <3>6, <3>7, <3>8
  <2> QED BY <2>1, <2>2
<1>3. \A S : LanePromise(g)!Cardinality(S) = Cardinality(S)
  BY DEF LanePromise!Cardinality, Cardinality
<1> QED BY <1>2, <1>3 DEF LanePromise!Fits

\* No step of the run starts anything on a rollup whose lane has closed, or
\* opens the lane again.
LEMMA LaneCloses ==
  ASSUME SetFacts, SuiteInv, SuiteInv', [SuiteNext]_suiteVars, NEW g \in Groups
  PROVE  /\ ClosedOf(g) => ClosedOf(g)'
         /\ ClosedOf(g)' => RunningOf(g)' \subseteq RunningOf(g)
<1>1. CASE UNCHANGED lanes /\ (interrupted => interrupted')
  BY <1>1 DEF ClosedOf, RunningOf
<1>2. CASE Prepare
  <2>1. lanes = <<>> /\ interrupted' = interrupted
    BY <1>2 DEF Prepare, SuiteInv
  <2>2. \A l \in DOMAIN lanes' : lanes'[l].phase = "boot" /\ LaneOK(lanes[l])'
    BY <1>2, PrepareOK DEF LanesOK
  <2>3. \A l \in DOMAIN lanes' : lanes'[l].running = {} /\ ~lanes'[l].failed
    BY <2>2 DEF LaneOK
  <2> QED BY <2>1, <2>3 DEF ClosedOf, RunningOf
<1>3. ASSUME NEW l \in DOMAIN lanes, LaneStep(l)
      PROVE  /\ ClosedOf(g) => ClosedOf(g)'
             /\ ClosedOf(g)' => RunningOf(g)' \subseteq RunningOf(g)
  <2>1. PICK y : Moves(l, y)
    BY <1>3, StartFreshOK, BootGroupOK, EntryEndsOK, FinishLaneOK DEF LaneStep
  <2>2. /\ DOMAIN lanes' = DOMAIN lanes /\ lanes'[l] = y
        /\ \A k \in DOMAIN lanes : k # l => lanes'[k] = lanes[k]
        /\ \A k \in DOMAIN lanes : lanes'[k].group = lanes[k].group
    BY <2>1, Moved
  <2>3. /\ interrupted' = interrupted /\ (lanes[l].failed => y.failed)
        /\ (y.failed \/ interrupted => y.running \subseteq lanes[l].running)
    BY <2>1 DEF Moves
  <2>4. ClosedOf(g) => ClosedOf(g)'
    BY <2>2, <2>3 DEF ClosedOf
  <2>5. CASE lanes[l].group # g
    BY <2>2, <2>3, <2>5 DEF ClosedOf, RunningOf
  <2>6. CASE lanes[l].group = g
    <3>1. {k \in DOMAIN lanes : lanes[k].group = g} = {l}
      BY <2>1, <2>6, SMTT(20) DEF SuiteInv, LanesOK, Moves
    <3>2. RunningOf(g) = lanes[l].running /\ RunningOf(g)' = y.running
      BY <2>2, <3>1 DEF RunningOf
    <3>3. ClosedOf(g)' => interrupted \/ y.failed
      BY <2>2, <2>3, <3>1 DEF ClosedOf
    <3> QED BY <2>3, <2>4, <3>2, <3>3
  <2> QED BY <2>4, <2>5, <2>6
<1>4. Base \/ Conclude \/ UNCHANGED suiteVars => UNCHANGED <<lanes, interrupted>>
  BY Zenon DEF Base, Conclude, suiteVars
<1>5. InterruptSuite => UNCHANGED lanes /\ interrupted' = TRUE
  BY DEF InterruptSuite
<1> QED BY <1>1, <1>2, <1>3, <1>4, <1>5 DEF SuiteNext, SuiteProgress

-----------------------------------------------------------------------------
INSTANCE FiniteSetTheorems

\* The facts about finite sets hold.
LEMMA SetFactsHold == SetFacts
<1>1. EmptySets /\ Sizes
  BY FS_EmptySet, FS_CardinalityType DEF EmptySets, Sizes
<1>2. Subsets
  BY FS_Subset DEF Subsets
<1>3. Unions
  BY FS_Union DEF Unions
<1>4. Intervals
  BY FS_Interval DEF Intervals
<1>5. Injections /\ Surjections
  BY FS_Injection, FS_Surjection DEF Injections, Surjections
<1> QED BY <1>1, <1>2, <1>3, <1>4, <1>5 DEF SetFacts

\* The invariant from which the properties of a run follow.
THEOREM SuiteInvariant == SuiteSpec => []SuiteInv
<1>1. SuiteInit => SuiteInv
  BY SuiteInitOK
<1>2. SuiteInv /\ [SuiteNext]_suiteVars => SuiteInv'
  BY SetFactsHold, SuiteNextOK
<1> QED BY <1>1, <1>2, PTL DEF SuiteSpec

\* EachScenarioOnce: run_entries and Suite::lanes lose no scenario, record none
\* twice and skip none without cause, for any catalog and any limits.
THEOREM ScenariosOnce == SuiteSpec => []EachScenarioOnce
<1>1. SuiteInv => EachScenarioOnce
  BY OnceEach
<1> QED BY <1>1, SuiteInvariant, PTL

\* ExitCodeIsTrue: what the process returns is what its records say.
THEOREM ExitCodeCorrect == SuiteSpec => []ExitCodeIsTrue
<1>1. SuiteInv => ExitCodeIsTrue
  BY DEF SuiteInv
<1> QED BY <1>1, SuiteInvariant, PTL

\* Isolation: run_entries keeps every lane to its limit and Lane::run keeps its
\* rollup up for as long as it runs anything, for any catalog and any limits.
THEOREM SuiteIsolates == SuiteSpec => []Isolation
<1>1. SuiteInv => Isolation
  BY SetFactsHold, Isolated
<1> QED BY <1>1, SuiteInvariant, PTL

\* Every behaviour of a suite run keeps, for every group, the promise of
\* Exclusion (Lane::run, run_entries): each step is a Turn of the abstract
\* scheduler of that group's rollup.
THEOREM LanesExclusive == SuiteSpec => LanesImplementExclusion
<1>1. SuiteInit => \A g \in Groups : LanePromise(g)!Init
  BY DEF SuiteInit, LanePromise!Init, RunningOf, ClosedOf
<1>2. SuiteInv /\ SuiteInv' /\ [SuiteNext]_suiteVars => \A g \in Groups : LanePromise(g)!Turn
  <2> SUFFICES ASSUME SuiteInv, SuiteInv', [SuiteNext]_suiteVars, NEW g \in Groups
               PROVE  LanePromise(g)!Turn
    OBVIOUS
  <2>1. plan' = plan
    BY Zenon DEF SuiteNext, SuiteProgress, LaneStep, Base, Prepare, Conclude, StartFresh, BootGroup,
           EntryEnds, FinishLane, InterruptSuite, suiteVars
  <2>2. LanePromise(g)!Fits(RunningOf(g)')
    <3>1. AllFit'
      BY SetFactsHold, LaneFits, PTL
    <3> QED BY <3>1, <2>1 DEF AllFit, LanePromise!Fits
  <2>3. /\ ClosedOf(g) => ClosedOf(g)'
        /\ ClosedOf(g)' => RunningOf(g)' \subseteq RunningOf(g)
    BY SetFactsHold, LaneCloses
  <2> QED BY <2>1, <2>2, <2>3 DEF LanePromise!Turn
<1> QED BY <1>1, <1>2, SuiteInvariant, PTL DEF SuiteSpec, LanesImplementExclusion

=============================================================================
