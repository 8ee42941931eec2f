--------------------------- MODULE NetFaultProofs ---------------------------
(***************************************************************************)
(* Proofs about the fault proxy (core/src/netfault), for any finite set of *)
(* messages, any selectors, and any number of scopes, traps and rules.     *)
(*                                                                         *)
(* The inductive invariant follows a message through the relays: while it  *)
(* waits, it has a guard in the scope that caught it, and it is woken as   *)
(* soon as that scope has been restored; a guard lives until the message   *)
(* it held has been forwarded.  Traps are followed from their installation *)
(* to their firing or their discard.                                       *)
(***************************************************************************)
EXTENDS NetFault, FiniteSetTheorems, WellFoundedInduction, TLAPS

Places == {"idle", "upstream", "writing", "done", "lost"} \cup Stages
Gates == [why : {"none", "held", "stalled"}, scope : 0 .. MaxScopes, handle : Nat]
Effects == [kind : {"trap", "reject", "stall"}, sel : Selectors]
Handles(kinds) == {h \in DOMAIN effect : effect[h].kind \in kinds}

\* The types of the scenario's side.  A scope is open while a scenario runs, and
\* its traps and rules are handles of their kind (State of netfault/mod.rs).
ControlOK ==
  /\ pc \in {"out", "body", "bodyReset", "finalReset", "closing"}
  /\ body \in {"ok", "err"} /\ verdict \in {"none", "pass", "fail"}
  /\ scope \in 0 .. MaxScopes /\ (Active => scope \in Scopes)
  /\ base \in Nat /\ effect \in Seq(Effects)
  /\ armed \subseteq Handles({"trap"}) /\ rules \subseteq Handles({"reject", "stall"})

\* The types of the messages' side.
RelayOK ==
  /\ at \in [Messages -> Places]
  /\ gate \in [Messages -> Gates]
  /\ decision \in [Messages -> {"none"} \cup Decisions]
  /\ woken \subseteq Messages
  /\ holds \in [Messages -> SUBSET (Scopes \X Stages)]
  /\ holding \in [Scopes -> Int]
  /\ letGo \subseteq Messages \X Stages \X Scopes
  /\ outbound \in Seq(Messages)

\* The type invariant of the proxy.
TypeOK == ControlOK /\ RelayOK

\* Nothing is armed outside a body: reset and drop restore first.
Restored == pc # "body" => rules = {} /\ armed = {}

\* A trap of this scope has fired, may still fire, or is remembered.
Accounted ==
  LET traps == {h \in base + 1 .. Len(effect) : effect[h].kind = "trap"}
  IN  /\ pc \in {"body", "bodyReset"} => body = "ok"
      /\ Active /\ pc # "closing" /\ body = "ok" => traps \subseteq armed \cup unfired \cup fired
      /\ verdict = "pass" => pc \in {"closing", "out"} /\ traps \subseteq fired

\* A waiting message has its guard, in the scope that caught it.
Guarded(m) ==
  /\ Waiting(m) =>
       /\ gate[m].why \in {"held", "stalled"}
       /\ gate[m].scope \in Scopes /\ gate[m].scope <= scope
       /\ <<gate[m].scope, at[m]>> \in holds[m]
  /\ at[m] = "idle" => holds[m] = {}
  /\ at[m] \in {"request", "upstream"} => \A g \in holds[m] : g[2] = "request"

\* It is held by the scope that is in its body, or it is decided or woken.
Released(m) ==
  Waiting(m) /\ gate[m].why = "held" /\ decision[m] = "none" =>
    m \in woken \/ (pc = "body" /\ gate[m].scope = scope)

\* What was let go keeps its guard until it is forwarded.
Traced(m) ==
  \A stage \in Stages, s \in Scopes : <<m, stage, s>> \in letGo =>
    /\ at[m] # "idle"
    /\ Waiting(m) => at[m] = "response" /\ stage = "request"
    /\ at[m] = "upstream" => stage = "request"
    /\ Forwarding(m, stage) => <<s, stage>> \in holds[m]

\* The guards of a scope.
Guards(s) == {h \in Messages \X Stages : <<s, h[2]>> \in holds[h[1]]}
Counted == \A s \in Scopes : holding[s] = Cardinality(Guards(s))

Relayed == \A m \in Messages : Guarded(m) /\ Released(m) /\ Traced(m)

\* A scope that has passed has no guard left.
Drained == verdict = "pass" => scope \in Scopes /\ holding[scope] = 0

IInv == TypeOK /\ Restored /\ Accounted /\ Relayed /\ Counted /\ Drained

-----------------------------------------------------------------------------
\* The first of some handles is one of them (gate takes the first match).
LEMMA MinOf == ASSUME NEW S \in SUBSET Nat, S # {} PROVE Min(S) \in S
<1>. DEFINE R == OpToRel(<, Nat)
<1>1. IsWellFoundedOn(R, Nat)
  BY NatLessThanWellFounded
<1>2. \A x, y \in Nat : y < x => <<y, x>> \in R
  BY DEF OpToRel
<1>. HIDE DEF R
<1>3. \E x \in S : \A y \in S : ~(<<y, x>> \in R)
  <2>1. S \subseteq Nat /\ S # {}
    OBVIOUS
  <2>. QED
    BY <1>1, <2>1, WFMin, Zenon
<1>4. PICK x \in S : \A y \in S : ~(<<y, x>> \in R)
  BY <1>3
<1>5. ASSUME NEW y \in S PROVE x <= y
  <2>1. x \in Nat /\ y \in Nat /\ ~(y < x)
    BY Zenon, <1>2, <1>4
  <2>. QED
    BY <2>1
<1>. QED
  BY Zenon, <1>5 DEF Min

\* A handle is the next number, and those before it stay what they are.
LEMMA Appended ==
  ASSUME NEW S, NEW q \in Seq(S), NEW e \in S
  PROVE  /\ Append(q, e) \in Seq(S) /\ Len(Append(q, e)) = Len(q) + 1 /\ Len(q) \in Nat
         /\ DOMAIN q = 1 .. Len(q) /\ DOMAIN Append(q, e) = 1 .. Len(q) + 1
         /\ \A h \in DOMAIN q : Append(q, e)[h] = q[h]
         /\ Append(q, e)[Len(q) + 1] = e
OBVIOUS

\* The guards of a scope are finitely many.
LEMMA GuardsFinite ==
  ASSUME NEW s
  PROVE  IsFiniteSet(Messages \X Stages) /\ IsFiniteSet(Guards(s))
<1>1. IsFiniteSet(Stages)
  <2>1. Stages = {"request"} \cup {"response"} \cup {"notification"}
    BY DEF Stages
  <2>. QED
    BY Zenon, <2>1, FS_Singleton, FS_Union
<1>2. IsFiniteSet(Messages \X Stages)
  BY <1>1, NetFaultAssumption, FS_Product
<1>. QED
  BY Zenon, <1>2, FS_Subset DEF Guards

\* Dropping the guards of some messages takes as many from the counters.
LEMMA DropCounts ==
  ASSUME TypeOK, Counted, NEW S \in SUBSET Messages, DropHolds(S)
  PROVE  /\ Counted'
         /\ holds' \in [Messages -> SUBSET (Scopes \X Stages)]
         /\ holding' \in [Scopes -> Int]
         /\ \A m \in Messages : holds'[m] = IF m \in S THEN {} ELSE holds[m]
         /\ \A s \in Scopes : holding[s] = 0 => holding'[s] = 0
<1>1. \A m \in Messages : holds'[m] = IF m \in S THEN {} ELSE holds[m]
  BY DEF DropHolds
<1>2. holds' \in [Messages -> SUBSET (Scopes \X Stages)]
  BY DEF DropHolds, TypeOK, ControlOK, RelayOK
<1>3. ASSUME NEW s \in Scopes
      PROVE  /\ holding'[s] \in Int /\ holding'[s] = Cardinality(Guards(s)')
             /\ holding[s] = 0 => holding'[s] = 0
  <2>. DEFINE D == {h \in S \X Stages : <<s, h[2]>> \in holds[h[1]]}
  <2>1. D = Guards(s) \cap D
    BY DEF Guards
  <2>2. Guards(s)' = Guards(s) \ D
    <3>1. ASSUME NEW h \in Messages \X Stages PROVE h \in Guards(s)' <=> h \in Guards(s) \ D
      <4>1. h[1] \in Messages /\ h[2] \in Stages /\ (h[1] \in S <=> h \in S \X Stages)
        BY <3>1
      <4>. QED
        BY <1>1, <4>1 DEF Guards
    <3>. QED
      BY <3>1 DEF Guards
  <2>3. holding'[s] = holding[s] - Cardinality(D)
    BY DEF DropHolds
  <2>4. IsFiniteSet(Guards(s)) /\ IsFiniteSet(D)
    <3>1. IsFiniteSet(Guards(s)) /\ D \in SUBSET Guards(s)
      BY <2>1, GuardsFinite
    <3>. QED
      BY Zenon, <3>1, FS_Subset
  <2>. HIDE DEF D
  <2>5. Cardinality(Guards(s) \ D) = Cardinality(Guards(s)) - Cardinality(D)
    BY <2>1, <2>4, FS_Difference
  <2>6. Cardinality(Guards(s)) \in Nat /\ Cardinality(D) \in Nat
    BY <2>4, FS_CardinalityType
  <2>7. Cardinality(D) <= Cardinality(Guards(s))
    BY <2>1, <2>4, FS_Intersection
  <2>. QED
    BY <2>2, <2>3, <2>5, <2>6, <2>7 DEF Counted
<1>4. holding' \in [Scopes -> Int]
  BY <1>3 DEF DropHolds
<1>. QED
  BY <1>1, <1>2, <1>3, <1>4 DEF Counted

\* Where every guard is counted, a count of 0 leaves none.
LEMMA NoneLeft ==
  ASSUME TypeOK, Counted, NEW s \in Scopes
  PROVE  holding[s] = 0 <=> \A m \in Messages, stage \in Stages : <<s, stage>> \notin holds[m]
<1>1. holding[s] = 0 <=> Guards(s) = {}
  BY GuardsFinite, FS_EmptySet DEF Counted
<1>2. Guards(s) = {} <=> \A m \in Messages, stage \in Stages : <<s, stage>> \notin holds[m]
  <2>1. \A h \in Messages \X Stages : h[1] \in Messages /\ h[2] \in Stages
    OBVIOUS
  <2>2. \A m \in Messages, stage \in Stages :
          <<s, stage>> \in holds[m] => <<m, stage>> \in Guards(s)
    BY DEF Guards
  <2>. QED
    BY Zenon, <2>1, <2>2 DEF Guards
<1>. QED
  BY <1>1, <1>2

-----------------------------------------------------------------------------
\* The parts of the invariant about the scenario and the faults only.
LEMMA Unfaulted ==
  ASSUME IInv, UNCHANGED <<scenario, faults>>
  PROVE  Restored' /\ Accounted'
BY DEF IInv, Restored, Accounted, Active, scenario, faults

\* A message that a step leaves alone.
LEMMA Untouched ==
  ASSUME IInv, NEW m \in Messages, UNCHANGED <<pc, scope>>,
         at'[m] = at[m], gate'[m] = gate[m], decision'[m] = decision[m],
         m \in woken' <=> m \in woken, holds'[m] = holds[m],
         \A stage \in Stages, s \in Scopes : <<m, stage, s>> \in letGo' => <<m, stage, s>> \in letGo
  PROVE  Guarded(m)' /\ Released(m)' /\ Traced(m)'
<1>. USE DEF IInv, Relayed
<1>1. Guarded(m)'
  BY DEF Guarded, Waiting
<1>2. Released(m)'
  BY Zenon DEF Released, Waiting
<1>3. Traced(m)'
  BY DEF Traced, Waiting, Forwarding
<1>. QED
  BY <1>1, <1>2, <1>3

\* Messages die with their connection: their guards go, and all else stays.
LEMMA LoseStep ==
  ASSUME IInv, NEW S \in SUBSET Messages, Lose(S), outbound' \in Seq(Messages),
         UNCHANGED <<scenario, faults, decision, letGo>>
  PROVE  IInv'
<1>. USE DEF IInv
<1>1. /\ Counted'
      /\ holds' \in [Messages -> SUBSET (Scopes \X Stages)]
      /\ holding' \in [Scopes -> Int]
      /\ \A m \in Messages : holds'[m] = IF m \in S THEN {} ELSE holds[m]
      /\ \A s \in Scopes : holding[s] = 0 => holding'[s] = 0
  BY DropCounts DEF Lose
<1>2. /\ \A m \in Messages : at'[m] = IF m \in S /\ at[m] \notin {"idle", "done"}
                                      THEN "lost" ELSE at[m]
      /\ \A m \in Messages : m \notin S => gate'[m] = gate[m] /\ (m \in woken' <=> m \in woken)
  BY DEF Lose
<1>3. TypeOK'
  <2>1. at' \in [Messages -> Places] /\ gate' \in [Messages -> Gates] /\ woken' \subseteq Messages
    BY NetFaultAssumption DEF Lose, TypeOK, ControlOK, RelayOK, Places, Gates, Free,
         NetFaultAssumption
  <2>. QED
    BY <1>1, <2>1 DEF TypeOK, ControlOK, RelayOK, scenario, faults, Active, Handles
<1>4. ASSUME NEW m \in Messages PROVE Guarded(m)' /\ Released(m)' /\ Traced(m)'
  <2>1. CASE m \in S
    <3>1. at'[m] \in {"idle", "done", "lost"} /\ holds'[m] = {} /\ (at'[m] = "idle" => at[m] = "idle")
      BY <1>1, <1>2, <2>1
    <3>2. Guarded(m)' /\ Released(m)'
      BY <3>1 DEF Guarded, Released, Waiting, Stages
    <3>3. Traced(m)'
      BY Zenon, <3>1 DEF Traced, Relayed, Waiting, Forwarding, Stages
    <3>. QED
      BY <3>2, <3>3
  <2>2. CASE m \notin S
    BY <1>1, <1>2, <2>2, Untouched DEF scenario
  <2>. QED
    BY <2>1, <2>2
<1>5. Drained'
  BY <1>1 DEF Drained, scenario
<1>. QED
  BY <1>1, <1>3, <1>4, <1>5, Unfaulted DEF Relayed

\* A message has been written to its client or given up: its guards go.
LEMMA WriteStep ==
  ASSUME IInv, NEW n \in Messages, NEW how \in {"done", "lost"},
         at' = [at EXCEPT ![n] = how], DropHolds({n}), outbound' \in Seq(Messages),
         UNCHANGED <<scenario, faults, decision, gate, woken, letGo>>
  PROVE  IInv'
<1>. USE DEF IInv
<1>1. /\ Counted'
      /\ holds' \in [Messages -> SUBSET (Scopes \X Stages)]
      /\ holding' \in [Scopes -> Int]
      /\ \A m \in Messages : holds'[m] = IF m \in {n} THEN {} ELSE holds[m]
      /\ \A s \in Scopes : holding[s] = 0 => holding'[s] = 0
  BY DropCounts
<1>2. \A m \in Messages : at'[m] = IF m = n THEN how ELSE at[m]
  BY DEF TypeOK, ControlOK, RelayOK
<1>3. TypeOK'
  <2>1. at' \in [Messages -> Places]
    BY DEF TypeOK, ControlOK, RelayOK, Places
  <2>. QED
    BY <1>1, <2>1 DEF TypeOK, ControlOK, RelayOK, scenario, faults, Active, Handles
<1>4. ASSUME NEW m \in Messages PROVE Guarded(m)' /\ Released(m)' /\ Traced(m)'
  <2>1. CASE m = n
    <3>1. at'[m] \in {"done", "lost"}
      BY <1>2, <2>1
    <3>2. Guarded(m)' /\ Released(m)'
      BY <3>1 DEF Guarded, Released, Waiting, Stages
    <3>3. Traced(m)'
      BY <3>1 DEF Traced, Relayed, Waiting, Forwarding, Stages
    <3>. QED
      BY <3>2, <3>3
  <2>2. CASE m # n
    BY <1>1, <1>2, <2>2, Untouched DEF scenario
  <2>. QED
    BY <2>1, <2>2
<1>5. Drained'
  BY <1>1 DEF Drained, scenario
<1>. QED
  BY <1>1, <1>3, <1>4, <1>5, Unfaulted DEF Relayed

\* What a relay does with a message once its gate has decided: whatever was let
\* go keeps its guard until it has left the proxy.
LEMMA ForwardStep ==
  ASSUME IInv, NEW n \in Messages, NEW stage \in Stages, NEW d \in Decisions, NEW known,
         Forward(n, stage, d, known), UNCHANGED <<scenario, faults, decision>>,
         \/ at[n] = stage /\ letGo' = IF d = "release"
                                      THEN letGo \cup {<<n, stage, gate[n].scope>>} ELSE letGo
         \/ at[n] = "idle" /\ stage # "response" /\ letGo' = letGo
         \/ at[n] = "upstream" /\ stage = "response" /\ letGo' = letGo
  PROVE  IInv'
<1>. USE DEF IInv
<1>1. CASE d = "discard" /\ Kind(n) = "ws" /\ stage = "request"
  <2>1. RelayDies /\ letGo' = letGo
    BY <1>1 DEF Forward
  <2>2. OnSocket \in SUBSET Messages /\ <<>> \in Seq(Messages)
    BY DEF OnSocket
  <2>. QED
    BY <2>1, <2>2, LoseStep DEF RelayDies
<1>2. CASE ~(d = "discard" /\ Kind(n) = "ws" /\ stage = "request")
  <2>. DEFINE next == CASE d = "discard" -> "lost"
                        [] d = "reject" /\ Kind(n) = "push" -> "lost"
                        [] d = "release" /\ stage = "request" -> "upstream"
                        [] OTHER -> "writing"
              gone == \/ d = "discard"
                      \/ Kind(n) # "http" /\ stage = "request"
                      \/ Kind(n) = "push" /\ d = "reject"
  <2>1. PICK spent \in SUBSET Messages :
          /\ DropHolds(spent)
          /\ spent = IF gone THEN {n} ELSE {}
    <3>1. CASE gone
      <4>1. DropHolds({n})
        BY <1>2, <3>1 DEF Forward
      <4>2. {n} \in SUBSET Messages /\ {n} = IF gone THEN {n} ELSE {}
        BY <3>1
      <4>. QED
        BY <4>1, <4>2, Zenon
    <3>2. CASE ~gone
      <4>1. DropHolds({})
        BY <1>2, <3>2 DEF Forward
      <4>2. {} \in SUBSET Messages /\ {} = IF gone THEN {n} ELSE {}
        BY <3>2
      <4>. QED
        BY <4>1, <4>2, Zenon
    <3>. QED
      BY <3>1, <3>2
  <2>2. /\ Counted'
        /\ holds' \in [Messages -> SUBSET (Scopes \X Stages)]
        /\ holding' \in [Scopes -> Int]
        /\ \A m \in Messages : holds'[m] = IF m \in spent THEN {} ELSE holds[m]
        /\ \A s \in Scopes : holding[s] = 0 => holding'[s] = 0
    BY <2>1, DropCounts
  <2>3. /\ at' = [at EXCEPT ![n] = next] /\ gate' = [gate EXCEPT ![n] = Free]
        /\ woken' = woken \ {n}
        /\ outbound' \in {outbound, Append(outbound, n)}
    BY <1>2 DEF Forward
  <2>4. next \in {"lost", "upstream", "writing"} /\ (next = "upstream" => d = "release" /\ stage = "request")
        /\ (next = "writing" => d # "discard" /\ ~(d = "release" /\ stage = "request")
                                /\ ~(d = "reject" /\ Kind(n) = "push"))
    BY DEF Decisions
  <2>. HIDE DEF next
  <2>5. \A m \in Messages : at'[m] = IF m = n THEN next ELSE at[m]
    BY <2>3 DEF TypeOK, ControlOK, RelayOK
  <2>6. Waiting(n) => gate[n].scope \in Scopes /\ <<gate[n].scope, at[n]>> \in holds[n]
    BY DEF Relayed, Guarded
  <2>7. \A m \in Messages, t \in Stages, s \in Scopes :
          <<m, t, s>> \in letGo' => \/ <<m, t, s>> \in letGo
                                    \/ /\ m = n /\ t = stage /\ s = gate[n].scope
                                       /\ at[n] = stage /\ d = "release"
    OBVIOUS
  <2>8. letGo' \subseteq Messages \X Stages \X Scopes
    BY <2>6 DEF TypeOK, ControlOK, RelayOK, Waiting
  <2>9. TypeOK'
    <3>1. at' \in [Messages -> Places]
      BY <2>3, <2>4 DEF TypeOK, ControlOK, RelayOK, Places
    <3>2. gate' \in [Messages -> Gates] /\ woken' \subseteq Messages
      BY <2>3, NetFaultAssumption DEF TypeOK, ControlOK, RelayOK, Gates, Free, NetFaultAssumption
    <3>3. outbound' \in Seq(Messages)
      <4>1. outbound \in Seq(Messages)
        BY DEF TypeOK, ControlOK, RelayOK
      <4>2. Append(outbound, n) \in Seq(Messages)
        BY <4>1
      <4>. QED
        BY <2>3, <4>1, <4>2
    <3>. QED
      BY <2>2, <2>8, <3>1, <3>2, <3>3 DEF TypeOK, ControlOK, RelayOK, scenario, faults, Active,
           Handles
  <2>10. ASSUME NEW m \in Messages PROVE Guarded(m)' /\ Released(m)' /\ Traced(m)'
    <3>1. CASE m = n
      <4>1. ~Waiting(n)' /\ at'[n] # "idle"
        BY <2>4, <2>5 DEF Waiting, Stages
      <4>2. Guarded(n)'
        <5>1. at'[n] \in {"request", "upstream"} => at[n] \in {"idle", "request"}
          BY <2>4, <2>5
        <5>. QED
          BY Zenon, <2>2, <4>1, <5>1 DEF Guarded, Relayed
      <4>3. Traced(n)'
        <5>. SUFFICES ASSUME NEW t \in Stages, NEW s \in Scopes, <<n, t, s>> \in letGo'
                      PROVE  /\ at'[n] = "upstream" => t = "request"
                             /\ Forwarding(n, t)' => <<s, t>> \in holds'[n]
          BY <4>1 DEF Traced
        <5>1. \/ /\ <<n, t, s>> \in letGo
                 /\ at[n] # "idle"
                 /\ Waiting(n) => at[n] = "response" /\ t = "request"
                 /\ at[n] = "upstream" => t = "request"
                 /\ Forwarding(n, t) => <<s, t>> \in holds[n]
              \/ t = stage /\ s = gate[n].scope /\ at[n] = stage /\ d = "release"
          BY <2>7 DEF Traced, Relayed
        <5>2. at'[n] = "upstream" => t = "request"
          BY <2>4, <2>5, <5>1 DEF Waiting
        <5>3. ASSUME Forwarding(n, t)' PROVE <<s, t>> \in holds'[n]
          <6>1. at'[n] \in {"upstream", "writing"} /\ (t = "request" => Kind(n) = "http")
                /\ (t # "request" => at'[n] = "writing")
            BY <2>4, <2>5, <5>3 DEF Forwarding, Stages
          <6>2. d # "discard" /\ ~(d = "reject" /\ Kind(n) = "push")
            BY <2>4, <2>5, <6>1
          <6>3. <<s, t>> \in holds[n]
            BY <2>6, <5>1, <6>1 DEF Forwarding, Waiting, Stages
          <6>4. ~gone
            BY <5>1, <6>1, <6>2 DEF Waiting
          <6>. QED
            BY <2>1, <2>2, <6>3, <6>4
        <5>. QED
          BY <5>2, <5>3
      <4>. QED
        BY <3>1, <4>1, <4>2, <4>3 DEF Released
    <3>2. CASE m # n
      BY Zenon, <2>1, <2>2, <2>3, <2>5, <2>7, <3>2, Untouched DEF TypeOK, ControlOK, RelayOK, scenario
    <3>. QED
      BY <3>1, <3>2
  <2>11. Drained'
    BY <2>2 DEF Drained, scenario
  <2>. QED
    BY <2>2, <2>9, <2>10, <2>11, Unfaulted DEF Relayed
<1>. QED
  BY <1>1, <1>2

\* gate(): a message is caught only inside a body, by a trap that is armed or a
\* rule that is installed.
LEMMA DispositionIs ==
  ASSUME IInv, NEW op
  PROVE  LET to == Disposition(op)
         IN  /\ to.then \in Decisions \cup {"held", "stalled"}
             /\ to.then = "held" => pc = "body" /\ to.handle \in armed
             /\ to.then = "stalled" => pc = "body" /\ to.handle \in rules
<1>. USE DEF IInv
<1>. DEFINE faulting == Matching(rules, op)
            trapping == Matching(armed, op)
<1>1. faulting \subseteq rules /\ trapping \subseteq armed
  BY DEF Matching
<1>2. rules \subseteq Nat /\ armed \subseteq Nat
  <2>1. DOMAIN effect \subseteq Nat
    BY DEF TypeOK, ControlOK, RelayOK
  <2>. QED
    BY <2>1 DEF TypeOK, ControlOK, RelayOK, Handles
<1>3. faulting # {} => Min(faulting) \in faulting
  BY <1>1, <1>2, MinOf
<1>4. trapping # {} => Min(trapping) \in trapping
  BY <1>1, <1>2, MinOf
<1>5. pc # "body" => faulting = {} /\ trapping = {}
  BY <1>1 DEF Restored
<1>6. Disposition(op) =
        IF ~Active THEN [then |-> "release", handle |-> 0]
        ELSE IF faulting # {} THEN
          [then |-> IF effect[Min(faulting)].kind = "reject" THEN "reject" ELSE "stalled",
           handle |-> Min(faulting)]
        ELSE IF trapping # {} THEN [then |-> "held", handle |-> Min(trapping)]
        ELSE [then |-> "release", handle |-> 0]
  BY DEF Disposition
<1>. HIDE DEF faulting, trapping
<1>7. CASE ~Active
  BY <1>6, <1>7 DEF Decisions
<1>8. CASE Active /\ faulting # {}
  BY <1>1, <1>3, <1>5, <1>6, <1>8 DEF Decisions
<1>9. CASE Active /\ faulting = {} /\ trapping # {}
  BY <1>1, <1>4, <1>5, <1>6, <1>9 DEF Decisions
<1>10. CASE Active /\ faulting = {} /\ trapping = {}
  BY <1>6, <1>10 DEF Decisions
<1>. QED
  BY <1>7, <1>8, <1>9, <1>10

\* A message is caught at its gate, with a guard of the scope that is open.
LEMMA CatchStep ==
  ASSUME IInv, NEW n \in Messages, NEW stage \in Stages, NEW known,
         PassGate(n, stage, known), UNCHANGED scenario,
         Disposition(Operation(n, stage)).then \in {"held", "stalled"},
         \/ at[n] = "idle" /\ stage # "response"
         \/ at[n] = "upstream" /\ stage = "response"
  PROVE  IInv'
<1>. USE DEF IInv
<1>. DEFINE to == Disposition(Operation(n, stage))
<1>1. /\ to.then \in {"held", "stalled"} /\ pc = "body"
      /\ to.then = "held" => to.handle \in armed
      /\ to.then = "stalled" => to.handle \in rules
  BY DispositionIs
<1>2. /\ at' = [at EXCEPT ![n] = stage]
      /\ gate' = [gate EXCEPT ![n] = [why |-> to.then, scope |-> scope, handle |-> to.handle]]
      /\ holds' = [holds EXCEPT ![n] = @ \cup {<<scope, stage>>}]
      /\ holding' = [holding EXCEPT ![scope] = @ + 1]
      /\ armed' = armed \ {to.handle}
      /\ fired' = IF to.then = "held" THEN fired \cup {to.handle} ELSE fired
      /\ decision' = [decision EXCEPT ![n] =
           IF to.then = "held" /\ to.handle \in orphans THEN "release" ELSE "none"]
      /\ UNCHANGED <<rules, orphans, unfired, woken, letGo, outbound>>
  BY <1>1 DEF PassGate, Decisions
<1>. HIDE DEF to
<1>3. scope \in Scopes /\ scope \in 0 .. MaxScopes /\ to.handle \in Nat
  <2>1. DOMAIN effect \subseteq Nat
    BY DEF TypeOK, ControlOK, RelayOK
  <2>. QED
    BY <1>1, <2>1 DEF TypeOK, ControlOK, RelayOK, Active, Handles
<1>4. /\ \A m \in Messages : at'[m] = IF m = n THEN stage ELSE at[m]
      /\ \A m \in Messages : holds'[m] = IF m = n THEN holds[n] \cup {<<scope, stage>>} ELSE holds[m]
      /\ \A m \in Messages : m # n => gate'[m] = gate[m] /\ decision'[m] = decision[m]
      /\ gate'[n].why = to.then /\ gate'[n].scope = scope
  BY <1>2 DEF TypeOK, ControlOK, RelayOK
<1>5. TypeOK'
  <2>1. at' \in [Messages -> Places]
    BY <1>2 DEF TypeOK, ControlOK, RelayOK, Places
  <2>2. gate' \in [Messages -> Gates]
    BY <1>1, <1>2, <1>3 DEF TypeOK, ControlOK, RelayOK, Gates
  <2>3. decision' \in [Messages -> {"none"} \cup Decisions]
    BY <1>2 DEF TypeOK, ControlOK, RelayOK, Decisions
  <2>4. holds' \in [Messages -> SUBSET (Scopes \X Stages)] /\ holding' \in [Scopes -> Int]
    BY <1>2, <1>3 DEF TypeOK, ControlOK, RelayOK
  <2>. QED
    BY <1>2, <2>1, <2>2, <2>3, <2>4 DEF TypeOK, ControlOK, RelayOK, scenario, Active, Handles
<1>6. <<scope, stage>> \notin holds[n]
  BY Zenon DEF Relayed, Guarded
<1>7. Counted'
  <2>. SUFFICES ASSUME NEW s \in Scopes PROVE holding'[s] = Cardinality(Guards(s)')
    BY DEF Counted
  <2>1. CASE s = scope
    <3>1. <<n, stage>> \notin Guards(s)
      BY <1>6, <2>1 DEF Guards
    <3>2. Guards(s)' = Guards(s) \cup {<<n, stage>>}
      <4>1. ASSUME NEW h \in Messages \X Stages
            PROVE  h \in Guards(s)' <=> h \in Guards(s) \cup {<<n, stage>>}
        <5>1. h[1] \in Messages /\ h[2] \in Stages /\ h = <<h[1], h[2]>>
          BY <4>1
        <5>2. <<s, h[2]>> \in holds'[h[1]] <=> <<s, h[2]>> \in holds[h[1]] \/ h = <<n, stage>>
          <6>1. CASE h[1] = n
            BY <1>4, <2>1, <5>1, <6>1
          <6>2. CASE h[1] # n
            BY <1>4, <5>1, <6>2
          <6>. QED
            BY <6>1, <6>2
        <5>. QED
          BY <5>2 DEF Guards
      <4>. QED
        BY <4>1 DEF Guards
    <3>3. Cardinality(Guards(s)') = Cardinality(Guards(s)) + 1
      <4>1. IsFiniteSet(Guards(s))
        BY GuardsFinite
      <4>2. Cardinality(Guards(s) \cup {<<n, stage>>}) = Cardinality(Guards(s)) + 1
        BY Zenon, <3>1, <4>1, FS_AddElement
      <4>. QED
        BY <3>2, <4>2
    <3>4. holding'[s] = holding[s] + 1
      BY <1>2, <2>1 DEF TypeOK, ControlOK, RelayOK
    <3>. QED
      BY <3>3, <3>4 DEF Counted
  <2>2. CASE s # scope
    <3>1. Guards(s)' = Guards(s)
      <4>1. ASSUME NEW h \in Messages \X Stages PROVE h \in Guards(s)' <=> h \in Guards(s)
        <5>1. h[1] \in Messages /\ h[2] \in Stages
          BY <4>1
        <5>2. <<s, h[2]>> \in holds'[h[1]] <=> <<s, h[2]>> \in holds[h[1]]
          BY <1>4, <2>2, <5>1
        <5>. QED
          BY <5>2 DEF Guards
      <4>. QED
        BY <4>1 DEF Guards
    <3>2. holding'[s] = holding[s]
      BY <1>2, <2>2 DEF TypeOK, ControlOK, RelayOK
    <3>. QED
      BY <3>1, <3>2 DEF Counted
  <2>. QED
    BY <2>1, <2>2
<1>8. ASSUME NEW m \in Messages PROVE Guarded(m)' /\ Released(m)' /\ Traced(m)'
  <2>1. CASE m = n
    <3>1. Guarded(n)'
      <4>1. stage = "request" => holds[n] = {}
        BY Zenon DEF Relayed, Guarded
      <4>2. /\ gate'[n].why \in {"held", "stalled"}
            /\ gate'[n].scope \in Scopes /\ gate'[n].scope <= scope'
            /\ <<gate'[n].scope, at'[n]>> \in holds'[n]
        <5>1. gate'[n].why \in {"held", "stalled"} /\ gate'[n].scope = scope
          BY <1>1, <1>4
        <5>2. scope' = scope /\ scope \in Scopes /\ scope <= scope
          BY <1>1, <1>2, <1>3 DEF TypeOK, ControlOK, Scopes, scenario
        <5>3. <<scope, at'[n]>> \in holds'[n]
          BY <1>4
        <5>. QED
          BY <5>1, <5>2, <5>3
      <4>3. at'[n] # "idle" /\ at'[n] # "upstream"
        BY <1>4 DEF Stages
      <4>4. at'[n] = "request" => \A g \in holds'[n] : g[2] = "request"
        BY <1>4, <4>1
      <4>. QED
        BY <4>2, <4>3, <4>4 DEF Guarded
    <3>2. Released(n)'
      BY <1>1, <1>4 DEF Released, scenario
    <3>3. Traced(n)'
      BY <1>2, <1>4 DEF Traced, Relayed, Waiting, Forwarding, Stages
    <3>. QED
      BY <2>1, <3>1, <3>2, <3>3
  <2>2. CASE m # n
    BY <1>2, <1>4, <2>2, Untouched DEF scenario
  <2>. QED
    BY <2>1, <2>2
<1>9. Restored'
  BY <1>1 DEF Restored, scenario
<1>10. Accounted'
  <2>1. armed \subseteq armed' \cup fired'
    <3>1. rules \cap armed = {}
      BY DEF TypeOK, ControlOK, RelayOK, Handles
    <3>. QED
      BY <1>1, <1>2, <3>1
  <2>2. fired \subseteq fired' /\ unfired' = unfired
    BY <1>2
  <2>. QED
    BY <1>1, <2>1, <2>2 DEF Accounted, Active, scenario
<1>11. Drained'
  BY <1>1 DEF Drained, Accounted, scenario
<1>. QED
  BY <1>5, <1>7, <1>8, <1>9, <1>10, <1>11 DEF Relayed

-----------------------------------------------------------------------------
\* A step of a relay: a request, its answer, a notification, a gate that opens,
\* a write, or a socket that closes.
LEMMA RelayStep ==
  ASSUME IInv,
         \/ \E m \in Messages : \/ Request(m) \/ Response(m) \/ Notification(m)
                                \/ Resolve(m) \/ HttpWrite(m)
         \/ WsWrite \/ WsCloses
  PROVE  IInv'
<1>1. ASSUME NEW m \in Messages, NEW stage \in Stages, NEW known, PassGate(m, stage, known),
             UNCHANGED scenario,
             \/ at[m] = "idle" /\ stage # "response"
             \/ at[m] = "upstream" /\ stage = "response"
      PROVE  IInv'
  <2>. DEFINE to == Disposition(Operation(m, stage))
  <2>1. CASE to.then \in {"held", "stalled"}
    BY <1>1, <2>1, CatchStep
  <2>2. CASE to.then \notin {"held", "stalled"}
    <3>1. to.then \in Decisions
      BY <2>2, DispositionIs
    <3>2. Forward(m, stage, to.then, known) /\ UNCHANGED <<faults, decision, letGo>>
      BY <1>1, <2>2 DEF PassGate
    <3>. HIDE DEF to
    <3>. QED
      BY <1>1, <3>1, <3>2, ForwardStep
  <2>. QED
    BY <2>1, <2>2
<1>2. ASSUME NEW m \in Messages, Request(m) PROVE IInv'
  BY <1>1, <1>2 DEF Request, Stages
<1>3. ASSUME NEW m \in Messages, Response(m) PROVE IInv'
  <2>1. \E known : PassGate(m, "response", known)
    BY <1>3 DEF Response
  <2>. QED
    BY <1>1, <1>3, <2>1 DEF Response, Stages
<1>4. ASSUME NEW m \in Messages, Notification(m) PROVE IInv'
  BY <1>1, <1>4 DEF Notification, Stages
<1>5. ASSUME NEW m \in Messages, Resolve(m) PROVE IInv'
  <2>1. at[m] \in Stages
    BY <1>5 DEF Resolve, Waiting
  <2>2. Resolution(m) \in Decisions
    BY <1>5 DEF Resolve, Resolution, IInv, TypeOK, ControlOK, RelayOK, Decisions
  <2>3. /\ Forward(m, at[m], Resolution(m), subs) /\ UNCHANGED <<scenario, faults, decision>>
        /\ letGo' = IF Resolution(m) = "release"
                    THEN letGo \cup {<<m, at[m], gate[m].scope>>} ELSE letGo
    BY <1>5 DEF Resolve
  <2>. QED
    BY <2>1, <2>2, <2>3, ForwardStep
<1>6. ASSUME NEW m \in Messages, HttpWrite(m) PROVE IInv'
  <2>1. outbound' \in Seq(Messages)
    BY <1>6 DEF HttpWrite, IInv, TypeOK, ControlOK, RelayOK
  <2>2. \E how \in {"done", "lost"} : at' = [at EXCEPT ![m] = how]
    BY <1>6 DEF HttpWrite
  <2>. QED
    BY Zenon, <1>6, <2>1, <2>2, WriteStep DEF HttpWrite
<1>7. CASE WsWrite
  <2>1. outbound \in Seq(Messages) /\ outbound # <<>>
    BY <1>7 DEF WsWrite, IInv, TypeOK, ControlOK, RelayOK
  <2>2. Head(outbound) \in Messages /\ Tail(outbound) \in Seq(Messages)
    BY <2>1
  <2>3. /\ at' = [at EXCEPT ![Head(outbound)] = "done"] /\ DropHolds({Head(outbound)})
        /\ outbound' = Tail(outbound)
        /\ UNCHANGED <<scenario, faults, decision, gate, woken, letGo>>
    BY <1>7 DEF WsWrite
  <2>. QED
    BY Zenon, <2>2, <2>3, WriteStep
<1>8. CASE WsCloses
  <2>1. OnSocket \in SUBSET Messages /\ <<>> \in Seq(Messages)
    BY DEF OnSocket
  <2>. QED
    BY <1>8, <2>1, LoseStep DEF WsCloses, RelayDies
<1>. QED
  BY <1>2, <1>3, <1>4, <1>5, <1>6, <1>7, <1>8

\* State::restore, in a body, by a reset or by the drop of the scope: what the
\* scope has caught is woken, and traps that did not fire are remembered.
LEMMA RestoreStep ==
  ASSUME IInv, RestoreState, UNCHANGED <<verdict, scope, base, effect>>,
         \/ pc = "body" /\ pc' \in {"body", "bodyReset"} /\ body' = body
         \/ pc = "body" /\ pc' = "finalReset" /\ body' \in {"ok", "err"}
         \/ pc = "closing" /\ pc' = "out" /\ body' = body
  PROVE  IInv'
<1>. USE DEF IInv
<1>1. /\ rules' = {} /\ armed' = {} /\ unfired' = unfired \cup armed
      /\ UNCHANGED <<fired, holding, at, gate, decision, holds, letGo, outbound>>
      /\ woken' = woken \cup {m \in Messages : gate[m].why = "held" /\ gate[m].scope = scope}
  BY DEF RestoreState
<1>2. TypeOK'
  BY <1>1 DEF TypeOK, ControlOK, RelayOK, Active, Handles
<1>3. Restored' /\ Counted' /\ Drained'
  BY <1>1 DEF Restored, Counted, Guards, Drained
<1>4. Accounted'
  BY <1>1 DEF Accounted, Active
<1>5. ASSUME NEW m \in Messages PROVE Guarded(m)' /\ Released(m)' /\ Traced(m)'
  <2>1. Guarded(m)'
    BY <1>1 DEF Relayed, Guarded, Waiting
  <2>2. Released(m)'
    BY <1>1 DEF Relayed, Released, Waiting
  <2>3. Traced(m)'
    BY <1>1 DEF Relayed, Traced, Waiting, Forwarding
  <2>. QED
    BY <2>1, <2>2, <2>3
<1>. QED
  BY <1>2, <1>3, <1>4, <1>5 DEF Relayed

\* A step of the scenario that opens, arms, decides, cuts or ends something.
LEMMA ScenarioStep ==
  ASSUME IInv,
         \/ \E m \in Messages : Decide(m)
         \/ OpenScope \/ Install \/ RemoveRule \/ AbandonTrap \/ Restore
         \/ Disconnect \/ BeginReset \/ ResetDrained \/ ResetTimesOut \/ CloseScope
  PROVE  IInv'
<1>. USE DEF IInv
<1>1. ASSUME NEW n \in Messages, Decide(n) PROVE IInv'
  <2>1. /\ UNCHANGED <<scenario, faults, relay>>
        /\ \A m \in Messages : decision'[m] = "none" => decision[m] = "none"
        /\ decision' \in [Messages -> {"none"} \cup Decisions]
    BY <1>1 DEF Decide, Decisions, TypeOK, ControlOK, RelayOK
  <2>2. TypeOK'
    <3>1. ControlOK'
      BY <2>1 DEF TypeOK, ControlOK, Active, Handles, scenario, faults
    <3>2. RelayOK'
      BY <2>1 DEF TypeOK, RelayOK, relay
    <3>. QED
      BY <3>1, <3>2 DEF TypeOK
  <2>3. Counted' /\ Drained'
    <3>1. UNCHANGED <<verdict, scope, holds, holding>>
      BY <2>1 DEF scenario, relay
    <3>2. Counted'
      BY <3>1 DEF Counted, Guards
    <3>. QED
      BY <3>1, <3>2 DEF Drained
  <2>4. Relayed'
    BY <2>1 DEF Relayed, Guarded, Released, Traced, Waiting, Forwarding, scenario, relay
  <2>. QED
    BY <2>1, <2>2, <2>3, <2>4, Unfaulted
<1>2. CASE OpenScope
  <2>1. /\ pc = "out" /\ pc' = "body" /\ body' = "ok" /\ verdict' = "none"
        /\ scope' = scope + 1 /\ scope' \in Scopes /\ base' = Len(effect) /\ unfired' = {}
        /\ UNCHANGED <<effect, rules, armed, orphans, fired, relay, decision>>
    BY <1>2, NetFaultAssumption DEF OpenScope, TypeOK, ControlOK, RelayOK, Scopes,
         NetFaultAssumption
  <2>2. Len(effect) \in Nat /\ scope \in Nat /\ {h \in base' + 1 .. Len(effect') : TRUE} = {}
    BY <2>1 DEF TypeOK, ControlOK, RelayOK
  <2>3. TypeOK'
    <3>1. scope' \in 0 .. MaxScopes /\ base' \in Nat
      BY <2>1, <2>2 DEF Scopes
    <3>2. ControlOK'
      BY <2>1, <3>1 DEF TypeOK, ControlOK, Active, Handles
    <3>3. RelayOK'
      BY <2>1 DEF TypeOK, RelayOK, relay
    <3>. QED
      BY <3>2, <3>3 DEF TypeOK
  <2>4. Restored' /\ Accounted' /\ Counted' /\ Drained'
    BY Zenon, <2>1, <2>2 DEF Restored, Accounted, Counted, Guards, Drained, relay
  <2>5. Relayed'
    <3>1. ASSUME NEW m \in Messages PROVE Guarded(m)'
      <4>1. \A s \in Scopes : s <= scope => s <= scope'
        BY <2>1, <2>2 DEF Scopes
      <4>. QED
        BY Zenon, <2>1, <4>1 DEF Relayed, Guarded, Waiting, relay
    <3>2. ASSUME NEW m \in Messages PROVE Released(m)'
      BY <2>1 DEF Relayed, Released, Waiting, relay
    <3>3. ASSUME NEW m \in Messages PROVE Traced(m)'
      BY <2>1 DEF Relayed, Traced, Waiting, Forwarding, relay
    <3>. QED
      BY <3>1, <3>2, <3>3 DEF Relayed
  <2>. QED
    BY <2>3, <2>4, <2>5
<1>3. CASE Install
  <2>1. PICK kind \in {"trap", "reject", "stall"}, sel \in Selectors :
          /\ effect' = Append(effect, [kind |-> kind, sel |-> sel])
          /\ IF kind = "trap"
             THEN armed' = armed \cup {Len(effect) + 1} /\ UNCHANGED rules
             ELSE rules' = rules \cup {Len(effect) + 1} /\ UNCHANGED armed
    BY <1>3 DEF Install
  <2>2. pc = "body" /\ UNCHANGED <<pc, body, verdict, scope, base, orphans, unfired, fired, relay,
                                   decision>>
    BY <1>3 DEF Install
  <2>3. effect \in Seq(Effects) /\ [kind |-> kind, sel |-> sel] \in Effects
    BY DEF TypeOK, ControlOK, RelayOK, Effects
  <2>4. /\ effect' \in Seq(Effects) /\ Len(effect') = Len(effect) + 1 /\ Len(effect) \in Nat
        /\ DOMAIN effect = 1 .. Len(effect) /\ DOMAIN effect' = 1 .. Len(effect) + 1
        /\ \A h \in DOMAIN effect : effect'[h] = effect[h]
        /\ effect'[Len(effect) + 1].kind = kind
    <3>. DEFINE e == [kind |-> kind, sel |-> sel]
    <3>1. e \in Effects /\ e.kind = kind /\ effect' = Append(effect, e)
      BY <2>1, <2>3
    <3>. HIDE DEF e
    <3>. QED
      BY <2>3, <3>1, Appended
  <2>5. armed' \subseteq Handles({"trap"})' /\ rules' \subseteq Handles({"reject", "stall"})'
    <3>1. armed \subseteq Handles({"trap"})' /\ rules \subseteq Handles({"reject", "stall"})'
      <4>1. armed \subseteq Handles({"trap"}) /\ rules \subseteq Handles({"reject", "stall"})
        BY DEF TypeOK, ControlOK
      <4>2. DOMAIN effect \subseteq DOMAIN effect'
        BY <2>4
      <4>. QED
        BY <2>4, <4>1, <4>2 DEF Handles
    <3>2. Len(effect) + 1 \in Handles({kind})'
      BY <2>4 DEF Handles
    <3>3. CASE kind = "trap"
      BY <2>1, <3>1, <3>2, <3>3
    <3>4. CASE kind # "trap"
      <4>1. kind \in {"reject", "stall"}
        BY <3>4
      <4>2. Len(effect) + 1 \in Handles({"reject", "stall"})'
        BY <3>2, <4>1 DEF Handles
      <4>. QED
        BY <2>1, <3>1, <3>4, <4>2
    <3>. QED
      BY <3>3, <3>4
  <2>6. TypeOK'
    <3>1. ControlOK'
      BY <2>2, <2>4, <2>5 DEF TypeOK, ControlOK, Active
    <3>2. RelayOK'
      BY <2>2 DEF TypeOK, RelayOK, relay
    <3>. QED
      BY <3>1, <3>2 DEF TypeOK
  <2>7. Accounted'
    <3>1. verdict # "pass" /\ body = "ok"
      BY <2>2 DEF Accounted
    <3>2. ASSUME NEW h \in base + 1 .. Len(effect'), effect'[h].kind = "trap"
          PROVE  h \in armed' \cup unfired \cup fired
      <4>1. CASE h = Len(effect) + 1
        BY <2>1, <2>4, <3>2, <4>1
      <4>2. CASE h # Len(effect) + 1
        <5>1. h \in base + 1 .. Len(effect) /\ h \in DOMAIN effect
          BY <2>4, <3>2, <4>2 DEF TypeOK, ControlOK
        <5>2. h \in armed \cup unfired \cup fired
          BY <2>2, <2>4, <3>1, <3>2, <5>1 DEF Accounted, Active
        <5>. QED
          BY <2>1, <5>2
      <4>. QED
        BY <4>1, <4>2
    <3>. QED
      BY <2>2, <3>1, <3>2 DEF Accounted
  <2>8. Restored' /\ Counted' /\ Drained'
    BY <2>2 DEF Restored, Counted, Guards, Drained, relay
  <2>9. Relayed'
    BY <2>2 DEF Relayed, Guarded, Released, Traced, Waiting, Forwarding, relay
  <2>. QED
    BY <2>6, <2>7, <2>8, <2>9
<1>4. CASE RemoveRule \/ AbandonTrap
  <2>1. rules' \subseteq rules /\ UNCHANGED <<scenario, armed, unfired, fired, relay, decision>>
    BY <1>4 DEF RemoveRule, AbandonTrap
  <2>2. TypeOK' /\ Restored' /\ Accounted' /\ Counted' /\ Drained'
    BY Zenon, <2>1 DEF TypeOK, ControlOK, RelayOK, Active, Handles, Restored, Accounted, Counted,
         Guards, Drained, scenario, relay
  <2>3. Relayed'
    BY <2>1 DEF Relayed, Guarded, Released, Traced, Waiting, Forwarding, scenario, relay
  <2>. QED
    BY <2>2, <2>3
<1>5. CASE Restore
  BY <1>5, RestoreStep DEF Restore, scenario
<1>6. CASE BeginReset
  BY <1>6, RestoreStep DEF BeginReset
<1>7. CASE CloseScope
  BY <1>7, RestoreStep DEF CloseScope
<1>8. CASE Disconnect
  <2>1. /\ Messages \ OnSocket \in SUBSET Messages /\ OnSocket \in SUBSET Messages
        /\ <<>> \in Seq(Messages) /\ outbound \in Seq(Messages)
    BY DEF OnSocket, TypeOK, ControlOK, RelayOK
  <2>. QED
    BY Zenon, <1>8, <2>1, LoseStep DEF Disconnect, RelayDies
<1>9. CASE ResetDrained \/ ResetTimesOut
  <2>1. /\ pc \in {"bodyReset", "finalReset"} /\ pc' \in {"body", "finalReset", "closing"}
        /\ UNCHANGED <<scope, base, effect, rules, armed, fired, relay, decision>>
        /\ rules = {} /\ armed = {}
    BY <1>9 DEF ResetDrained, ResetTimesOut, ResetReturns, faults, Restored
  <2>2. body' \in {"ok", "err"} /\ verdict' \in {"none", "pass", "fail"}
    BY <1>9 DEF ResetDrained, ResetTimesOut, ResetReturns, TypeOK, ControlOK, RelayOK
  <2>3. TypeOK'
    BY <2>1, <2>2 DEF TypeOK, ControlOK, RelayOK, Active, Handles, relay
  <2>4. Restored' /\ Counted'
    BY <2>1 DEF Restored, Counted, Guards, relay
  <2>5. Accounted'
    BY <1>9, <2>1 DEF ResetDrained, ResetTimesOut, ResetReturns, Accounted, Active, faults
  <2>6. Drained'
    BY <1>9, <2>1 DEF ResetDrained, ResetTimesOut, ResetReturns, Drained, Accounted, TypeOK,
         ControlOK, RelayOK, Active, relay
  <2>7. Relayed'
    BY <2>1 DEF Relayed, Guarded, Released, Traced, Waiting, Forwarding, relay
  <2>. QED
    BY <2>3, <2>4, <2>5, <2>6, <2>7
<1>. QED
  BY <1>1, <1>2, <1>3, <1>4, <1>5, <1>6, <1>7, <1>8, <1>9

\* Nothing is armed, caught or counted at first.
LEMMA InitInv == Init => IInv
<1>. SUFFICES ASSUME Init PROVE IInv
  OBVIOUS
<1>. USE DEF Init
<1>1. TypeOK
  <2>1. scope \in 0 .. MaxScopes /\ base \in Nat /\ effect \in Seq(Effects)
    BY NetFaultAssumption DEF NetFaultAssumption
  <2>2. ControlOK
    BY <2>1 DEF ControlOK, Active
  <2>3. at \in [Messages -> Places]
    BY DEF Places
  <2>4. gate \in [Messages -> Gates]
    <3>1. Free \in Gates
      <4>1. 0 \in 0 .. MaxScopes
        BY NetFaultAssumption DEF NetFaultAssumption
      <4>. QED
        BY <4>1 DEF Free, Gates
    <3>. QED
      BY <3>1
  <2>5. /\ decision \in [Messages -> {"none"} \cup Decisions]
        /\ holds \in [Messages -> SUBSET (Scopes \X Stages)] /\ holding \in [Scopes -> Int]
    OBVIOUS
  <2>6. RelayOK
    BY <2>3, <2>4, <2>5 DEF RelayOK
  <2>. QED
    BY <2>2, <2>6 DEF TypeOK
<1>2. Restored /\ Accounted /\ Drained
  BY DEF Restored, Accounted, Drained, Active
<1>3. Relayed
  BY DEF Relayed, Guarded, Released, Traced, Waiting, Stages
<1>4. Counted
  <2>. SUFFICES ASSUME NEW s \in Scopes PROVE holding[s] = Cardinality(Guards(s))
    BY DEF Counted
  <2>1. Guards(s) = {}
    BY DEF Guards
  <2>. QED
    BY <2>1, FS_EmptySet
<1>. QED
  BY <1>1, <1>2, <1>3, <1>4 DEF IInv

\* A step of nobody.
LEMMA StutterStep == ASSUME IInv, UNCHANGED vars PROVE IInv'
<1>. USE DEF IInv, vars
<1>1. TypeOK'
  <2>1. ControlOK'
    BY DEF TypeOK, ControlOK, Active, Handles
  <2>2. RelayOK'
    BY DEF TypeOK, RelayOK
  <2>. QED
    BY <2>1, <2>2 DEF TypeOK
<1>2. Counted' /\ Drained'
  BY DEF Counted, Guards, Drained
<1>3. Relayed'
  BY DEF Relayed, Guarded, Released, Traced, Waiting, Forwarding
<1>. QED
  BY <1>1, <1>2, <1>3, Unfaulted DEF scenario, faults

\* Every step of the relays and of the scenario keeps the invariant.
LEMMA Invariance == Spec => []IInv
<1>1. ASSUME IInv, [Next]_vars PROVE IInv'
  BY <1>1, RelayStep, ScenarioStep, StutterStep DEF Next
<1>. QED
  BY InitInv, <1>1, PTL DEF Spec

-----------------------------------------------------------------------------
\* No message is stranded at a gate outside a body, and State.holding is the
\* number of live guards of its scope (Gate::resolve, Holding, State::restore),
\* for any finite set of messages and any number of scopes and handles.
THEOREM StrandedCorrect == Spec => []NothingStranded
<1>1. ASSUME IInv PROVE HoldingCountsGuards
  BY <1>1 DEF IInv, Counted, Guards, HoldingCountsGuards
<1>2. ASSUME IInv PROVE NothingWaitsOutside
  <2>. SUFFICES ASSUME NEW m \in Messages, Waiting(m), pc # "body"
                PROVE  Resolution(m) # "none"
    BY DEF NothingWaitsOutside
  <2>1. rules = {} /\ gate[m].why \in {"held", "stalled"}
        /\ (gate[m].why = "held" /\ decision[m] = "none" => m \in woken)
    BY Zenon, <1>2 DEF IInv, Restored, Relayed, Guarded, Released
  <2>. QED
    BY <2>1 DEF Resolution
<1>3. IInv => NothingStranded
  BY <1>1, <1>2 DEF NothingStranded
<1>. QED
  BY Invariance, <1>3, PTL

\* A scenario passes only if each trap of its scope has caught a message and
\* whatever the scope had held has left the proxy (Faults::reset,
\* run_shared_scenario), for any instance.
THEOREM PassCorrect == Spec => []PassMeansCarriedOut
<1>1. ASSUME IInv PROVE PassMeansAllFired
  BY <1>1 DEF IInv, Accounted, PassMeansAllFired
<1>2. ASSUME IInv PROVE PassMeansForwarded
  <2>. SUFFICES ASSUME verdict = "pass", NEW m \in Messages
                PROVE  /\ Waiting(m) => gate[m].scope # scope
                       /\ \A stage \in Stages :
                            <<m, stage, scope>> \in letGo => ~Forwarding(m, stage)
    BY DEF PassMeansForwarded
  <2>1. scope \in Scopes /\ \A stage \in Stages : <<scope, stage>> \notin holds[m]
    BY <1>2, NoneLeft DEF IInv, Drained
  <2>2. Waiting(m) => gate[m].scope # scope
    BY Zenon, <1>2, <2>1 DEF IInv, Relayed, Guarded, Waiting
  <2>3. \A stage \in Stages : <<m, stage, scope>> \in letGo => ~Forwarding(m, stage)
    BY Zenon, <1>2, <2>1 DEF IInv, Relayed, Traced
  <2>. QED
    BY <2>2, <2>3
<1>3. IInv => PassMeansCarriedOut
  BY <1>1, <1>2 DEF PassMeansCarriedOut
<1>. QED
  BY Invariance, <1>3, PTL

=============================================================================
