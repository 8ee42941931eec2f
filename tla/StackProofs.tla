---------------------------- MODULE StackProofs ----------------------------
(***************************************************************************)
(* Proofs about the managed stack, for any number of scenarios, bases and  *)
(* runs.  The inductive invariant says who may be at work, that only the   *)
(* holder of the lock is inside base_only, and that a context or a rollup  *)
(* on a living base is on the one state.json names.                        *)
(*                                                                         *)
(* The second part is about a validator that a scenario owns, for any      *)
(* number of restarts: only the owned child can be alive, it is the        *)
(* process spawned last and the recorded one, and its record is marked     *)
(* finished only once reclaim has killed it.                               *)
(***************************************************************************)
EXTENDS Stack, Rollup, FiniteSetTheorems, TLAPS

\* Without a run there is no task.
Idle ==
  run = 0 => /\ lock = NoTask
             /\ \A t \in Tasks : pc[t] = "idle" /\ ctx[t] = NoBase

Locking == \A t \in Tasks : pc[t] \in Locked => lock = t

\* Bases are numbered in the order they are spawned.
Numbered ==
  /\ named <= booted
  /\ \A t \in Tasks : ctx[t] <= booted /\ seen[t] <= booted
  /\ \A r \in rollups : r.base <= booted

\* What the holder of the lock knows about state.json.
Holder ==
  \A t \in Tasks :
    /\ pc[t] = "health" => seen[t] = named /\ named # NoBase
    /\ pc[t] \in {"boot", "ready", "publish"} => named = NoBase
    /\ pc[t] \in {"ready", "publish"} => seen[t] # NoBase
    /\ pc[t] = "publish" => proc[seen[t]] \in {"serving", "dead"}

Contexts ==
  \A t \in Tasks :
    /\ Alive(ctx[t]) => ctx[t] = named
    /\ pc[t] \in {"have", "fund"} => ctx[t] # NoBase
    /\ pc[t] = "fund" => slot[t].index \in 1 .. PoolSize /\ slot[t].torn <= torn
    /\ pc[t] = "fund" /\ Alive(ctx[t]) /\ slot[t].torn = torn =>
         slot[t].index \in 1 .. Len(pool) /\ pool[slot[t].index] = t

Leased ==
  \A r \in rollups :
    /\ r.torn <= torn
    /\ Alive(r.base) => r.base = named
    /\ Alive(r.base) /\ r.torn = torn => r.slot \in 1 .. Len(pool) /\ pool[r.slot] = r.label

\* The rollups, and those about to be launched, by which identities are held.
Claims == rollups \cup {Rollup(t) : t \in {u \in Tasks : pc[u] = "fund"}}

\* The map vouches for claims made since it was last torn; of older ones the
\* invariant has to remember that they are distinct.
Distinct ==
  \A r, s \in Claims :
    r.base = s.base /\ Alive(r.base) /\ r.slot = s.slot /\ r.torn = s.torn => r.label = s.label

Downed ==
  /\ down # "idle" => run = 0 /\ named = NoBase
  /\ down \in {"wipe", "done"} => rollups = {} /\ \A b \in Bases : ~Alive(b)
  /\ down = "done" => storage = {} /\ ledger = NoBase

IInv ==
  /\ TypeOK /\ Idle /\ Locking /\ Numbered /\ NamedHasServed
  /\ Holder /\ Contexts /\ Leased /\ Downed

\* Every step of a run, of the validators or of `stack down` keeps the invariant.
LEMMA Step == IInv /\ [Next]_vars => IInv'
<1>. SUFFICES ASSUME IInv, [Next]_vars PROVE IInv'
  OBVIOUS
<1>1. CASE Next
  <2>1. CASE Invoke
    <3>1. TypeOK'
      BY <2>1, StackAssumption
      DEF StackAssumption, IInv, TypeOK, Idle, Contexts, Alive, Locked, Bases, NoBase,
          Invoke, FreshTasks, Unbound, tasks, base, map, world
    <3>2. Idle' /\ Locking' /\ Downed'
      BY <2>1, StackAssumption
      DEF StackAssumption, IInv, Idle, Locking, Downed, TypeOK, Alive, Locked, Bases, NoBase,
          Invoke, FreshTasks, Unbound, tasks, base, map, world
    <3>3. Numbered' /\ NamedHasServed' /\ Holder'
      BY <2>1, StackAssumption
      DEF StackAssumption, IInv, Numbered, NamedHasServed, Holder, TypeOK, Idle, Locking, Alive, Locked, Bases, NoBase,
          Invoke, FreshTasks, Unbound, tasks, base, map, world
    <3>4. Contexts' /\ Leased'
      BY <2>1, StackAssumption
      DEF StackAssumption, IInv, Contexts, Leased, TypeOK, Idle, Locking, Numbered, Holder, Alive, Locked, Bases, NoBase,
          Invoke, FreshTasks, Unbound, tasks, base, map, world
    <3>. QED BY <3>1, <3>2, <3>3, <3>4 DEF IInv
  <2>2. ASSUME NEW t \in Tasks, CallBase(t) PROVE IInv'
    <3>1. TypeOK'
      BY <2>2, StackAssumption
      DEF StackAssumption, IInv, TypeOK, Idle, Contexts, Alive, Locked, Bases, NoBase,
          CallBase, tasks, base, map, world
    <3>2. Idle' /\ Locking' /\ Downed'
      BY <2>2, StackAssumption
      DEF StackAssumption, IInv, Idle, Locking, Downed, TypeOK, Alive, Locked, Bases, NoBase,
          CallBase, tasks, base, map, world
    <3>3. Numbered' /\ NamedHasServed' /\ Holder'
      BY <2>2, StackAssumption
      DEF StackAssumption, IInv, Numbered, NamedHasServed, Holder, TypeOK, Idle, Locking, Alive, Locked, Bases, NoBase,
          CallBase, tasks, base, map, world
    <3>4. Contexts' /\ Leased'
      BY <2>2, StackAssumption
      DEF StackAssumption, IInv, Contexts, Leased, TypeOK, Idle, Locking, Numbered, Holder, Alive, Locked, Bases, NoBase,
          CallBase, tasks, base, map, world
    <3>. QED BY <3>1, <3>2, <3>3, <3>4 DEF IInv
  <2>3. ASSUME NEW t \in Tasks, Acquire(t) PROVE IInv'
    <3>1. TypeOK'
      BY Zenon, <2>3, StackAssumption
      DEF StackAssumption, IInv, TypeOK, Idle, Contexts, Alive, Locked, Bases, NoBase,
          Acquire, tasks, base, map, world
    <3>2. Idle' /\ Locking' /\ Downed'
      BY <2>3, StackAssumption
      DEF StackAssumption, IInv, Idle, Locking, Downed, TypeOK, Alive, Locked, Bases, NoBase,
          Acquire, tasks, base, map, world
    <3>3. Numbered' /\ NamedHasServed' /\ Holder'
      BY SMTT(30), <2>3, StackAssumption
      DEF StackAssumption, IInv, Numbered, NamedHasServed, Holder, TypeOK, Idle, Locking, Alive, Locked, Bases, NoBase,
          Acquire, tasks, base, map, world
    <3>4. Contexts' /\ Leased'
      <4>1. /\ proc' = proc /\ ctx' = ctx /\ slot' = slot /\ torn' = torn /\ pool' = pool
            /\ rollups' = rollups /\ (named' = named \/ ~Alive(named))
            /\ \A u \in Tasks : pc'[u] \in {"have", "fund"} => pc[u] = pc'[u]
        BY <2>3 DEF IInv, TypeOK, Acquire, map, world
      <4>2. Contexts'
        BY <4>1 DEF IInv, Contexts, Alive
      <4>3. Leased'
        BY <4>1 DEF IInv, Leased, Alive
      <4>. QED BY <4>2, <4>3
    <3>. QED BY <3>1, <3>2, <3>3, <3>4 DEF IInv
  <2>4. ASSUME NEW t \in Tasks, Healthy(t) PROVE IInv'
    <3>1. TypeOK'
      BY SMTT(30), <2>4, StackAssumption
      DEF StackAssumption, IInv, TypeOK, Idle, Contexts, Alive, Locked, Bases, NoBase,
          Healthy, tasks, base, map, world
    <3>2. Idle' /\ Locking' /\ Downed'
      BY <2>4, StackAssumption
      DEF StackAssumption, IInv, Idle, Locking, Downed, TypeOK, Alive, Locked, Bases, NoBase,
          Healthy, tasks, base, map, world
    <3>3. Numbered' /\ NamedHasServed' /\ Holder'
      BY <2>4, StackAssumption
      DEF StackAssumption, IInv, Numbered, NamedHasServed, Holder, TypeOK, Idle, Locking, Alive, Locked, Bases, NoBase,
          Healthy, tasks, base, map, world
    <3>4. Contexts' /\ Leased'
      BY <2>4, StackAssumption
      DEF StackAssumption, IInv, Contexts, Leased, TypeOK, Idle, Locking, Numbered, Holder, Alive, Locked, Bases, NoBase,
          Healthy, tasks, base, map, world
    <3>. QED BY <3>1, <3>2, <3>3, <3>4 DEF IInv
  <2>5. ASSUME NEW t \in Tasks, Unhealthy(t) PROVE IInv'
    <3>1. TypeOK'
      BY Zenon, <2>5, StackAssumption
      DEF StackAssumption, IInv, TypeOK, Idle, Contexts, Alive, Locked, Bases, NoBase,
          Unhealthy, Kill, tasks, base, map, world
    <3>2. Idle' /\ Locking' /\ Downed'
      BY <2>5, StackAssumption
      DEF StackAssumption, IInv, Idle, Locking, Downed, TypeOK, Alive, Locked, Bases, NoBase,
          Unhealthy, Kill, tasks, base, map, world
    <3>3. Numbered' /\ NamedHasServed' /\ Holder'
      BY <2>5, StackAssumption
      DEF StackAssumption, IInv, Numbered, NamedHasServed, Holder, TypeOK, Idle, Locking, Alive, Locked, Bases, NoBase,
          Unhealthy, Kill, tasks, base, map, world
    <3>4. Contexts' /\ Leased'
      BY SMTT(30), <2>5, StackAssumption
      DEF StackAssumption, IInv, Contexts, Leased, TypeOK, Idle, Locking, Numbered, Holder, Alive, Locked, Bases, NoBase,
          Unhealthy, Kill, tasks, base, map, world
    <3>. QED BY <3>1, <3>2, <3>3, <3>4 DEF IInv
  <2>6. ASSUME NEW t \in Tasks, BootFails(t) PROVE IInv'
    <3>1. TypeOK'
      BY <2>6, StackAssumption
      DEF StackAssumption, IInv, TypeOK, Idle, Contexts, Alive, Locked, Bases, NoBase,
          BootFails, Fails, tasks, base, map, world
    <3>2. Idle' /\ Locking' /\ Downed'
      BY <2>6, StackAssumption
      DEF StackAssumption, IInv, Idle, Locking, Downed, TypeOK, Alive, Locked, Bases, NoBase,
          BootFails, Fails, tasks, base, map, world
    <3>3. Numbered' /\ NamedHasServed' /\ Holder'
      BY <2>6, StackAssumption
      DEF StackAssumption, IInv, Numbered, NamedHasServed, Holder, TypeOK, Idle, Locking, Alive, Locked, Bases, NoBase,
          BootFails, Fails, tasks, base, map, world
    <3>4. Contexts' /\ Leased'
      BY <2>6, StackAssumption
      DEF StackAssumption, IInv, Contexts, Leased, TypeOK, Idle, Locking, Numbered, Holder, Alive, Locked, Bases, NoBase,
          BootFails, Fails, tasks, base, map, world
    <3>. QED BY <3>1, <3>2, <3>3, <3>4 DEF IInv
  <2>7. ASSUME NEW t \in Tasks, Spawn(t) PROVE IInv'
    <3>1. TypeOK'
      BY SMTT(30), <2>7, StackAssumption
      DEF StackAssumption, IInv, TypeOK, Idle, Contexts, Alive, Locked, Bases, NoBase,
          Spawn, tasks, base, map, world
    <3>2. Idle' /\ Locking' /\ Downed'
      BY <2>7, StackAssumption
      DEF StackAssumption, IInv, Idle, Locking, Downed, TypeOK, Alive, Locked, Bases, NoBase,
          Spawn, tasks, base, map, world
    <3>3. Numbered' /\ NamedHasServed' /\ Holder'
      <4>1. /\ booted \in Nat /\ booted' = booted + 1 /\ named = 0
            /\ \A r \in rollups : r.base \in Nat
            /\ \A u \in Tasks : ctx[u] \in Nat /\ seen[u] \in Nat
        BY SMTT(30), <2>7, StackAssumption
        DEF StackAssumption, IInv, TypeOK, Holder, Bases, NoBase, Spawn
      <4>2. Numbered'
        <5>1. /\ named' = named /\ ctx' = ctx /\ rollups' = rollups
              /\ \A u \in Tasks : seen'[u] = seen[u] \/ seen'[u] = booted'
          BY <2>7 DEF IInv, TypeOK, Spawn, map, world
        <5>2. /\ \A r \in rollups : r.base <= booted
              /\ \A u \in Tasks : ctx[u] <= booted /\ seen[u] <= booted
          BY DEF IInv, Numbered
        <5>. QED BY <4>1, <5>1, <5>2 DEF Numbered
      <4>3. NamedHasServed' /\ Holder'
        BY <2>7, StackAssumption
        DEF StackAssumption, IInv, NamedHasServed, Holder, TypeOK, Locking, Locked, Bases, NoBase,
            Spawn, map, world
      <4>. QED BY <4>2, <4>3
    <3>4. Contexts' /\ Leased'
      BY SMTT(30), <2>7, StackAssumption
      DEF StackAssumption, IInv, Contexts, Leased, TypeOK, Idle, Locking, Numbered, Holder, Alive, Locked, Bases, NoBase,
          Spawn, tasks, base, map, world
    <3>. QED BY <3>1, <3>2, <3>3, <3>4 DEF IInv
  <2>8. ASSUME NEW t \in Tasks, Ready(t) PROVE IInv'
    <3>1. TypeOK'
      BY Zenon, <2>8, StackAssumption
      DEF StackAssumption, IInv, TypeOK, Idle, Contexts, Alive, Locked, Bases, NoBase,
          Ready, tasks, base, map, world
    <3>2. Idle' /\ Locking' /\ Downed'
      BY <2>8, StackAssumption
      DEF StackAssumption, IInv, Idle, Locking, Downed, TypeOK, Alive, Locked, Bases, NoBase,
          Ready, tasks, base, map, world
    <3>3. Numbered' /\ NamedHasServed' /\ Holder'
      BY <2>8, StackAssumption
      DEF StackAssumption, IInv, Numbered, NamedHasServed, Holder, TypeOK, Idle, Locking, Alive, Locked, Bases, NoBase,
          Ready, tasks, base, map, world
    <3>4. Contexts' /\ Leased'
      BY <2>8, StackAssumption
      DEF StackAssumption, IInv, Contexts, Leased, TypeOK, Idle, Locking, Numbered, Holder, Alive, Locked, Bases, NoBase,
          Ready, tasks, base, map, world
    <3>. QED BY <3>1, <3>2, <3>3, <3>4 DEF IInv
  <2>9. ASSUME NEW t \in Tasks, NotReady(t) PROVE IInv'
    <3>1. TypeOK'
      BY SMTT(30), <2>9, StackAssumption
      DEF StackAssumption, IInv, TypeOK, Idle, Contexts, Alive, Locked, Bases, NoBase,
          NotReady, Kill, Fails, tasks, base, map, world
    <3>2. Idle' /\ Locking' /\ Downed'
      BY <2>9, StackAssumption
      DEF StackAssumption, IInv, Idle, Locking, Downed, TypeOK, Alive, Locked, Bases, NoBase,
          NotReady, Kill, Fails, tasks, base, map, world
    <3>3. Numbered' /\ NamedHasServed' /\ Holder'
      BY <2>9, StackAssumption
      DEF StackAssumption, IInv, Numbered, NamedHasServed, Holder, TypeOK, Idle, Locking, Alive, Locked, Bases, NoBase,
          NotReady, Kill, Fails, tasks, base, map, world
    <3>4. Contexts'
      BY <2>9, StackAssumption
      DEF StackAssumption, IInv, Contexts, TypeOK, Idle, Holder, Alive, Locked, Bases, NoBase,
          NotReady, Kill, Fails, tasks, base, map, world
    <3>5. Leased'
      BY <2>9, StackAssumption
      DEF StackAssumption, IInv, Leased, TypeOK, Idle, Holder, Alive, Bases, NoBase,
          NotReady, Kill, Fails, tasks, base, map, world
    <3>. QED BY <3>1, <3>2, <3>3, <3>4, <3>5 DEF IInv
  <2>10. ASSUME NEW t \in Tasks, Publish(t) PROVE IInv'
    <3>1. TypeOK'
      BY Zenon, <2>10, StackAssumption
      DEF StackAssumption, IInv, TypeOK, Idle, Contexts, Alive, Locked, Bases, NoBase,
          Publish, tasks, base, map, world
    <3>2. Idle' /\ Locking' /\ Downed'
      BY <2>10, StackAssumption
      DEF StackAssumption, IInv, Idle, Locking, Downed, TypeOK, Alive, Locked, Bases, NoBase,
          Publish, tasks, base, map, world
    <3>3. Numbered' /\ NamedHasServed' /\ Holder'
      BY <2>10, StackAssumption
      DEF StackAssumption, IInv, Numbered, NamedHasServed, Holder, TypeOK, Idle, Locking, Alive, Locked, Bases, NoBase,
          Publish, tasks, base, map, world
    <3>4. Contexts' /\ Leased'
      BY <2>10, StackAssumption
      DEF StackAssumption, IInv, Contexts, Leased, TypeOK, Idle, Locking, Numbered, Holder, Alive, Locked, Bases, NoBase,
          Publish, tasks, base, map, world
    <3>. QED BY <3>1, <3>2, <3>3, <3>4 DEF IInv
  <2>11. ASSUME NEW t \in Tasks, Assign(t) PROVE IInv'
    <3>1. /\ pool \in Seq(Tasks) /\ PoolSize \in Nat /\ Len(pool) \in Nat /\ Len(pool) <= PoolSize
          /\ torn \in 0 .. MaxTorn /\ MaxTorn \in Nat
      BY StackAssumption DEF StackAssumption, IInv, TypeOK
    <3>2. /\ pool' \in Seq(Tasks) /\ Len(pool') \in Nat
          /\ Len(pool) <= Len(pool') /\ Len(pool') <= PoolSize
          /\ \A i \in 1 .. Len(pool) : i \in 1 .. Len(pool') /\ pool'[i] = pool[i]
      BY <2>11, <3>1 DEF Assign
    <3>3. /\ ctx' = ctx /\ named' = named /\ proc' = proc /\ rollups' = rollups /\ torn' = torn
          /\ pc[t] = "have" /\ pc'[t] = "fund"
          /\ \A u \in Tasks \ {t} : pc'[u] = pc[u] /\ slot'[u] = slot[u]
      BY <2>11 DEF Assign, IInv, TypeOK, base, world
    <3>4. slot'[t] = NextSlot(t)
      BY <2>11 DEF Assign, IInv, TypeOK
    <3>5. /\ slot'[t].torn = torn
          /\ slot'[t].index \in 1 .. Len(pool') /\ pool'[slot'[t].index] = t
      <4>1. CASE Bound(t)
        <5>1. SlotOf(t) \in 1 .. Len(pool) /\ pool[SlotOf(t)] = t
          BY <4>1, <3>1 DEF Bound, SlotOf
        <5>. QED BY <2>11, <4>1, <5>1, <3>2, <3>4 DEF Assign, NextSlot
      <4>2. CASE ~Bound(t)
        BY <2>11, <4>2, <3>1, <3>4 DEF Assign, NextSlot
      <4>. QED BY <4>1, <4>2
    <3>6. slot'[t].index \in 1 .. PoolSize
      BY <3>1, <3>2, <3>5
    <3>7. TypeOK'
      <4>1. slot'[t] \in [index : 0 .. PoolSize, torn : 0 .. MaxTorn]
        BY <3>1, <3>4, <3>5, <3>6 DEF NextSlot
      <4>2. slot' \in [Tasks -> [index : 0 .. PoolSize, torn : 0 .. MaxTorn]]
        BY Zenon, <2>11, <3>4, <4>1 DEF IInv, TypeOK, Assign
      <4>. QED BY <2>11, <3>2, <4>2 DEF IInv, TypeOK, Assign, base, world
    <3>8. Idle' /\ Locking' /\ Downed'
      BY <2>11, StackAssumption
      DEF StackAssumption, IInv, Idle, Locking, Downed, TypeOK, Alive, Locked, Bases, NoBase,
          Assign, tasks, base, map, world
    <3>9. Numbered' /\ NamedHasServed' /\ Holder'
      BY <2>11, StackAssumption
      DEF StackAssumption, IInv, Numbered, NamedHasServed, Holder, TypeOK, Idle, Locking, Alive, Locked, Bases, NoBase,
          Assign, tasks, base, map, world
    <3>10. Contexts'
      <4>. SUFFICES ASSUME NEW u \in Tasks
                    PROVE  /\ Alive(ctx[u])' => (ctx[u] = named)'
                           /\ (pc[u] \in {"have", "fund"})' => (ctx[u] # NoBase)'
                           /\ (pc[u] = "fund")' => (slot[u].index \in 1 .. PoolSize /\ slot[u].torn <= torn)'
                           /\ (pc[u] = "fund" /\ Alive(ctx[u]) /\ slot[u].torn = torn)' =>
                                (slot[u].index \in 1 .. Len(pool) /\ pool[slot[u].index] = u)'
        BY DEF Contexts
      <4>1. CASE u = t
        BY <4>1, <3>1, <3>3, <3>5, <3>6 DEF IInv, Contexts, Alive
      <4>2. CASE u # t
        BY <4>2, <3>2, <3>3 DEF IInv, Contexts, Alive
      <4>. QED BY <4>1, <4>2
    <3>11. Leased'
      BY <3>2, <3>3 DEF IInv, Leased, Alive
    <3>. QED BY <3>7, <3>8, <3>9, <3>10, <3>11 DEF IInv
  <2>12. ASSUME NEW t \in Tasks, AssignFails(t) PROVE IInv'
    <3>1. TypeOK'
      BY <2>12, StackAssumption
      DEF StackAssumption, IInv, TypeOK, Idle, Contexts, Alive, Locked, Bases, NoBase,
          AssignFails, Fails, tasks, base, map, world
    <3>2. Idle' /\ Locking' /\ Downed'
      BY <2>12, StackAssumption
      DEF StackAssumption, IInv, Idle, Locking, Downed, TypeOK, Alive, Locked, Bases, NoBase,
          AssignFails, Fails, tasks, base, map, world
    <3>3. Numbered' /\ NamedHasServed' /\ Holder'
      BY <2>12, StackAssumption
      DEF StackAssumption, IInv, Numbered, NamedHasServed, Holder, TypeOK, Idle, Locking, Alive, Locked, Bases, NoBase,
          AssignFails, Fails, tasks, base, map, world
    <3>4. Contexts' /\ Leased'
      BY <2>12, StackAssumption
      DEF StackAssumption, IInv, Contexts, Leased, TypeOK, Idle, Locking, Numbered, Holder, Alive, Locked, Bases, NoBase,
          AssignFails, Fails, tasks, base, map, world
    <3>. QED BY <3>1, <3>2, <3>3, <3>4 DEF IInv
  <2>13. ASSUME NEW t \in Tasks, Launch(t) PROVE IInv'
    <3>1. TypeOK'
      BY <2>13, StackAssumption
      DEF StackAssumption, IInv, TypeOK, Idle, Contexts, Alive, Locked, Bases, NoBase,
          Launch, Rollup, tasks, base, map, world
    <3>2. Idle' /\ Locking' /\ Downed'
      BY <2>13, StackAssumption
      DEF StackAssumption, IInv, Idle, Locking, Downed, TypeOK, Alive, Locked, Bases, NoBase,
          Launch, Rollup, tasks, base, map, world
    <3>3. Numbered' /\ NamedHasServed' /\ Holder'
      BY <2>13, StackAssumption
      DEF StackAssumption, IInv, Numbered, NamedHasServed, Holder, TypeOK, Idle, Locking, Alive, Locked, Bases, NoBase,
          Launch, Rollup, tasks, base, map, world
    <3>4. Contexts' /\ Leased'
      BY SMTT(30), <2>13, StackAssumption
      DEF StackAssumption, IInv, Contexts, Leased, TypeOK, Idle, Locking, Numbered, Holder, Alive, Locked, Bases, NoBase,
          Launch, Rollup, tasks, base, map, world
    <3>. QED BY <3>1, <3>2, <3>3, <3>4 DEF IInv
  <2>14. ASSUME NEW t \in Tasks, LaunchFails(t) PROVE IInv'
    <3>1. TypeOK'
      BY SMTT(30), <2>14, StackAssumption
      DEF StackAssumption, IInv, TypeOK, Idle, Contexts, Alive, Locked, Bases, NoBase,
          LaunchFails, Fails, tasks, base, map, world
    <3>2. Idle' /\ Locking' /\ Downed'
      BY <2>14, StackAssumption
      DEF StackAssumption, IInv, Idle, Locking, Downed, TypeOK, Alive, Locked, Bases, NoBase,
          LaunchFails, Fails, tasks, base, map, world
    <3>3. Numbered' /\ NamedHasServed' /\ Holder'
      BY <2>14, StackAssumption
      DEF StackAssumption, IInv, Numbered, NamedHasServed, Holder, TypeOK, Idle, Locking, Alive, Locked, Bases, NoBase,
          LaunchFails, Fails, tasks, base, map, world
    <3>4. Contexts' /\ Leased'
      BY <2>14, StackAssumption
      DEF StackAssumption, IInv, Contexts, Leased, TypeOK, Idle, Locking, Numbered, Holder, Alive, Locked, Bases, NoBase,
          LaunchFails, Fails, tasks, base, map, world
    <3>. QED BY <3>1, <3>2, <3>3, <3>4 DEF IInv
  <2>15. ASSUME NEW t \in Tasks, ScenarioEnds(t) PROVE IInv'
    <3>1. TypeOK'
      BY <2>15, StackAssumption
      DEF StackAssumption, IInv, TypeOK, Idle, Contexts, Alive, Locked, Bases, NoBase,
          ScenarioEnds, Rollup, tasks, base, map, world
    <3>2. Idle' /\ Locking' /\ Downed'
      BY <2>15, StackAssumption
      DEF StackAssumption, IInv, Idle, Locking, Downed, TypeOK, Alive, Locked, Bases, NoBase,
          ScenarioEnds, Rollup, tasks, base, map, world
    <3>3. Numbered' /\ NamedHasServed' /\ Holder'
      BY <2>15, StackAssumption
      DEF StackAssumption, IInv, Numbered, NamedHasServed, Holder, TypeOK, Idle, Locking, Alive, Locked, Bases, NoBase,
          ScenarioEnds, Rollup, tasks, base, map, world
    <3>4. Contexts' /\ Leased'
      BY <2>15, StackAssumption
      DEF StackAssumption, IInv, Contexts, Leased, TypeOK, Idle, Locking, Numbered, Holder, Alive, Locked, Bases, NoBase,
          ScenarioEnds, Rollup, tasks, base, map, world
    <3>. QED BY <3>1, <3>2, <3>3, <3>4 DEF IInv
  <2>16. CASE RunEnds
    <3>1. TypeOK'
      BY <2>16, StackAssumption
      DEF StackAssumption, IInv, TypeOK, Idle, Contexts, Alive, Locked, Bases, NoBase,
          RunEnds, FreshTasks, Unbound, tasks, base, map, world
    <3>2. Idle' /\ Locking' /\ Downed'
      BY <2>16, StackAssumption
      DEF StackAssumption, IInv, Idle, Locking, Downed, TypeOK, Alive, Locked, Bases, NoBase,
          RunEnds, FreshTasks, Unbound, tasks, base, map, world
    <3>3. Numbered' /\ NamedHasServed' /\ Holder'
      BY <2>16, StackAssumption
      DEF StackAssumption, IInv, Numbered, NamedHasServed, Holder, TypeOK, Idle, Locking, Alive, Locked, Bases, NoBase,
          RunEnds, FreshTasks, Unbound, tasks, base, map, world
    <3>4. Contexts' /\ Leased'
      BY <2>16, StackAssumption
      DEF StackAssumption, IInv, Contexts, Leased, TypeOK, Idle, Locking, Numbered, Holder, Alive, Locked, Bases, NoBase,
          RunEnds, FreshTasks, Unbound, tasks, base, map, world
    <3>. QED BY <3>1, <3>2, <3>3, <3>4 DEF IInv
  <2>17. CASE Crash
    <3>1. TypeOK'
      BY <2>17, StackAssumption
      DEF StackAssumption, IInv, TypeOK, Idle, Contexts, Alive, Locked, Bases, NoBase,
          Crash, FreshTasks, Unbound, tasks, base, map, world
    <3>2. Idle' /\ Locking' /\ Downed'
      BY <2>17, StackAssumption
      DEF StackAssumption, IInv, Idle, Locking, Downed, TypeOK, Alive, Locked, Bases, NoBase,
          Crash, FreshTasks, Unbound, tasks, base, map, world
    <3>3. Numbered' /\ NamedHasServed' /\ Holder'
      BY <2>17, StackAssumption
      DEF StackAssumption, IInv, Numbered, NamedHasServed, Holder, TypeOK, Idle, Locking, Alive, Locked, Bases, NoBase,
          Crash, FreshTasks, Unbound, tasks, base, map, world
    <3>4. Contexts' /\ Leased'
      BY <2>17, StackAssumption
      DEF StackAssumption, IInv, Contexts, Leased, TypeOK, Idle, Locking, Numbered, Holder, Alive, Locked, Bases, NoBase,
          Crash, FreshTasks, Unbound, tasks, base, map, world
    <3>. QED BY <3>1, <3>2, <3>3, <3>4 DEF IInv
  <2>18. ASSUME NEW b \in Bases, BaseServes(b) PROVE IInv'
    <3>1. TypeOK'
      BY SMTT(30), <2>18, StackAssumption
      DEF StackAssumption, IInv, TypeOK, Idle, Contexts, Alive, Locked, Bases, NoBase,
          BaseServes, tasks, base, map, world
    <3>2. Idle' /\ Locking' /\ Downed'
      BY <2>18, StackAssumption
      DEF StackAssumption, IInv, Idle, Locking, Downed, TypeOK, Alive, Locked, Bases, NoBase,
          BaseServes, tasks, base, map, world
    <3>3. Numbered' /\ NamedHasServed' /\ Holder'
      BY <2>18, StackAssumption
      DEF StackAssumption, IInv, Numbered, NamedHasServed, Holder, TypeOK, Idle, Locking, Alive, Locked, Bases, NoBase,
          BaseServes, tasks, base, map, world
    <3>4. Contexts' /\ Leased'
      BY <2>18, StackAssumption
      DEF StackAssumption, IInv, Contexts, Leased, TypeOK, Idle, Locking, Numbered, Holder, Alive, Locked, Bases, NoBase,
          BaseServes, tasks, base, map, world
    <3>. QED BY <3>1, <3>2, <3>3, <3>4 DEF IInv
  <2>19. ASSUME NEW b \in Bases, BaseDies(b) PROVE IInv'
    <3>1. TypeOK'
      BY Zenon, <2>19, StackAssumption
      DEF StackAssumption, IInv, TypeOK, Idle, Contexts, Alive, Locked, Bases, NoBase,
          BaseDies, tasks, base, map, world
    <3>2. Idle' /\ Locking' /\ Downed'
      BY <2>19, StackAssumption
      DEF StackAssumption, IInv, Idle, Locking, Downed, TypeOK, Alive, Locked, Bases, NoBase,
          BaseDies, tasks, base, map, world
    <3>3. Numbered' /\ NamedHasServed' /\ Holder'
      BY <2>19, StackAssumption
      DEF StackAssumption, IInv, Numbered, NamedHasServed, Holder, TypeOK, Idle, Locking, Alive, Locked, Bases, NoBase,
          BaseDies, tasks, base, map, world
    <3>4. Contexts' /\ Leased'
      BY SMTT(30), <2>19, StackAssumption
      DEF StackAssumption, IInv, Contexts, Leased, TypeOK, Idle, Locking, Numbered, Holder, Alive, Locked, Bases, NoBase,
          BaseDies, tasks, base, map, world
    <3>. QED BY <3>1, <3>2, <3>3, <3>4 DEF IInv
  <2>20. CASE DownBase
    <3>1. TypeOK'
      BY SMTT(30), <2>20, StackAssumption
      DEF StackAssumption, IInv, TypeOK, Idle, Contexts, Alive, Locked, Bases, NoBase,
          DownBase, Kill, tasks, base, map, world
    <3>2. Idle' /\ Locking' /\ Downed'
      BY <2>20, StackAssumption
      DEF StackAssumption, IInv, Idle, Locking, Downed, TypeOK, Alive, Locked, Bases, NoBase,
          DownBase, Kill, tasks, base, map, world
    <3>3. Numbered' /\ NamedHasServed' /\ Holder'
      BY <2>20, StackAssumption
      DEF StackAssumption, IInv, Numbered, NamedHasServed, Holder, TypeOK, Idle, Locking, Alive, Locked, Bases, NoBase,
          DownBase, Kill, tasks, base, map, world
    <3>4. Contexts'
      BY <2>20, StackAssumption
      DEF StackAssumption, IInv, Contexts, TypeOK, Idle, Alive, Bases, NoBase,
          DownBase, Kill, tasks, base, map, world
    <3>5. Leased'
      BY SMTT(30), <2>20, StackAssumption
      DEF StackAssumption, IInv, Leased, TypeOK, Idle, Alive, Bases, NoBase,
          DownBase, Kill, tasks, base, map, world
    <3>. QED BY <3>1, <3>2, <3>3, <3>4, <3>5 DEF IInv
  <2>21. CASE DownSweeps
    <3>1. TypeOK'
      BY <2>21, StackAssumption
      DEF StackAssumption, IInv, TypeOK, Idle, Contexts, Alive, Locked, Bases, NoBase,
          DownSweeps, tasks, base, map, world
    <3>2. Idle' /\ Locking' /\ Downed'
      BY <2>21, StackAssumption
      DEF StackAssumption, IInv, Idle, Locking, Downed, TypeOK, Alive, Locked, Bases, NoBase,
          DownSweeps, tasks, base, map, world
    <3>3. Numbered' /\ NamedHasServed' /\ Holder'
      BY <2>21, StackAssumption
      DEF StackAssumption, IInv, Numbered, NamedHasServed, Holder, TypeOK, Idle, Locking, Alive, Locked, Bases, NoBase,
          DownSweeps, tasks, base, map, world
    <3>4. Contexts' /\ Leased'
      BY <2>21, StackAssumption
      DEF StackAssumption, IInv, Contexts, Leased, TypeOK, Idle, Locking, Numbered, Holder, Alive, Locked, Bases, NoBase,
          DownSweeps, tasks, base, map, world
    <3>. QED BY <3>1, <3>2, <3>3, <3>4 DEF IInv
  <2>22. CASE DownWipes
    <3>1. TypeOK'
      BY <2>22, StackAssumption
      DEF StackAssumption, IInv, TypeOK, Idle, Contexts, Alive, Locked, Bases, NoBase,
          DownWipes, tasks, base, map, world
    <3>2. Idle' /\ Locking' /\ Downed'
      BY <2>22, StackAssumption
      DEF StackAssumption, IInv, Idle, Locking, Downed, TypeOK, Alive, Locked, Bases, NoBase,
          DownWipes, tasks, base, map, world
    <3>3. Numbered' /\ NamedHasServed' /\ Holder'
      BY <2>22, StackAssumption
      DEF StackAssumption, IInv, Numbered, NamedHasServed, Holder, TypeOK, Idle, Locking, Alive, Locked, Bases, NoBase,
          DownWipes, tasks, base, map, world
    <3>4. Contexts' /\ Leased'
      BY <2>22, StackAssumption
      DEF StackAssumption, IInv, Contexts, Leased, TypeOK, Idle, Locking, Numbered, Holder, Alive, Locked, Bases, NoBase,
          DownWipes, tasks, base, map, world
    <3>. QED BY <3>1, <3>2, <3>3, <3>4 DEF IInv
  <2>23. CASE DownEnds
    <3>1. TypeOK'
      BY SMTT(30), <2>23, StackAssumption
      DEF StackAssumption, IInv, TypeOK, Idle, Contexts, Alive, Locked, Bases, NoBase,
          DownEnds, tasks, base, map, world
    <3>2. Idle' /\ Locking' /\ Downed'
      BY <2>23, StackAssumption
      DEF StackAssumption, IInv, Idle, Locking, Downed, TypeOK, Alive, Locked, Bases, NoBase,
          DownEnds, tasks, base, map, world
    <3>3. Numbered' /\ NamedHasServed' /\ Holder'
      BY <2>23, StackAssumption
      DEF StackAssumption, IInv, Numbered, NamedHasServed, Holder, TypeOK, Idle, Locking, Alive, Locked, Bases, NoBase,
          DownEnds, tasks, base, map, world
    <3>4. Contexts' /\ Leased'
      BY <2>23, StackAssumption
      DEF StackAssumption, IInv, Contexts, Leased, TypeOK, Idle, Locking, Numbered, Holder, Alive, Locked, Bases, NoBase,
          DownEnds, tasks, base, map, world
    <3>. QED BY <3>1, <3>2, <3>3, <3>4 DEF IInv
  <2>24. ASSUME NEW t \in Tasks, AssignTorn(t) PROVE IInv'
    <3>1. TypeOK'
      BY <2>24, StackAssumption
      DEF StackAssumption, IInv, TypeOK, Idle, Contexts, Alive, Locked, Bases, NoBase,
          AssignTorn, MapTorn, Fails, tasks, base, map, world
    <3>2. Idle' /\ Locking' /\ Downed'
      BY <2>24, StackAssumption
      DEF StackAssumption, IInv, Idle, Locking, Downed, TypeOK, Alive, Locked, Bases, NoBase,
          AssignTorn, MapTorn, Fails, tasks, base, map, world
    <3>3. Numbered' /\ NamedHasServed' /\ Holder'
      BY <2>24, StackAssumption
      DEF StackAssumption, IInv, Numbered, NamedHasServed, Holder, TypeOK, Idle, Locking, Alive, Locked, Bases, NoBase,
          AssignTorn, MapTorn, Fails, tasks, base, map, world
    <3>4. Contexts' /\ Leased'
      <4>1. /\ torn \in Nat /\ torn' = torn + 1 /\ rollups' = rollups /\ ctx' = ctx /\ slot' = slot
            /\ proc' = proc /\ named' = named
            /\ \A u \in Tasks : pc'[u] \in {"have", "fund"} => pc[u] = pc'[u]
        BY <2>24, StackAssumption
        DEF StackAssumption, IInv, TypeOK, AssignTorn, MapTorn, Fails, base, world
      <4>2. /\ \A u \in Tasks : slot[u].torn \in Nat
            /\ \A r \in rollups : r.torn \in Nat
        BY StackAssumption DEF StackAssumption, IInv, TypeOK
      <4>3. Contexts'
        BY <4>1, <4>2 DEF IInv, Contexts, Alive
      <4>4. Leased'
        BY <4>1, <4>2 DEF IInv, Leased, Alive
      <4>. QED BY <4>3, <4>4
    <3>. QED BY <3>1, <3>2, <3>3, <3>4 DEF IInv
  <2>25. ASSUME NEW t \in Tasks, CrashTorn(t) PROVE IInv'
    <3>1. TypeOK'
      BY <2>25, StackAssumption
      DEF StackAssumption, IInv, TypeOK, Idle, Contexts, Alive, Locked, Bases, NoBase,
          CrashTorn, MapTorn, FreshTasks, Unbound, tasks, base, map, world
    <3>2. Idle' /\ Locking' /\ Downed'
      BY <2>25, StackAssumption
      DEF StackAssumption, IInv, Idle, Locking, Downed, TypeOK, Alive, Locked, Bases, NoBase,
          CrashTorn, MapTorn, FreshTasks, Unbound, tasks, base, map, world
    <3>3. Numbered' /\ NamedHasServed' /\ Holder'
      BY <2>25, StackAssumption
      DEF StackAssumption, IInv, Numbered, NamedHasServed, Holder, TypeOK, Idle, Locking, Alive, Locked, Bases, NoBase,
          CrashTorn, MapTorn, FreshTasks, Unbound, tasks, base, map, world
    <3>4. Contexts' /\ Leased'
      <4>1. /\ torn \in Nat /\ torn' = torn + 1 /\ rollups' = rollups
            /\ proc' = proc /\ named' = named
            /\ \A u \in Tasks : pc'[u] = "idle" /\ ctx'[u] = NoBase
        BY <2>25, StackAssumption
        DEF StackAssumption, IInv, TypeOK, CrashTorn, MapTorn, FreshTasks, base, world
      <4>2. \A r \in rollups : r.torn \in Nat
        BY StackAssumption DEF StackAssumption, IInv, TypeOK
      <4>3. Contexts'
        BY <4>1, <4>2 DEF IInv, Contexts, Alive
      <4>4. Leased'
        BY <4>1, <4>2 DEF IInv, Leased, Alive
      <4>. QED BY <4>3, <4>4
    <3>. QED BY <3>1, <3>2, <3>3, <3>4 DEF IInv
  <2>. QED BY <1>1, <2>1, <2>2, <2>3, <2>4, <2>5, <2>6, <2>7, <2>8, <2>9, <2>10, <2>11, <2>12,
     <2>13, <2>14, <2>15, <2>16, <2>17, <2>18, <2>19, <2>20, <2>21, <2>22, <2>23,
     <2>24, <2>25 DEF Next, TaskStep
<1>2. CASE UNCHANGED vars
  BY <1>2 DEF IInv, TypeOK, Idle, Locking, Numbered, NamedHasServed, Holder, Contexts, Leased, Downed, Alive, vars
<1>. QED BY <1>1, <1>2

\* The inductive invariant holds in every state of the stack.
THEOREM Invariance == Spec => []IInv
<1>1. Init => IInv
  BY StackAssumption
  DEF StackAssumption, Init, IInv, TypeOK, Idle, Locking, Numbered, NamedHasServed, Holder,
      Contexts, Leased, Downed, Alive, Locked, Bases, NoBase, Unbound
<1>. QED BY <1>1, Step, PTL DEF Spec

\* Type correctness of the files, the processes and the tasks.
THEOREM TypeCorrect == Spec => []TypeOK
<1>1. IInv => TypeOK
  BY DEF IInv
<1>. QED BY <1>1, Invariance, PTL

\* base_only under the stack lock gives all scenarios the same living base,
\* and state.json only ever names a base that has served.
THEOREM BaseCorrect == Spec => [](BasesAgree /\ NamedHasServed)
<1>1. IInv => BasesAgree /\ NamedHasServed
  BY DEF IInv, Contexts, BasesAgree
<1>. QED BY <1>1, Invariance, PTL

\* Every step keeps the claims on identities of one living base distinct.
LEMMA DistinctStep == IInv /\ Distinct /\ [Next]_vars => Distinct'
<1>. SUFFICES ASSUME IInv, Distinct, [Next]_vars PROVE Distinct'
  OBVIOUS
<1>1. \A c \in Claims : c.base \in Bases /\ c.base <= booted
  BY SMTT(30) DEF IInv, TypeOK, Numbered, Contexts, Claims, Rollup, NoBase
<1>2. \A b \in Bases : b <= booted /\ Alive(b)' => Alive(b)
  <2>. USE StackAssumption DEF StackAssumption, IInv, TypeOK, Bases, Alive, NoBase
  <2>1. ASSUME NEW t \in Tasks, Unhealthy(t) \/ NotReady(t)
        PROVE  \A b \in Bases : Alive(b)' => Alive(b)
    BY SMTT(30), <2>1 DEF Unhealthy, NotReady, Kill
  <2>2. ASSUME NEW t \in Tasks, Spawn(t)
        PROVE  \A b \in Bases : b <= booted /\ Alive(b)' => Alive(b)
    BY <2>2 DEF Spawn
  <2>3. ASSUME NEW c \in Bases, BaseServes(c) \/ BaseDies(c)
        PROVE  \A b \in Bases : Alive(b)' => Alive(b)
    BY <2>3 DEF BaseServes, BaseDies
  <2>4. CASE DownBase \/ DownSweeps
    BY <2>4 DEF DownBase, DownSweeps, Kill
  <2>5. CASE proc' = proc
    BY <2>5
  <2>. QED BY <2>1, <2>2, <2>3, <2>4, <2>5 DEF Next, TaskStep, vars, base,
      Invoke, CallBase, Acquire, Healthy, BootFails, Ready, Publish, Assign, AssignTorn, CrashTorn,
      AssignFails, Launch, LaunchFails, ScenarioEnds, RunEnds, Crash, DownWipes, DownEnds
<1>3. ASSUME NEW t \in Tasks, Assign(t) PROVE Distinct'
  <2>1. Claims' \subseteq Claims \cup {Rollup(t)'}
    BY <1>3 DEF Assign, IInv, TypeOK, Claims, Rollup, base, world
  <2>. DEFINE c == Rollup(t)'
  <2>2. /\ c.torn = torn /\ c.slot \in 1 .. Len(pool') /\ pool'[c.slot] = t /\ c.label = t
        /\ torn' = torn
        /\ \A i \in 1 .. Len(pool) : pool'[i] = pool[i]
    <3>1. pool \in Seq(Tasks) /\ Len(pool) \in Nat
      BY DEF IInv, TypeOK
    <3>2. slot'[t] = NextSlot(t)
      BY <1>3 DEF Assign, IInv, TypeOK
    <3>3. CASE Bound(t)
      <4>1. SlotOf(t) \in 1 .. Len(pool) /\ pool[SlotOf(t)] = t
        BY <3>1, <3>3 DEF Bound, SlotOf
      <4>2. pool' = pool /\ torn' = torn
        BY <1>3, <3>3 DEF Assign
      <4>3. c.slot = SlotOf(t) /\ c.torn = torn /\ c.label = t
        BY <3>2, <3>3 DEF NextSlot, Rollup
      <4>. QED BY <4>1, <4>2, <4>3
    <3>4. CASE ~Bound(t)
      <4>1. pool' = Append(pool, t) /\ torn' = torn
        BY <1>3, <3>4 DEF Assign
      <4>2. c.slot = Len(pool) + 1 /\ c.torn = torn /\ c.label = t
        BY <3>2, <3>4 DEF NextSlot, Rollup
      <4>3. /\ Len(pool') = Len(pool) + 1 /\ pool'[Len(pool) + 1] = t
            /\ \A i \in 1 .. Len(pool) : pool'[i] = pool[i]
        BY <3>1, <4>1
      <4>. QED BY <3>1, <4>1, <4>2, <4>3
    <3>. QED BY <3>3, <3>4
  <2>3. \A r \in Claims : Alive(r.base) /\ r.torn = torn =>
          r.slot \in 1 .. Len(pool) /\ pool[r.slot] = r.label
    <3>. SUFFICES ASSUME NEW r \in Claims, Alive(r.base), r.torn = torn
                  PROVE  r.slot \in 1 .. Len(pool) /\ pool[r.slot] = r.label
      OBVIOUS
    <3>1. CASE r \in rollups
      BY <3>1 DEF IInv, Leased
    <3>2. CASE r \notin rollups
      <4>1. PICK u \in Tasks : pc[u] = "fund" /\ r = Rollup(u)
        BY <3>2 DEF Claims
      <4>2. r.base = ctx[u] /\ r.torn = slot[u].torn /\ r.slot = slot[u].index /\ r.label = u
        BY <4>1 DEF Rollup
      <4>. QED BY <4>1, <4>2 DEF IInv, Contexts
    <3>. QED BY <3>1, <3>2
  <2>4. \A b : Alive(b)' <=> Alive(b)
    BY <1>3 DEF Assign, Alive, base
  <2>. HIDE DEF c
  <2>. QED BY <2>1, <2>2, <2>3, <2>4 DEF Distinct, c
<1>4. ASSUME NEW t \in Tasks, Launch(t) PROVE Claims' \subseteq Claims
  BY SMTT(30), <1>4 DEF Launch, IInv, TypeOK, Claims, Rollup
<1>5. ASSUME ~(\E t \in Tasks : Assign(t) \/ Launch(t)) PROVE Claims' \subseteq Claims
  <2>1. rollups' \subseteq rollups
    <3>1. ASSUME NEW t \in Tasks, TaskStep(t) PROVE rollups' \subseteq rollups
      <4>1. CASE CallBase(t) \/ Acquire(t) \/ Healthy(t) \/ Unhealthy(t) \/ BootFails(t)
                   \/ Spawn(t) \/ Ready(t)
        BY <4>1 DEF CallBase, Acquire, Healthy, Unhealthy, BootFails, Spawn, Ready, world
      <4>2. CASE NotReady(t) \/ Publish(t) \/ AssignTorn(t) \/ AssignFails(t)
                   \/ LaunchFails(t) \/ ScenarioEnds(t)
        BY <4>2 DEF NotReady, Publish, AssignTorn, AssignFails, LaunchFails, ScenarioEnds, world
      <4>. QED BY Zenon, <1>5, <3>1, <4>1, <4>2 DEF TaskStep
    <3>2. CASE Invoke \/ RunEnds \/ Crash \/ \E t \in Tasks : CrashTorn(t)
      BY <3>2 DEF Invoke, RunEnds, Crash, CrashTorn, world
    <3>3. CASE \E b \in Bases : BaseServes(b) \/ BaseDies(b)
      BY <3>3 DEF BaseServes, BaseDies, world
    <3>4. CASE DownBase \/ DownSweeps \/ DownWipes \/ DownEnds
      BY <3>4 DEF DownBase, DownSweeps, DownWipes, DownEnds, world
    <3>5. CASE UNCHANGED vars
      BY <3>5 DEF vars, world
    <3>. QED BY Zenon, <3>1, <3>2, <3>3, <3>4, <3>5 DEF Next
  <2>2. \A u \in Tasks : pc'[u] = "fund" => pc[u] = "fund" /\ Rollup(u)' = Rollup(u)
    <3>1. CASE FreshTasks
      BY SMTT(30), <3>1 DEF FreshTasks
    <3>2. ASSUME NEW t \in Tasks, TaskStep(t)
          PROVE  /\ run' = run /\ slot' = slot /\ pc'[t] # "fund"
                 /\ \A u \in Tasks \ {t} : pc'[u] = pc[u] /\ ctx'[u] = ctx[u]
      <4>. USE DEF IInv, TypeOK, Fails
      <4>1. CASE CallBase(t) \/ Acquire(t) \/ Healthy(t) \/ Unhealthy(t)
        BY <4>1 DEF CallBase, Acquire, Healthy, Unhealthy
      <4>2. CASE BootFails(t) \/ Spawn(t) \/ Ready(t) \/ NotReady(t)
        BY <4>2 DEF BootFails, Spawn, Ready, NotReady
      <4>3. CASE Publish(t) \/ AssignTorn(t) \/ AssignFails(t)
        BY <4>3 DEF Publish, AssignTorn, AssignFails
      <4>4. CASE LaunchFails(t) \/ ScenarioEnds(t)
        BY <4>4 DEF LaunchFails, ScenarioEnds
      <4>. HIDE DEF IInv, TypeOK, Fails
      <4>. QED BY Zenon, <1>5, <3>2, <4>1, <4>2, <4>3, <4>4 DEF TaskStep
    <3>3. CASE UNCHANGED <<run, tasks>>
      BY <3>3 DEF tasks, Rollup
    <3>4. FreshTasks \/ (\E t \in Tasks : TaskStep(t)) \/ UNCHANGED <<run, tasks>>
      BY DEF Next, vars, tasks, Invoke, CrashTorn, RunEnds, Crash, BaseServes, BaseDies, DownBase,
        DownSweeps, DownWipes, DownEnds
    <3>. HIDE DEF TaskStep, FreshTasks, tasks
    <3>. QED BY Zenon, <3>1, <3>2, <3>3, <3>4 DEF Rollup
  <2>. QED BY <2>1, <2>2 DEF Claims
<1>6. ASSUME Claims' \subseteq Claims PROVE Distinct'
  BY <1>1, <1>2, <1>6 DEF Distinct
<1>. QED BY <1>3, <1>4, <1>5, <1>6

\* Rollups with different labels on one living base have different identities,
\* however often bases were replaced and runs killed before, unless a write of
\* the map was cut short between the two.
THEOREM IdentityCorrect == Spec => []IdentitiesDistinct
<1>1. Init => Distinct
  BY DEF Init, Distinct, Claims
<1>2. Distinct => IdentitiesDistinct
  BY DEF Distinct, IdentitiesDistinct, Claims
<1>. QED BY <1>1, <1>2, DistinctStep, Invariance, PTL DEF Spec

\* While state.json names a base, identity_for_label only extends the map,
\* unless its write is cut short.
THEOREM AssignmentCorrect == Spec => AssignmentsOnlyGrow
<1>1. IInv /\ [Next]_vars =>
        [named' # NoBase /\ torn' = torn =>
           /\ Len(pool) <= Len(pool')
           /\ \A i \in 1 .. Len(pool) : pool'[i] = pool[i]]_vars
  <2>. SUFFICES ASSUME IInv, [Next]_vars, named' # NoBase, torn' = torn
                PROVE  /\ Len(pool) <= Len(pool')
                       /\ \A i \in 1 .. Len(pool) : pool'[i] = pool[i]
    OBVIOUS
  <2>1. pool \in Seq(Tasks) /\ Len(pool) \in Nat /\ torn \in Nat
    BY StackAssumption DEF StackAssumption, IInv, TypeOK
  <2>2. CASE pool' = pool
    BY <2>1, <2>2
  <2>3. ASSUME NEW t \in Tasks, Assign(t)
        PROVE  /\ Len(pool) <= Len(pool')
               /\ \A i \in 1 .. Len(pool) : pool'[i] = pool[i]
    BY <2>1, <2>3 DEF Assign
  <2>4. ASSUME NEW t \in Tasks, Spawn(t)
        PROVE  FALSE
    BY <2>4 DEF IInv, Holder, Spawn
  <2>5. ASSUME NEW t \in Tasks, MapTorn(t)
        PROVE  FALSE
    BY SMTT(30), <2>1, <2>5 DEF MapTorn
  <2>6. \/ pool' = pool
        \/ \E t \in Tasks : Assign(t) \/ Spawn(t) \/ MapTorn(t)
    BY DEF Next, TaskStep, Invoke, CallBase, Acquire, Healthy, Unhealthy, BootFails, Ready,
           NotReady, Publish, AssignTorn, CrashTorn, AssignFails, Launch, LaunchFails, ScenarioEnds,
           RunEnds, Crash, BaseServes, BaseDies, DownBase, DownSweeps, DownWipes, DownEnds, map, vars
  <2>. QED BY <2>2, <2>3, <2>4, <2>5, <2>6
<1>. QED BY <1>1, Invariance, PTL DEF Spec, AssignmentsOnlyGrow

\* After `stack down` no process and no storage of the stack is left.
THEOREM DownCorrect == Spec => []DownLeavesNothing
<1>1. IInv => DownLeavesNothing
  BY SMTT(30) DEF IInv, Downed, DownLeavesNothing
<1>. QED BY <1>1, Invariance, PTL
-----------------------------------------------------------------------------
\* The child is the process spawned last, and the recorded one.
Child ==
  /\ child # NoChild => child = spawned /\ pid = child /\ record.pid = child
  /\ stage \in {"wait", "dying"} => child # NoChild
  /\ stage \in {"launch", "over"} => child = NoChild
  /\ stage # "launch" /\ stage # "over" => record.pid \in Spawns /\ pid \in Spawns

\* What is not the child does not live.
Alone == \A i \in Spawns : status[i] \in Live => i = child

\* A record is closed while there is a child only between reclaim and drop.
Closed ==
  child # NoChild /\ record.finished =>
    stage = "lateDrop" /\ status[child] \in {"kill", "exited"}

Stored == stage \in {"launch", "lateDrop", "over"} /\ directory => warned

RollupInv == RollupTypeOK /\ Child /\ Alone /\ Closed /\ Stored

\* Every operation, cancellation and exit keeps the invariant.
LEMMA RollupStep == RollupInv /\ [RollupNext]_rollupVars => RollupInv'
<1>. SUFFICES ASSUME RollupInv, [RollupNext]_rollupVars PROVE RollupInv'
  OBVIOUS
<1>. USE RollupAssumption DEF RollupAssumption, RollupInv, RollupTypeOK, Child, Alone, Closed, Stored,
       NoChild, Spawns, Live, Exited, owned, storageVars, RemoveStorage
<1>1. CASE LaunchRollup
  BY <1>1 DEF LaunchRollup, SpawnValidator
<1>2. CASE RollupLaunchFails
  BY <1>2 DEF RollupLaunchFails
<1>3. CASE ReadyOk
  BY <1>3 DEF ReadyOk
<1>4. CASE ReadyFails
  BY <1>4 DEF ReadyFails
<1>5. ASSUME NEW call \in {"stop", "restart", "finish"}, TerminateExited(call)
      PROVE  RollupInv'
  BY <1>5 DEF TerminateExited
<1>6. ASSUME NEW call \in {"stop", "restart", "finish"}, NEW hard \in BOOLEAN,
             Terminate(call, hard)
      PROVE  RollupInv'
  BY <1>6 DEF Terminate
<1>7. CASE Reap
  <2>1. CASE op = "restart" /\ Relaunch
    BY <1>7, <2>1 DEF Reap, Relaunch, SpawnValidator
  <2>2. CASE child' = NoChild /\ record' = [record EXCEPT !.finished = TRUE]
             /\ stage' \in {"idle", "drop"} /\ UNCHANGED <<status, spawned, pid, warned>>
             /\ directory' \in {FALSE, directory}
    <3>1. record' \in [pid : 0 .. MaxSpawns, finished : BOOLEAN] /\ record'.pid = record.pid
      BY Zenon, <2>2
    <3>2. directory' \in BOOLEAN
      BY <2>2, Zenon
    <3>3. RollupTypeOK'
      BY <1>7, <2>2, <3>1, <3>2 DEF Reap
    <3>4. (Child /\ Alone /\ Closed /\ Stored)'
      BY <1>7, <2>2, <3>1 DEF Reap
    <3>. QED
      BY <3>3, <3>4
  <2>. QED
    BY Zenon, <1>7, <2>1, <2>2 DEF Reap, Terminated
<1>8. CASE Escalate
  BY <1>8 DEF Escalate
<1>9. CASE GiveUp
  BY <1>9 DEF GiveUp
<1>10. CASE Cancel
  BY <1>10 DEF Cancel
<1>11. CASE FinishStopped
  BY Zenon, <1>11 DEF FinishStopped
<1>12. CASE Start
  BY <1>12 DEF Start, Relaunch, SpawnValidator
<1>13. CASE ResetStorage
  BY Zenon, <1>13 DEF ResetStorage
<1>14. CASE BodyEnds
  BY <1>14 DEF BodyEnds
<1>15. CASE Drop
  <2>1. CASE child = NoChild
    BY <1>15, <2>1 DEF Drop
  <2>2. CASE child # NoChild
    <3>1. record' \in [pid : 0 .. MaxSpawns, finished : BOOLEAN] /\ record'.pid = record.pid
      BY Zenon, <1>15, <2>2 DEF Drop
    <3>2. RollupTypeOK'
      BY <1>15, <2>2, <3>1 DEF Drop
    <3>3. (Child /\ Alone /\ Closed /\ Stored)'
      BY <1>15, <2>2, <3>1 DEF Drop
    <3>. QED
      BY <3>2, <3>3
  <2>. QED
    BY <2>1, <2>2
<1>16. CASE Reclaim
  <2>1. CASE ~record.finished /\ status[record.pid] \in Live
    BY Zenon, <1>16, <2>1 DEF Reclaim
  <2>2. CASE ~(~record.finished /\ status[record.pid] \in Live)
    BY Zenon, <1>16, <2>2 DEF Reclaim
  <2>. QED
    BY <2>1, <2>2
<1>17. ASSUME NEW i \in Spawns, Exits(i) PROVE RollupInv'
  BY <1>17 DEF Exits
<1>18. CASE UNCHANGED rollupVars
  BY <1>18 DEF rollupVars
<1>. QED
  BY Zenon, <1>1, <1>2, <1>3, <1>4, <1>5, <1>6, <1>7, <1>8, <1>9, <1>10, <1>11, <1>12,
     <1>13, <1>14, <1>15, <1>16, <1>17, <1>18 DEF RollupNext

\* The invariant holds throughout.
THEOREM RollupInvariance == RollupSpec => []RollupInv
<1>1. RollupInit => RollupInv
  <2>1. RollupInit => RollupTypeOK
    <3>. SUFFICES ASSUME RollupInit PROVE RollupTypeOK
      OBVIOUS
    <3>1. directory \in BOOLEAN /\ record.finished \in BOOLEAN
      BY Zenon DEF RollupInit
    <3>2. record \in [pid : 0 .. MaxSpawns, finished : BOOLEAN]
      BY RollupAssumption DEF RollupAssumption, RollupInit
    <3>3. status \in [Spawns -> Live \cup {"absent", "exited"}]
      BY DEF RollupInit
    <3>. QED
      BY Zenon, RollupAssumption, <3>1, <3>2, <3>3 DEF RollupAssumption, RollupInit, RollupTypeOK, NoChild
  <2>2. RollupInit => Child /\ Closed /\ Stored
    BY DEF RollupInit, Child, Closed, Stored, NoChild
  <2>3. RollupInit => Alone
    BY DEF RollupInit, Alone, Live
  <2>. QED
    BY <2>1, <2>2, <2>3 DEF RollupInv
<1>. QED
  BY <1>1, RollupStep, PTL DEF RollupSpec

\* The rollup and its records keep their types.
THEOREM RollupTypeCorrect == RollupSpec => []RollupTypeOK
<1>1. RollupInv => RollupTypeOK
  BY DEF RollupInv
<1>. QED
  BY <1>1, RollupInvariance, PTL

\* What runs is owned and recorded (Owned and ResourceRecord), through any
\* number of restarts, failed stops and dropped futures.
THEOREM RecordCorrect == RollupSpec => []RunningIsRecorded
<1>1. RollupInv => RunningIsRecorded
  BY RollupAssumption
  DEF RollupAssumption, RollupInv, RollupTypeOK, Child, Alone, Closed, RunningIsRecorded, NoChild, Spawns, Live
<1>. QED
  BY <1>1, RollupInvariance, PTL

\* At most one process lives on the storage directory.
THEOREM ProcessCorrect == RollupSpec => []OneProcess
<1>1. RollupInv => OneProcess
  <2>. SUFFICES ASSUME RollupInv PROVE OneProcess
    OBVIOUS
  <2>. DEFINE living == {i \in Spawns : status[i] \in Live}
  <2>1. living \subseteq {child}
    BY DEF RollupInv, Alone
  <2>2. IsFiniteSet({child}) /\ Cardinality({child}) = 1
    BY Zenon, FS_Singleton
  <2>3. Cardinality(living) <= 1
    <3>. HIDE DEF living
    <3>. QED BY <2>1, <2>2, FS_Subset
  <2>. QED
    BY <2>3 DEF OneProcess
<1>. QED
  BY <1>1, RollupInvariance, PTL

\* When the scenario is over, neither process nor directory is left, except a
\* directory that reclaim could not remove and has warned about.
THEOREM ReclaimCorrect == RollupSpec => []NothingLeftBehind
<1>1. RollupInv => NothingLeftBehind
  BY DEF RollupInv, RollupTypeOK, Child, Alone, Stored, NothingLeftBehind, NoChild, Spawns, Live
<1>. QED
  BY <1>1, RollupInvariance, PTL

\* finish, reset_storage and reclaim never remove the directory under a process
\* that has not been killed.
THEOREM StorageCorrect == RollupSpec => StorageNotPulled
<1>1. RollupInv /\ [RollupNext]_rollupVars =>
        [directory /\ ~directory' => \A i \in Spawns : status'[i] \notin {"running", "term"}]_rollupVars
  <2>. SUFFICES ASSUME RollupInv, RollupNext, directory, ~directory', NEW i \in Spawns
                PROVE  status'[i] \notin {"running", "term"}
    BY DEF rollupVars
  <2>. USE RollupAssumption DEF RollupAssumption, RollupInv, RollupTypeOK, Child, Alone, Closed,
         NoChild, Spawns, Live, Exited, owned, storageVars, RemoveStorage
  <2>1. CASE Reap
    BY Zenon, <2>1 DEF Reap, Terminated, Relaunch, SpawnValidator
  <2>2. CASE FinishStopped \/ ResetStorage
    <3>1. child = NoChild /\ status' = status
      BY Zenon, <2>2 DEF FinishStopped, ResetStorage
    <3>. QED BY <3>1
  <2>3. CASE Reclaim
    BY <2>3 DEF Reclaim
  <2>. QED
    BY Zenon, <2>1, <2>2, <2>3
    DEF RollupNext, LaunchRollup, RollupLaunchFails, ReadyOk, ReadyFails, TerminateExited, Terminate, Escalate,
        GiveUp, Cancel, Start, Relaunch, SpawnValidator, BodyEnds, Drop, Exits
<1>. QED
  BY <1>1, RollupInvariance, PTL DEF RollupSpec, StorageNotPulled
=============================================================================
