-------------------------------- MODULE Lanes --------------------------------
(***************************************************************************)
(* scheduler/mixed_sustained_load of redline and its driver.  Workers own   *)
(* disjoint spans of lanes (accounts), go round them, and write each lane   *)
(* in the order of the ids by holding its lock from preparing to the        *)
(* answer.  They stop at different rounds; `summarize` reconstructs from    *)
(* their counts which id every lane must end with and how many transactions *)
(* of each mode were sent, and the scenario checks the ER against it.       *)
(*                                                                          *)
(* The ER is external: it executes what it accepted on a lane in that       *)
(* order.  Rate and concurrency are Runner's and Pacer's.                   *)
(***************************************************************************)
EXTENDS Integers, Sequences, FiniteSets, SequencesExt, FiniteSetsExt

CONSTANTS
  Lanes,        \* accounts of the pool
  Threads,      \* workers
  Concurrency,  \* requests in flight of one worker
  MixPeriod, HashSlots, WriteSlots,  \* MIX_PERIOD and the slots of its modes
  MaxJobs,      \* bound: jobs a worker is admitted before it is stopped
  MaxFailed     \* bound: failed requests

LanesBounds ==
  /\ {Lanes, Threads, Concurrency, MixPeriod} \subseteq Nat \ {0}
  /\ {HashSlots, WriteSlots, MaxJobs, MaxFailed} \subseteq Nat
  /\ Threads <= Lanes

VARIABLES
  pc,         \* "load", "check", "recheck", "done"
  flaw,       \* the ER's one misbehaviour, or "none"
  missed,     \* some check! was missed
  admitted,   \* [worker -> jobs admitted]
  line,       \* [lane -> ids waiting for the lane's lock, in order]
  holder,     \* [lane -> id that holds the lock, 0 if free]
  sent,       \* lanes whose holder has been accepted by the ER
  delivered, failed,     \* [worker -> count]
  todo, cell,            \* ER: [lane -> accepted ids], [lane -> id and payload]
  engine,                \* ER: transactions executed
  log, spoiled,          \* history: ids admitted; ids the ER did not carry out
  last_ids, counts       \* Executed

load == <<admitted, line, holder, sent, delivered, failed, log>>
er   == <<todo, cell, engine, spoiled>>
vars == <<pc, flaw, missed, load, er, last_ids, counts>>

Lane   == 0..Lanes - 1
Worker == 0..Threads - 1

Modes == {"hash", "write", "sum"}

\* mode_for, lane_of, id_for
mode_for(id) ==
  LET slot == (id - 1) % MixPeriod
  IN IF slot < HashSlots THEN "hash" ELSE IF slot < HashSlots + WriteSlots THEN "write" ELSE "sum"

lane_of(id) == (id - 1) % Lanes

id_for(round, lane) == round * Lanes + lane + 1

Lesser(a, b) == IF a < b THEN a ELSE b

\* The span of a worker: split_iterations of the lanes.
Len_(w) == Lanes \div Threads + (IF w < Lanes % Threads THEN 1 ELSE 0)
Lo(w)   == w * (Lanes \div Threads) + Lesser(w, Lanes % Threads)

Owner(lane) == CHOOSE w \in Worker : lane \in Lo(w)..Lo(w) + Len_(w) - 1

\* LaneSpan::job_id
job_id(w, job) == id_for(job \div Len_(w), Lo(w) + (job % Len_(w)))

-----------------------------------------------------------------------------
Flaws == {"none", "drops", "reorders", "tears", "rewrites"}

Init ==
  /\ pc = "load" /\ flaw \in Flaws /\ missed = FALSE
  /\ admitted = [w \in Worker |-> 0]
  /\ line = [l \in Lane |-> <<>>] /\ holder = [l \in Lane |-> 0] /\ sent = {}
  /\ delivered = [w \in Worker |-> 0] /\ failed = [w \in Worker |-> 0]
  /\ todo = [l \in Lane |-> <<>>] /\ cell = [l \in Lane |-> [id |-> 0, payload |-> "none"]]
  /\ engine = 0 /\ log = {} /\ spoiled = {}
  /\ last_ids = [l \in Lane |-> 0] /\ counts = [m \in Modes |-> 0]

InFlight(w) == admitted[w] - delivered[w] - failed[w]

\* execute_for_raw admits the worker's next job: it queues for its lane.
Admit(w) ==
  /\ pc = "load"
  /\ admitted[w] < MaxJobs          \* bound
  /\ InFlight(w) < Concurrency
  /\ LET id == job_id(w, admitted[w])
     IN /\ line' = [line EXCEPT ![lane_of(id)] = Append(@, id)]
        /\ log' = log \cup {id}
  /\ admitted' = [admitted EXCEPT ![w] = @ + 1]
  /\ UNCHANGED <<pc, flaw, missed, holder, sent, delivered, failed, er, last_ids, counts>>

\* Mutant: the lock goes to whoever asked last.
AcquireLast(l) ==
  /\ holder[l] = 0 /\ line[l] # <<>>
  /\ holder' = [holder EXCEPT ![l] = Last(line[l])]
  /\ line' = [line EXCEPT ![l] = Front(@)]
  /\ UNCHANGED <<pc, flaw, missed, admitted, sent, delivered, failed, log, er, last_ids, counts>>

\* lock_owned: the mutex is fair, jobs ask for it in the order of admission.
Acquire(l) ==
  /\ holder[l] = 0 /\ line[l] # <<>>
  /\ holder' = [holder EXCEPT ![l] = Head(line[l])]
  /\ line' = [line EXCEPT ![l] = Tail(@)]
  /\ UNCHANGED <<pc, flaw, missed, admitted, sent, delivered, failed, log, er, last_ids, counts>>

\* The ER accepts the transaction of the lane's holder.
Accept(l) ==
  /\ holder[l] # 0 /\ l \notin sent
  /\ sent' = sent \cup {l}
  /\ todo' = [todo EXCEPT ![l] = Append(@, holder[l])]
  /\ UNCHANGED <<pc, flaw, missed, admitted, line, holder, delivered, failed, log,
                 cell, engine, spoiled, last_ids, counts>>

\* The job ends and drops the lock: delivered, or failed before or after acceptance.
Release(l) ==
  /\ holder[l] # 0
  /\ holder' = [holder EXCEPT ![l] = 0] /\ sent' = sent \ {l}
  /\ \/ /\ l \in sent
        /\ delivered' = [delivered EXCEPT ![Owner(l)] = @ + 1] /\ UNCHANGED failed
     \/ /\ MapThenSumSet(LAMBDA w : failed[w], Worker) < MaxFailed   \* bound
        /\ failed' = [failed EXCEPT ![Owner(l)] = @ + 1]
        /\ UNCHANGED delivered
  /\ UNCHANGED <<pc, flaw, missed, admitted, line, log, er, last_ids, counts>>

\* The ER executes what it accepted for a lane in order; a flawed one drops a
\* transaction, lets a later one overtake, writes another payload, or writes again.
Execute(l) ==
  /\ \/ /\ todo[l] # <<>>
        /\ LET id == Head(todo[l])
           IN cell' = [cell EXCEPT ![l] = [id |-> id, payload |-> mode_for(id)]]
        /\ todo' = [todo EXCEPT ![l] = Tail(@)] /\ engine' = engine + 1
        /\ UNCHANGED spoiled
     \/ /\ flaw = "drops" /\ todo[l] # <<>>
        /\ spoiled' = spoiled \cup {Head(todo[l])}
        /\ todo' = [todo EXCEPT ![l] = Tail(@)] /\ UNCHANGED <<cell, engine>>
     \/ /\ flaw = "reorders" /\ Len(todo[l]) >= 2 /\ todo[l][1] < todo[l][2]
        /\ spoiled' = spoiled \cup {todo[l][2]}
        /\ todo' = [todo EXCEPT ![l] = <<@[2], @[1]>> \o SubSeq(@, 3, Len(@))]
        /\ UNCHANGED <<cell, engine>>
     \/ /\ flaw = "tears" /\ todo[l] # <<>>
        /\ LET id == Head(todo[l])
           IN /\ \E m \in Modes \ {mode_for(id)} :
                   cell' = [cell EXCEPT ![l] = [id |-> id, payload |-> m]]
              /\ spoiled' = spoiled \cup {id}
        /\ todo' = [todo EXCEPT ![l] = Tail(@)] /\ engine' = engine + 1
     \/ /\ flaw = "rewrites" /\ pc = "recheck" /\ todo[l] = <<>> /\ cell[l].id > Lanes
        /\ cell' = [cell EXCEPT ![l] = [id |-> @.id - Lanes, payload |-> mode_for(@.id - Lanes)]]
        /\ spoiled' = spoiled \cup {cell[l].id}
        /\ UNCHANGED <<todo, engine>>
  /\ UNCHANGED <<pc, flaw, missed, load, last_ids, counts>>

-----------------------------------------------------------------------------
Admitted(w) == delivered[w] + failed[w]

\* Mutant: the lane the worker stopped at counts one round too many.
RoundsInclusive(l) ==
  LET w == Owner(l)
  IN Admitted(w) \div Len_(w) + (IF l - Lo(w) <= Admitted(w) % Len_(w) THEN 1 ELSE 0)

\* rounds of a lane in `summarize`
Rounds(l) ==
  LET w == Owner(l)
  IN Admitted(w) \div Len_(w) + (IF l - Lo(w) < Admitted(w) % Len_(w) THEN 1 ELSE 0)

\* counts of `summarize`: the share of every round of the mix period.
CountOf(m) ==
  MapThenSumSet(LAMBDA l :
    MapThenSumSet(LAMBDA round :
        Rounds(l) \div MixPeriod + (IF round < Rounds(l) % MixPeriod THEN 1 ELSE 0),
      {round \in 0..MixPeriod - 1 : mode_for(id_for(round, l)) = m}),
    Lane)

Total == MapThenSumSet(Admitted, Worker)

\* Every worker met the deadline or the stop signal, after whatever it was last
\* admitted, drained, and was joined; then summarize, and the first checks of `check`.
Summarize ==
  /\ pc = "load" /\ \A w \in Worker : InFlight(w) = 0
  /\ last_ids' = [l \in Lane |-> IF Rounds(l) > 0 THEN id_for(Rounds(l) - 1, l) ELSE 0]
  /\ counts' = [m \in Modes |-> CountOf(m)]
  /\ missed' = (\/ MapThenSumSet(LAMBDA m : CountOf(m), Modes) # Total
                \/ Total = 0
                \/ \E w \in Worker : failed[w] > 0)
  /\ pc' = "check"
  /\ UNCHANGED <<flaw, load, er>>

\* read_final_state and verify_final_state
Verified ==
  \A l \in Lane : last_ids[l] # 0 => cell[l] = [id |-> last_ids[l], payload |-> mode_for(last_ids[l])]

\* wait::retry of the final state.  Time-out: the ER has nothing left to do.
Settle ==
  /\ pc = "check"
  /\ \/ Verified /\ UNCHANGED missed
     \/ ~Verified /\ (\A l \in Lane : todo[l] = <<>>) /\ missed' = TRUE
  /\ pc' = "recheck"
  /\ UNCHANGED <<flaw, load, er, last_ids, counts>>

\* Mutant: the state that settled is not read again.
RecheckMetrics ==
  /\ pc = "recheck"
  /\ missed' = (missed \/ engine < Total)
  /\ pc' = "done"
  /\ UNCHANGED <<flaw, load, er, last_ids, counts>>

\* The engine's counter, and the state read once more.
Recheck ==
  /\ pc = "recheck"
  /\ missed' = (missed \/ engine < Total \/ ~Verified)
  /\ pc' = "done"
  /\ UNCHANGED <<flaw, load, er, last_ids, counts>>

Next ==
  \/ \E w \in Worker : Admit(w)
  \/ \E l \in Lane : Acquire(l) \/ Accept(l) \/ Release(l) \/ Execute(l)
  \/ Summarize \/ Settle \/ Recheck

Spec == Init /\ [][Next]_vars

-----------------------------------------------------------------------------
\* Ids admitted to a lane.
Ids(l) == {id \in log : lane_of(id) = l}

\* driver.rs: "exact admitted workload IDs reconstructed per worker-owned lane".
\* Although the workers stop at different jobs, from their two counters alone
\* `summarize` finds the last id admitted to every lane and the number of
\* admitted transactions of every mode.
OracleIsExact ==
  pc # "load" =>
    /\ \A l \in Lane : last_ids[l] = IF Ids(l) = {} THEN 0 ELSE Max(Ids(l))
    /\ \A m \in Modes : counts[m] = Cardinality({id \in log : mode_for(id) = m})

Failures == \E w \in Worker : failed[w] > 0

\* With a correct ER and no failed request no check is missed, whatever the
\* workers' interleaving: the locks make the last id admitted to a lane the
\* last one executed.
NoFalseAlarm ==
  pc = "done" /\ flaw = "none" /\ ~Failures /\ log # {} => ~missed

\* A lane whose last transaction the ER dropped, overtook, tore or undid makes
\* the run miss a check.
DefectCaught ==
  pc = "done" /\ (\E l \in Lane : Ids(l) # {} /\ Max(Ids(l)) \in spoiled) => missed

=============================================================================
