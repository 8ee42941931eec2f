------------------------------- MODULE Ledger -------------------------------
(***************************************************************************)
(* The durability scenarios of redshift: lifecycle/restart_under_load,      *)
(* storage/checkpoint_recovery and storage/ledger_retention_consistency.    *)
(* A rollup (external) executes transactions into a ledger that is sealed,  *)
(* archived and truncated as it grows, and is stopped or killed by the      *)
(* scenario; the writers of the first scenario run as tasks of their own.   *)
(*                                                                          *)
(* As in module Settlement, `flaw` makes the rollup lose what it must keep, *)
(* in one way, `harmed` records that it has and whether the checks are made *)
(* to see it, and the questions are whether a scenario fails a rollup that  *)
(* behaves and passes one that does not.                                    *)
(***************************************************************************)
EXTENDS Integers, Sequences, FiniteSets, FiniteSetsExt

CONSTANTS
  Lanes,     \* concurrent writers, each with an account of its own
  MaxSends,  \* bound: transactions the writers send in all
  MaxAdds,   \* bound: transactions of the retention and resize scenarios
  Truncations,    \* RETENTION_EVENTS: truncations the retention scenario waits for
  MaxTruncations  \* bound: truncations in all

VARIABLES
  script, pc, verdict, flaw, harmed,
  ledger,    \* executed transactions, oldest first
  sealed,    \* how many of them superblocks have archived
  blocks,    \* superblocks sealed
  pruned,    \* how many of the oldest are gone from history
  account,   \* the transactions whose effects the accounts hold
  pending,   \* accepted and not yet executed
  lane,      \* what each writer is doing
  gate,      \* [admit, stop] of the writers
  records,   \* the scenario's journal
  nextId,    \* the next transaction's identity
  memo       \* what the scenario has read and compares later

node == <<ledger, sealed, blocks, pruned, account, pending>>
task == <<lane, gate, records, nextId>>
vars == <<script, pc, verdict, flaw, harmed, node, task, memo>>

Ids(seq) == {seq[n].id : n \in 1..Len(seq)}
Known(id) == \E n \in pruned + 1..Len(ledger) : ledger[n].id = id
Find(id) == ledger[CHOOSE n \in 1..Len(ledger) : ledger[n].id = id]

-----------------------------------------------------------------------------
(* The rollup                                                                *)

Execute ==
  /\ pending # {}
  /\ \E tx \in pending :
       /\ \A other \in pending : other.lane = tx.lane => tx.id <= other.id
       /\ ledger' = Append(ledger, tx)
       /\ account' = account \cup {tx.id}
       /\ pending' = pending \ {tx}
  /\ UNCHANGED <<script, pc, verdict, flaw, harmed, sealed, blocks, pruned, task, memo>>

\* Superblocks are sealed as time passes; one that archives nothing new is
\* only counted while a scenario waits for it, which bounds the counter.
Seal ==
  /\ sealed < Len(ledger) \/ (blocks = memo.blocks /\ pc \in {"sealing", "resumed"})
  /\ sealed' = Len(ledger)
  /\ blocks' = blocks + 1
  /\ UNCHANGED <<script, pc, verdict, flaw, harmed, ledger, pruned, account, pending, task, memo>>

\* What survives the end of the process: everything when it is stopped, and
\* at least what is sealed when it is killed.
Survivors(hard) ==
  LET whole == {ledger}
      tails == {SubSeq(ledger, 1, n) : n \in sealed..Len(ledger)}
      inner == {n \in 1..Len(ledger) : \E m \in n + 1..Len(ledger) : ledger[m].lane = ledger[n].lane}
      holes == {SelectSeq(ledger, LAMBDA tx : tx.id # ledger[n].id) : n \in inner} \cup tails
      early == {SubSeq(ledger, 1, n) : n \in pruned..sealed}
      cuts  == {SelectSeq(ledger, LAMBDA tx : tx.id <= cut[tx.lane]) : cut \in [Lanes -> 0..nextId]}
  IN CASE flaw = "gracefulLoss" /\ ~hard -> {SubSeq(ledger, 1, n) : n \in pruned..Len(ledger)}
       [] flaw = "hole" /\ hard -> holes
       [] flaw = "sealedLost" /\ hard -> early
       [] flaw = "lanesCut" /\ hard -> cuts
       [] OTHER -> IF hard THEN tails ELSE whole

\* What no end of the process may take back: all that was confirmed when it is
\* stopped; when it is killed, what a superblock holds, of which the checkpoint
\* scenario relies on what it saw protected.
Promised(hard) ==
  CASE hard /\ script = "checkpoint" -> memo.base
    [] hard /\ script # "checkpoint" -> Ids(SubSeq(ledger, 1, sealed))
    [] OTHER -> memo.ids \cup {r.id : r \in {q \in records : q.outcome = "confirmed"}}

OfLane(seq, l) == SelectSeq(seq, LAMBDA tx : tx.lane = l)
LastOf(ids) == Max({0} \cup ids)
WritesOf(l) == {r.id : r \in {q \in records : q.lane = l}}

\* The history kept and the accounts' `state` break a promise ...
Broken(hard, kept, state) ==
  \/ ~(Promised(hard) \subseteq Ids(kept))
  \/ \E n \in 1..Len(kept) : kept[n] # ledger[n]
  \/ state # Ids(kept)

\* ... in a way the scenario looks for.  After a kill restart_under_load looks
\* at each lane by itself, for holes before what was recovered and for state
\* that is not the last write recovered: any end of a lane may be missing, and
\* of a lane that is missing altogether nothing is checked.
LookedFor(kept, state) ==
  \/ script # "sigkill"
  \/ \E l \in Lanes :
       \/ OfLane(kept, l) # SubSeq(OfLane(ledger, l), 1, Len(OfLane(kept, l)))
       \/ OfLane(kept, l) # <<>> /\ LastOf(state \cap WritesOf(l)) # LastOf(Ids(OfLane(kept, l)))

\* restart: the process ends and a new one recovers what survived.  What had
\* been accepted and not executed is gone.
Replace(hard) ==
  \E kept \in Survivors(hard) :
    /\ ledger' = kept
    /\ sealed' = Min({sealed, Len(kept)})
    /\ account' = CASE flaw = "stateBehind" /\ Len(kept) > 0 -> Ids(kept) \ {kept[Len(kept)].id}
                    [] flaw = "stateAhead" -> account
                    [] OTHER -> Ids(kept)
    /\ harmed' = CASE Broken(hard, kept, account') /\ LookedFor(kept, account') -> "seen"
                   [] Broken(hard, kept, account') /\ harmed = "no" -> "unseen"
                   [] OTHER -> harmed
    /\ pending' = {}
    /\ UNCHANGED <<pruned, blocks>>

-----------------------------------------------------------------------------
(* Writers: LaneState of restart_under_load                                  *)

Unresolved(id, l) == [id |-> id, lane |-> l, outcome |-> "unresolved"]

Resolved(rs, id, o) == {IF r.id = id THEN [r EXCEPT !.outcome = o] ELSE r : r \in rs}

\* run and send: the record is journalled before the transaction is delivered.
Send(l) ==
  /\ gate.admit /\ lane[l].at = "idle" /\ nextId <= MaxSends
  /\ nextId' = nextId + 1
  /\ records' = records \cup {Unresolved(nextId, l)}
  /\ lane' = [lane EXCEPT ![l] = [at |-> "sending", id |-> nextId]]
  /\ UNCHANGED <<script, pc, verdict, flaw, harmed, node, gate, memo>>

\* The transaction is accepted; while the process is being stopped the answer
\* may be lost, with or without the transaction.
Deliver(l) ==
  /\ lane[l].at = "sending"
  /\ LET tx == [id |-> lane[l].id, lane |-> l, fails |-> FALSE]
     IN \/ /\ pending' = pending \cup {tx}
           /\ lane' = [lane EXCEPT ![l].at = "waiting"]
        \/ /\ gate.stop
           /\ pending' \in {pending, pending \cup {tx}}
           /\ lane' = [lane EXCEPT ![l].at = "idle"]
  /\ UNCHANGED <<script, pc, verdict, flaw, harmed, ledger, sealed, blocks, pruned, account,
                 gate, records, nextId, memo>>

\* await_status: confirmed, or interrupted by the stop and left unresolved.
Confirm(l) ==
  /\ lane[l].at = "waiting"
  /\ \/ ~gate.stop /\ Known(lane[l].id) /\ records' = Resolved(records, lane[l].id, "confirmed")
     \/ gate.stop /\ UNCHANGED records
  /\ lane' = [lane EXCEPT ![l].at = "idle"]
  /\ UNCHANGED <<script, pc, verdict, flaw, harmed, node, gate, nextId, memo>>

Drained == \A l \in Lanes : lane[l].at = "idle"

-----------------------------------------------------------------------------
(* lifecycle/restart_under_load.rs: run_mode                                 *)

Confirmed == {r \in records : r.outcome = "confirmed"}

At(name, k, next) == script = name /\ verdict = "good" /\ pc = k /\ pc' = next
Quietly == UNCHANGED <<script, flaw>>
Ensure(P) == verdict' = IF P THEN verdict ELSE "failed"

\* fill: enough confirmed, and a sealed superblock with its archive; then halt.
\* A request on its way when the process is stopped is accepted or refused
\* before a new one takes its place.
Fill(name, fill) ==
  /\ At(name, "fill", "restart")
  /\ Cardinality(Confirmed) >= fill /\ sealed > 0
  /\ gate' = [admit |-> FALSE, stop |-> TRUE]
  /\ UNCHANGED <<verdict, harmed, node, lane, records, nextId, memo>> /\ Quietly

FirstRestart(name, hard) ==
  /\ At(name, "restart", "drain")
  /\ \A l \in Lanes : lane[l].at # "sending"
  /\ Replace(hard)
  /\ UNCHANGED <<verdict, task, memo>> /\ Quietly

\* drain and resolve: what is still unknown is asked of the recovered ledger.
Resolve ==
  /\ Drained
  /\ gate' = [gate EXCEPT !.admit = FALSE]
  /\ records' = {IF r.outcome # "unresolved" THEN r
                 ELSE [r EXCEPT !.outcome = IF Known(r.id) THEN "confirmed" ELSE "dropped"]
                 : r \in records}

DrainAndResolve(name) ==
  /\ At(name, "drain", "settle")
  /\ Ensure(Confirmed # {})
  /\ Resolve
  /\ UNCHANGED <<harmed, node, lane, nextId, memo>> /\ Quietly

\* Mutant: a missing record is a tail whatever was recovered before it.
AnyLossIsTail(hard, r) == hard /\ ~Known(r.id)

\* A record is of its lane's lost tail when nothing later was recovered.
LostTail(hard, r) ==
  /\ hard /\ ~Known(r.id)
  /\ \A q \in Confirmed : q.lane = r.lane /\ q.id > r.id => ~Known(q.id)

\* settle_after_restart: only a killed process may lose confirmed records, and
\* only the tail of a lane.
Settle(hard) ==
  /\ Ensure(\A r \in Confirmed : Known(r.id) \/ LostTail(hard, r))
  /\ records' = {IF r \in Confirmed /\ LostTail(hard, r) THEN [r EXCEPT !.outcome = "dropped"] ELSE r
                 : r \in records}

SettleAfter(name, k, next, hard) ==
  /\ At(name, k, next)
  /\ Settle(hard)
  /\ UNCHANGED <<harmed, node, lane, gate, nextId, memo>> /\ Quietly

\* The newest write that account l holds.
Written(l) == LastOf(account \cap WritesOf(l))
Newest(l)  == LastOf({r.id : r \in {q \in Confirmed : q.lane = l}})

\* check_state
StateIs == \A l \in Lanes : Newest(l) # 0 => Written(l) = Newest(l)

CheckState(name, k, next) ==
  /\ At(name, k, next)
  /\ Ensure(StateIs)
  /\ UNCHANGED <<harmed, node, task, memo>> /\ Quietly

\* The lanes start again, and run until another superblock is sealed.
Resume(name) ==
  /\ At(name, "resume", "resumed")
  /\ gate' = [admit |-> TRUE, stop |-> FALSE]
  /\ memo' = [memo EXCEPT !.blocks = blocks, !.first = nextId]
  /\ UNCHANGED <<verdict, harmed, node, lane, records, nextId>> /\ Quietly

\* The lanes are polled, and so have begun to send, before the first answer
\* to the scenario's own query.
CloseGate(name) ==
  /\ At(name, "resumed", "redrain")
  /\ blocks > memo.blocks /\ nextId > memo.first
  /\ gate' = [gate EXCEPT !.admit = FALSE]
  /\ UNCHANGED <<verdict, harmed, node, lane, records, nextId, memo>> /\ Quietly

Redrain(name) ==
  /\ At(name, "redrain", "restate")
  /\ Resolve
  /\ LET resumed == {r \in records' : r.id >= memo.first}
     IN Ensure(resumed # {} /\ \A r \in resumed : r.outcome = "confirmed")
  /\ UNCHANGED <<harmed, node, lane, nextId, memo>> /\ Quietly

SecondRestart(name, hard) ==
  /\ At(name, "again", "resettle")
  /\ Replace(hard)
  /\ UNCHANGED <<verdict, task, memo>> /\ Quietly

RunMode(name, hard, fill) ==
  \/ Fill(name, fill) \/ FirstRestart(name, hard) \/ DrainAndResolve(name)
  \/ SettleAfter(name, "settle", "state", hard) \/ CheckState(name, "state", "resume")
  \/ Resume(name) \/ CloseGate(name) \/ Redrain(name) \/ CheckState(name, "restate", "again")
  \/ SecondRestart(name, hard) \/ SettleAfter(name, "resettle", "final", hard)
  \/ CheckState(name, "final", "end")

-----------------------------------------------------------------------------
(* storage/checkpoint_recovery.rs                                            *)

Fails(id) == id % 2 = 0

\* What the accounts show of a set of transactions: the cell's value and
\* revision, and the fees its payer has lost to every one of them.
State(ids) == <<MapThenSumSet(LAMBDA id : id, {id \in ids : ~Fails(id)}),
                Cardinality({id \in ids : ~Fails(id)}), Cardinality(ids)>>

\* submit: a transaction is sent; `confirm` says whether it is waited for.
\* A record carries the evidence of its execution once it was seen.
SubmitRecord(k, next) ==
  /\ At("checkpoint", k, next)
  /\ nextId' = nextId + 1
  /\ pending' = pending \cup {[id |-> nextId, lane |-> 1, fails |-> Fails(nextId)]}
  /\ records' = records \cup {[id |-> nextId, lane |-> 1, outcome |-> "unresolved"]}
  /\ UNCHANGED <<verdict, harmed, ledger, sealed, blocks, pruned, account, lane, gate, memo>> /\ Quietly

SeeRecord(k, next) ==
  /\ At("checkpoint", k, next)
  /\ Known(nextId - 1)
  /\ Ensure(/\ Find(nextId - 1).fails = Fails(nextId - 1)
            /\ State(account) = State(memo.ids \cup {nextId - 1}))
  /\ records' = Resolved(records, nextId - 1, "confirmed")
  /\ memo' = [memo EXCEPT !.ids = @ \cup {nextId - 1}]
  /\ UNCHANGED <<harmed, node, lane, gate, nextId>> /\ Quietly

\* head, then checkpoint: a boundary later than any before, with its archive.
ReadHead ==
  /\ At("checkpoint", "head", "sealing")
  /\ Ensure(blocks > memo.boundary)
  /\ memo' = [memo EXCEPT !.blocks = blocks, !.boundary = blocks]
  /\ UNCHANGED <<harmed, node, task>> /\ Quietly

Checkpointed ==
  /\ At("checkpoint", "sealing", "tail1")
  /\ blocks > memo.blocks
  /\ Ensure(\A r \in Confirmed : Known(r.id) /\ State(account) = State(memo.ids))
  /\ memo' = [memo EXCEPT !.base = memo.ids]
  /\ UNCHANGED <<harmed, node, task>> /\ Quietly

Crash ==
  /\ At("checkpoint", "crash", "verify")
  /\ Replace(TRUE)
  /\ UNCHANGED <<verdict, task, memo>> /\ Quietly

\* Mutant: every confirmed record of the tail is expected to be in the state.
RebuiltFromAll ==
  memo.base \cup {r.id : r \in {q \in records : Known(q.id) \/ q.outcome = "confirmed"}}

\* The state is rebuilt from the checkpoint and what was retained of the tail.
Rebuilt == memo.base \cup {r.id : r \in {q \in records : Known(q.id)}}

\* verify: what the checkpoint protects is there, unchanged.
Verify ==
  /\ At("checkpoint", "verify", "more")
  /\ Ensure(/\ \A id \in memo.base : Known(id)
            /\ State(account) = State(Rebuilt))
  /\ memo' = [memo EXCEPT !.ids = Rebuilt, !.round = @ + 1]
  /\ records' = {[r EXCEPT !.outcome = "confirmed"] : r \in {q \in records : Known(q.id)}}
  /\ UNCHANGED <<harmed, node, lane, gate, nextId>> /\ Quietly

\* Two rounds, each with one transaction confirmed before the checkpoint, two
\* in the tail of which the first is confirmed, and one after recovery.
CheckpointRecovery ==
  \/ SubmitRecord("fill", "filled") \/ SeeRecord("filled", "head") \/ ReadHead \/ Checkpointed
  \/ SubmitRecord("tail1", "tail1seen") \/ SeeRecord("tail1seen", "tail2")
  \/ SubmitRecord("tail2", "crash") \/ Crash \/ Verify
  \/ SubmitRecord("more", "moreseen") \/ SeeRecord("moreseen", IF memo.round > 2 THEN "end" ELSE "fill")

-----------------------------------------------------------------------------
(* storage/ledger_retention_consistency.rs                                   *)

\* Retention truncates history at a boundary before the latest superblock; it
\* never touches the accounts.
Prune ==
  /\ script = "retention" /\ memo.truncations < MaxTruncations
  /\ \E n \in pruned + 1..sealed - 1 : pruned' = n
  /\ memo' = [memo EXCEPT !.truncations = @ + 1,
                          !.overlap = @ \/ pc \in {"blocks", "list"} \/ (pc = "observe" /\ memo.at > 1)]
  /\ account' = IF flaw = "pruneRollsBack" THEN account \ {ledger[n].id : n \in 1..pruned'} ELSE account
  /\ harmed' = IF account' # account THEN "seen" ELSE harmed
  /\ UNCHANGED <<script, pc, verdict, flaw, ledger, sealed, blocks, pending, task>>

SendAdd(k, next) ==
  /\ At("retention", k, next) /\ nextId <= MaxAdds
  /\ nextId' = nextId + 1
  /\ pending' = pending \cup {[id |-> nextId, lane |-> 1, fails |-> FALSE]}
  /\ records' = records \cup {[id |-> nextId, lane |-> 1, outcome |-> "unresolved"]}
  /\ UNCHANGED <<verdict, harmed, ledger, sealed, blocks, pruned, account, lane, gate, memo>> /\ Quietly

\* The add is confirmed and the truncations counted: an observation begins
\* when there are more of them, or when the scenario asks for one.
SeeAdd(k, next, always) ==
  /\ At("retention", k, IF always \/ memo.truncations > memo.events THEN "observe" ELSE next)
  /\ Known(nextId - 1)
  /\ records' = Resolved(records, nextId - 1, "confirmed")
  /\ memo' = [memo EXCEPT !.events = memo.truncations, !.at = 1, !.kept = {}]
  /\ UNCHANGED <<verdict, harmed, node, lane, gate, nextId>> /\ Quietly

\* observe: one query per transaction ever sent, oldest first.
Observe ==
  /\ At("retention", "observe", IF memo.at + 1 = nextId THEN "blocks" ELSE "observe")
  /\ memo' = [memo EXCEPT !.at = @ + 1, !.overlap = @ /\ memo.at > 1,
                          !.kept = IF Known(memo.at) THEN @ \cup {memo.at} ELSE @]
  /\ UNCHANGED <<verdict, harmed, node, task>> /\ Quietly

Gone == (1..nextId - 1) \ memo.kept

\* verify: pruning only advances, over an older prefix, and the blocks agree
\* with the transactions.
VerifyBlocks ==
  /\ At("retention", "blocks", "list")
  /\ Ensure(/\ Cardinality(Gone) >= memo.gone
            /\ \A g \in Gone, k \in memo.kept : g < k
            /\ \A g \in Gone : ~Known(g)
            /\ \A k \in memo.kept : Known(k))
  /\ UNCHANGED <<harmed, node, task, memo>> /\ Quietly

\* Then the history of the cell's address, and its value, which is the sum of
\* every add that was ever confirmed.  The loop ends once enough truncations
\* have removed something; the scenario looks once more, restarts the rollup,
\* and looks again before and after one more add.
VerifyList ==
  /\ script = "retention" /\ verdict = "good" /\ pc = "list"
  /\ LET enough == memo.events >= Truncations /\ (memo.seen \/ Cardinality(Gone) > memo.gone)
     IN /\ pc' = CASE memo.phase = "loop" -> IF enough THEN "observe" ELSE "send"
                   [] memo.phase = "before" -> "stop"
                   [] memo.phase = "after" -> "last"
                   [] memo.phase = "last" -> "end"
        /\ memo' = [memo EXCEPT !.gone = Cardinality(Gone), !.seen = @ \/ Cardinality(Gone) > memo.gone,
                                !.at = 1, !.kept = {},
                                !.phase = CASE @ = "loop" /\ enough -> "before"
                                             [] @ = "after" -> "last"
                                             [] OTHER -> @]
  /\ Ensure(/\ {id \in Ids(ledger) : Known(id)} = memo.kept
            /\ State(account) = State(1..nextId - 1)
            /\ memo.phase \in {"before", "after"} => memo.kept # {})
  /\ UNCHANGED <<harmed, node, task>> /\ Quietly

Stop ==
  /\ At("retention", "stop", "observe")
  /\ Replace(FALSE)
  /\ memo' = [memo EXCEPT !.phase = "after"]
  /\ UNCHANGED <<verdict, task>> /\ Quietly

Retention ==
  \/ SendAdd("send", "sent") \/ SeeAdd("sent", "send", FALSE)
  \/ Observe \/ VerifyBlocks \/ VerifyList \/ Stop
  \/ SendAdd("last", "lastsent") \/ SeeAdd("lastsent", "observe", TRUE)

-----------------------------------------------------------------------------
(* storage/account_reads_during_resize.rs                                    *)

\* A task reads the accounts until it is told to stop, between reads.
Read ==
  /\ script = "resize" /\ lane[1].at = "reading" /\ ~memo.broken
  /\ memo' = [memo EXCEPT !.broken = flaw = "resizeHides" /\ pending # {}]
  /\ harmed' = IF memo'.broken THEN "seen" ELSE harmed
  /\ UNCHANGED lane
  /\ UNCHANGED <<script, pc, verdict, flaw, node, gate, records, nextId>>

ReadEnd ==
  /\ script = "resize" /\ lane[1].at = "reading" /\ (gate.stop \/ memo.broken)
  /\ lane' = [lane EXCEPT ![1].at = "idle"]
  /\ UNCHANGED <<script, pc, verdict, flaw, harmed, node, gate, records, nextId, memo>>

StartReaders(k, next) ==
  /\ At("resize", k, next)
  /\ lane' = [lane EXCEPT ![1].at = "reading"]
  /\ gate' = [gate EXCEPT !.stop = FALSE]
  /\ memo' = [memo EXCEPT !.at = 0]
  /\ UNCHANGED <<verdict, harmed, node, records, nextId>> /\ Quietly

\* churn: the accounts are grown in turn, each time to a size of its own, which
\* the number of the growth stands for.
Grow(k, next) ==
  /\ At("resize", k, next) /\ nextId <= MaxAdds
  /\ nextId' = nextId + 1
  /\ pending' = pending \cup {[id |-> nextId, lane |-> 1 + (memo.at % Cardinality(Lanes)), fails |-> FALSE]}
  /\ memo' = [memo EXCEPT !.at = @ + 1]
  /\ UNCHANGED <<verdict, harmed, ledger, sealed, blocks, pruned, account, lane, gate, records>>
  /\ Quietly

\* After a growth there is another, or the readers are stopped.
Grown(k, again, next) ==
  /\ \/ At("resize", k, again) /\ UNCHANGED gate
     \/ At("resize", k, next) /\ gate' = [gate EXCEPT !.stop = TRUE]
  /\ Known(nextId - 1)
  /\ memo' = [memo EXCEPT !.ids = @ \cup {nextId - 1},
                          !.sizes[Find(nextId - 1).lane] = nextId - 1]
  /\ UNCHANGED <<verdict, harmed, node, lane, records, nextId>> /\ Quietly


\* stop: the readers are joined, and what they met is not lost.
JoinReaders(k, next) ==
  /\ At("resize", k, next) /\ lane[1].at = "idle"
  /\ Ensure(~memo.broken)
  /\ UNCHANGED <<harmed, node, task, memo>> /\ Quietly

ResizeRestart ==
  /\ At("resize", "restart", "readagain")
  /\ Replace(FALSE)
  /\ UNCHANGED <<verdict, task, memo>> /\ Quietly

\* Growths are to absolute sizes: an account shows the last one it holds.
Size(l) == LastOf(account \cap Ids(OfLane(ledger, l)))

FinalSizes ==
  /\ At("resize", "sizes", "end")
  /\ Ensure(\A l \in Lanes : Size(l) = memo.sizes[l])
  /\ UNCHANGED <<harmed, node, task, memo>> /\ Quietly

Resize ==
  \/ StartReaders("read", "grow") \/ Grow("grow", "grown") \/ Grown("grown", "grow", "join")
  \/ JoinReaders("join", "restart") \/ ResizeRestart
  \/ StartReaders("readagain", "regrow") \/ Grow("regrow", "regrown")
  \/ Grown("regrown", "regrow", "rejoin") \/ JoinReaders("rejoin", "sizes") \/ FinalSizes

-----------------------------------------------------------------------------
Flaws == [graceful |-> {"gracefulLoss", "stateBehind"},
          sigkill |-> {"hole", "stateBehind", "stateAhead", "lanesCut"},
          checkpoint |-> {"sealedLost", "stateBehind", "stateAhead"},
          retention |-> {"pruneRollsBack", "gracefulLoss"},
          resize |-> {"resizeHides", "gracefulLoss"}]

FirstCall == [graceful |-> "fill", sigkill |-> "fill", checkpoint |-> "fill",
              retention |-> "send", resize |-> "read"]

Init ==
  /\ script \in DOMAIN Flaws
  /\ flaw \in {"none"} \cup Flaws[script]
  /\ pc = FirstCall[script] /\ verdict = "good" /\ harmed = "no"
  /\ ledger = <<>> /\ sealed = 0 /\ blocks = 1 /\ pruned = 0 /\ account = {} /\ pending = {}
  /\ lane = [l \in Lanes |-> [at |-> "idle", id |-> 0]]
  /\ gate = [admit |-> script \in {"graceful", "sigkill"}, stop |-> FALSE]
  /\ records = {} /\ nextId = 1
  /\ memo = [blocks |-> 0, boundary |-> 0, first |-> 0, round |-> 1, ids |-> {}, base |-> {},
             truncations |-> 0, events |-> 0, seen |-> FALSE, overlap |-> FALSE,
             at |-> 1, kept |-> {}, gone |-> 0, phase |-> "loop", broken |-> FALSE,
             sizes |-> [l \in Lanes |-> 0]]

Passed == verdict = "good" /\ pc = "end"

Rollup == Execute \/ Seal \/ Prune

Next ==
  /\ verdict = "good" /\ ~Passed
  /\ \/ Rollup \/ Read \/ ReadEnd
     \/ \E l \in Lanes : Send(l) \/ Deliver(l) \/ Confirm(l)
     \/ RunMode("graceful", FALSE, 1) \/ RunMode("sigkill", TRUE, 1)
     \/ CheckpointRecovery \/ Retention \/ Resize

Spec == Init /\ [][Next]_vars

-----------------------------------------------------------------------------
\* A scenario does not fail a rollup that keeps what it must, whatever is in
\* flight when it is stopped or killed and wherever the tail is cut; the
\* retention scenario excepted, when history is truncated while it reads it.
NoFalseAlarm == flaw = "none" /\ verdict = "failed" => script = "retention" /\ memo.overlap

\* A growth was lost whose account has been grown again since.
Outgrown ==
  /\ script = "resize" /\ memo.ids \ account # {}
  /\ \A l \in Lanes : Size(l) = memo.sizes[l]

\* A scenario does not pass a rollup that, stopped, has lost confirmed history,
\* that, killed, has left a hole in a lane's history or lost what a checkpoint
\* protects, or that holds state its history does not give.  What the checks
\* do not establish is left out: whether a killed rollup lost more of a lane
\* than it may, the whole of it included (docs/scenario-gaps.md: "a wholly
\* dropped confirmed lane can evade the existing suffix oracle"), and whether a
\* growth was lost that a later one covers.
DefectCaught == harmed = "seen" /\ ~Outgrown => ~Passed
=============================================================================
