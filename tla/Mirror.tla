------------------------------- MODULE Mirror -------------------------------
(***************************************************************************)
(* What a rollup shows of base accounts it does not own, and the programs   *)
(* it clones to execute them: chainlink/account_mirroring_and_isolation.rs  *)
(* ("mirror"), program_clone_allowlist.rs ("allow") and                     *)
(* program_materialization.rs ("programs") of redshift.                     *)
(*                                                                          *)
(* Base and the rollup are external; `flaw` is one misbehaviour, `harmed`   *)
(* that it has happened.  Balances, written ids and program images are      *)
(* small numbers; 0 is an absent account.                                   *)
(***************************************************************************)
EXTENDS Integers, Sequences, SequencesExt, FiniteSetsExt

CONSTANTS
  SignatureWindow,  \* signatures one history request returns
  MaxOther          \* bound: other base transactions of the identity

MirrorBounds == SignatureWindow > MaxOther + 1

VARIABLES
  script, pc, verdict, flaw, harmed,
  base,     \* [key -> what base has]
  er,       \* [key -> what the rollup shows; Unknown: never asked for]
  owned,    \* keys delegated to the rollup
  asked,    \* programs a transaction has asked for
  history,  \* the identity's base transactions: "alt", "other", or "unread": an
            \* "alt" that is listed and cannot be read yet
  baseline  \* its length when the scenario began

world == <<base, er, owned, asked, history, harmed>>
vars  == <<script, pc, verdict, flaw, baseline, world>>

Unknown  == -1
Programs == {"v1", "v2", "v3", "first", "second", "listed", "unlisted"}
Cells    == {"cell1", "cell2"}
Keys     == {"cold", "plain", "ghost", "never", "wallet", "receiver", "spender"} \cup Programs \cup Cells

Client == <<script, pc, verdict, flaw, baseline>>

Harm(P) == harmed' = (harmed \/ P)

-----------------------------------------------------------------------------
(* The rollup                                                                *)

\* What a first read of a key finds on base.
Fetched(k) == IF flaw = "coldWrong" /\ k \in {"cold", "plain"} THEN base[k] + 1 ELSE base[k]

Shown(k) == IF er[k] = Unknown THEN Fetched(k) ELSE er[k]

\* A known plain key follows base.
Refresh(k) ==
  /\ er[k] # Unknown /\ k \notin owned \cup Programs /\ er[k] # base[k]
  /\ ~(flaw = "noRefresh" /\ er[k] # 0) /\ ~(flaw = "negativeStuck" /\ er[k] = 0)
  /\ er' = [er EXCEPT ![k] = base[k]]
  /\ UNCHANGED <<Client, base, owned, asked, history, harmed>>

\* Flawed, a delegated key follows a base top-up.
LeakDue == flaw = "topupLeaks" /\ "spender" \in owned /\ base["spender"] = 4 /\ er["spender"] = 3

Leak ==
  /\ LeakDue /\ er' = [er EXCEPT !["spender"] = 4] /\ Harm(TRUE)
  /\ UNCHANGED <<Client, base, owned, asked, history>>

\* A program a transaction asked for is cloned; flawed, with another image.
Clone(p) ==
  /\ p \in asked /\ er[p] = Unknown
  /\ er' = [er EXCEPT ![p] = IF flaw = "wrongImage" THEN base[p] + 1 ELSE base[p]]
  /\ Harm(flaw = "wrongImage")
  /\ UNCHANGED <<Client, base, owned, asked, history>>

\* Flawed, a program that is not on the list is cloned, at once or later.
CloneUnlisted ==
  /\ script = "allow" /\ flaw = "clonesAll" /\ er["unlisted"] # 1
  /\ er' = [er EXCEPT !["unlisted"] = 1] /\ Harm(TRUE)
  /\ UNCHANGED <<Client, base, owned, asked, history>>

\* The identity's own transactions on base; flawed, it writes a lookup table.
BaseWrite ==
  /\ script = "programs" /\ pc <= 14
  /\ \/ /\ Len(SelectSeq(history, LAMBDA t : t = "other")) < MaxOther          \* bound
        /\ history' = Append(history, "other") /\ UNCHANGED harmed
     \/ /\ flaw = "altWrite" /\ ~harmed /\ asked # {}
        /\ history' \in {Append(history, "alt"), Append(history, "unread")} /\ Harm(TRUE)
  /\ UNCHANGED <<Client, base, er, owned, asked>>

\* Base serves what it has listed.
Readable(h) == [i \in DOMAIN h |-> IF h[i] = "unread" THEN "alt" ELSE h[i]]

Serve ==
  /\ Readable(history) # history /\ history' = Readable(history)
  /\ UNCHANGED <<Client, base, er, owned, asked, harmed>>

Rollup ==
  \/ \E k \in Keys : Refresh(k) \/ Clone(k)
  \/ Leak \/ CloneUnlisted \/ BaseWrite \/ Serve

-----------------------------------------------------------------------------
(* Calls of the scenarios                                                    *)

At(s, k) == script = s /\ pc = k /\ pc' = k + 1

Ensure(P) == verdict' = IF P THEN verdict ELSE "failed"

\* A base transaction that sets a key; delegation gives it to the rollup.
OnBase(s, k, key, value) ==
  /\ At(s, k) /\ base' = [base EXCEPT ![key] = value]
  /\ UNCHANGED <<verdict, baseline, er, owned, asked, history, harmed>>

Delegate(k, key, value) ==
  /\ At("mirror", k) /\ base' = [base EXCEPT ![key] = value] /\ owned' = owned \cup {key}
  /\ UNCHANGED <<verdict, baseline, er, asked, history, harmed>>

\* One read of a key, with what it must show.
Reads(s, k, key, value) ==
  /\ At(s, k) /\ er' = [er EXCEPT ![key] = Shown(key)]
  /\ Ensure(Shown(key) = value) /\ Harm(er[key] = Unknown /\ Shown(key) # base[key])
  /\ UNCHANGED <<baseline, base, owned, asked, history>>

\* await_balance, await_account: reads until it shows the value.
Awaits(k, key, value) ==
  /\ At("mirror", k)
  /\ Shown(key) = value /\ er' = [er EXCEPT ![key] = value]
  /\ UNCHANGED <<verdict, baseline, base, owned, asked, history, harmed>>

\* check_plain_clone: read until it is there, and compared then.
PlainClone(k) == Shown("plain") # 0 /\ Reads("mirror", k, "plain", 1)

\* A write of it on the rollup is refused.
UndelegatedWrite(k) ==
  /\ At("mirror", k)
  /\ Ensure(flaw # "plainWritable") /\ Harm(flaw = "plainWritable")
  /\ er' = [er EXCEPT !["plain"] = IF flaw = "plainWritable" THEN 9 ELSE @]
  /\ UNCHANGED <<baseline, base, owned, asked, history>>

\* Mutant: the balance is not read again after the settling time.
IsolatedOnce(k) == At("mirror", k) /\ UNCHANGED <<verdict, baseline, world>>

\* check_balance_isolation: FREEZE_SETTLE outlasts the rollup's reaction.
Isolated(k) ==
  /\ At("mirror", k) /\ ~LeakDue
  /\ Ensure(er["spender"] = 3 /\ base["spender"] = 4)
  /\ UNCHANGED <<baseline, world>>

\* check_batch_reads: order and absence are kept.
BatchReads(k) ==
  /\ At("mirror", k)
  /\ LET batch == <<er["wallet"], Shown("never"), er["receiver"], er["spender"]>>
         got   == IF flaw = "batchShifted" THEN SelectSeq(batch, LAMBDA v : v # 0) \o <<0>> ELSE batch
     IN Ensure(got = <<2, 0, 1, 3>>) /\ Harm(got # batch)
  /\ UNCHANGED <<baseline, base, er, owned, asked, history>>

\* transfer: on the rollup only.
Transfer(k) ==
  /\ At("mirror", k)
  /\ er' = [er EXCEPT !["spender"] = 2, !["receiver"] = 2]
  /\ base' = [base EXCEPT !["spender"] = IF flaw = "baseDebited" THEN @ - 1 ELSE @]
  /\ Harm(flaw = "baseDebited")
  /\ UNCHANGED <<verdict, baseline, owned, asked, history>>

Transferred(k) ==
  /\ At("mirror", k) /\ er["receiver"] = 2
  /\ Ensure(er["spender"] = 2 /\ base["spender"] = 4)
  /\ UNCHANGED <<baseline, world>>

Mirroring ==
  \/ OnBase("mirror", 1, "cold", 1) \/ Reads("mirror", 2, "cold", 1)
  \/ OnBase("mirror", 3, "plain", 1) \/ PlainClone(4)
  \/ OnBase("mirror", 5, "plain", 2) \/ Awaits(6, "plain", 2) \/ UndelegatedWrite(7)
  \/ Reads("mirror", 8, "ghost", 0) \/ OnBase("mirror", 9, "ghost", 1) \/ Awaits(10, "ghost", 1)
  \/ OnBase("mirror", 11, "wallet", 1) \/ Awaits(12, "wallet", 1)
  \/ OnBase("mirror", 13, "wallet", 2) \/ Awaits(14, "wallet", 2)
  \/ Delegate(15, "receiver", 1) \/ Awaits(16, "receiver", 1)
  \/ Delegate(17, "spender", 3) \/ Awaits(18, "spender", 3)
  \/ OnBase("mirror", 19, "spender", 4) \/ Reads("mirror", 20, "spender", 3) \/ Isolated(21)
  \/ BatchReads(22) \/ Transfer(23) \/ Transferred(24)

-----------------------------------------------------------------------------
\* await_program_clone
AwaitProgram(s, k, p) ==
  /\ At(s, k) /\ er' = [er EXCEPT ![p] = base[p]]
  /\ UNCHANGED <<verdict, baseline, base, owned, asked, history, harmed>>

\* program_clone_allowlist: the program that is not listed is there on base.
OnlyOnBase(k) ==
  /\ At("allow", k) /\ Ensure(base["unlisted"] = 1) /\ UNCHANGED <<baseline, world>>

\* Mutant: absence is asked for once.
StillAbsentUnread(k) == At("allow", k) /\ UNCHANGED <<verdict, baseline, world>>

\* BLOCKED_SETTLE outlasts the rollup's reaction to the first read.
StillAbsent(k) ==
  /\ At("allow", k) /\ ~(flaw = "clonesAll" /\ er["unlisted"] # 1)
  /\ Ensure(er["unlisted"] # 1) /\ UNCHANGED <<baseline, world>>

Allowlist ==
  \/ OnlyOnBase(1) \/ AwaitProgram("allow", 2, "listed") \/ Reads("allow", 3, "unlisted", 0)
  \/ StillAbsent(4)

\* alt_transactions: lookup-table transactions in the newest signatures that
\* the baseline does not have; one that cannot be read is passed over.
AltTransactions ==
  LET seen == {i \in baseline + 1..Len(history) : i > Len(history) - SignatureWindow}
  IN Cardinality({i \in seen : history[i] = "alt"})

CountsAlt(k, n) ==
  /\ At("programs", k) /\ Ensure(AltTransactions = n) /\ UNCHANGED <<baseline, world>>

\* setup: the history before the rollup is started.
Baseline(k) ==
  /\ At("programs", k) /\ baseline' = Len(history) /\ UNCHANGED <<verdict, world>>

\* invoke_until: an attempt fails and asks for the program until it is cloned,
\* and counts only with its logs.
InvokeFails(k, p) ==
  /\ script = "programs" /\ pc = k /\ pc' = k
  /\ er[p] = Unknown /\ p \notin asked /\ asked' = asked \cup {p}
  /\ UNCHANGED <<verdict, baseline, base, er, owned, history, harmed>>

Invoked(k, p) ==
  /\ At("programs", k) /\ er[p] # Unknown /\ flaw # "silent"
  /\ UNCHANGED <<verdict, baseline, world>>

\* verify_loaders: owner and code after normalisation.
Loaded(k, p) ==
  /\ At("programs", k) /\ Ensure(er[p] = base[p]) /\ UNCHANGED <<baseline, world>>

\* verify_multi_program: one transaction, two programs, a cell of each.
MultiProgram(k) ==
  /\ At("programs", k)
  /\ er' = [er EXCEPT !["first"] = 1, !["second"] = 1, !["cell1"] = 61,
                      !["cell2"] = IF flaw = "partial" THEN 0 ELSE 62]
  /\ owned' = owned \cup Cells /\ Harm(flaw = "partial")
  /\ UNCHANGED <<verdict, baseline, base, asked, history>>

MultiWritten(k) ==
  /\ At("programs", k)
  /\ Ensure(er["first"] = 1 /\ er["second"] = 1 /\ er["cell1"] = 61 /\ er["cell2"] = 62)
  /\ UNCHANGED <<baseline, world>>

\* The positive control, after the rollup has been finished: confirmed, it can
\* be read, and so can what base executed before it.
CreateTable(k) ==
  /\ At("programs", k) /\ history' = Append(Readable(history), "alt")
  /\ UNCHANGED <<verdict, baseline, base, er, owned, asked, harmed>>

Materialization ==
  \/ Baseline(1) \/ CountsAlt(2, 0)
  \/ AwaitProgram("programs", 3, "listed") \/ AwaitProgram("programs", 4, "unlisted")
  \/ \E i \in 0..2 : LET p == <<"v1", "v2", "v3">>[i + 1]
                     IN InvokeFails(5 + 2 * i, p) \/ Invoked(5 + 2 * i, p) \/ Loaded(6 + 2 * i, p)
  \/ MultiProgram(11) \/ MultiWritten(12) \/ CountsAlt(13, 0)
  \/ CreateTable(14) \/ CountsAlt(15, 1)

-----------------------------------------------------------------------------
End   == [mirror |-> 25, allow |-> 5, programs |-> 16]
Flaws == [mirror |-> {"coldWrong", "noRefresh", "negativeStuck", "topupLeaks", "plainWritable",
                      "batchShifted", "baseDebited"},
          allow |-> {"clonesAll"},
          programs |-> {"wrongImage", "silent", "partial", "altWrite"}]

Stuck == {"noRefresh", "negativeStuck", "silent"}

Init ==
  /\ script \in DOMAIN End /\ flaw \in {"none"} \cup Flaws[script]
  /\ pc = 1 /\ verdict = "good" /\ harmed = FALSE
  /\ base = [k \in Keys |-> IF k \in Programs THEN 1 ELSE 0]
  /\ er = [k \in Keys |-> IF script = "allow" /\ k = "unlisted" THEN 0 ELSE Unknown]
  /\ owned = {} /\ asked = {} /\ history = <<>> /\ baseline = 0

Passed == verdict = "good" /\ pc = End[script]

Script == (Mirroring \/ Allowlist \/ Materialization) /\ UNCHANGED <<script, flaw>>

Next == verdict = "good" /\ ~Passed /\ (Rollup \/ Script)

\* The scenario's calls return and the rollup reacts.
Spec == Init /\ [][Next]_vars /\ WF_vars(Next)

-----------------------------------------------------------------------------
\* A rollup that mirrors plain accounts, keeps delegated ones to itself and
\* clones what it may is not failed, whenever it refreshes or clones.
NoFalseAlarm == flaw = "none" => verdict = "good"

\* One that shows a wrong or stale account, lets base reach a delegated one or
\* the reverse, clones a forbidden program or a wrong image, or writes lookup
\* tables, early or after the last look at a running rollup, seen at once or only
\* beside the positive control, is not passed.
DefectCaught == harmed \/ flaw \in Stuck => ~Passed

\* On a rollup that behaves the scenarios come to their end.
ScenarioPasses == flaw = "none" => <>Passed
=============================================================================
