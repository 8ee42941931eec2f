-------------------------------- MODULE Tokens --------------------------------
(***************************************************************************)
(* chainlink/projected_token_lifecycle of redshift: tokens that are held by  *)
(* a wallet's token account (ATA) on base, by the vault with an eATA as the  *)
(* claim on it, and by what the rollup shows at the ATA's address.           *)
(*                                                                           *)
(* Wallets 1 (source), 2 (destination), 3 (unbacked) and 4 (foreign) are the *)
(* fixture's; wallet 5 is the fresh destination of an overlay case.  Base,   *)
(* its token programs and the rollup are external; `flaw` is one             *)
(* misbehaviour, `harmed` that it has happened.                              *)
(***************************************************************************)
EXTENDS Integers, Sequences

VARIABLES
  script, pc, verdict, flaw, harmed,
  ata, eata,  \* [wallet -> amount on base, or None]
  lent,       \* [wallet -> the validator its eATA is delegated to]
  outer,      \* approval of, and freeze on, wallet 5's ATA on base
  vault,
  local,      \* [wallet -> what the rollup shows]
  unseen,     \* wallets whose changes on base the rollup has not seen
  trigger,    \* the account delegated with an action
  commit,     \* the settlement that is under way
  hush,       \* answers and confirmations of base are withheld
  flight,     \* transactions of a case that nobody has executed yet
  memo        \* the overlay cases' accounting

rollup == <<harmed, lent, local, unseen, trigger, commit, flight>>
chain  == <<ata, eata, outer, vault>>
vars   == <<script, pc, verdict, flaw, memo, hush, rollup, chain>>

Client  == <<script, pc, verdict, flaw, memo, hush>>
Harm(P) == harmed' = (harmed \/ P)

Wallets == 1..5
Fixture == 1..4
None    == -1

RECEIVE   == 60
DEPOSIT   == 45
ALLOWANCE == 25
RETURNED  == 10
SUPPLY    == 415

NoGrant == [who |-> "none", amount |-> 0]
Shown(kind, x) == [kind |-> kind, val |-> x, grant |-> NoGrant, frozen |-> FALSE]
Absent   == Shown("absent", 0)
NoCommit == [stage |-> "none", vals |-> [w \in {} |-> 0], undelegates |-> FALSE]

Min2(a, b) == IF a < b THEN a ELSE b

-----------------------------------------------------------------------------
(* The rollup                                                                *)

\* What the rollup shows of a wallet it does not hold locally.
Image(w) ==
  IF lent[w] = "er" \/ (flaw = "foreignProjected" /\ lent[w] = "foreign")
  THEN Shown("projection", eata[w])
  ELSE IF ata[w] = None THEN Absent ELSE Shown("mirror", ata[w])

\* A delegated eATA takes over an overlay: balances add up, one approval stays,
\* two of the same delegate add up, and anything else is refused.
Conflict(w) ==
  \/ local[w].frozen \/ outer.frozen
  \/ /\ local[w].grant # NoGrant /\ outer.grant # NoGrant
     /\ local[w].grant.who # outer.grant.who

Merged(w) ==
  LET mine == local[w].grant
      its  == [outer.grant EXCEPT !.amount = Min2(@, eata[w])]
      held == IF flaw = "staleMerge" /\ memo.overlay # Absent THEN memo.overlay.val ELSE local[w].val
  IN [Shown("projection", eata[w] + IF flaw = "takeoverDrops" THEN 0 ELSE held)
        EXCEPT !.grant = CASE mine = NoGrant -> outer.grant
                           [] its.who = "none" -> mine
                           [] OTHER -> [mine EXCEPT !.amount = @ + its.amount]]

\* The rollup sees a change on base.  What it has as a projection is its own to
\* change, also when its own settlement is what has changed on base.  (An
\* overwrite while the next settlement is under way is undone when that lands,
\* before the scenario looks again; the flaw leaves it out.)
Seen(w) ==
  CASE local[w].kind = "overlay" /\ lent[w] = "er" ->
         IF Conflict(w) /\ flaw # "mergesFrozen" THEN local[w] ELSE Merged(w)
    [] local[w].kind = "overlay" /\ lent[w] # "er" -> local[w]
    [] local[w].kind = "projection" /\ lent[w] = "er"
         /\ (flaw # "overwrites" \/ commit.stage = "scheduled") -> local[w]
    [] OTHER -> Image(w)

Observe(w) ==
  /\ w \in unseen /\ unseen' = unseen \ {w}
  /\ local' = [local EXCEPT ![w] = Seen(w)]
  /\ LET was == local[w]
     IN Harm(\/ was.kind = "projection" /\ lent[w] = "er" /\ local'[w].val # was.val
             \/ was.kind = "overlay" /\ Conflict(w) /\ local'[w] # was
             \/ was.kind = "overlay" /\ local'[w].kind = "projection" /\ local'[w].val # was.val + eata[w]
             \/ lent[w] = "foreign" /\ local'[w].kind = "projection")
  /\ UNCHANGED <<Client, chain, lent, trigger, commit, flight>>

\* A token transfer on the rollup.
Pays(l, from, to, x) == [l EXCEPT ![from].val = @ - x, ![to].val = @ + x]

Spendable(w, x) == local[w].kind \in {"projection", "overlay"} /\ ~local[w].frozen /\ local[w].val >= x

\* The action of a delegated account runs once, or the account is sent back.
Activate ==
  /\ trigger.stage = "delegated"
  /\ LET fits  == Spendable(1, trigger.amount)
         again == flaw = "actionTwice" /\ Spendable(1, 2 * trigger.amount)
         half  == flaw = "halfAction" /\ ~fits
     IN /\ local' = CASE again -> Pays(local, 1, 2, 2 * trigger.amount)
                      [] fits /\ ~again -> Pays(local, 1, 2, trigger.amount)
                      [] half -> [local EXCEPT ![2].val = @ + trigger.amount]
                      [] OTHER -> local
        /\ trigger' = [trigger EXCEPT !.stage = IF fits THEN "done" ELSE "returned"]
        /\ Harm(again \/ half)
  /\ UNCHANGED <<Client, chain, lent, unseen, commit, flight>>

\* The eATAs go back to their program; flawed, they are settled and kept.
Releases == commit.undelegates /\ flaw # "keepsLent"

\* A settlement lands on base; its rollup knows unless the answers are withheld.
Land ==
  /\ commit.stage = "scheduled"
  /\ eata' = [w \in Wallets |-> IF w \in DOMAIN commit.vals THEN commit.vals[w] ELSE eata[w]]
  /\ lent' = [w \in Wallets |-> IF Releases /\ w \in DOMAIN commit.vals THEN "none" ELSE lent[w]]
  /\ unseen' = unseen \cup DOMAIN commit.vals
  /\ commit' = [commit EXCEPT !.stage = IF hush THEN "landed" ELSE "done"]
  /\ Harm(Releases # commit.undelegates)
  /\ UNCHANGED <<Client, ata, outer, vault, local, trigger, flight>>

\* With base reachable again it finds out that it has landed.
Recover ==
  /\ commit.stage = "landed" /\ ~hush
  /\ commit' = [commit EXCEPT !.stage = IF flaw = "lostReceipt" THEN "failed" ELSE "done"]
  /\ eata' = IF flaw = "resends" THEN [eata EXCEPT ![1] = local[1].val, ![2] = local[2].val] ELSE eata
  /\ local' = IF flaw = "reverts"
              THEN [w \in Wallets |-> IF w \in DOMAIN commit.vals
                                      THEN [local[w] EXCEPT !.val = commit.vals[w]] ELSE local[w]]
              ELSE local
  /\ Harm(eata' # eata \/ local' # local \/ flaw = "lostReceipt")
  /\ UNCHANGED <<Client, ata, outer, vault, lent, unseen, trigger, flight>>

\* Transactions that the overlay cases leave to the chains' own pace.
BaseDelegates ==
  /\ "delegate" \in flight /\ flight' = flight \ {"delegate"}
  /\ ata' = [ata EXCEPT ![5] = 0] /\ eata' = [eata EXCEPT ![5] = DEPOSIT]
  /\ vault' = vault + DEPOSIT /\ lent' = [lent EXCEPT ![5] = "er"]
  /\ outer' = CASE memo.case = "shared"     -> [outer EXCEPT !.grant = [who |-> "d", amount |-> 2 * DEPOSIT]]
                [] memo.case = "conflict"   -> [outer EXCEPT !.grant = [who |-> "o", amount |-> ALLOWANCE]]
                [] memo.case = "frozenBase" -> [outer EXCEPT !.frozen = TRUE]
                [] OTHER                    -> outer
  /\ unseen' = unseen \cup {5}
  /\ UNCHANGED <<Client, harmed, local, trigger, commit>>

ErReturns ==
  /\ "return" \in flight /\ Spendable(5, RETURNED) /\ flight' = flight \ {"return"}
  /\ local' = Pays(local, 5, 2, RETURNED)
  /\ UNCHANGED <<Client, chain, harmed, lent, unseen, trigger, commit>>

ErCloses ==
  /\ "close" \in flight /\ flight' = flight \ {"close"}
  /\ local' = [local EXCEPT ![5] = Absent]
  /\ unseen' = IF flaw = "closeHides" THEN unseen ELSE unseen \cup {5}
  /\ Harm(flaw = "closeHides" /\ ata[5] # None)
  /\ UNCHANGED <<Client, chain, lent, trigger, commit>>

\* The shuttle pays the wallet on base for what it takes from the rollup, and
\* then its accounts and the overlay are cleaned up.
ShuttleSettles ==
  /\ "shuttle" \in flight /\ flight' = (flight \ {"shuttle"}) \cup {"cleanup"}
  /\ local' = [local EXCEPT ![5].val = @ - RECEIVE]
  /\ ata' = [ata EXCEPT ![5] = @ + (IF flaw = "shuttleTwice" THEN 2 ELSE 1) * RECEIVE]
  /\ vault' = IF flaw = "shuttleUnbacked" THEN vault ELSE vault - RECEIVE
  /\ Harm(flaw \in {"shuttleTwice", "shuttleUnbacked"})
  /\ UNCHANGED <<Client, eata, outer, lent, unseen, trigger, commit>>

ShuttleCleans ==
  /\ "cleanup" \in flight /\ flight' = flight \ {"cleanup"}
  /\ local' = IF local[5].kind = "overlay" THEN [local EXCEPT ![5] = Absent] ELSE local
  /\ unseen' = unseen \cup {5}
  /\ UNCHANGED <<Client, chain, harmed, lent, trigger, commit>>

Chains ==
  \/ Activate \/ Land \/ Recover \/ BaseDelegates \/ ErReturns \/ ErCloses
  \/ ShuttleSettles \/ ShuttleCleans \/ \E w \in Wallets : Observe(w)

-----------------------------------------------------------------------------
(* Calls of the scenario                                                     *)

Both == {"backing", "overlay"}

At(S, k) == script \in S /\ pc = k /\ pc' = k + 1
Ensure(P) == verdict' = IF P THEN verdict ELSE "failed"
Keep == UNCHANGED <<memo, hush>>

\* Balances of the fixture; the vault's own claim stays 0.
Balances(a, e, p, v) ==
  /\ \A w \in Fixture : ata[w] = a[w] /\ eata[w] = e[w] /\ local[w].val = p[w]
  /\ vault = v

CheckBalances(S, k, a, e, p, v) ==
  /\ At(S, k) /\ Ensure(Balances(a, e, p, v)) /\ Keep /\ UNCHANGED <<rollup, chain>>

AwaitProjection(S, k, p) ==
  /\ At(S, k) /\ \A w \in Fixture : local[w].val = p[w]
  /\ Keep /\ UNCHANGED <<verdict, rollup, chain>>

\* create_tokens: minted, the foreign wallet's deposit delegated elsewhere, and
\* the first images of the controls.
CreateTokens(k) ==
  /\ At(Both, k)
  /\ ata' = [w \in Wallets |-> IF w = 5 THEN None ELSE <<200, 100, 70, 5>>[w]]
  /\ eata' = [w \in Wallets |-> <<0, 0, None, 40, None>>[w]] /\ vault' = 40
  /\ lent' = [lent EXCEPT ![4] = "foreign"] /\ unseen' = Fixture
  /\ Keep /\ UNCHANGED <<verdict, harmed, outer, local, trigger, commit, flight>>

FirstImages(k) ==
  /\ At(Both, k) /\ \A w \in {3, 4} : local[w].kind # "absent"
  /\ Ensure(local[3].val = 70 /\ local[4].val = 5) /\ Keep /\ UNCHANGED <<rollup, chain>>

Deposit(k, w) ==
  /\ At(Both, k)
  /\ ata' = [ata EXCEPT ![w] = 0] /\ eata' = [eata EXCEPT ![w] = ata[w]]
  /\ vault' = vault + ata[w] /\ unseen' = unseen \cup {w}
  /\ Keep /\ UNCHANGED <<verdict, harmed, outer, lent, local, trigger, commit, flight>>

\* delegate_wallets and redelegate, with the look at the owner (check_owner)
\* that follows the confirmation.
Delegate(S, k, w) ==
  /\ At(S, k) /\ unseen' = unseen \cup {w}
  /\ lent' = IF flaw = "notLent" THEN lent ELSE [lent EXCEPT ![w] = "er"]
  /\ Harm(lent'[w] # "er") /\ Ensure(lent'[w] = "er")
  /\ Keep /\ UNCHANGED <<chain, local, trigger, commit, flight>>

\* Both directions with both controls are refused and change nothing.
CheckControls(k) ==
  /\ At({"backing"}, k) /\ Ensure(flaw # "readonlySpent")
  /\ local' = IF flaw = "readonlySpent" THEN Pays(local, 3, 1, 1) ELSE local
  /\ Harm(local' # local)
  /\ Keep /\ UNCHANGED <<chain, lent, unseen, trigger, commit, flight>>

Transfer(S, k, x) ==
  /\ At(S, k) /\ Spendable(1, x) /\ local' = Pays(local, 1, 2, x)
  /\ Keep /\ UNCHANGED <<verdict, harmed, chain, lent, unseen, trigger, commit, flight>>

DelegateWithTransfer(k, x) ==
  /\ At({"backing"}, k) /\ trigger' = [stage |-> "delegated", amount |-> x]
  /\ Keep /\ UNCHANGED <<verdict, harmed, chain, lent, local, unseen, commit, flight>>

CheckOwner(k) ==
  /\ At({"backing"}, k) /\ Ensure(trigger.stage \in {"delegated", "done"})
  /\ Keep /\ UNCHANGED <<rollup, chain>>

Returned(k) ==
  /\ At({"backing"}, k) /\ trigger.stage = "returned" /\ Keep /\ UNCHANGED <<verdict, rollup, chain>>

\* commit: the rollup takes the values it has when the transaction executes.
Scheduled(ws, undelegates) ==
  /\ commit' = [stage |-> "scheduled", vals |-> [w \in ws |-> local[w].val], undelegates |-> undelegates]
  /\ UNCHANGED <<verdict, harmed, chain, lent, local, unseen, trigger, flight>>

Commit(k) == At({"backing"}, k) /\ Scheduled({1, 2}, FALSE) /\ Keep

CommitWithheld(k) ==
  /\ At({"backing"}, k) /\ Scheduled({1, 2}, FALSE) /\ hush' = TRUE /\ UNCHANGED memo

Landed(k) ==
  /\ At({"backing"}, k) /\ commit.stage = "landed" /\ Keep /\ UNCHANGED <<verdict, rollup, chain>>

RecoverConfirmation(k) ==
  /\ At({"backing"}, k) /\ hush' = FALSE /\ UNCHANGED <<verdict, memo, rollup, chain>>

Undelegate(k, w) == At({"backing"}, k) /\ Scheduled({w}, TRUE) /\ Keep

\* settled: the receipt reports success for exactly these eATAs, and base has it.
Settled(S, k, ws) ==
  /\ At(S, k) /\ commit.stage \in {"done", "failed"}
  /\ Ensure(commit.stage = "done" /\ DOMAIN commit.vals = ws /\ ~commit.undelegates)
  /\ Keep /\ UNCHANGED <<rollup, chain>>

\* undelegate_wallets: the receipt, and then the owner on base.
Released(k, w) ==
  /\ At({"backing"}, k) /\ commit.stage \in {"done", "failed"}
  /\ Ensure(commit.stage = "done" /\ DOMAIN commit.vals = {w} /\ commit.undelegates /\ lent[w] = "none")
  /\ Keep /\ UNCHANGED <<rollup, chain>>

Withdraw(k) ==
  /\ At({"backing"}, k)
  /\ ata' = [ata EXCEPT ![1] = @ + 20] /\ eata' = [eata EXCEPT ![1] = @ - 20] /\ vault' = vault - 20
  /\ unseen' = unseen \cup {1}
  /\ Keep /\ UNCHANGED <<verdict, harmed, outer, lent, local, trigger, commit, flight>>

\* Tokens that have not been seen twice or not at all: the steps up to the
\* branch, and the settlement of the backing.
Provision ==
  LET S == Both
  IN \/ CreateTokens(1) \/ FirstImages(2) \/ AwaitProjection(S, 3, <<200, 100, 70, 5>>)
     \/ CheckBalances(S, 4, <<200, 100, 70, 5>>, <<0, 0, None, 40>>, <<200, 100, 70, 5>>, 40)
     \/ Deposit(5, 1) \/ Deposit(6, 2) \/ AwaitProjection(S, 7, <<0, 0, 70, 5>>)
     \/ CheckBalances(S, 8, <<0, 0, 70, 5>>, <<200, 100, None, 40>>, <<0, 0, 70, 5>>, 340)
     \/ Delegate(S, 9, 1) \/ Delegate(S, 10, 2) \/ AwaitProjection(S, 11, <<200, 100, 70, 5>>)

Backing ==
  LET S == {"backing"}
      Check(k, one, two, p) == CheckBalances(S, k, <<0, 0, 70, 5>>, <<one, two, None, 40>>, p, 340)
  IN \/ CheckControls(12) \/ Check(13, 200, 100, <<200, 100, 70, 5>>)
     \/ DelegateWithTransfer(14, 100) \/ AwaitProjection(S, 15, <<100, 200, 70, 5>>)
     \/ CheckOwner(16) \/ Check(17, 200, 100, <<100, 200, 70, 5>>)
     \/ DelegateWithTransfer(18, 1000) \/ Returned(19) \/ Check(20, 200, 100, <<100, 200, 70, 5>>)
     \/ Transfer(S, 21, 37) \/ Check(22, 200, 100, <<63, 237, 70, 5>>)
     \/ CommitWithheld(23) \/ Landed(24) \/ Check(25, 63, 237, <<63, 237, 70, 5>>)
     \/ Transfer(S, 26, 11) \/ Check(27, 63, 237, <<52, 248, 70, 5>>)
     \/ RecoverConfirmation(28) \/ Settled(S, 29, {1, 2})
     \/ CheckControls(30) \/ Check(31, 63, 237, <<52, 248, 70, 5>>)
     \/ Commit(32) \/ Settled(S, 33, {1, 2}) \/ Check(34, 52, 248, <<52, 248, 70, 5>>)
     \/ Undelegate(35, 1) \/ Released(36, 1) \/ Undelegate(37, 2) \/ Released(38, 2)
     \/ AwaitProjection(S, 39, <<0, 0, 70, 5>>) \/ Check(40, 52, 248, <<0, 0, 70, 5>>)
     \/ Withdraw(41) \/ AwaitProjection(S, 42, <<20, 0, 70, 5>>)
     \/ CheckBalances(S, 43, <<20, 0, 70, 5>>, <<32, 248, None, 40>>, <<20, 0, 70, 5>>, 320)
     \/ Delegate(S, 44, 1) \/ Delegate(S, 45, 2) \/ AwaitProjection(S, 46, <<32, 248, 70, 5>>)
     \/ CheckControls(47)
     \/ CheckBalances(S, 48, <<20, 0, 70, 5>>, <<32, 248, None, 40>>, <<32, 248, 70, 5>>, 320)
     \/ Transfer(S, 49, 7)
     \/ CheckBalances(S, 50, <<20, 0, 70, 5>>, <<32, 248, None, 40>>, <<25, 255, 70, 5>>, 320)
     \/ Commit(51) \/ Settled(S, 52, {1, 2})
     \/ CheckBalances(S, 53, <<20, 0, 70, 5>>, <<25, 255, None, 40>>, <<25, 255, 70, 5>>, 320)

-----------------------------------------------------------------------------
(* magic_atas.rs                                                             *)

\* Case::ALL, Case::merged: the balance and approval a takeover ends with.
Order == <<"drain", "readonly", "projection", "funded", "shared", "conflict", "frozenOverlay",
           "frozenBase", "overlap", "fullShuttle", "transparentShuttle">>

Draining  == {"drain", "readonly"}
Shuttling == {"fullShuttle", "transparentShuttle"}
Refused   == {"conflict", "frozenOverlay", "frozenBase"}
Taking    == {"projection", "funded", "shared", "overlap"} \cup Refused

Balance == CASE memo.case = "projection" -> DEPOSIT
             [] memo.case = "overlap"    -> RECEIVE + DEPOSIT - RETURNED
             [] OTHER                    -> RECEIVE + DEPOSIT

Approval == CASE memo.case = "funded" -> [who |-> "d", amount |-> ALLOWANCE]
              [] memo.case = "shared" -> [who |-> "d", amount |-> ALLOWANCE + DEPOSIT]
              [] OTHER                -> NoGrant

Of(C, k) == script = "overlay" /\ memo.case \in C /\ pc = k

\* run_case with a fresh destination.
NextCase ==
  /\ script = "overlay" /\ pc = 13 /\ memo.n < Len(Order)
  /\ memo' = [memo EXCEPT !.n = @ + 1, !.case = Order[memo.n + 1], !.overlay = Absent]
  /\ pc' = IF memo'.case = "readonly" THEN 14 ELSE 16
  /\ ata' = [ata EXCEPT ![5] = None] /\ eata' = [eata EXCEPT ![5] = None]
  /\ lent' = [lent EXCEPT ![5] = "none"] /\ outer' = [grant |-> NoGrant, frozen |-> FALSE]
  /\ local' = [local EXCEPT ![5] = Absent] /\ unseen' = unseen \ {5}
  /\ UNCHANGED <<verdict, hush, harmed, vault, trigger, commit, flight>>

Seed ==
  /\ Of({"readonly"}, 14) /\ pc' = 15
  /\ ata' = [ata EXCEPT ![5] = DEPOSIT] /\ local' = [local EXCEPT ![5] = Shown("mirror", DEPOSIT)]
  /\ memo' = [memo EXCEPT !.supply = @ + DEPOSIT, !.base = @ + DEPOSIT]
  /\ UNCHANGED <<verdict, hush, harmed, eata, outer, vault, lent, unseen, trigger, commit, flight>>

\* A transaction that spends it, creates the overlay and receives is refused.
SpendSeed ==
  /\ Of({"readonly"}, 15) /\ pc' = 16 /\ Ensure(flaw # "readonlySpent") /\ Harm(flaw = "readonlySpent")
  /\ Keep /\ UNCHANGED <<chain, lent, local, unseen, trigger, commit, flight>>

Receive ==
  /\ script = "overlay" /\ pc = 16 /\ pc' = 17
  /\ local' = Pays([local EXCEPT ![5] = Shown("overlay", 0)], 2, 5, RECEIVE)
  /\ ata' = IF flaw = "overlayOnBase" THEN [ata EXCEPT ![5] = RECEIVE] ELSE ata
  /\ Harm(ata' # ata)
  /\ Keep /\ UNCHANGED <<verdict, eata, outer, vault, lent, unseen, trigger, commit, flight>>

Received ==
  /\ script = "overlay" /\ pc = 17 /\ pc' = 18
  /\ Ensure(/\ local[5] = Shown("overlay", RECEIVE) /\ local[2].val = memo.source - RECEIVE
            /\ ata[5] = IF memo.case = "readonly" THEN DEPOSIT ELSE None)
  /\ Keep /\ UNCHANGED <<rollup, chain>>

\* drain: the source then has what the scenario expects of it.
Drains(x) ==
  /\ Spendable(5, x) /\ local' = Pays(local, 5, 2, x) /\ Ensure(local'[2].val = memo.source)
  /\ UNCHANGED <<hush, harmed, chain, lent, unseen, trigger, commit>>

Drain == Of(Draining, 18) /\ pc' = 19 /\ Drains(RECEIVE) /\ UNCHANGED <<memo, flight>>

\* close: the closing update, and then the base ATA again.
Close ==
  /\ Of(Draining, 19) /\ pc' = 20 /\ flight' = flight \cup {"close"}
  /\ Keep /\ UNCHANGED <<verdict, harmed, chain, lent, local, unseen, trigger, commit>>

Closed ==
  /\ Of(Draining, 20) /\ pc' = 40 /\ "close" \notin flight
  /\ local[5] = IF memo.case = "readonly" THEN Shown("mirror", DEPOSIT) ELSE Absent
  /\ Keep /\ UNCHANGED <<verdict, rollup, chain>>

\* take_over: drained, or with an approval; then the overlay is read.
Localize ==
  /\ Of(Taking, 18) /\ pc' = 21
  /\ IF memo.case = "projection" THEN Drains(RECEIVE)
     ELSE /\ local' = [local EXCEPT ![5].grant = [who |-> "d", amount |-> ALLOWANCE],
                                    ![5].frozen = memo.case = "frozenOverlay"]
          /\ UNCHANGED <<verdict, hush, harmed, chain, lent, unseen, trigger, commit>>
  /\ memo' = [memo EXCEPT !.overlay = local'[5]] /\ UNCHANGED flight

\* The delegation, and in one case a transfer beside it (try_join).
Back ==
  /\ Of(Taking, 21) /\ pc' = 22
  /\ flight' = flight \cup {"delegate"} \cup IF memo.case = "overlap" THEN {"return"} ELSE {}
  /\ Keep /\ UNCHANGED <<verdict, harmed, chain, lent, local, unseen, trigger, commit>>

\* Mutant: the approval is revoked only on the overlay it was given on.
BackedOverlay ==
  /\ Of(Taking, 22) /\ pc' = 23 /\ flight = {}
  /\ local' = IF memo.case = "overlap" /\ local[5].kind = "overlay"
              THEN [local EXCEPT ![5].grant = NoGrant] ELSE local
  /\ memo' = [memo EXCEPT !.supply = @ + DEPOSIT]
  /\ UNCHANGED <<verdict, hush, harmed, chain, lent, unseen, trigger, commit, flight>>

Backed ==
  /\ Of(Taking, 22) /\ pc' = 23 /\ flight = {}
  /\ local' = IF memo.case = "overlap" THEN [local EXCEPT ![5].grant = NoGrant] ELSE local
  /\ memo' = [memo EXCEPT !.supply = @ + DEPOSIT]
  /\ UNCHANGED <<verdict, hush, harmed, chain, lent, unseen, trigger, commit, flight>>

\* Mutant: looked at without giving the rollup its time (SETTLE).
UnmovedAtOnce ==
  /\ Of(Refused, 23) /\ pc' = 40 /\ Ensure(local[5] = memo.overlay)
  /\ memo' = [memo EXCEPT !.source = @ - RECEIVE, !.claims = @ + RECEIVE + DEPOSIT]
  /\ UNCHANGED <<hush, rollup, chain>>

\* A refused takeover leaves the overlay as it was; SETTLE is longer than a
\* takeover takes.
Unmoved ==
  /\ Of(Refused, 23) /\ pc' = 40 /\ 5 \notin unseen /\ Ensure(local[5] = memo.overlay)
  /\ memo' = [memo EXCEPT !.source = @ - RECEIVE, !.claims = @ + RECEIVE + DEPOSIT]
  /\ UNCHANGED <<hush, rollup, chain>>

TakenOver ==
  /\ Of(Taking \ Refused, 23) /\ pc' = IF memo.case = "funded" THEN 24 ELSE 27
  /\ local[5] = [Shown("projection", Balance) EXCEPT !.grant = Approval]
  /\ Keep /\ UNCHANGED <<verdict, rollup, chain>>

CommitFunded == Of({"funded"}, 24) /\ pc' = 25 /\ Scheduled({5}, FALSE) /\ Keep

SettledFunded ==
  /\ Of({"funded"}, 25) /\ Settled({"overlay"}, 25, {5})

\* The backing has the balance, and what the rollup shows is not added to.
StillFunded ==
  /\ Of({"funded"}, 26) /\ pc' = 27 /\ 5 \notin unseen
  /\ Ensure(eata[5] = Balance /\ local[5].val = Balance) /\ Keep /\ UNCHANGED <<rollup, chain>>

DrainTaken ==
  /\ Of(Taking \ Refused, 27) /\ pc' = 40 /\ Spendable(5, Balance)
  /\ local' = Pays(local, 5, 2, Balance) /\ memo' = [memo EXCEPT !.source = @ + DEPOSIT]
  /\ Ensure(local'[2].val = memo'.source)
  /\ UNCHANGED <<hush, harmed, chain, lent, unseen, trigger, commit, flight>>

\* withdraw through a shuttle, to an ATA that is delegated too or not.
Shuttle ==
  /\ Of(Shuttling, 18) /\ pc' = 30 /\ flight' = flight \cup {"shuttle"}
  /\ ata' = [ata EXCEPT ![5] = 0]
  /\ IF memo.case = "transparentShuttle"
     THEN /\ eata' = [eata EXCEPT ![5] = 0] /\ lent' = [lent EXCEPT ![5] = "er"]
          /\ unseen' = unseen \cup {5}
     ELSE UNCHANGED <<eata, lent, unseen>>
  /\ Keep /\ UNCHANGED <<verdict, harmed, outer, vault, local, trigger, commit>>

Shuttled ==
  /\ Of(Shuttling, 30) /\ pc' = 40 /\ ata[5] = RECEIVE /\ local[5].kind # "overlay" /\ flight = {}
  /\ Ensure(memo.case = "transparentShuttle" => lent[5] = "er")
  /\ memo' = [memo EXCEPT !.source = @ - RECEIVE, !.base = @ + RECEIVE]
  /\ UNCHANGED <<hush, rollup, chain>>

\* check_conservation, check_supply.
Conserved ==
  /\ script = "overlay" /\ pc = 40 /\ pc' = 13
  /\ Ensure(/\ local[2].val = memo.source
            /\ vault = local[1].val + local[2].val + memo.claims + eata[4]
            /\ ata[1] + ata[2] + ata[3] + ata[4] + vault + memo.base = memo.supply)
  /\ Keep /\ UNCHANGED <<rollup, chain>>

Overlay ==
  \/ Transfer({"overlay"}, 12, 155)
  \/ NextCase \/ Seed \/ SpendSeed \/ Receive \/ Received \/ Drain \/ Close \/ Closed
  \/ Localize \/ Back \/ Backed \/ Unmoved \/ TakenOver \/ CommitFunded \/ SettledFunded
  \/ StillFunded \/ DrainTaken \/ Shuttle \/ Shuttled \/ Conserved

-----------------------------------------------------------------------------
Script == verdict = "good" /\ (Provision \/ Backing \/ Overlay) /\ UNCHANGED <<script, flaw>>

Flaws == [backing |-> {"foreignProjected", "readonlySpent", "actionTwice", "halfAction", "overwrites",
                       "lostReceipt", "resends", "reverts", "keepsLent", "notLent"},
          overlay |-> {"readonlySpent", "overlayOnBase", "closeHides", "staleMerge", "takeoverDrops",
                       "mergesFrozen", "shuttleTwice", "shuttleUnbacked"}]

Init ==
  /\ script \in Both /\ flaw \in {"none"} \cup Flaws[script]
  /\ pc = 1 /\ verdict = "good" /\ harmed = FALSE
  /\ ata = [w \in Wallets |-> None] /\ eata = ata /\ lent = [w \in Wallets |-> "none"]
  /\ outer = [grant |-> NoGrant, frozen |-> FALSE] /\ vault = 0
  /\ local = [w \in Wallets |-> Absent] /\ unseen = {} /\ hush = FALSE /\ flight = {}
  /\ trigger = [stage |-> "none", amount |-> 0] /\ commit = NoCommit
  /\ memo = [n |-> 0, case |-> "none", overlay |-> Absent,
             source |-> 255, base |-> 0, claims |-> 0, supply |-> SUPPLY]

Passed ==
  /\ verdict = "good"
  /\ IF script = "backing" THEN pc = 54 ELSE pc = 13 /\ memo.n = Len(Order)

Next == verdict = "good" /\ ~Passed /\ ((Chains /\ UNCHANGED <<script, flaw>>) \/ Script)

\* The chains act, and the scenario's calls return.
Spec == Init /\ [][Next]_vars /\ WF_vars(Chains /\ verdict = "good" /\ ~Passed)
             /\ WF_vars(Script /\ ~Passed)

-----------------------------------------------------------------------------
\* Chains that behave are not failed, whenever the rollup sees a change.
NoFalseAlarm == flaw = "none" => verdict = "good"

\* Chains that count a token twice or not at all, let a readonly balance be
\* spent, or leave an eATA with another owner than they report, are not passed.
DefectCaught == harmed => ~Passed

\* On chains that behave both modes come to their end.
ScenarioPasses == flaw = "none" => <>Passed
=============================================================================
