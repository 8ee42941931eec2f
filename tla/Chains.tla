------------------------------- MODULE Chains -------------------------------
(***************************************************************************)
(* The base chain, the ephemeral rollups (ER) and their committor as the    *)
(* settlement scenarios of src/redshift see them.  None of it is code of    *)
(* this repository: it is modelled from how the scenarios use it, and it is *)
(* what their oracles are judged against.  With `flaw` = "none" it behaves  *)
(* as the scenarios require; any other value of `flaw` makes it misbehave   *)
(* in one way, and `harmed` records that it has.                            *)
(*                                                                          *)
(* A delegation session begins when base delegates a cell.                  *)
(*                                                                          *)
(* A cell image is a number.  `base[c].owner` is "program", or the          *)
(* validator the cell is delegated to.  A commit intent travels             *)
(*   queued -> request -> landed -> pending -> done                         *)
(* and may be held at the proxy with its request or with its response.      *)
(***************************************************************************)
EXTENDS Integers, Sequences, FiniteSets

CONSTANTS A, B   \* the validators of two rollups

Validators == {A, B}

\* No scenario uses more than four accounts at once.
Cells == 1..4

\* The image of a cell whose program refuses to take it back.
Rejects == 9

VARIABLES
  base,      \* [val, owner, session, asked, cycled] of every cell on the base chain
  er,        \* [val, mode, session] of every cell on every rollup
  intents,   \* the scheduled intents, in order
  history,   \* the intents as base executed them, oldest first
  trap,      \* the proxy's three interceptors
  sequence,  \* requests the proxy has numbered
  hush,      \* confirmations of landed transactions are withheld
  blind,     \* account notifications are withheld
  large,     \* snapshots are too large to travel in the transaction itself
  deaf,      \* the rollup has not recovered from losing its connections
  flaw,      \* the way the system misbehaves, "none" if it does not
  harmed     \* it has misbehaved

committor == <<intents, history, sequence>>
proxy     == <<trap, hush, blind>>
env       == <<base, er, committor, proxy, deaf, harmed>>

Modes  == {"absent", "live", "locked", "mirror"}
Stages == {"queued", "request", "held", "kept", "unsure", "pending", "done"}
Off    == [point |-> "off", cell |-> 0, got |-> 0, seq |-> 0]

ChainInit ==
  /\ base = [c \in Cells |->
               [val |-> 0, owner |-> "program", session |-> 0, asked |-> FALSE, cycled |-> FALSE]]
  /\ er = [v \in Validators |-> [c \in Cells |-> [val |-> 0, mode |-> "absent", session |-> 0]]]
  /\ intents = <<>> /\ history = <<>> /\ sequence = 0
  /\ trap = [t \in 1..3 |-> Off]
  /\ hush = FALSE /\ blind = FALSE /\ deaf = FALSE /\ harmed = FALSE

-----------------------------------------------------------------------------
(* What a reader of the chains computes                                      *)

\* The commit nonce of a cell: one for every execution that touched it.
Nonce(c) == Cardinality({n \in 1..Len(history) : c \in intents[history[n]].cells})

Conflict(i, j) == j < i /\ intents[i].cells \cap intents[j].cells # {}

Writable(v, c) == \/ er[v][c].mode = "live"
                  \/ er[v][c].mode = "locked" /\ flaw = "openLockout"

-----------------------------------------------------------------------------
(* The committor of a rollup                                                 *)

\* The interceptor that is armed for intent i at a point of its delivery.
Armed(i, point) == {t \in 1..3 : /\ trap[t].point = point
                                 /\ trap[t].got = 0
                                 /\ trap[t].cell \in intents[i].cells}

Catch(i, point, seq) ==
  LET t == CHOOSE u \in Armed(i, point) : TRUE
  IN  trap' = [trap EXCEPT ![t].got = i, ![t].seq = seq]

\* An intent is submitted once every earlier one it conflicts with has settled.
Submit(i) ==
  /\ intents[i].stage = "queued"
  /\ ~deaf
  /\ \A j \in 1..Len(intents) :
       (flaw = "headOfLine" /\ j < i) \/ (flaw # "unordered" /\ Conflict(i, j))
         => intents[j].stage = "done"
  /\ sequence' = sequence + 1
  /\ harmed' = \/ harmed \/ (large /\ flaw = "leakedBuffer")
               \/ \E j \in 1..Len(intents) : Conflict(i, j) /\ intents[j].stage # "done"
  /\ intents' = [intents EXCEPT
                   ![i].stage = IF Armed(i, "request") # {} THEN "held" ELSE "request",
                   ![i].buffer = IF large THEN "open" ELSE "none"]
  /\ IF Armed(i, "request") # {} THEN Catch(i, "request", sequence + 1) ELSE UNCHANGED trap
  /\ UNCHANGED <<base, er, history, hush, blind, deaf>>

\* What executing intent i writes to a cell.
Settled(i, c) ==
  LET cell == base[c]
      snap == IF flaw = "lateSnapshot" THEN er[intents[i].by][c].val ELSE intents[i].snap[c]
  IN  CASE intents[i].kind = "action" -> [cell EXCEPT !.val = @ + 1]
        [] intents[i].kind = "commit" -> [cell EXCEPT !.val = snap]
        [] intents[i].kind = "undelegate" ->
             [cell EXCEPT !.val = snap,
                          !.owner = IF snap = Rejects THEN @ ELSE "program",
                          !.asked = IF flaw = "requestLeft" THEN @ ELSE FALSE]

Execute(i) ==
  LET touched == IF flaw = "siblingSettled" THEN {c \in Cells : base[c].owner = intents[i].by}
                                            ELSE intents[i].cells
  IN /\ base' = [c \in Cells |->
                   IF c \in intents[i].cells THEN Settled(i, c)
                   ELSE IF c \in touched THEN [base[c] EXCEPT !.val = er[intents[i].by][c].val]
                   ELSE base[c]]
     /\ history' = Append(history, i)
     /\ harmed' = \/ harmed
                  \/ \E n \in 1..Len(history) : history[n] = i
                  \/ intents[i].kind # "action"
                       /\ \E c \in intents[i].cells : base[c].owner # intents[i].by
                  \/ \E c \in touched \ intents[i].cells : er[intents[i].by][c].val # base[c].val
                  \/ flaw = "requestLeft" /\ \E c \in intents[i].cells : base[c].asked
                  \/ flaw = "lateSnapshot" /\ intents[i].kind # "action"
                       /\ \E c \in intents[i].cells :
                            er[intents[i].by][c].val # intents[i].snap[c]

\* Base executes the request when every cell is still the sender's; otherwise
\* the rollup publishes the failure.
Land(i) ==
  /\ intents[i].stage = "request"
  /\ IF intents[i].kind = "action" \/ \A c \in intents[i].cells : base[c].owner = intents[i].by
          \/ flaw = "oldValidatorLands"
     THEN /\ Execute(i)
          /\ intents' = [intents EXCEPT ![i].stage =
                           IF Armed(i, "response") # {} THEN "kept" ELSE "pending"]
          /\ IF Armed(i, "response") # {} THEN Catch(i, "response", sequence) ELSE UNCHANGED trap
     ELSE /\ intents' = [intents EXCEPT ![i].stage = "done", ![i].receipt = "error"]
          /\ UNCHANGED <<base, history, harmed, trap>>
  /\ UNCHANGED <<er, sequence, hush, blind, deaf>>

\* The rollup learns from a status or a notification that base executed the
\* transaction, and publishes the receipt.
Confirm(i) ==
  /\ intents[i].stage \in {"pending", "unsure"}
  /\ ~hush \/ flaw = "eagerReceipt"
  /\ harmed' = (harmed \/ hush)
  /\ intents' = [intents EXCEPT ![i].stage = "done", ![i].receipt = "ok"]
  /\ UNCHANGED <<base, er, history, sequence, proxy, deaf>>

\* Misbehaviour on an intent whose response was lost: it is executed again,
\* dropped, or sent again and refused as a duplicate.
Mishandle(i) ==
  /\ intents[i].stage = "unsure"
  /\ \/ /\ flaw = "doubleEffect"
        /\ ~harmed
        /\ Execute(i)
        /\ UNCHANGED intents
     \/ /\ flaw = "duplicateRefused"
        /\ intents' = [intents EXCEPT ![i].stage = "done", ![i].receipt = "duplicate"]
        /\ harmed' = TRUE
        /\ UNCHANGED <<base, history>>
  /\ harmed'
  /\ UNCHANGED <<er, sequence, proxy, deaf>>

\* The accounts that carried a large snapshot are closed after settlement.
CloseBuffer(i) ==
  /\ intents[i].stage = "done"
  /\ intents[i].buffer = "open"
  /\ flaw # "leakedBuffer"
  /\ intents' = [intents EXCEPT ![i].buffer = "closed"]
  /\ UNCHANGED <<base, er, history, sequence, proxy, deaf, harmed>>

-----------------------------------------------------------------------------
(* A rollup's view of base                                                   *)

\* What the rollup should hold of a cell that it does not own at the moment.
Current(v, c) == [val |-> base[c].val, session |-> base[c].session,
                  mode |-> IF base[c].owner = v THEN "live" ELSE "mirror"]

\* A notification or a refetch brings the rollup's copy up to date.  The copy
\* of a cell that is delegated to it, or locked until base returns it, stays.
Learn(v, c) ==
  /\ ~blind /\ ~deaf
  /\ \/ er[v][c].mode = "mirror"
     \/ /\ er[v][c].mode = "locked"
        /\ base[c].owner # v \/ base[c].session # er[v][c].session
  /\ er[v][c] # Current(v, c)
  /\ er' = [er EXCEPT ![v][c] = Current(v, c)]
  /\ UNCHANGED <<base, committor, proxy, deaf, harmed>>

\* Misbehaviour: a refused undelegation, or a redelegation in one transaction,
\* makes the rollup give the cell a mode it must not have.
Misjudge(v, c) ==
  /\ \/ /\ flaw = "lockoutLifted"
        /\ er[v][c].mode = "locked" /\ base[c].val = Rejects
        /\ er' = [er EXCEPT ![v][c].mode = "live"]
     \/ /\ flaw = "cycleDrops"
        /\ er[v][c].mode = "live" /\ base[c].cycled
        /\ er' = [er EXCEPT ![v][c].mode = "absent"]
  /\ harmed' = TRUE
  /\ UNCHANGED <<base, committor, proxy, deaf>>

New(v, kind, cells) ==
  [by |-> v, kind |-> kind, cells |-> cells, snap |-> [c \in cells |-> er[v][c].val],
   stage |-> "queued", receipt |-> "none", buffer |-> "none"]

Locked(v, kind, cells) ==
  IF kind = "undelegate" THEN [er EXCEPT ![v] = [c \in Cells |->
                                 IF c \in cells THEN [@[c] EXCEPT !.mode = "locked"] ELSE @[c]]]
                         ELSE er

\* The rollup answers a request on base to return a cell.
ServeRequest(v, c) ==
  /\ base[c].asked /\ base[c].owner = v /\ er[v][c].mode = "live"
  /\ intents' = Append(intents, New(v, "undelegate", {c}))
  /\ er' = Locked(v, "undelegate", {c})
  /\ UNCHANGED <<base, history, sequence, proxy, deaf, harmed>>

System ==
  \/ \E i \in 1..Len(intents) : Submit(i) \/ Land(i) \/ Confirm(i) \/ Mishandle(i) \/ CloseBuffer(i)
  \/ \E v \in Validators, c \in Cells : Learn(v, c) \/ Misjudge(v, c) \/ ServeRequest(v, c)

\* Nothing is left in hand: what a watching window is long enough to see.
Quiet == ~ENABLED System
=============================================================================
