------------------------------- MODULE Waits --------------------------------
(***************************************************************************)
(* The waits scenarios are made of, on an instance: account waits          *)
(* (AccountWait), two on one client that see one write and one that sees   *)
(* three, and commit receipts (Receipts).  `wait` says what a behaviour is *)
(* of; the variables of the others stay in an initial state.               *)
(***************************************************************************)
EXTENDS AccountWait, Receipts

CONSTANTS
  w1, w2,    \* the waits
  FewWrites  \* bound on the changes of each account while there are two waits

VARIABLE wait  \* "two", "one" or "receipt"

ASSUME WaitAssumption /\ FewWrites \in 1 .. MaxWrites

-----------------------------------------------------------------------------
AccountIdle == Init /\ \A w \in Waiters : goal[w] = [a \in Addresses |-> None] /\ ~seeded[w]
ReceiptsIdle == ReceiptsInit /\ op = "watch" /\ patient /\ outbox = <<>>

WaitsInit ==
  \/ wait = "two" /\ Init /\ ReceiptsIdle
  \/ wait = "one" /\ Init /\ ~seeded[w2] /\ ReceiptsIdle
  \/ wait = "receipt" /\ ReceiptsInit /\ AccountIdle

\* With two waits there are few writes, with one the other does not begin.
TwoStep ==
  /\ wait = "two" /\ Next /\ \A a \in Addresses : Len(history'[a]) <= FewWrites + 1
  /\ UNCHANGED <<wait, receiptVars>>
OneStep == wait = "one" /\ Next /\ pc'[w2] = pc[w2] /\ UNCHANGED <<wait, receiptVars>>
ReceiptStep == wait = "receipt" /\ ReceiptsNext /\ UNCHANGED <<wait, vars>>

\* The fairness of Receipts; account waits are checked for safety only.
WaitsSpec ==
  /\ WaitsInit
  /\ [][TwoStep \/ OneStep \/ ReceiptStep]_<<wait, vars, receiptVars>>
  /\ wait = "receipt" => ReceiptsFairness
=============================================================================
