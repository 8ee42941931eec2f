------------------------------ MODULE Receipts ------------------------------
(***************************************************************************)
(* From a scheduled commit to its settlement: CommitWatch, check_commit    *)
(* and ensure_receipt_absent of receipt.rs, with the waits of api/wait.rs  *)
(* they rest on (await_query, await_transaction, try_confirm).             *)
(*                                                                         *)
(* The rollup announces a receipt by its signature or by the outbox whose  *)
(* history will hold it.  A history lists a transaction before its body    *)
(* can be read; besides completions it holds acceptance, progress and      *)
(* failed transactions, completions of other intents, and perhaps one of   *)
(* an earlier ledger that used the same intent id.                         *)
(***************************************************************************)
EXTENDS Naturals, Sequences, Functions, FiniteSets

CONSTANTS
  MaxLanded,  \* bound on the transactions in the history
  Limit,      \* RECEIPT_HISTORY_LIMIT (64)
  Attempts,   \* of ensure_receipt_absent (5)
  MaxBase     \* bound on the base transactions of an intent

ASSUME ReceiptsAssumption ==
  {MaxLanded, Limit, Attempts, MaxBase} \subseteq Nat \ {0}

Intent == 1   \* the id in the scheduling logs
MinSlot == 1  \* the slot of the scheduling transaction
ReceiptOver == {"settled", "duplicate", "absent", "failed", "timeout"}

VARIABLES
  op,         \* "watch", "check" or "absent"; never changes
  patient,    \* the answers come before the deadlines; never changes
  stage,      \* where the caller stands
  target,     \* what the scheduling transaction announced, once it executed
  outbox,     \* transactions that mention the outbox, in order
  readable,   \* those whose bodies can be read
  base,       \* how far each base transaction is
  armed,      \* open subscriptions: "schedule", "outbox", "signature"
  told,       \* transactions the outbox subscription has not returned yet
  heard,      \* notifications of the schedule and signature subscriptions
  fetched, pending, batch,  \* of fetch_commit_receipt_by_intent
  listing,    \* what ensure_receipt_absent asked about, and what of it is left
  attempt,    \* attempts of it that were unresolved
  receipt,    \* the transaction taken for the receipt, 0 if none
  unconfirmed \* its base signatures still to confirm

receiptVars == <<op, patient, stage, target, outbox, readable, base, armed, told, heard,
                 fetched, pending, batch, listing, attempt, receipt, unconfirmed>>
call == <<op, patient>>
ledgers == <<target, outbox, readable, base>>
subscriptions == <<armed, told, heard>>
fetch == <<fetched, pending, batch>>
absence == <<listing, attempt>>

\* parse_outbox_completion: a successful transaction of the outbox program
\* that logs a commit id.
Completion(i) == outbox[i].kind = "completion"

\* getSignaturesForAddress: the newest first.
Listed == LET n == IF Len(outbox) < Limit THEN Len(outbox) ELSE Limit
          IN  [k \in 1 .. n |-> Len(outbox) + 1 - k]

-----------------------------------------------------------------------------
Ongoing == [slot |-> MinSlot, kind |-> "progress", id |-> Intent, payer |-> "payer",
             error |-> "none", matches |-> TRUE, base |-> 0]
Earlier == [Ongoing EXCEPT !.slot = 0, !.kind = "completion", !.base = 1]
Other == [Ongoing EXCEPT !.kind = "completion", !.id = 2]

\* How this intent may complete.
Completions ==
  LET done == [Ongoing EXCEPT !.kind = "completion"]
  IN  {[done EXCEPT !.base = n] : n \in 0 .. MaxBase}
        \cup {[done EXCEPT !.matches = FALSE], [done EXCEPT !.error = "duplicate"],
              [done EXCEPT !.error = "failed"]}

ReceiptsInit ==
  /\ op \in {"watch", "check", "absent"} /\ patient \in BOOLEAN
  /\ stage = IF op = "watch" THEN "arm" ELSE "published"
  /\ target = "unknown"
  /\ outbox \in {<<>>, <<Earlier>>}
  /\ readable = DOMAIN outbox
  /\ base = [b \in 1 .. MaxBase |-> "sent"]
  /\ armed = {} /\ told = <<>> /\ heard = {}
  /\ fetched = {} /\ pending = <<>> /\ batch = <<>>
  /\ listing = [all |-> {}, left |-> <<>>, unreadable |-> FALSE] /\ attempt = 0
  /\ receipt = 0 /\ unconfirmed = <<>>

\* CommitWatch::new, before the commit is submitted.
Arm ==
  /\ stage = "arm"
  /\ armed' = {"schedule", "outbox"}
  /\ stage' = "scheduling"
  /\ UNCHANGED <<call, ledgers, told, heard, fetch, absence, receipt, unconfirmed>>

\* receipt_target_in_logs; a scheduling that failed or announces nothing is an
\* error.  The old protocol announces a signature, the new one an outbox.
Announced ==
  CASE target \in {"failed", "missing"} -> "failed"
    [] target = "signature" -> [watch |-> "receipt", check |-> "fetchOne", absent |-> "ask"][op]
    [] target = "outbox" -> [watch |-> "slot", check |-> "fetch", absent |-> "list"][op]

\* CommitWatch::check: the notification of the scheduling transaction.
Scheduling ==
  /\ stage = "scheduling" /\ "schedule" \in heard
  /\ heard' = heard \ {"schedule"}
  /\ stage' = Announced
  /\ UNCHANGED <<call, ledgers, armed, told, fetch, absence, receipt, unconfirmed>>

\* scheduled_receipt_target polls for the transaction instead, and so does
\* the caller of ensure_receipt_absent, whose transaction was refused but has
\* logged a target.
Published ==
  /\ stage = "published" /\ target # "unknown"
  /\ stage' = Announced
  /\ UNCHANGED <<call, ledgers, subscriptions, fetch, absence, receipt, unconfirmed>>

\* after_slot(await_transaction(signature).slot).
AfterSlot ==
  /\ stage = "slot"
  /\ stage' = "fetch"
  /\ UNCHANGED <<call, ledgers, subscriptions, fetch, absence, receipt, unconfirmed>>

\* The completion this scheduling announced by signature.
IsAnnounced(i) == outbox[i].slot >= MinSlot /\ outbox[i].id = Intent /\ Completion(i)

Takes(i) == receipt' = i /\ stage' = "verify"

\* for_signature: notifications of other transactions are passed over.
ReceiptNotified ==
  /\ stage = "receipt" /\ told # <<>>
  /\ told' = Tail(told)
  /\ IF IsAnnounced(Head(told)) THEN Takes(Head(told)) ELSE UNCHANGED <<stage, receipt>>
  /\ UNCHANGED <<call, ledgers, armed, heard, fetch, absence, unconfirmed>>

\* fetch_receipt_for_target of a signature: await_transaction.
ReceiptFetched ==
  /\ stage = "fetchOne"
  /\ \E i \in readable : IsAnnounced(i) /\ Takes(i)
  /\ UNCHANGED <<call, ledgers, subscriptions, fetch, absence, unconfirmed>>

-----------------------------------------------------------------------------
\* fetch_commit_receipt_by_intent subscribes to the logs of the outbox, then
\* to slots; the first tick of the history is due at once.
FetchStarts ==
  /\ stage = "fetch"
  /\ armed' = armed \cup {"outbox"} /\ told' = <<>>
  /\ stage' = "select"
  /\ UNCHANGED <<call, ledgers, heard, fetch, absence, receipt, unconfirmed>>

\* A log notification or a slot: everything pending is probed again.
WakeLogs ==
  /\ stage = "select" /\ told # <<>>
  /\ told' = Tail(told)
  /\ fetched' = fetched \cup {Head(told)}
  /\ batch' = IF Head(told) \in fetched THEN pending ELSE Append(pending, Head(told))
  /\ pending' = <<>>
  /\ stage' = "probe"
  /\ UNCHANGED <<call, ledgers, armed, heard, absence, receipt, unconfirmed>>

WakeSlot ==
  /\ stage = "select" /\ pending # <<>>
  /\ batch' = pending /\ pending' = <<>>
  /\ stage' = "probe"
  /\ UNCHANGED <<call, ledgers, subscriptions, fetched, absence, receipt, unconfirmed>>

\* history.tick: new signatures of the listing are probed too.
WakeHistory ==
  /\ stage = "select"
  /\ LET fresh == SelectSeq(Listed, LAMBDA i : i \notin fetched)
     IN  /\ fresh # <<>>
         /\ fetched' = fetched \cup Range(fresh)
         /\ batch' = pending \o fresh
  /\ pending' = <<>>
  /\ stage' = "probe"
  /\ UNCHANGED <<call, ledgers, subscriptions, absence, receipt, unconfirmed>>

\* Mutant: the slot of a completion is not compared.
WantedAnySlot(i) == Completion(i) /\ outbox[i].id = Intent

Wanted(i) == outbox[i].slot >= MinSlot /\ Completion(i) /\ outbox[i].id = Intent

\* Mutant: a transaction that cannot be read yet is given up.
ProbeOnce ==
  /\ stage = "probe" /\ batch # <<>>
  /\ batch' = Tail(batch) /\ UNCHANGED pending
  /\ IF Head(batch) \in readable /\ Wanted(Head(batch))
       THEN Takes(Head(batch)) ELSE UNCHANGED <<stage, receipt>>
  /\ UNCHANGED <<call, ledgers, subscriptions, fetched, absence, unconfirmed>>

\* get_transaction of one pending signature.  A body that cannot be read, and a
\* read that fails, leave the signature pending.
Probe ==
  /\ stage = "probe" /\ batch # <<>>
  /\ batch' = Tail(batch)
  /\ \/ /\ Head(batch) \in readable
        /\ IF Wanted(Head(batch)) THEN Takes(Head(batch)) ELSE UNCHANGED <<stage, receipt>>
        /\ UNCHANGED pending
     \/ /\ Head(batch) \notin readable \/ ~patient
        /\ pending' = Append(pending, Head(batch))
        /\ UNCHANGED <<stage, receipt>>
  /\ UNCHANGED <<call, ledgers, subscriptions, fetched, absence, unconfirmed>>

Probed ==
  /\ stage = "probe" /\ batch = <<>>
  /\ stage' = "select"
  /\ UNCHANGED <<call, ledgers, subscriptions, fetch, absence, receipt, unconfirmed>>

-----------------------------------------------------------------------------
\* CommitReceipt::verify, up to the confirmations.
Verify ==
  /\ stage = "verify"
  /\ LET r == outbox[receipt]
     IN  /\ stage' = CASE r.error = "duplicate" -> "duplicate"
                    [] r.error = "failed" \/ ~r.matches -> "failed"
                    [] OTHER -> "confirm"
         /\ unconfirmed' = [k \in 1 .. r.base |-> k]
  /\ UNCHANGED <<call, ledgers, subscriptions, fetch, absence, receipt>>

Outcome(b) == IF base[b] = "failed" THEN "failed" ELSE "confirm"

\* The base signature is dealt with: on to the next, or the error.
Settles(b) ==
  /\ stage' = Outcome(b)
  /\ unconfirmed' = Tail(unconfirmed)
  /\ armed' = armed \ {"signature"}

\* try_confirm: the signature is subscribed to before its status is asked for.
SubscribeSignature ==
  /\ stage = "confirm" /\ unconfirmed # <<>>
  /\ armed' = armed \cup {"signature"} /\ heard' = {}
  /\ stage' = "status"
  /\ UNCHANGED <<call, ledgers, told, fetch, absence, receipt, unconfirmed>>

\* getSignatureStatuses: an error is final at once, success once confirmed.
Status ==
  /\ stage = "status"
  /\ IF heard # {} \/ base[Head(unconfirmed)] \in {"failed", "confirmed"}
       THEN Settles(Head(unconfirmed))
       ELSE stage' = "outcome" /\ UNCHANGED <<armed, unconfirmed>>
  /\ UNCHANGED <<call, ledgers, told, heard, fetch, absence, receipt>>

\* signature_outcome: the notification.
Notified ==
  /\ stage = "outcome" /\ "signature" \in heard
  /\ Settles(Head(unconfirmed))
  /\ UNCHANGED <<call, ledgers, told, heard, fetch, absence, receipt>>

AllConfirmed ==
  /\ stage = "confirm" /\ unconfirmed = <<>>
  /\ stage' = "settled"
  /\ UNCHANGED <<call, ledgers, subscriptions, fetch, absence, receipt, unconfirmed>>

-----------------------------------------------------------------------------
\* ensure_receipt_absent of a signature: receipt_for_target_if_present asks for
\* the transaction once, and what cannot be read is absent.
AskSignature ==
  /\ stage = "ask"
  /\ listing' = [all |-> readable, left |-> <<>>, unreadable |-> FALSE]
  /\ stage' = IF \E i \in readable : IsAnnounced(i) THEN "failed" ELSE "absent"
  /\ UNCHANGED <<call, ledgers, subscriptions, fetch, attempt, receipt, unconfirmed>>

\* ensure_receipt_absent of an outbox: list the history, read every body, and
\* be sure only if all could be read.
List ==
  /\ stage = "list"
  /\ listing' = [all |-> Range(Listed), left |-> Listed, unreadable |-> FALSE]
  /\ stage' = "inspect"
  /\ UNCHANGED <<call, ledgers, subscriptions, fetch, attempt, receipt, unconfirmed>>

Visible(i) == Wanted(i) /\ outbox[i].payer = "payer"

Inspect ==
  /\ stage = "inspect" /\ listing.left # <<>>
  /\ LET i == Head(listing.left)
     IN  /\ stage' = IF i \in readable /\ Visible(i) THEN "failed" ELSE stage
         /\ listing' = [listing EXCEPT !.left = Tail(@),
                                       !.unreadable = @ \/ i \notin readable]
  /\ UNCHANGED <<call, ledgers, subscriptions, fetch, attempt, receipt, unconfirmed>>

\* Mutant: what cannot be read is taken for something else.
ConcludeAnyway ==
  /\ stage = "inspect" /\ listing.left = <<>>
  /\ stage' = "absent"
  /\ UNCHANGED <<call, ledgers, subscriptions, fetch, absence, receipt, unconfirmed>>

Conclude ==
  /\ stage = "inspect" /\ listing.left = <<>>
  /\ IF listing.unreadable
       THEN /\ attempt' = attempt + 1
            /\ stage' = IF attempt' < Attempts THEN "list" ELSE "failed"
       ELSE stage' = "absent" /\ UNCHANGED attempt
  /\ UNCHANGED <<call, ledgers, subscriptions, fetch, listing, receipt, unconfirmed>>

\* Every wait ends at its deadline.
Timeout ==
  /\ ~patient /\ stage \notin ReceiptOver
  /\ stage' = "timeout"
  /\ UNCHANGED <<call, ledgers, subscriptions, fetch, absence, receipt, unconfirmed>>

-----------------------------------------------------------------------------
\* External: the scheduling transaction executes.
Execute ==
  /\ target = "unknown" /\ stage # "arm"
  /\ target' \in {"signature", "outbox", "missing", "failed"}
  /\ heard' = heard \cup ({"schedule"} \cap armed)
  /\ UNCHANGED <<call, stage, outbox, readable, base, armed, told, fetch, absence, receipt,
                 unconfirmed>>

\* External: a transaction lands in the history and is reported to the log
\* subscription.  An intent that was scheduled completes once.
Land(t) ==
  /\ Len(outbox) < MaxLanded /\ stage \notin ReceiptOver
  /\ \/ t \in {Ongoing, Other}
     \/ target \in {"signature", "outbox"} /\ ~\E i \in DOMAIN outbox : IsAnnounced(i)
  /\ outbox' = Append(outbox, t)
  /\ told' = IF "outbox" \in armed THEN Append(told, Len(outbox')) ELSE told
  /\ UNCHANGED <<call, stage, target, readable, base, armed, heard, fetch, absence, receipt,
                 unconfirmed>>

\* External: a body can be read from now on.
Readable ==
  /\ \E i \in DOMAIN outbox \ readable : readable' = readable \cup {i}
  /\ UNCHANGED <<call, stage, target, outbox, base, subscriptions, fetch, absence, receipt,
                 unconfirmed>>

\* External: a base transaction executes, then is confirmed, and its subscriber told.
Base(b) ==
  /\ stage \in {"confirm", "status", "outcome"}
  /\ \/ base[b] = "sent" /\ base' = [base EXCEPT ![b] = "processed"]
     \/ base[b] = "processed" /\ \E r \in {"confirmed", "failed"} : base' = [base EXCEPT ![b] = r]
  /\ heard' = IF /\ base'[b] # "processed" /\ "signature" \in armed
                 /\ unconfirmed # <<>> /\ Head(unconfirmed) = b
                THEN {"signature"} ELSE heard
  /\ UNCHANGED <<call, stage, target, outbox, readable, armed, told, fetch, absence, receipt,
                 unconfirmed>>

ReceiptsNext ==
  \/ Arm \/ Scheduling \/ Published \/ AfterSlot \/ ReceiptNotified \/ ReceiptFetched
  \/ FetchStarts \/ WakeLogs \/ WakeSlot \/ WakeHistory \/ Probe \/ Probed
  \/ Verify \/ SubscribeSignature \/ Status \/ Notified \/ AllConfirmed
  \/ AskSignature \/ List \/ Inspect \/ Conclude \/ Timeout
  \/ Execute \/ \E t \in Completions \cup {Ongoing, Other} : Land(t)
  \/ Readable \/ \E b \in 1 .. MaxBase : Base(b)

Client ==
  \/ Arm \/ Scheduling \/ Published \/ AfterSlot \/ ReceiptNotified \/ ReceiptFetched
  \/ FetchStarts \/ WakeLogs \/ WakeSlot \/ WakeHistory \/ Probe \/ Probed
  \/ Verify \/ SubscribeSignature \/ Status \/ Notified \/ AllConfirmed

ReceiptsSpec == ReceiptsInit /\ [][ReceiptsNext]_receiptVars

(***************************************************************************)
(* The caller's future is polled, slots go on and the history is listed    *)
(* again and again; a base chain confirms or fails what was sent to it,    *)
(* and bodies become readable.                                             *)
(***************************************************************************)
ReceiptsFairness ==
  /\ WF_receiptVars(Client) /\ WF_receiptVars(WakeHistory) /\ WF_receiptVars(Readable)
  /\ \A b \in 1 .. MaxBase : WF_receiptVars(Base(b))

-----------------------------------------------------------------------------
\* A commit reported settled is settled: its receipt is a completion of this
\* scheduling, not of another intent or an earlier ledger, names the accounts
\* expected, and each of its base transactions is confirmed and succeeded.
SettledIsSettled ==
  /\ stage \in {"settled", "duplicate"} =>
       outbox[receipt] \in Completions
  /\ stage = "settled" =>
       /\ outbox[receipt].error = "none" /\ outbox[receipt].matches
       /\ \A b \in 1 .. outbox[receipt].base : base[b] = "confirmed"

\* ensure_receipt_absent: a receipt said to be absent was not in the history it
\* listed, not even as a transaction that could not be read yet.  One announced
\* by its signature was not among the transactions that could be read at the
\* call; the code does not tell one that exists unread from one that does not.
AbsentIsAbsent == stage = "absent" => \A i \in listing.all : ~Visible(i)

\* The completion is within a caller's reach: notified or listed to it, or
\* asked for by its signature.  One that landed before the caller subscribed
\* and is older than Limit transactions is not.
InReach(i) ==
  /\ IsAnnounced(i)
  /\ CASE stage \in {"select", "probe"} -> i \in fetched \cup Range(told)
       [] stage = "receipt" -> i \in Range(told)
       [] OTHER -> stage = "fetchOne"

\* A completion within reach is found and judged, in whatever order logs,
\* listings and bodies arrive, unless time runs out.
ReceiptIsFound == patient /\ (\E i \in DOMAIN outbox : InReach(i)) ~> stage \in ReceiptOver
=============================================================================
