---------------------------- MODULE AccountWait ----------------------------
(***************************************************************************)
(* Waiting for account states: Api::events, watch_accounts, await_accounts *)
(* and AccountWatch of api/wait.rs, several waits on one Api at once.      *)
(*                                                                         *)
(* A wait subscribes to its accounts, may read a snapshot of them in       *)
(* chunks, and then applies notifications to its images until they are     *)
(* ready.  A subscription delivers what the server sends, in order (the    *)
(* module Events), so each is a queue here.  A closed account is reported  *)
(* as the empty system account and is not listed by a snapshot at all.     *)
(***************************************************************************)
EXTENDS Naturals, Sequences, FiniteSets

CONSTANTS
  Waiters,    \* futures that wait, all on one Api
  Count,      \* addresses of a request
  Window,     \* subscriptions opened at a time (16)
  Chunk,      \* addresses of one getMultipleAccounts (100)
  MaxWrites,  \* bound on the changes of all accounts
  MaxConns    \* bound on the connections made

WaitAssumption == {Count, Window, Chunk, MaxWrites, MaxConns} \subseteq Nat \ {0}

Addresses == 1 .. Count
Default == "default"  \* Account::default()
None == "none"
Contents == {Default, "a"}
Over == {"ready", "failed"}

VARIABLES
  history,  \* on the server, the contents of each account so far
  conns,    \* connections made
  open,     \* those that are not closed
  cached,   \* Api.events: the connection it holds, 0 if none
  lock,     \* the waiters that hold the mutex of Api.events: at most one
  pc,       \* where each wait stands
  conn,     \* the connection of its subscriptions
  since,    \* of each subscription, the version its server began with
  queue,    \* its notifications that were not consumed yet
  images,   \* AccountWatch.accounts, and the snapshot while it is read
  seen,     \* addresses of which AccountWatch.seen is set
  goal,     \* what the caller waits for
  seeded    \* the wait reads a snapshot: await_accounts

vars == <<history, conns, open, cached, lock, pc, conn, since, queue, images, seen,
          goal, seeded>>
shared == <<conns, open, cached, lock>>
caller == <<goal, seeded>>

Current(a) == history[a][Len(history[a])]

\* decode_account, and the closure that a notification reports.
Decode(content) == IF content = Default THEN None ELSE content

\* The addresses with an acknowledged subscription.
Watched(w) == {a \in Addresses : since[w][a] > 0}

-----------------------------------------------------------------------------
Init ==
  /\ history = [a \in Addresses |-> <<Default>>]
  /\ conns = 0 /\ open = {} /\ cached = 0 /\ lock = {}
  /\ pc = [w \in Waiters |-> "events"]
  /\ conn = [w \in Waiters |-> 0]
  /\ since = [w \in Waiters |-> [a \in Addresses |-> 0]]
  /\ queue = [w \in Waiters |-> [a \in Addresses |-> <<>>]]
  /\ images = [w \in Waiters |-> [a \in Addresses |-> None]]
  /\ seen = [w \in Waiters |-> {}]
  /\ \E g \in [Addresses -> {None, "a"}] : goal = [w \in Waiters |-> g]
  /\ seeded \in [Waiters -> BOOLEAN]

\* Api::events, under its mutex: the connection it holds unless that closed.
Events(w) ==
  /\ pc[w] = "events" /\ lock = {}
  /\ IF cached \in open
       THEN /\ conn' = [conn EXCEPT ![w] = cached]
            /\ pc' = [pc EXCEPT ![w] = "subscribe"]
            /\ UNCHANGED lock
       ELSE /\ lock' = {w}
            /\ pc' = [pc EXCEPT ![w] = "connect"]
            /\ UNCHANGED conn
  /\ UNCHANGED <<history, conns, open, cached, since, queue, images, seen, caller>>

Connect(w) ==
  /\ pc[w] = "connect" /\ conns < MaxConns
  /\ conns' = conns + 1
  /\ open' = open \cup {conns'} /\ cached' = conns' /\ lock' = {}
  /\ conn' = [conn EXCEPT ![w] = conns']
  /\ pc' = [pc EXCEPT ![w] = "subscribe"]
  /\ UNCHANGED <<history, since, queue, images, seen, caller>>

ConnectFails(w) ==
  /\ pc[w] = "connect"
  /\ lock' = {}
  /\ pc' = [pc EXCEPT ![w] = "failed"]
  /\ UNCHANGED <<history, conns, open, cached, conn, since, queue, images, seen, caller>>

\* watch_accounts: accountSubscribe, in request order but up to Window of them
\* at a time.  The server notifies of everything after the version it has now.
Subscribe(w, a) ==
  /\ pc[w] = "subscribe" /\ conn[w] \in open
  /\ a \notin Watched(w)
  /\ \A b \in Addresses : b + Window <= a => b \in Watched(w)
  /\ since' = [since EXCEPT ![w][a] = Len(history[a])]
  /\ UNCHANGED <<history, shared, pc, conn, queue, images, seen, caller>>

\* Mutant: the snapshot does not wait for the acknowledgments.
WatchingEarly(w) ==
  /\ pc[w] = "subscribe" /\ Watched(w) # {}
  /\ pc' = [pc EXCEPT ![w] = IF seeded[w] THEN "snapshot" ELSE "until"]
  /\ UNCHANGED <<history, shared, conn, since, queue, images, seen, caller>>

\* The AccountWatch is complete; await_accounts goes on to the snapshot.
Watching(w) ==
  /\ pc[w] = "subscribe" /\ Watched(w) = Addresses
  /\ pc' = [pc EXCEPT ![w] = IF seeded[w] THEN "snapshot" ELSE "until"]
  /\ UNCHANGED <<history, shared, conn, since, queue, images, seen, caller>>

\* One chunk of the snapshot: the accounts as they are now.
ReadChunk(w, from) ==
  LET chunk == {a \in Addresses : a \in from .. from + Chunk - 1}
  IN  /\ pc[w] = "snapshot" /\ seen[w] = 1 .. from - 1
      /\ images' = [images EXCEPT ![w] =
                      [a \in Addresses |-> IF a \in chunk THEN Decode(Current(a)) ELSE @[a]]]
      /\ seen' = [seen EXCEPT ![w] = @ \cup chunk]
      /\ UNCHANGED <<history, shared, pc, conn, since, queue, caller>>

\* AccountWatch::seed with the whole snapshot.
Seed(w) ==
  /\ pc[w] = "snapshot" /\ seen[w] = Addresses
  /\ pc' = [pc EXCEPT ![w] = "until"]
  /\ UNCHANGED <<history, shared, conn, since, queue, images, seen, caller>>

\* Mutant: images that were never reported are checked like the others.
ReadyUnseen(w) == images[w] = goal[w]

\* A check of the images: not before every account was seen.
Ready(w) == seen[w] = Addresses /\ images[w] = goal[w]

Return(w) ==
  /\ pc[w] = "until" /\ Ready(w)
  /\ pc' = [pc EXCEPT ![w] = "ready"]
  /\ UNCHANGED <<history, shared, conn, since, queue, images, seen, caller>>

\* Subscription::next_from: one update, of the first subscription that has one.
Apply(w, a) ==
  /\ pc[w] = "until" /\ ~Ready(w) /\ conn[w] \in open
  /\ queue[w][a] # <<>> /\ \A b \in 1 .. a - 1 : queue[w][b] = <<>>
  /\ images' = [images EXCEPT ![w][a] = Decode(Head(queue[w][a]))]
  /\ seen' = [seen EXCEPT ![w] = @ \cup {a}]
  /\ queue' = [queue EXCEPT ![w][a] = Tail(@)]
  /\ UNCHANGED <<history, shared, pc, conn, since, caller>>

\* The deadline all steps share, a read error, or the closed connection.
Fail(w) ==
  /\ pc[w] \in {"subscribe", "snapshot", "until"}
  /\ pc' = [pc EXCEPT ![w] = "failed"]
  /\ UNCHANGED <<history, shared, conn, since, queue, images, seen, caller>>

-----------------------------------------------------------------------------
\* External: an account changes, and its subscribers are told.
Write(a, content) ==
  /\ content # Current(a)
  /\ Len(history[a]) <= MaxWrites
  /\ history' = [history EXCEPT ![a] = Append(@, content)]
  /\ queue' = [w \in Waiters |->
                 [b \in Addresses |->
                    IF b = a /\ a \in Watched(w) /\ conn[w] \in open /\ pc[w] \notin Over
                      THEN Append(queue[w][b], content) ELSE queue[w][b]]]
  /\ UNCHANGED <<shared, pc, conn, since, images, seen, caller>>

\* External: a connection breaks.
Close(c) ==
  /\ c \in open
  /\ open' = open \ {c}
  /\ UNCHANGED <<history, conns, cached, lock, pc, conn, since, queue, images, seen, caller>>

Next ==
  \/ \E w \in Waiters :
       \/ Events(w) \/ Connect(w) \/ ConnectFails(w) \/ Watching(w)
       \/ Seed(w) \/ Return(w) \/ Fail(w)
       \/ \E a \in Addresses : Subscribe(w, a) \/ ReadChunk(w, a) \/ Apply(w, a)
  \/ \E a \in Addresses, content \in Contents : Write(a, content)
  \/ \E c \in 1 .. MaxConns : Close(c)

Spec == Init /\ [][Next]_vars

-----------------------------------------------------------------------------
\* "Subscribes before reading the initial snapshot so updates cannot fall into
\* a setup gap": a wait that has consumed all it was sent and still waits has
\* images that are the accounts as they are.
NoSetupGap ==
  \A w \in Waiters :
    /\ pc[w] = "until" /\ seen[w] = Addresses /\ conn[w] \in open
    /\ \A a \in Addresses : queue[w][a] = <<>>
    => \A a \in Addresses : images[w][a] = Decode(Current(a))

\* A wait that says ready says it of contents each account really had at some
\* moment since the wait subscribed to it, not of anything older.
AnswerIsOfThisWait ==
  \A w \in Waiters : pc[w] = "ready" =>
    \A a \in Addresses :
      \E i \in since[w][a] .. Len(history[a]) : images[w][a] = Decode(history[a][i])
=============================================================================
