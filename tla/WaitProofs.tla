----------------------------- MODULE WaitProofs -----------------------------
(***************************************************************************)
(* Proofs about two waits: for accounts (AccountWait) and for the next     *)
(* slot of a paced load (Pacer).                                           *)
(***************************************************************************)
EXTENDS AccountWait, Pacer, TLAPS

(***************************************************************************)
(* Proofs about account waits (api/wait.rs), for any number of waits on    *)
(* one client, of accounts, changes, connections and broken connections,   *)
(* and for any window and chunk size.                                      *)
(*                                                                         *)
(* The inductive invariant is about one wait and one account at a time.    *)
(* What is still queued ends with the account as it is; when nothing is    *)
(* queued and the image was reported, the image is the account as it is.   *)
(* All that is queued or shown, the account had since the subscription.    *)
(***************************************************************************)
Steps == {"events", "connect", "subscribe", "snapshot", "until"} \cup Over

\* The type invariant of account waits: connections are numbered as they are
\* made (Api::events), and a wait holds one that was made.
TypeOK ==
  /\ history \in [Addresses -> Seq(Contents)]
  /\ conns \in Nat
  /\ open \subseteq 1 .. conns
  /\ pc \in [Waiters -> Steps]
  /\ conn \in [Waiters -> 0 .. conns]
  /\ since \in [Waiters -> [Addresses -> Nat]]
  /\ queue \in [Waiters -> [Addresses -> Seq(Contents)]]
  /\ images \in [Waiters -> [Addresses -> {None} \cup Contents]]
  /\ seen \in [Waiters -> SUBSET Addresses]

\* What a wait has done is what its place in watch_accounts and await_accounts
\* says: nothing before it has a connection, no image before all is watched.
Placed(w) ==
  /\ pc[w] \in {"events", "connect", "subscribe"} => seen[w] = {}
  /\ pc[w] \in {"events", "connect"} => \A a \in Addresses : since[w][a] = 0
  /\ pc[w] \in {"snapshot", "until", "ready"} => \A a \in Addresses : since[w][a] > 0
  /\ pc[w] = "ready" => seen[w] = Addresses

\* A content of the account a since the wait w subscribed to it.
Had(w, a, content) ==
  \E i \in 1 .. Len(history[a]) : i >= since[w][a] /\ history[a][i] = content

\* Notifications and images are of contents since the subscription.
Dated(w, a) ==
  /\ Len(history[a]) > 0 /\ since[w][a] <= Len(history[a])
  /\ since[w][a] = 0 => queue[w][a] = <<>>
  /\ \A j \in 1 .. Len(queue[w][a]) : Had(w, a, queue[w][a][j])
  /\ a \in seen[w] => \E content \in Contents :
                        Had(w, a, content) /\ images[w][a] = Decode(content)

Listens(w, a) == conn[w] \in open /\ pc[w] \notin Over /\ since[w][a] > 0

\* The wait's queue, or its image once the queue is empty, is up to date.
UpToDate(w, a) ==
  Listens(w, a) =>
    /\ queue[w][a] # <<>> => queue[w][a][Len(queue[w][a])] = Current(a)
    /\ queue[w][a] = <<>> /\ a \in seen[w] => images[w][a] = Decode(Current(a))

IInv ==
  /\ TypeOK
  /\ \A w \in Waiters : Placed(w)
  /\ \A w \in Waiters, a \in Addresses : Dated(w, a) /\ UpToDate(w, a)

\* A wait begins with nothing subscribed and nothing seen.
LEMMA InitInv == Init => IInv
<1>. SUFFICES ASSUME Init PROVE IInv
  OBVIOUS
<1>1. \A a \in Addresses : history[a] = <<Default>> /\ Len(history[a]) = 1
  BY DEF Init
<1>2. TypeOK
  BY DEF Init, TypeOK, Steps, Over, Contents
<1>3. \A w \in Waiters : Placed(w)
  BY DEF Init, Placed
<1>4. \A w \in Waiters, a \in Addresses : Dated(w, a) /\ UpToDate(w, a)
  BY <1>1 DEF Init, Dated, UpToDate, Listens
<1>. QED
  BY <1>2, <1>3, <1>4 DEF IInv

\* A step that leaves a wait's view of an account alone, and that account,
\* leaves what the invariant says of them.
LEMMA Frame ==
  ASSUME NEW v \in Waiters, NEW a \in Addresses,
         Dated(v, a), UpToDate(v, a),
         history'[a] = history[a], since'[v][a] = since[v][a],
         queue'[v][a] = queue[v][a], images'[v][a] = images[v][a],
         a \in seen'[v] <=> a \in seen[v],
         Listens(v, a)' => Listens(v, a)
  PROVE  Dated(v, a)' /\ UpToDate(v, a)'
<1>1. \A content : Had(v, a, content)' <=> Had(v, a, content)
  BY DEF Had
<1>2. Dated(v, a)'
  BY DEF Dated, Had
<1>3. UpToDate(v, a)'
  BY DEF UpToDate, Current
<1>. QED
  BY <1>2, <1>3

\* Api::events, the connection and its failure: a wait that has subscribed to
\* nothing gets a connection, which no other wait held before it was made.
LEMMA ConnectStep ==
  ASSUME IInv, NEW w \in Waiters, Events(w) \/ Connect(w) \/ ConnectFails(w)
  PROVE  IInv'
<1>. USE DEF IInv
<1>1. TypeOK'
  <2>1. CASE Events(w)
    <3>1. cached \in open => cached \in 0 .. conns
      BY DEF TypeOK
    <3>2. conn' \in [Waiters -> 0 .. conns] /\ pc' \in [Waiters -> Steps]
      BY Zenon, <2>1, <3>1 DEF TypeOK, Events, Steps
    <3>. QED
      BY <2>1, <3>2 DEF TypeOK, Events
  <2>2. CASE Connect(w)
    <3>1. conns' \in Nat /\ 1 .. conns \subseteq 1 .. conns' /\ 0 .. conns \subseteq 0 .. conns'
          /\ conns' \in 1 .. conns' /\ conns' \in 0 .. conns'
      BY <2>2 DEF TypeOK, Connect
    <3>. QED
      BY <2>2, <3>1 DEF TypeOK, Connect, Steps, Over
  <2>3. CASE ConnectFails(w)
    BY <2>3 DEF TypeOK, ConnectFails, Steps, Over
  <2>. QED
    BY <2>1, <2>2, <2>3
<1>2. pc[w] \in {"events", "connect"} /\ pc'[w] \in {"connect", "subscribe", "failed"}
  BY DEF TypeOK, Events, Connect, ConnectFails
<1>3. UNCHANGED <<history, since, queue, images, seen>>
  BY DEF Events, Connect, ConnectFails
<1>4. \A v \in Waiters : v # w => pc'[v] = pc[v] /\ conn'[v] = conn[v]
  BY DEF TypeOK, Events, Connect, ConnectFails
<1>5. \A v \in Waiters : v # w /\ conn'[v] \in open' => conn[v] \in open
  BY <1>4 DEF TypeOK, Events, Connect, ConnectFails
<1>6. ASSUME NEW v \in Waiters PROVE Placed(v)'
  BY <1>2, <1>3, <1>4, <1>6 DEF Placed
<1>7. ASSUME NEW v \in Waiters, NEW a \in Addresses PROVE Dated(v, a)' /\ UpToDate(v, a)'
  <2>1. Listens(v, a)' => Listens(v, a)
    BY <1>2, <1>3, <1>4, <1>5, <1>7 DEF Listens, Placed
  <2>. QED
    BY <1>3, <1>7, <2>1, Frame
<1>. QED
  BY <1>1, <1>6, <1>7

\* accountSubscribe: what the server has now is the first content that counts.
LEMMA SubscribeStep ==
  ASSUME IInv, NEW w \in Waiters, NEW b \in Addresses, Subscribe(w, b)
  PROVE  IInv'
<1>. USE DEF IInv
<1>1. TypeOK'
  <2>1. Len(history[b]) \in Nat
    BY DEF TypeOK
  <2>. QED
    BY <2>1 DEF TypeOK, Subscribe, shared
<1>2. since[w][b] = 0 /\ seen[w] = {} /\ queue[w][b] = <<>>
  BY DEF TypeOK, Subscribe, Watched, Placed, Dated
<1>3. UNCHANGED <<history, pc, conn, open, queue, images, seen>>
  BY DEF Subscribe, shared
<1>4. \A v \in Waiters, a \in Addresses :
        since'[v][a] = IF v = w /\ a = b THEN Len(history[b]) ELSE since[v][a]
  BY DEF TypeOK, Subscribe
<1>5. ASSUME NEW v \in Waiters PROVE Placed(v)'
  <2>1. pc[w] = "subscribe"
    BY DEF Subscribe
  <2>. QED
    BY <1>3, <1>4, <1>5, <2>1 DEF Placed
<1>6. ASSUME NEW v \in Waiters, NEW a \in Addresses PROVE Dated(v, a)' /\ UpToDate(v, a)'
  <2>1. CASE v = w /\ a = b
    <3>1. queue'[v][a] = <<>> /\ a \notin seen'[v] /\ Len(history'[a]) > 0
      BY <1>2, <1>3, <2>1 DEF Dated
    <3>2. since'[v][a] = Len(history'[a])
      BY <1>3, <1>4, <2>1
    <3>. QED
      BY <3>1, <3>2 DEF Dated, UpToDate, TypeOK
  <2>2. CASE ~(v = w /\ a = b)
    <3>1. since'[v][a] = since[v][a]
      BY <1>4, <2>2
    <3>2. Listens(v, a)' => Listens(v, a)
      BY <1>3, <3>1 DEF Listens
    <3>. QED
      BY <1>3, <1>6, <3>1, <3>2, Frame
  <2>. QED
    BY <2>1, <2>2
<1>. QED
  BY <1>1, <1>5, <1>6

\* Steps of a wait that only move it on: the images stay what they are.
LEMMA MoveStep ==
  ASSUME IInv, NEW w \in Waiters, Watching(w) \/ Seed(w) \/ Return(w) \/ Fail(w)
  PROVE  IInv'
<1>. USE DEF IInv
<1>1. TypeOK'
  BY Zenon DEF TypeOK, Watching, Seed, Return, Fail, Steps, Over, shared
<1>2. UNCHANGED <<history, conn, open, since, queue, images, seen>>
  BY DEF Watching, Seed, Return, Fail, shared
<1>3. \A v \in Waiters : v # w => pc'[v] = pc[v]
  BY DEF TypeOK, Watching, Seed, Return, Fail
<1>4. \A v \in Waiters : pc'[v] \notin Over => pc[v] \notin Over
  <2>1. pc[w] \notin Over
    BY DEF Watching, Seed, Return, Fail, Over
  <2>. QED
    BY <1>3, <2>1
<1>5. ASSUME NEW v \in Waiters PROVE Placed(v)'
  <2>1. CASE v # w
    BY <1>2, <1>3, <1>5, <2>1 DEF Placed
  <2>2. Placed(w)'
    BY <1>2 DEF Placed, TypeOK, Watching, Seed, Return, Fail, Watched, Ready, Steps, Over
  <2>. QED
    BY <2>1, <2>2
<1>6. ASSUME NEW v \in Waiters, NEW a \in Addresses PROVE Dated(v, a)' /\ UpToDate(v, a)'
  <2>1. Listens(v, a)' => Listens(v, a)
    BY <1>2, <1>4, <1>6 DEF Listens
  <2>. QED
    BY <1>2, <1>6, <2>1, Frame
<1>. QED
  BY <1>1, <1>5, <1>6

\* A chunk of the snapshot: read after the subscriptions, so its contents count.
LEMMA SnapshotStep ==
  ASSUME IInv, NEW w \in Waiters, NEW from \in Addresses, ReadChunk(w, from)
  PROVE  IInv'
<1>. USE DEF IInv
<1>. DEFINE chunk == {a \in Addresses : a \in from .. from + Chunk - 1}
<1>1. pc[w] = "snapshot" /\ UNCHANGED <<history, conn, conns, open, pc, since, queue>>
  BY DEF ReadChunk, shared
<1>2. \A a \in Addresses : Current(a) \in Contents /\ Decode(Current(a)) \in {None} \cup Contents
  <2>. SUFFICES ASSUME NEW a \in Addresses
                PROVE  Current(a) \in Contents /\ Decode(Current(a)) \in {None} \cup Contents
    OBVIOUS
  <2>1. history[a] \in Seq(Contents) /\ Len(history[a]) > 0
    BY DEF TypeOK, Dated
  <2>2. history[a][Len(history[a])] \in Contents
    BY <2>1
  <2>. QED
    BY <2>2 DEF Current, Decode
<1>3. images' = [images EXCEPT ![w] =
                   [a \in Addresses |-> IF a \in chunk THEN Decode(Current(a)) ELSE @[a]]]
      /\ seen' = [seen EXCEPT ![w] = @ \cup chunk]
  BY DEF ReadChunk
<1>. HIDE DEF chunk
<1>4. chunk \subseteq Addresses
  BY DEF chunk
<1>5. TypeOK'
  BY <1>1, <1>2, <1>3, <1>4 DEF TypeOK
<1>6. \A v \in Waiters, a \in Addresses :
        ~(v = w /\ a \in chunk) => images'[v][a] = images[v][a] /\ (a \in seen'[v] <=> a \in seen[v])
  BY <1>3 DEF TypeOK
<1>7. \A a \in chunk : images'[w][a] = Decode(Current(a))
  BY <1>3, <1>4 DEF TypeOK
<1>8. ASSUME NEW v \in Waiters PROVE Placed(v)'
  <2>1. v # w => seen'[v] = seen[v]
    BY <1>3 DEF TypeOK
  <2>. QED
    BY <1>1, <2>1 DEF Placed
<1>9. ASSUME NEW v \in Waiters, NEW a \in Addresses PROVE Dated(v, a)' /\ UpToDate(v, a)'
  <2>1. Listens(v, a)' <=> Listens(v, a)
    BY <1>1 DEF Listens
  <2>2. Current(a)' = Current(a) /\ \A content \in Contents : Had(v, a, content)' <=> Had(v, a, content)
    BY <1>1 DEF Current, Had
  <2>3. CASE v = w /\ a \in chunk
    <3>1. Had(w, a, Current(a))
      BY <1>1, <2>3 DEF Had, Current, Dated, TypeOK
    <3>2. Dated(v, a)'
      <4>1. \E content \in Contents : Had(v, a, content)' /\ images'[v][a] = Decode(content)
        BY <1>2, <1>7, <2>2, <2>3, <3>1
      <4>2. \A j \in 1 .. Len(queue'[v][a]) : Had(v, a, queue[v][a][j])'
        BY <1>1, <1>9 DEF Dated, Had
      <4>. QED
        BY <1>1, <1>9, <4>1, <4>2 DEF Dated
    <3>. QED
      BY <1>1, <1>7, <2>1, <2>2, <2>3, <3>2 DEF UpToDate
  <2>4. CASE ~(v = w /\ a \in chunk)
    BY <1>1, <1>6, <1>9, <2>1, <2>4, Frame
  <2>. QED
    BY <2>3, <2>4
<1>. QED
  BY <1>5, <1>8, <1>9

\* A sequence with nothing behind its head has one element.
LEMMA LastOne ==
  ASSUME NEW S, NEW s \in Seq(S), s # <<>>, Tail(s) = <<>>
  PROVE  Len(s) = 1
<1>0. Len(<<>>) = 0
  OBVIOUS
<1>1. Len(Tail(s)) = 0
  BY Zenon, <1>0
<1>2. Len(s) \in Nat /\ Len(Tail(s)) = Len(s) - 1
  OBVIOUS
<1>. QED
  BY <1>1, <1>2

\* Subscription::next_from: an image becomes what was queued first; when that
\* was all, it was the account as it is.
LEMMA ApplyStep ==
  ASSUME IInv, NEW w \in Waiters, NEW b \in Addresses, Apply(w, b)
  PROVE  IInv'
<1>. USE DEF IInv
<1>. DEFINE q == queue[w][b]
<1>1. pc[w] = "until" /\ q # <<>> /\ UNCHANGED <<history, conn, conns, open, pc, since>>
  BY DEF Apply, shared
<1>2. q \in Seq(Contents) /\ Head(q) \in Contents /\ Tail(q) \in Seq(Contents)
  BY <1>1 DEF TypeOK
<1>3. /\ images' = [images EXCEPT ![w][b] = Decode(Head(q))]
      /\ seen' = [seen EXCEPT ![w] = @ \cup {b}]
      /\ queue' = [queue EXCEPT ![w][b] = Tail(q)]
  BY DEF Apply
<1>4. Len(q) > 0 /\ Head(q) = q[1] /\ Len(Tail(q)) = Len(q) - 1
      /\ \A j \in 1 .. Len(Tail(q)) : Tail(q)[j] = q[j + 1]
  BY <1>1, <1>2
<1>5. Decode(Head(q)) \in {None} \cup Contents
  BY <1>2 DEF Decode
<1>6. /\ images'[w][b] = Decode(Head(q)) /\ queue'[w][b] = Tail(q) /\ b \in seen'[w]
      /\ \A v \in Waiters, a \in Addresses : ~(v = w /\ a = b) =>
           images'[v][a] = images[v][a] /\ queue'[v][a] = queue[v][a]
           /\ (a \in seen'[v] <=> a \in seen[v])
  BY <1>3 DEF TypeOK
<1>. HIDE DEF q
<1>7. TypeOK'
  BY <1>1, <1>2, <1>3, <1>5 DEF TypeOK
<1>8. ASSUME NEW v \in Waiters PROVE Placed(v)'
  <2>1. v # w => seen'[v] = seen[v]
    BY <1>3 DEF TypeOK
  <2>. QED
    BY <1>1, <2>1 DEF Placed
<1>9. ASSUME NEW v \in Waiters, NEW a \in Addresses PROVE Dated(v, a)' /\ UpToDate(v, a)'
  <2>1. Listens(v, a)' <=> Listens(v, a)
    BY <1>1 DEF Listens
  <2>2. Current(a)' = Current(a)
    BY <1>1 DEF Current
  <2>3. CASE v = w /\ a = b
    <3>1. \A j \in 1 .. Len(q) : Had(w, b, q[j])
      BY DEF Dated, q
    <3>2. \A content : Had(w, b, content)' <=> Had(w, b, content)
      BY <1>1 DEF Had
    <3>3. Dated(w, b)'
      <4>1. \A j \in 1 .. Len(Tail(q)) : Had(w, b, Tail(q)[j])
        BY <1>2, <1>4, <3>1
      <4>2. \A j \in 1 .. Len(queue'[w][b]) : Had(w, b, queue[w][b][j])'
        BY <1>1, <1>6, <4>1 DEF Had
      <4>3. Had(w, b, Head(q))
        BY <1>2, <1>4, <3>1
      <4>4. \E content \in Contents : Had(w, b, content)' /\ images'[w][b] = Decode(content)
        BY <1>2, <1>6, <3>2, <4>3
      <4>5. since'[w][b] > 0 /\ Len(history'[b]) > 0 /\ since'[w][b] <= Len(history'[b])
        BY <1>1 DEF Placed, Dated
      <4>6. since'[w][b] \in Nat
        BY <1>7 DEF TypeOK
      <4>. QED
        BY <4>2, <4>4, <4>5, <4>6 DEF Dated
    <3>4. Listens(w, b) => q[Len(q)] = Current(b)
      BY <1>1 DEF UpToDate, q
    <3>5. CASE Tail(q) = <<>>
      <4>1. Len(q) = 1
        BY <1>1, <1>2, <3>5, LastOne
      <4>. QED
        BY Zenon, <1>4, <1>6, <2>1, <2>2, <2>3, <3>3, <3>4, <3>5, <4>1 DEF UpToDate
    <3>6. CASE Tail(q) # <<>>
      <4>1. Len(Tail(q)) > 0
        BY <1>2, <3>6
      <4>2. Tail(q)[Len(Tail(q))] = q[Len(q)]
        BY <1>2, <1>4, <4>1
      <4>. QED
        BY Zenon, <1>6, <2>1, <2>2, <2>3, <3>3, <3>4, <3>6, <4>2 DEF UpToDate
    <3>. QED
      BY <3>5, <3>6
  <2>4. CASE ~(v = w /\ a = b)
    BY <1>1, <1>6, <1>9, <2>1, <2>4, Frame
  <2>. QED
    BY <2>3, <2>4
<1>. QED
  BY <1>7, <1>8, <1>9

\* A change of an account: those that listen have it queued last, and for the
\* others only that the account had it is said.
LEMMA WriteStep ==
  ASSUME IInv, NEW b \in Addresses, NEW content \in Contents, Write(b, content)
  PROVE  IInv'
<1>. USE DEF IInv
<1>1. UNCHANGED <<conn, conns, open, pc, since, images, seen>>
  BY DEF Write, shared
<1>2. history' = [history EXCEPT ![b] = Append(@, content)]
  BY DEF Write
<1>3. history[b] \in Seq(Contents)
  BY DEF TypeOK
<1>4. /\ Len(history'[b]) = Len(history[b]) + 1
      /\ history'[b][Len(history'[b])] = content
      /\ \A i \in 1 .. Len(history[b]) : history'[b][i] = history[b][i]
  BY <1>2, <1>3 DEF TypeOK
<1>5. \A a \in Addresses : a # b => history'[a] = history[a]
  BY <1>2 DEF TypeOK
<1>6. \A v \in Waiters, a \in Addresses :
        queue'[v][a] = IF a = b /\ Listens(v, a) THEN Append(queue[v][a], content)
                                                 ELSE queue[v][a]
  BY DEF Write, Watched, Listens
<1>7. queue' \in [Waiters -> [Addresses -> Seq(Contents)]]
  <2>1. \A v \in Waiters, a \in Addresses :
          queue[v][a] \in Seq(Contents) /\ Append(queue[v][a], content) \in Seq(Contents)
    BY DEF TypeOK
  <2>. QED
    BY <2>1 DEF Write
<1>8. TypeOK'
  <2>1. history' \in [Addresses -> Seq(Contents)]
    BY <1>2, <1>3 DEF TypeOK
  <2>. QED
    BY <1>1, <1>7, <2>1 DEF TypeOK
<1>9. ASSUME NEW v \in Waiters PROVE Placed(v)'
  BY <1>1, <1>9 DEF Placed
<1>10. ASSUME NEW v \in Waiters, NEW a \in Addresses PROVE Dated(v, a)' /\ UpToDate(v, a)'
  <2>1. Listens(v, a)' <=> Listens(v, a)
    BY <1>1 DEF Listens
  <2>2. CASE a # b
    BY <1>1, <1>5, <1>6, <1>10, <2>1, <2>2, Frame
  <2>3. CASE a = b
    <3>. DEFINE q == queue[v][b]
    <3>1. q \in Seq(Contents) /\ since[v][b] \in Nat /\ Len(history[b]) \in Nat
      BY <1>3 DEF TypeOK
    <3>2. \A c : Had(v, b, c) => Had(v, b, c)'
      BY <1>1, <1>3, <1>4, <3>1 DEF Had
    <3>3. Had(v, b, content)'
      <4>1. since[v][b] <= Len(history[b])
        BY Zenon DEF Dated
      <4>2. Len(history'[b]) \in 1 .. Len(history'[b]) /\ Len(history'[b]) >= since'[v][b]
        BY <1>1, <1>4, <3>1, <4>1
      <4>. QED
        BY Zenon, <1>4, <4>2 DEF Had
    <3>4. \A j \in 1 .. Len(q) : Had(v, b, q[j])
      BY DEF Dated
    <3>5. \E c \in Contents : b \in seen[v] => Had(v, b, c)' /\ images'[v][b] = Decode(c)
      BY <1>1, <3>2 DEF Dated
    <3>6. Len(history'[b]) > 0 /\ since'[v][b] <= Len(history'[b])
      BY <1>1, <1>4, <3>1 DEF Dated
    <3>7. since'[v][b] = 0 => queue'[v][b] = <<>>
      BY <1>1, <1>6, <3>1 DEF Dated, Listens
    <3>8. CASE Listens(v, b)
      <4>1. queue'[v][b] = Append(q, content)
        BY Zenon, <1>6, <3>8
      <4>. HIDE DEF q
      <4>2. /\ Len(queue'[v][b]) = Len(q) + 1
            /\ queue'[v][b][Len(queue'[v][b])] = content
            /\ \A j \in 1 .. Len(q) : queue'[v][b][j] = q[j]
        BY <3>1, <4>1
      <4>3. ASSUME NEW j \in 1 .. Len(queue'[v][b]) PROVE Had(v, b, queue[v][b][j])'
        <5>1. CASE j \in 1 .. Len(q)
          <6>1. Had(v, b, q[j]) /\ queue'[v][b][j] = q[j]
            BY <3>4, <4>2, <5>1
          <6>2. \E i \in 1 .. Len(history'[b]) : i >= since'[v][b] /\ history'[b][i] = q[j]
            BY <3>2, <6>1 DEF Had
          <6>. QED
            BY <6>1, <6>2 DEF Had
        <5>2. CASE j \notin 1 .. Len(q)
          <6>1. queue'[v][b][j] = content
            BY <3>1, <4>2, <4>3, <5>2
          <6>. QED
            BY <3>3, <6>1 DEF Had
        <5>. QED
          BY <5>1, <5>2
      <4>4. Dated(v, b)'
        BY <1>1, <3>5, <3>6, <3>7, <4>3 DEF Dated
      <4>5. queue'[v][b] # <<>>
        BY <3>1, <4>2
      <4>6. Current(b)' = content
        BY <1>4 DEF Current
      <4>. QED
        BY <2>3, <4>2, <4>4, <4>5, <4>6 DEF UpToDate
    <3>9. CASE ~Listens(v, b)
      <4>1. queue'[v][b] = q
        BY <1>6, <3>9
      <4>. HIDE DEF q
      <4>2. ASSUME NEW j \in 1 .. Len(queue'[v][b]) PROVE Had(v, b, queue[v][b][j])'
        <5>1. Had(v, b, q[j]) /\ queue'[v][b][j] = q[j]
          BY <3>4, <4>1, <4>2
        <5>2. \E i \in 1 .. Len(history'[b]) : i >= since'[v][b] /\ history'[b][i] = q[j]
          BY <3>2, <5>1 DEF Had
        <5>. QED
          BY <5>1, <5>2 DEF Had
      <4>3. Dated(v, b)'
        BY <1>1, <3>5, <3>6, <3>7, <4>2 DEF Dated
      <4>. QED
        BY <2>1, <2>3, <3>9, <4>3 DEF UpToDate
    <3>. QED
      BY <3>8, <3>9
  <2>. QED
    BY <2>2, <2>3
<1>. QED
  BY <1>8, <1>9, <1>10

\* A connection that breaks: its waits no longer listen.
LEMMA CloseStep ==
  ASSUME IInv, NEW c, Close(c)
  PROVE  IInv'
<1>. USE DEF IInv
<1>1. UNCHANGED <<history, conn, conns, pc, since, queue, images, seen>>
      /\ open' \subseteq open
  BY DEF Close
<1>2. TypeOK'
  BY <1>1 DEF TypeOK
<1>3. ASSUME NEW v \in Waiters PROVE Placed(v)'
  BY <1>1, <1>3 DEF Placed
<1>4. ASSUME NEW v \in Waiters, NEW a \in Addresses PROVE Dated(v, a)' /\ UpToDate(v, a)'
  <2>1. Listens(v, a)' => Listens(v, a)
    BY <1>1, <1>4 DEF Listens
  <2>. QED
    BY <1>1, <1>4, <2>1, Frame
<1>. QED
  BY <1>2, <1>3, <1>4

\* A step of nobody.
LEMMA StutterStep == ASSUME IInv, UNCHANGED vars PROVE IInv'
<1>. USE DEF IInv, vars
<1>1. TypeOK'
  BY DEF TypeOK
<1>2. ASSUME NEW v \in Waiters PROVE Placed(v)'
  BY <1>2 DEF Placed
<1>3. ASSUME NEW v \in Waiters, NEW a \in Addresses PROVE Dated(v, a)' /\ UpToDate(v, a)'
  <2>1. Listens(v, a)' => Listens(v, a)
    BY DEF Listens
  <2>. QED
    BY <1>3, <2>1, Frame
<1>. QED
  BY <1>1, <1>2, <1>3

\* The invariant holds in every reachable state.
LEMMA Invariance == Spec => []IInv
<1>1. ASSUME IInv, [Next]_vars PROVE IInv'
  BY <1>1, ConnectStep, SubscribeStep, MoveStep, SnapshotStep, ApplyStep, WriteStep,
     CloseStep, StutterStep DEF Next
<1>. QED
  BY InitInv, <1>1, PTL DEF Spec

\* Updates cannot fall into a setup gap: a wait of watch_accounts or
\* await_accounts that has consumed all it was sent has the accounts as they
\* are, for any number of waits, accounts, changes and broken connections.
THEOREM NoSetupGapCorrect == Spec => []NoSetupGap
<1>1. IInv => NoSetupGap
  BY DEF IInv, UpToDate, Listens, Placed, NoSetupGap, Over
<1>. QED
  BY Invariance, <1>1, PTL

\* A wait that says ready says it of contents that every account had since the
\* wait subscribed to it, for any instance.
THEOREM AnswerCorrect == Spec => []AnswerIsOfThisWait
<1>1. ASSUME IInv PROVE AnswerIsOfThisWait
  <2>. SUFFICES ASSUME NEW w \in Waiters, pc[w] = "ready", NEW a \in Addresses
                PROVE  \E i \in since[w][a] .. Len(history[a]) : images[w][a] = Decode(history[a][i])
    BY DEF AnswerIsOfThisWait
  <2>1. a \in seen[w] /\ since[w][a] \in Nat /\ Len(history[a]) \in Nat
    BY <1>1 DEF IInv, Placed, TypeOK
  <2>2. PICK content \in Contents : Had(w, a, content) /\ images[w][a] = Decode(content)
    BY <1>1, <2>1 DEF IInv, Dated
  <2>. QED
    BY <2>1, <2>2 DEF Had
<1>. QED
  BY Invariance, <1>1, PTL

-----------------------------------------------------------------------------
\* The pacer goes on from its last slot; a sleeping wait is for a slot that
\* was still ahead when the last admission was made.
Continues ==
  /\ \A i \in DOMAIN log : log[i].at <= now
  /\ log # <<>> => next = log[Len(log)].slot + interval
  /\ log # <<>> /\ asleep => next >= log[Len(log)].at

\* A slot follows every earlier one by as many intervals as there are between
\* them, and begins at most Slack before the previous admission.
Spacing ==
  \A i, j \in DOMAIN log :
    i < j => /\ log[j].slot >= log[i].slot + (j - i) * interval
             /\ log[j].slot + Slack >= log[i].at

Prompt == \A i \in DOMAIN log : log[i].slot <= log[i].at + Resolution

PacerInv == PacerTypeOK /\ Continues /\ Spacing /\ Prompt

-----------------------------------------------------------------------------
\* The constants and the interval are natural numbers.
LEMMA Constants ==
  ASSUME PacerTypeOK
  PROVE  /\ interval \in Nat /\ Resolution \in Nat /\ Slack \in Nat
         /\ now \in Nat /\ next \in Nat /\ Len(log) \in Nat
         /\ DOMAIN log = 1 .. Len(log)
         /\ \A i \in DOMAIN log : log[i].at \in Nat /\ log[i].slot \in Nat
<1>1. interval \in Nat /\ Resolution \in Nat /\ Slack \in Nat
  BY PacerAssumption DEF PacerAssumption, PacerTypeOK
<1>2. now \in Nat /\ next \in Nat /\ Len(log) \in Nat /\ DOMAIN log = 1 .. Len(log)
  BY DEF PacerTypeOK
<1>3. \A i \in DOMAIN log : log[i] \in Entry
  BY DEF PacerTypeOK
<1>4. \A i \in DOMAIN log : log[i].at \in Nat /\ log[i].slot \in Nat
  BY <1>3 DEF Entry
<1> QED BY <1>1, <1>2, <1>4

\* One more interval.
LEMMA Stretch ==
  ASSUME NEW k \in Nat, NEW d \in Nat
  PROVE  k * d \in Nat /\ (k + 1) * d = k * d + d
OBVIOUS

\* The indices before a new entry.
LEMMA Before ==
  ASSUME NEW n \in Nat, NEW i \in 1 .. n + 1, i < n + 1
  PROVE  /\ i \in 1 .. n /\ n \in 1 .. n
         /\ i < n \/ i = n
         /\ n - i \in Nat /\ (n + 1) - i = (n - i) + 1
OBVIOUS

\* Distances add up.
LEMMA Chain ==
  ASSUME NEW a \in Nat, NEW b \in Nat, NEW c \in Nat, NEW k \in Nat, NEW d \in Nat,
         a >= b + d, b >= c + k
  PROVE  a >= c + (k + d)
OBVIOUS

\* A slot after one that is late by at most s is late by no more.
LEMMA Later ==
  ASSUME NEW a \in Nat, NEW b \in Nat, NEW d \in Nat, NEW s \in Nat, NEW t \in Nat,
         a >= b + d, b + s >= t
  PROVE  a + s >= t
OBVIOUS

\* The times of two admissions, by way of their slots.
LEMMA InWindow ==
  ASSUME NEW at \in Nat, NEW from \in Nat, NEW slot \in Nat, NEW first \in Nat,
         NEW r \in Nat, NEW s \in Nat, NEW k \in Nat,
         first + s >= from, slot >= first + k, slot <= at + r
  PROVE  at + r + s >= from + k
OBVIOUS

\* An admission keeps the spacing if its slot is not before `next`, is within
\* the resolution of the clock, and is not too far before the last admission.
LEMMA GrantStep ==
  ASSUME PacerInv, NEW slot \in Nat, Grant(slot),
         slot >= next, slot <= now + Resolution,
         log # <<>> => slot + Slack >= log[Len(log)].at
  PROVE  PacerInv'
<1> DEFINE n == Len(log)
<1> DEFINE entry == [at |-> now, slot |-> slot]
<1>1. PacerTypeOK /\ Continues /\ Spacing /\ Prompt
  BY DEF PacerInv
<1>2. /\ interval \in Nat /\ Resolution \in Nat /\ Slack \in Nat
      /\ now \in Nat /\ next \in Nat /\ n \in Nat
      /\ DOMAIN log = 1 .. n
      /\ \A i \in DOMAIN log : log[i].at \in Nat /\ log[i].slot \in Nat
  BY <1>1, Constants
<1>3. log' = Append(log, entry) /\ next' = slot + interval /\ now' = now
      /\ interval' = interval /\ asleep' = FALSE
  BY DEF Grant
<1>4. PacerTypeOK'
  <2>1. asleep' \in BOOLEAN
    BY <1>3, Zenon
  <2>2. entry \in Entry
    BY <1>2 DEF Entry
  <2>3. log' \in Seq(Entry)
    BY <1>1, <1>3, <2>2 DEF PacerTypeOK
  <2>4. interval' \in Intervals /\ now' \in Nat /\ next' \in Nat
    BY <1>1, <1>2, <1>3 DEF PacerTypeOK
  <2> QED BY <2>1, <2>3, <2>4 DEF PacerTypeOK
<1>5. /\ Len(log') = n + 1 /\ DOMAIN log' = 1 .. n + 1
      /\ log'[n + 1] = entry
      /\ \A i \in 1 .. n : log'[i] = log[i]
  BY <1>1, <1>2, <1>3 DEF PacerTypeOK
<1>6. Continues'
  <2>1. \A i \in DOMAIN log' : log'[i].at <= now'
    BY <1>1, <1>2, <1>3, <1>5 DEF Continues
  <2>2. next' = log'[Len(log')].slot + interval'
    BY <1>3, <1>5
  <2> QED BY <1>3, <2>1, <2>2 DEF Continues
<1>7. Prompt'
  BY <1>1, <1>2, <1>3, <1>5 DEF Prompt
<1>8. Spacing'
  <2> SUFFICES ASSUME NEW i \in 1 .. n + 1, NEW j \in 1 .. n + 1, i < j
               PROVE  /\ log'[j].slot >= log'[i].slot + (j - i) * interval
                      /\ log'[j].slot + Slack >= log'[i].at
    BY <1>3, <1>5 DEF Spacing
  <2>1. CASE j <= n
    <3>1. i \in 1 .. n /\ j \in 1 .. n
      BY <1>2, <2>1
    <3> QED BY Zenon, <1>1, <1>2, <1>5, <3>1 DEF Spacing
  <2>2. CASE j = n + 1
    <3>1. /\ i \in 1 .. n /\ n \in 1 .. n /\ (i < n \/ i = n)
          /\ n - i \in Nat /\ (n + 1) - i = (n - i) + 1
      BY Zenon, <1>2, <2>2, Before
    <3>2. log # <<>> /\ i \in DOMAIN log /\ n \in DOMAIN log
      <4>1. i \in DOMAIN log /\ n \in DOMAIN log
        BY Zenon, <1>2, <3>1
      <4>2. DOMAIN log # {}
        BY <4>1
      <4> QED BY <4>1, <4>2
    <3>3. log'[j].slot = slot /\ log'[i] = log[i]
      BY <1>5, <2>2, <3>1
    <3>4. log[n].slot \in Nat /\ log[i].slot \in Nat /\ log[i].at \in Nat
      BY <1>2, <3>2
    <3>5. slot >= log[n].slot + interval
      BY <1>1, <3>2 DEF Continues
    <3>6. /\ (n - i) * interval \in Nat
          /\ (j - i) * interval = (n - i) * interval + interval
      BY Zenon, <1>2, <2>2, <3>1, Stretch
    <3>7. log[n].slot >= log[i].slot + (n - i) * interval
      <4>1. CASE i < n
        BY <1>1, <3>2, <4>1 DEF Spacing
      <4>2. CASE i = n
        BY <1>2, <3>4, <4>2
      <4> QED BY <3>1, <4>1, <4>2
    <3>8. slot >= log[i].slot + (j - i) * interval
      <4>1. slot >= log[i].slot + ((n - i) * interval + interval)
        BY <1>2, <3>4, <3>5, <3>6, <3>7, Chain
      <4> QED BY <3>6, <4>1
    <3>9. slot + Slack >= log[i].at
      <4>1. CASE i = n
        BY <3>2, <4>1
      <4>2. CASE i < n
        <5>1. log[n].slot + Slack >= log[i].at
          BY <1>1, <3>2, <4>2 DEF Spacing
        <5> QED BY <1>2, <3>4, <3>5, <5>1, Later
      <4> QED BY <3>1, <4>1, <4>2
    <3> QED BY <3>3, <3>8, <3>9
  <2> QED BY <1>2, <2>1, <2>2
<1> QED BY <1>4, <1>6, <1>7, <1>8 DEF PacerInv

\* The invariant holds initially.
LEMMA PacerInitInv == PacerInit => PacerInv
<1> SUFFICES ASSUME PacerInit PROVE PacerInv
  OBVIOUS
<1>1. asleep \in BOOLEAN
  BY Zenon DEF PacerInit
<1>2. now \in Nat /\ next \in Nat /\ log = <<>> /\ log \in Seq(Entry)
  BY PacerAssumption DEF PacerAssumption, PacerInit
<1>3. PacerTypeOK
  BY <1>1, <1>2 DEF PacerInit, PacerTypeOK
<1> QED BY <1>2, <1>3 DEF PacerInv, Continues, Spacing, Prompt

\* Every step preserves the invariant.
LEMMA PacerInductive == PacerInv /\ [PacerNext]_pacerVars => PacerInv'
<1> SUFFICES ASSUME PacerInv, [PacerNext]_pacerVars PROVE PacerInv'
  OBVIOUS
<1>1. PacerTypeOK /\ Continues /\ Spacing /\ Prompt
  BY DEF PacerInv
<1>2. /\ interval \in Nat /\ Resolution \in Nat /\ Slack \in Nat
      /\ now \in Nat /\ next \in Nat
      /\ \A i \in DOMAIN log : log[i].at \in Nat /\ log[i].slot \in Nat
  BY <1>1, Constants
<1>3. log # <<>> => Len(log) \in DOMAIN log /\ log[Len(log)].at <= now
                     /\ log[Len(log)].at \in Nat
  <2>1. log # <<>> => Len(log) \in DOMAIN log
    BY <1>1 DEF PacerTypeOK
  <2> QED BY <1>1, <1>2, <2>1 DEF Continues
<1>4. CASE Wait
  <2>1. CASE next > now /\ next - now < Resolution /\ Grant(next)
    <3>1. next <= now + Resolution /\ (log # <<>> => next + Slack >= log[Len(log)].at)
      BY <1>2, <1>3, <2>1
    <3>2. next >= next
      BY <1>2
    <3> QED BY <1>2, <2>1, <3>1, <3>2, GrantStep
  <2>2. CASE next <= now /\ now - next <= Slack /\ Grant(next)
    <3>1. next <= now + Resolution /\ (log # <<>> => next + Slack >= log[Len(log)].at)
      BY <1>2, <1>3, <2>2
    <3>2. next >= next
      BY <1>2
    <3> QED BY <1>2, <2>2, <3>1, <3>2, GrantStep
  <2>3. CASE next <= now /\ now - next > Slack /\ Grant(now)
    <3>1. /\ now >= next /\ now <= now + Resolution
          /\ log # <<>> => now + Slack >= log[Len(log)].at
      BY <1>2, <1>3, <2>3
    <3> QED BY <1>2, <2>3, <3>1, GrantStep
  <2>4. CASE /\ next > now /\ next - now >= Resolution
             /\ asleep' = TRUE
             /\ UNCHANGED <<interval, now, next, log>>
    <3>1. asleep' \in BOOLEAN
      BY <2>4, Zenon
    <3>2. PacerTypeOK'
      BY <1>1, <2>4, <3>1 DEF PacerTypeOK
    <3>3. log # <<>> => next >= log[Len(log)].at
      BY <1>2, <1>3, <2>4
    <3> QED BY <1>1, <2>4, <3>2, <3>3 DEF PacerInv, Continues, Spacing, Prompt
  <2> QED BY Zenon, <1>4, <2>1, <2>2, <2>3, <2>4 DEF Wait
<1>5. CASE Wake
  <2>1. next >= next /\ next <= now + Resolution
    BY <1>2, <1>5 DEF Wake
  <2>2. log # <<>> => next + Slack >= log[Len(log)].at
    BY <1>1, <1>2, <1>3, <1>5 DEF Wake, Continues
  <2> QED BY <1>2, <1>5, <2>1, <2>2, GrantStep DEF Wake
<1>6. CASE Cancel
  <2>1. asleep' \in BOOLEAN
    BY <1>6, Zenon DEF Cancel
  <2>2. PacerTypeOK'
    BY <1>1, <1>6, <2>1 DEF PacerTypeOK, Cancel
  <2> QED BY <1>1, <1>6, <2>2 DEF Cancel, PacerInv, Continues, Spacing, Prompt
<1>7. CASE Tick
  <2>1. PacerTypeOK'
    BY <1>1, <1>7 DEF PacerTypeOK, Tick
  <2>2. Continues'
    BY <1>1, <1>2, <1>7 DEF Tick, Continues
  <2> QED BY <1>1, <1>7, <2>1, <2>2 DEF Tick, PacerInv, Spacing, Prompt
<1>8. CASE UNCHANGED pacerVars
  BY <1>1, <1>8 DEF pacerVars, PacerInv, PacerTypeOK, Continues, Spacing, Prompt
<1> QED BY <1>4, <1>5, <1>6, <1>7, <1>8 DEF PacerNext

\* The inductive invariant holds in every reachable state.
THEOREM PacerInvariance == PacerSpec => []PacerInv
BY PacerInitInv, PacerInductive, PTL DEF PacerSpec

\* Whatever the delays and cancellations, no stretch of time holds more
\* admissions than the rate, the slack, the resolution and one more allow.
THEOREM BurstCorrect == PacerSpec => []NoBurst
<1>1. PacerInv => NoBurst
  <2> SUFFICES ASSUME PacerInv, NEW i \in DOMAIN log, NEW j \in DOMAIN log, i < j
               PROVE  log[j].at + Resolution + Slack >= log[i].at + (j - i - 1) * interval
    BY DEF NoBurst
  <2>1. /\ interval \in Nat /\ Resolution \in Nat /\ Slack \in Nat
        /\ Len(log) \in Nat /\ DOMAIN log = 1 .. Len(log)
        /\ \A k \in DOMAIN log : log[k].at \in Nat /\ log[k].slot \in Nat
    BY Constants DEF PacerInv
  <2>2. i + 1 \in DOMAIN log /\ i < i + 1 /\ (i + 1 < j \/ i + 1 = j) /\ j - i - 1 \in Nat
    BY <2>1
  <2>3. log[i + 1].slot + Slack >= log[i].at
    BY <2>2 DEF PacerInv, Spacing
  <2>4. log[j].slot >= log[i + 1].slot + (j - i - 1) * interval
    <3>1. CASE i + 1 < j
      <4>1. log[j].slot >= log[i + 1].slot + (j - (i + 1)) * interval
        BY <2>2, <3>1 DEF PacerInv, Spacing
      <4>2. j - (i + 1) = j - i - 1
        BY <2>1
      <4> QED BY <4>1, <4>2
    <3>2. CASE i + 1 = j
      <4>1. j - i - 1 = 0 /\ 0 * interval = 0
        BY <2>1, <3>2
      <4>2. log[j].slot >= log[j].slot + 0
        BY <2>1
      <4> QED BY <3>2, <4>1, <4>2
    <3> QED BY <2>2, <3>1, <3>2
  <2>5. log[j].slot <= log[j].at + Resolution
    BY DEF PacerInv, Prompt
  <2>6. (j - i - 1) * interval \in Nat
    BY <2>1, <2>2, Stretch
  <2>7. /\ log[j].at \in Nat /\ log[j].slot \in Nat /\ log[i].at \in Nat
        /\ log[i + 1].slot \in Nat
    BY <2>1, <2>2
  <2> QED BY Zenon, <2>1, <2>3, <2>4, <2>5, <2>6, <2>7, InWindow
<1> QED BY <1>1, PacerInvariance, PTL

\* Slots are an interval apart and never granted early.
THEOREM SpacingCorrect == PacerSpec => []SlotsAreSpaced
<1>1. PacerInv => SlotsAreSpaced
  <2> SUFFICES ASSUME PacerInv, NEW i \in DOMAIN log
               PROVE  /\ log[i].slot <= log[i].at + Resolution
                      /\ i > 1 => log[i].slot >= log[i - 1].slot + interval
    BY DEF SlotsAreSpaced
  <2>1. log[i].slot <= log[i].at + Resolution
    BY DEF PacerInv, Prompt
  <2>2. ASSUME i > 1 PROVE log[i].slot >= log[i - 1].slot + interval
    <3>1. /\ interval \in Nat /\ Len(log) \in Nat /\ DOMAIN log = 1 .. Len(log)
          /\ \A k \in DOMAIN log : log[k].slot \in Nat
      BY Constants DEF PacerInv
    <3>2. i - 1 \in DOMAIN log /\ i - 1 < i /\ i - (i - 1) = 1
      BY <2>2, <3>1
    <3>3. log[i].slot >= log[i - 1].slot + (i - (i - 1)) * interval
      BY <3>2 DEF PacerInv, Spacing
    <3> QED BY <3>1, <3>2, <3>3
  <2> QED BY <2>1, <2>2
<1> QED BY <1>1, PacerInvariance, PTL

=============================================================================
