---------------------------- MODULE EventsProofs ----------------------------
(***************************************************************************)
(* Theorems about the event streams (Events), for any handles and any      *)
(* bound on the events: what the owner of an open handle has received      *)
(* and what is still on the wire for it are the events the server sent,    *)
(* each once and in order; only a fault closes the connection, and a       *)
(* dropped handle leaves no subscription behind.  Each handle's life is    *)
(* described by KeyOK, which relates what the owner took, what is          *)
(* buffered, what is on the wire in both directions and what the server    *)
(* remembers.                                                              *)
(***************************************************************************)
EXTENDS EventsLemmas

\* The first request is answered: what is left of its key on the wire.
LEMMA Answered ==
  ASSUME EventsTypeOK, NEW k \in Keys, KeyOK(k), upstream # <<>>, upstream' = Tail(upstream)
  PROVE  /\ Head(upstream)[2] \in Keys
         /\ Head(upstream)[2] # k => UpMoves(1, k)
         /\ Head(upstream) = <<"sub", k>> =>
              /\ Up("sub", k) # {} /\ Up("sub", k)' = {}
              /\ Up("unsub", k)' = {} <=> Up("unsub", k) = {}
              /\ Single(Up("unsub", k)')
         /\ Head(upstream) = <<"unsub", k>> =>
              /\ Up("unsub", k) # {} /\ Up("unsub", k)' = {}
              /\ Up("sub", k)' = {} <=> Up("sub", k) = {}
              /\ Single(Up("sub", k)')
<1>w. WireOK
  BY DEF EventsTypeOK
<1>1. Head(upstream) \in Requests
  BY <1>w, UpTaken
<1>2. ASSUME Head(upstream)[2] # k PROVE UpMoves(1, k)
  <2>1. \A w : Head(upstream) # <<w, k>>
    BY <1>2
  <2> QED BY <2>1, <1>w, UpTaken DEF UpMoves
<1>3. ASSUME NEW w, NEW v, w # v, Single(Up(w, k)), Single(Up(v, k)),
             Head(upstream) = <<w, k>>
      PROVE  /\ Up(w, k) # {} /\ Up(w, k)' = {}
             /\ Up(v, k)' = {} <=> Up(v, k) = {}
             /\ Single(Up(v, k)')
  <2>1. Up(w, k) # {} /\ Up(w, k)' = {}
    BY <1>3, <1>w, UpTaken
  <2>2. Head(upstream) # <<v, k>>
    BY <1>3
  <2>3. Shift(Up(v, k), Up(v, k)', 1)
    BY <2>2, <1>w, UpTaken
  <2> QED BY <1>3, <2>1, <2>3, Moved
<1>4. Single(Up("sub", k)) /\ Single(Up("unsub", k))
  BY Singles, Zenon DEF KeyOK, OpenOK, EndOK, Once
<1>5. Head(upstream)[2] \in Keys
  BY <1>1 DEF Requests
<1>6. CASE Head(upstream) = <<"sub", k>>
  <2>1. /\ Up("sub", k) # {} /\ Up("sub", k)' = {}
        /\ Up("unsub", k)' = {} <=> Up("unsub", k) = {}
        /\ Single(Up("unsub", k)')
    BY <1>3, <1>4, <1>6
  <2>2. Head(upstream) # <<"unsub", k>>
    BY <1>6
  <2> QED BY <1>2, <1>5, <2>1, <2>2
<1>7. CASE Head(upstream) = <<"unsub", k>>
  <2>1. /\ Up("unsub", k) # {} /\ Up("unsub", k)' = {}
        /\ Up("sub", k)' = {} <=> Up("sub", k) = {}
        /\ Single(Up("sub", k)')
    BY <1>3, <1>4, <1>7
  <2>2. Head(upstream) # <<"sub", k>>
    BY <1>7
  <2> QED BY <1>2, <1>5, <2>1, <2>2
<1> QED BY Zenon, <1>2, <1>5, <1>6, <1>7

\* What an answer put last on the wire changes there.
LEMMA Answering ==
  ASSUME EventsTypeOK, NEW kind \in AckKinds \cup EndKinds, NEW k \in Keys,
         downstream' = Append(downstream, Frame(kind, k, 0))
  PROVE  /\ \A j \in Keys : j # k => DownMoves(0, j)
         /\ OnTheWire(k)' = OnTheWire(k)
         /\ \A p \in OnTheWire(k) : downstream'[p] = downstream[p]
         /\ \A K : IF kind \in K THEN Down(K, k)' = Down(K, k) \cup {Len(downstream) + 1}
                                 ELSE Down(K, k)' = Down(K, k)
<1>w. WireOK
  BY DEF EventsTypeOK
<1>1. /\ Frame(kind, k, 0) \in Frames /\ Frame(kind, k, 0).kind = kind /\ Frame(kind, k, 0).key = k
      /\ kind \notin {"note"}
  BY DEF Frame, Frames, Kinds, AckKinds, EndKinds
<1>2. OnTheWire(k) = Down({"note"}, k) /\ OnTheWire(k)' = Down({"note"}, k)'
  BY DEF OnTheWire, Down
<1>3. OnTheWire(k)' = OnTheWire(k) /\ \A p \in OnTheWire(k) : downstream'[p] = downstream[p]
  BY <1>w, <1>1, <1>2, DownAppended
<1>4. \A j \in Keys : j # k => DownMoves(0, j)
  BY <1>w, <1>1, DownAppended
<1>5. \A K : IF kind \in K THEN Down(K, k)' = Down(K, k) \cup {Len(downstream) + 1}
                          ELSE Down(K, k)' = Down(K, k)
  BY <1>w, <1>1, DownAppended
<1> QED BY Zenon, <1>3, <1>4, <1>5

\* A subscribe is acknowledged or rejected.
LEMMA SubscribedOK ==
  ASSUME EventsTypeOK, NEW k \in Keys, KeyOK(k), Serve, Head(upstream) = <<"sub", k>>
  PROVE  KeyOK(k)'
<1>1. /\ Up("sub", k) # {} /\ Up("sub", k)' = {}
      /\ Up("unsub", k)' = {} <=> Up("unsub", k) = {}
      /\ Single(Up("unsub", k)')
  BY Answered DEF Serve
<1>k. Head(upstream)[1] = "sub" /\ Head(upstream)[2] = k
  OBVIOUS
<1>2. PICK kind \in AckKinds :
        /\ downstream' = Append(downstream, Frame(kind, k, 0))
        /\ active' = IF kind = "ack" THEN active \cup {k} ELSE active
        /\ faulted \/ kind = "reject" => faulted'
  <2>1. \/ /\ active' = active \cup {k} /\ faulted' = faulted
           /\ downstream' = Append(downstream, Frame("ack", k, 0))
        \/ /\ active' = active /\ faulted' = TRUE
           /\ downstream' = Append(downstream, Frame("reject", k, 0))
    BY <1>k DEF Serve
  <2>2. "ack" \in AckKinds /\ "reject" \in AckKinds /\ "ack" # "reject"
    BY DEF AckKinds
  <2> QED BY <2>1, <2>2
<1>3. kind \in AckKinds \cup EndKinds
  OBVIOUS
<1>4. /\ OnTheWire(k)' = OnTheWire(k)
      /\ \A p \in OnTheWire(k) : downstream'[p] = downstream[p]
      /\ \A K : IF kind \in K THEN Down(K, k)' = Down(K, k) \cup {Len(downstream) + 1}
                              ELSE Down(K, k)' = Down(K, k)
  BY Zenon, <1>2, <1>3, Answering
<1>5. /\ Down(AckKinds, k)' = Down(AckKinds, k) \cup {Len(downstream) + 1}
      /\ Down(EndKinds, k)' = Down(EndKinds, k)
      /\ kind = "ack" => Down({"ack"}, k)' # {}
      /\ Down({"reject"}, k)' # {} => Down({"reject"}, k) # {} \/ kind = "reject"
  <2>1. kind \in AckKinds /\ kind \notin EndKinds
    BY DEF AckKinds, EndKinds
  <2>2. Down(AckKinds, k)' = Down(AckKinds, k) \cup {Len(downstream) + 1}
    BY <2>1, <1>4
  <2>3. Down(EndKinds, k)' = Down(EndKinds, k)
    BY <2>1, <1>4
  <2>4. kind = "ack" => Down({"ack"}, k)' # {}
    BY <1>4
  <2>5. Down({"reject"}, k)' # {} => Down({"reject"}, k) # {} \/ kind = "reject"
    BY <1>4
  <2> QED BY <2>2, <2>3, <2>4, <2>5
<1>6. /\ handle' = handle /\ task' = task /\ gaveUp' = gaveUp /\ taken' = taken /\ sent' = sent
      /\ requests' = requests /\ routes' = routes /\ buffer' = buffer /\ closed' = closed /\ ~closed
  BY DEF Serve, owner, router
<1>7. /\ k \notin active /\ sent[k] = 0 /\ handle[k] \notin {"unborn", "sending"}
      /\ <<"sub", k>> \in requests \/ k \in gaveUp
      /\ Down(AckKinds, k) = {}
      /\ k \in gaveUp => task[k] = "done"
  BY Singles, <1>1 DEF KeyOK, OpenOK, EndOK, Once
<1>8. OnTheWire(k) = {}
  BY <1>7 DEF KeyOK, ServedOK
<1>a. Down(AckKinds, k)' # {} /\ Single(Down(AckKinds, k)') /\ Single(Up("sub", k)')
  <2>1. Single(Up("sub", k)')
    BY Zenon, Singles, <1>1
  <2>2. Down(AckKinds, k)' = Down(AckKinds, k) \cup {Len(downstream) + 1} /\ Down(AckKinds, k) = {}
    BY <1>5, <1>7
  <2> QED BY Zenon, Singles, <2>1, <2>2
<1>9. OpenOK(k)'
  <2>1. handle[k] # "dropped" <=> task[k] = "none"
    BY DEF KeyOK, OpenOK
  <2>2. <<"sub", k>> \in requests => k \notin routes
    BY DEF KeyOK, OpenOK
  <2> QED BY <1>a, <1>1, <1>6, <1>7, <2>1, <2>2 DEF OpenOK, Once
<1>10. EndOK(k)'
  BY Singles, <1>1, <1>5, <1>6, <1>7 DEF KeyOK, EndOK, Once
<1>11. ServedOK(k)'
  <2>1. Down({"reject"}, k)' # {} => faulted'
    BY <1>2, <1>5 DEF KeyOK, ServedOK
  <2>2. OnTheWire(k)' = {}
    BY <1>4, <1>8
  <2>3. k \in OneShot => sent'[k] <= 1 /\ sent'[k] # 1
    BY <1>6, <1>7
  <2> QED BY <2>1, <2>2, <2>3 DEF ServedOK
<1>12. RoutedOK(k)'
  BY <1>2, <1>4, <1>5, <1>6, <1>7, <1>8 DEF KeyOK, RoutedOK
<1>13. InOrder(k)'
  BY Zenon, <1>4, <1>6, <1>8 DEF KeyOK, InOrder
<1>14. FreshOK(k)'
  BY <1>6 DEF KeyOK, FreshOK
<1> QED BY <1>9, <1>10, <1>11, <1>12, <1>13, <1>14 DEF KeyOK

\* An unsubscribe is answered; its handle is dropped.
LEMMA UnsubscribedOK ==
  ASSUME EventsTypeOK, NEW k \in Keys, KeyOK(k), Serve, Head(upstream) = <<"unsub", k>>
  PROVE  KeyOK(k)'
<1>1. /\ Up("unsub", k) # {} /\ Up("unsub", k)' = {}
      /\ Up("sub", k)' = {} <=> Up("sub", k) = {}
      /\ Single(Up("sub", k)')
  BY Answered DEF Serve
<1>k. Head(upstream)[1] = "unsub" /\ Head(upstream)[2] = k
  OBVIOUS
<1>2. PICK kind \in EndKinds : downstream' = Append(downstream, Frame(kind, k, 0))
  BY <1>k DEF Serve, EndKinds
<1>s. active' = active \ {k} /\ faulted' = faulted
  BY <1>k DEF Serve
<1>3. kind \in AckKinds \cup EndKinds
  OBVIOUS
<1>4. /\ OnTheWire(k)' = OnTheWire(k)
      /\ \A p \in OnTheWire(k) : downstream'[p] = downstream[p]
      /\ \A K : IF kind \in K THEN Down(K, k)' = Down(K, k) \cup {Len(downstream) + 1}
                              ELSE Down(K, k)' = Down(K, k)
  BY Zenon, <1>2, <1>3, Answering
<1>5. /\ Down(EndKinds, k)' = Down(EndKinds, k) \cup {Len(downstream) + 1}
      /\ Down(AckKinds, k)' = Down(AckKinds, k)
      /\ Down({"reject"}, k)' = Down({"reject"}, k)
  <2>1. kind \in EndKinds /\ kind \notin AckKinds /\ kind \notin {"reject"}
    BY DEF AckKinds, EndKinds
  <2> QED BY <2>1, <1>4
<1>6. /\ handle' = handle /\ task' = task /\ gaveUp' = gaveUp /\ taken' = taken /\ sent' = sent
      /\ requests' = requests /\ routes' = routes /\ buffer' = buffer /\ closed' = closed /\ ~closed
  BY DEF Serve, owner, router
<1>7. /\ task[k] = "done" /\ handle[k] = "dropped" /\ Down(EndKinds, k) = {}
      /\ <<"unsub", k>> \in requests
  BY Singles, <1>1 DEF KeyOK, OpenOK, EndOK, Once
<1>9. OpenOK(k)'
  BY Singles, <1>1, <1>5, <1>6, <1>7, <1>s DEF KeyOK, OpenOK, Once
<1>a. Down(EndKinds, k)' # {} /\ Single(Down(EndKinds, k)') /\ Single(Up("unsub", k)')
  <2>1. Single(Up("unsub", k)')
    BY Zenon, Singles, <1>1
  <2>2. Down(EndKinds, k)' = Down(EndKinds, k) \cup {Len(downstream) + 1} /\ Down(EndKinds, k) = {}
    BY <1>5, <1>7
  <2> QED BY Zenon, Singles, <2>1, <2>2
<1>10. EndOK(k)'
  BY <1>a, <1>1, <1>6, <1>7, <1>s DEF KeyOK, EndOK, Once
<1>11. ServedOK(k)'
  BY <1>4, <1>5, <1>6, <1>s DEF KeyOK, ServedOK
<1>12. RoutedOK(k)' /\ InOrder(k)' /\ FreshOK(k)'
  BY <1>6, <1>7 DEF RoutedOK, InOrder, FreshOK, Live
<1> QED BY <1>9, <1>10, <1>11, <1>12 DEF KeyOK

\* The server answers a request.
LEMMA ServeOK ==
  ASSUME EventsTypeOK, NEW k \in Keys, KeyOK(k), Serve
  PROVE  KeyOK(k)'
<1> DEFINE h == Head(upstream)[2]
<1>0. Head(upstream) \in Requests
  BY UpTaken DEF Serve, EventsTypeOK
<1>1. h \in Keys /\ (Head(upstream) = <<"sub", h>> \/ Head(upstream) = <<"unsub", h>>)
  BY <1>0 DEF Requests
<1>2. CASE h = k
  BY <1>1, <1>2, SubscribedOK, UnsubscribedOK
<1>3. CASE h # k
  <2>1. PICK kind \in AckKinds \cup EndKinds : downstream' = Append(downstream, Frame(kind, h, 0))
    BY DEF Serve, AckKinds, EndKinds
  <2>2. DownMoves(0, k)
    BY <1>1, <1>3, <2>1, Answering
  <2>3. UpMoves(1, k)
    BY <1>3, Answered DEF Serve
  <2>4. Kept(k)
    BY <1>3 DEF Kept, Serve, owner, router
  <2> QED BY <2>2, <2>3, <2>4, KeptOK
<1> QED BY <1>2, <1>3

-----------------------------------------------------------------------------
\* The reader takes a frame of k: what is left of k on the wire.
LEMMA Dispatched ==
  ASSUME EventsTypeOK, NEW k \in Keys, KeyOK(k), Dispatch, Head(downstream).key = k
  PROVE  /\ \A K : Head(downstream).kind \notin K =>
              /\ Down(K, k)' = {} <=> Down(K, k) = {}
              /\ Single(Down(K, k)) => Single(Down(K, k)')
         /\ \A K : Head(downstream).kind \in K =>
              1 \in Down(K, k) /\ (Single(Down(K, k)) => Down(K, k)' = {})
         /\ \A w : Up(w, k)' = Up(w, k)
         /\ handle' = handle /\ task' = task /\ gaveUp' = gaveUp /\ taken' = taken
         /\ sent' = sent /\ active' = active /\ faulted' = faulted /\ ~closed
<1>w. WireOK
  BY DEF EventsTypeOK
<1>1. downstream # <<>> /\ downstream' = Tail(downstream) /\ upstream' = upstream
  BY DEF Dispatch
<1>2. ASSUME NEW K, Head(downstream).kind \notin K
      PROVE  /\ Down(K, k)' = {} <=> Down(K, k) = {}
             /\ Single(Down(K, k)) => Single(Down(K, k)')
  <2>1. Shift(Down(K, k), Down(K, k)', 1)
    BY <1>1, <1>2, <1>w, DownTaken
  <2> QED BY <2>1, Moved
<1>3. ASSUME NEW K, Head(downstream).kind \in K
      PROVE  1 \in Down(K, k) /\ (Single(Down(K, k)) => Down(K, k)' = {})
  BY <1>1, <1>3, <1>w, DownTaken
<1>4. \A w : Up(w, k)' = Up(w, k)
  BY Zenon, <1>1, <1>w, UpStays
<1>5. /\ handle' = handle /\ task' = task /\ gaveUp' = gaveUp /\ taken' = taken
      /\ sent' = sent /\ active' = active /\ faulted' = faulted /\ ~closed
  BY DEF Dispatch, owner, server
<1> QED BY <1>2, <1>3, <1>4, <1>5

\* The notifications of k on the wire after the reader took a frame that is none.
LEMMA NotesMove ==
  ASSUME EventsTypeOK, NEW k \in Keys, KeyOK(k), Dispatch, Head(downstream).kind # "note",
         handle[k] \in Live => buffer'[k] = buffer[k]
  PROVE  /\ InOrder(k)'
         /\ \A p \in OnTheWire(k)' : downstream'[p].n \in 1 .. sent'[k]
         /\ \A q \in OnTheWire(k)' : q \in Nat /\ q + 1 \in OnTheWire(k)
<1>w. WireOK
  BY DEF EventsTypeOK
<1>1. downstream # <<>> /\ downstream' = Tail(downstream)
  BY DEF Dispatch
<1>2. OnTheWire(k) = Down({"note"}, k) /\ OnTheWire(k)' = Down({"note"}, k)'
  BY DEF OnTheWire, Down
<1>3. Shift(OnTheWire(k), OnTheWire(k)', 1)
  <2>1. Head(downstream).kind \notin {"note"}
    OBVIOUS
  <2> QED BY <2>1, <1>1, <1>2, <1>w, DownTaken
<1>4. OnTheWire(k)' \subseteq Nat /\ OnTheWire(k) \subseteq Nat
  BY <1>3 DEF Shift
<1>5. \A q \in OnTheWire(k)' : q + 1 \in OnTheWire(k) /\ downstream'[q] = downstream[q + 1]
  <2>1. \A q \in OnTheWire(k)' : q + 1 \in OnTheWire(k) /\ q \in DOMAIN downstream'
    BY <1>3, Moved DEF OnTheWire
  <2> QED BY <2>1, <1>1, <1>w, DownTaken
<1>6. \A q \in OnTheWire(k) : q - 1 \in OnTheWire(k)' /\ (q - 1) + 1 = q
  BY <1>3, <1>4, Moved
<1>7. \A m : (\E p \in OnTheWire(k)' : downstream'[p].n = m) <=>
            (\E p \in OnTheWire(k) : downstream[p].n = m)
  BY <1>5, <1>6
<1>8. handle' = handle /\ taken' = taken /\ sent' = sent
  BY DEF Dispatch, owner, server
<1>9. InOrder(k)'
  <2>1. SUFFICES ASSUME handle[k] \in Live
                 PROVE  /\ \A m \in Nat : Len(taken[k]) + Len(buffer[k]) < m /\ m <= sent[k] <=>
                                            \E p \in OnTheWire(k)' : downstream'[p].n = m
                        /\ \A p, q \in OnTheWire(k)' : p < q => downstream'[p].n < downstream'[q].n
    BY Zenon, <1>8 DEF InOrder, KeyOK
  <2>2. ASSUME NEW p \in OnTheWire(k)', NEW q \in OnTheWire(k)', p < q
        PROVE  downstream'[p].n < downstream'[q].n
    <3>1. p + 1 < q + 1
      BY <2>2, <1>4
    <3> QED BY Zenon, <3>1, <1>5, <2>1 DEF KeyOK, InOrder
  <2> QED BY Zenon, <2>1, <2>2, <1>7 DEF KeyOK, InOrder
<1>10. \A p \in OnTheWire(k)' : downstream'[p].n \in 1 .. sent'[k]
  BY <1>5, <1>8 DEF KeyOK, ServedOK
<1> QED BY <1>4, <1>5, <1>9, <1>10

\* An acknowledgment routes the subscription, unless its task gave up.
LEMMA AckDispatchedOK ==
  ASSUME EventsTypeOK, NEW k \in Keys, KeyOK(k), Dispatch, Head(downstream).key = k,
         Head(downstream).kind = "ack"
  PROVE  KeyOK(k)' /\ closed' = FALSE
<1> DEFINE f == Head(downstream)
<1>1. /\ requests' = requests \ {<<"sub", k>>}
      /\ routes' = IF <<"sub", k>> \in requests THEN routes \cup {k} ELSE routes
      /\ closed' = FALSE /\ buffer' = buffer
  BY Zenon DEF Dispatch, Reply, Notification, Malformed
<1>2. "ack" \in AckKinds /\ "ack" \notin EndKinds /\ "ack" \notin {"reject"}
  BY DEF AckKinds, EndKinds
<1>3. /\ Down(AckKinds, k) # {} /\ Down(AckKinds, k)' = {} /\ Up("sub", k) = {}
      /\ Down(EndKinds, k)' = {} <=> Down(EndKinds, k) = {}
      /\ Single(Down(EndKinds, k)')
      /\ Down({"reject"}, k)' = {} <=> Down({"reject"}, k) = {}
  BY Singles, <1>2, Dispatched DEF KeyOK, OpenOK, EndOK, Once
<1>4. /\ \A w : Up(w, k)' = Up(w, k)
      /\ handle' = handle /\ task' = task /\ gaveUp' = gaveUp /\ taken' = taken
      /\ sent' = sent /\ active' = active /\ faulted' = faulted /\ ~closed
  BY Dispatched
<1>5. /\ <<"sub", k>> \in requests \/ k \in gaveUp
      /\ handle[k] \notin {"unborn", "sending"}
      /\ k \in gaveUp => task[k] = "done"
      /\ handle[k] # "dropped" => task[k] = "none"
      /\ task[k] \in {"send", "done"} => k \notin routes /\ <<"sub", k>> \notin requests
  BY Zenon, <1>3, <1>4 DEF KeyOK, OpenOK, EndOK
<1>6. <<"unsub", k>> \in requests' <=> <<"unsub", k>> \in requests
  BY <1>1
<1>7. <<"sub", k>> \notin requests'
  BY <1>1
<1>n. InOrder(k)' /\ \A p \in OnTheWire(k)' : downstream'[p].n \in 1 .. sent'[k]
  BY <1>1, NotesMove
<1>8. OpenOK(k)'
  BY Singles, <1>3, <1>4, <1>5, <1>7 DEF KeyOK, OpenOK, Once
<1>9. EndOK(k)'
  BY Singles, <1>1, <1>3, <1>4, <1>5, <1>6, <1>7 DEF KeyOK, EndOK, Once
<1>10. ServedOK(k)'
  BY Zenon, <1>n, <1>3, <1>4 DEF KeyOK, ServedOK
<1>11. RoutedOK(k)'
  BY Zenon, <1>1, <1>4, <1>5 DEF RoutedOK, Live
<1>12. FreshOK(k)'
  BY <1>4, <1>5 DEF FreshOK
<1> QED BY Zenon, <1>1, <1>n, <1>8, <1>9, <1>10, <1>11, <1>12 DEF KeyOK

\* A rejection ends the connection.
LEMMA RejectDispatchedOK ==
  ASSUME EventsTypeOK, NEW k \in Keys, KeyOK(k), Dispatch, Head(downstream).key = k,
         Head(downstream).kind = "reject"
  PROVE  KeyOK(k)' /\ faulted'
<1>1. /\ requests' = requests \ {<<"sub", k>>}
      /\ routes' = routes /\ closed' = TRUE /\ buffer' = buffer
  BY Zenon DEF Dispatch, Reply, Notification, Malformed, Tolerated
<1>2. "reject" \in AckKinds /\ "reject" \notin EndKinds /\ "reject" \in {"reject"}
  BY DEF AckKinds, EndKinds
<1>3. /\ Down(AckKinds, k) # {} /\ Down(AckKinds, k)' = {} /\ Up("sub", k) = {}
      /\ Down(EndKinds, k)' = {} <=> Down(EndKinds, k) = {}
      /\ Single(Down(EndKinds, k)')
      /\ Down({"reject"}, k) # {}
  BY Singles, <1>2, Dispatched DEF KeyOK, OpenOK, EndOK, Once
<1>4. /\ \A w : Up(w, k)' = Up(w, k)
      /\ handle' = handle /\ task' = task /\ gaveUp' = gaveUp /\ taken' = taken
      /\ sent' = sent /\ active' = active /\ faulted' = faulted /\ ~closed
  BY Zenon, Dispatched
<1>f. faulted /\ faulted'
  BY <1>3, <1>4 DEF KeyOK, ServedOK
<1>5. /\ handle[k] \notin {"unborn", "sending"}
      /\ k \in gaveUp => task[k] = "done"
      /\ task[k] \in {"send", "done"} => k \notin routes /\ <<"sub", k>> \notin requests
  BY Zenon, <1>3, <1>4 DEF KeyOK, OpenOK, EndOK
<1>6. <<"unsub", k>> \in requests' <=> <<"unsub", k>> \in requests
  BY <1>1
<1>7. <<"sub", k>> \notin requests'
  BY <1>1
<1>n. /\ InOrder(k)' /\ \A p \in OnTheWire(k)' : downstream'[p].n \in 1 .. sent'[k]
      /\ \A q \in OnTheWire(k)' : q + 1 \in OnTheWire(k)
  BY <1>1, NotesMove
<1>8. OpenOK(k)'
  BY Singles, <1>3, <1>4, <1>5, <1>7 DEF KeyOK, OpenOK, Once
<1>9. EndOK(k)'
  BY Singles, <1>1, <1>3, <1>4, <1>5, <1>6, <1>7 DEF KeyOK, EndOK, Once
<1>10. ServedOK(k)'
  BY Zenon, <1>n, <1>f, <1>4 DEF KeyOK, ServedOK
<1>11. RoutedOK(k)'
  <2>1. Down({"ack"}, k) = {}
    <3>0. downstream[1].kind = "reject"
      BY DownTaken DEF EventsTypeOK, Dispatch
    <3>1. 1 \in Down(AckKinds, k)
      BY <1>2, Dispatched
    <3>2. \A p \in Down({"ack"}, k) : p \in Down(AckKinds, k) /\ downstream[p].kind = "ack"
      BY DEF Down, AckKinds
    <3>3. Single(Down(AckKinds, k))
      BY Singles DEF KeyOK, OpenOK, Once
    <3>4. \A p \in Down({"ack"}, k) : p = 1
      BY <3>1, <3>2, <3>3 DEF Single
    <3> QED BY <3>0, <3>2, <3>4
  <2> QED BY Zenon, <1>1, <1>n, <1>4, <2>1 DEF KeyOK, RoutedOK
<1>12. FreshOK(k)'
  BY <1>4, <1>5 DEF FreshOK
<1> QED BY <1>f, <1>n, <1>8, <1>9, <1>10, <1>11, <1>12 DEF KeyOK

\* The answer to an unsubscribe is never an error.
LEMMA EndDispatchedOK ==
  ASSUME EventsTypeOK, NEW k \in Keys, KeyOK(k), Dispatch, Head(downstream).key = k,
         Head(downstream).kind \in EndKinds
  PROVE  KeyOK(k)' /\ closed' = FALSE
<1>2. /\ Head(downstream).kind \notin AckKinds /\ Head(downstream).kind \notin {"reject"}
      /\ Head(downstream).kind # "note"
  BY DEF AckKinds, EndKinds
<1>3. /\ Down(EndKinds, k) # {} /\ Down(EndKinds, k)' = {} /\ Up("unsub", k) = {}
      /\ Down(AckKinds, k)' = {} <=> Down(AckKinds, k) = {}
      /\ Single(Down(AckKinds, k)')
      /\ Down({"reject"}, k)' = {} <=> Down({"reject"}, k) = {}
  BY Singles, <1>2, Dispatched DEF KeyOK, OpenOK, EndOK, Once
<1>4. /\ \A w : Up(w, k)' = Up(w, k)
      /\ handle' = handle /\ task' = task /\ gaveUp' = gaveUp /\ taken' = taken
      /\ sent' = sent /\ active' = active /\ faulted' = faulted /\ ~closed
  BY Dispatched
<1>5. /\ <<"unsub", k>> \in requests /\ task[k] = "done" /\ handle[k] = "dropped"
      /\ k \in active => k \in gaveUp
  BY Zenon, <1>3, <1>4 DEF KeyOK, OpenOK, EndOK
<1>1. /\ requests' = requests \ {<<"unsub", k>>}
      /\ routes' = routes /\ closed' = FALSE /\ buffer' = buffer
  BY Zenon, <1>5 DEF Dispatch, Reply, Notification, Malformed, Tolerated, EndKinds
<1>6. <<"sub", k>> \in requests' <=> <<"sub", k>> \in requests
  BY <1>1
<1>n. /\ \A p \in OnTheWire(k)' : downstream'[p].n \in 1 .. sent'[k]
  BY <1>1, <1>2, NotesMove
<1>8. OpenOK(k)'
  BY Singles, <1>1, <1>3, <1>4, <1>5, <1>6 DEF KeyOK, OpenOK, Once
<1>9. EndOK(k)'
  BY Singles, <1>1, <1>3, <1>4, <1>5, <1>6 DEF KeyOK, EndOK, Once
<1>10. ServedOK(k)'
  BY Zenon, <1>n, <1>3, <1>4 DEF KeyOK, ServedOK
<1>11. RoutedOK(k)' /\ InOrder(k)' /\ FreshOK(k)'
  BY Zenon, <1>4, <1>5 DEF RoutedOK, InOrder, FreshOK, Live
<1> QED BY <1>1, <1>8, <1>9, <1>10, <1>11 DEF KeyOK

\* A notification of a live handle is the next one, and finds its route.
LEMMA NextNote ==
  ASSUME EventsTypeOK, NEW k \in Keys, KeyOK(k), Dispatch, Head(downstream).key = k,
         Head(downstream).kind = "note", handle[k] \in Live
  PROVE  /\ k \in routes
         /\ Head(downstream).n = Len(taken[k]) + Len(buffer[k]) + 1
         /\ Len(taken[k]) \in Nat /\ Len(buffer[k]) \in Nat
<1>1. /\ Head(downstream) = downstream[1] /\ 1 \in OnTheWire(k)
      /\ OnTheWire(k) \subseteq Nat \ {0}
  <2>1. OnTheWire(k) = Down({"note"}, k)
    BY DEF OnTheWire, Down
  <2> QED BY <2>1, DownTaken DEF Dispatch, EventsTypeOK
<1>2. k \in routes
  <2>1. \A p \in Down({"ack"}, k) : p \in Nat \ {0}
    BY Zenon, DownTaken DEF Dispatch, EventsTypeOK
  <2>2. \A p \in Down({"ack"}, k) : ~(p < 1)
    BY <2>1
  <2> QED BY <1>1, <2>2 DEF KeyOK, RoutedOK
<1>3. Len(taken[k]) \in Nat /\ Len(buffer[k]) \in Nat /\ sent[k] \in Nat
  <2>1. taken[k] \in Seq(Nat) /\ buffer[k] \in Seq(Nat) /\ sent[k] \in Nat
    BY DEF EventsTypeOK, OwnerOK, WireOK
  <2> QED BY <2>1
<1> DEFINE L == Len(taken[k]) + Len(buffer[k])
           m == downstream[1].n
<1>4. L \in Nat
  <2>1. \A x, y \in Nat : x + y \in Nat
    OBVIOUS
  <2> QED BY Zenon, <2>1, <1>3
<1>5. m \in Nat
  BY <1>1 DEF KeyOK, ServedOK
<1>6. /\ \A x \in Nat : L < x /\ x <= sent[k] <=> \E p \in OnTheWire(k) : downstream[p].n = x
      /\ \A p, q \in OnTheWire(k) : p < q => downstream[p].n < downstream[q].n
  BY Zenon DEF KeyOK, InOrder
<1>m. m = downstream[1].n
  OBVIOUS
<1>h. Head(downstream).n = m
  BY <1>1
<1>l. L = Len(taken[k]) + Len(buffer[k])
  OBVIOUS
<1> HIDE DEF L, m
<1>7. L < m /\ m <= sent[k]
  BY <1>1, <1>5, <1>6, <1>m
<1>8. ASSUME L + 1 < m PROVE FALSE
  <2>1. L + 1 \in Nat /\ L < L + 1 /\ L + 1 <= sent[k]
    BY <1>3, <1>4, <1>5, <1>7, <1>8
  <2>2. PICK p \in OnTheWire(k) : downstream[p].n = L + 1
    BY <1>6, <2>1
  <2>3. p # 1
    BY <1>4, <1>5, <1>8, <2>2, <1>m
  <2>4. 1 < p
    BY <2>3, <1>1
  <2>5. m < L + 1
    BY <1>1, <1>6, <2>2, <2>4, <1>m
  <2> QED BY <1>4, <1>5, <1>8, <2>5
<1>9. m = L + 1
  BY <1>4, <1>5, <1>7, <1>8
<1> QED BY Zenon, <1>2, <1>3, <1>9, <1>h, <1>l

\* A one-shot has one notification.
LEMMA LastNote ==
  ASSUME EventsTypeOK, NEW k \in OneShot, k \in Keys, KeyOK(k), Dispatch, Head(downstream).key = k,
         Head(downstream).kind = "note"
  PROVE  k \notin active /\ (handle[k] \in Live => OnTheWire(k)' = {})
<1>1. /\ Head(downstream) = downstream[1] /\ 1 \in OnTheWire(k)
      /\ OnTheWire(k) \subseteq Nat \ {0}
      /\ \A p \in Nat \ {0} : p \in OnTheWire(k)' <=> p + 1 \in OnTheWire(k)
      /\ OnTheWire(k)' \subseteq Nat \ {0}
  <2>1. OnTheWire(k) = Down({"note"}, k) /\ OnTheWire(k)' = Down({"note"}, k)'
    BY DEF OnTheWire, Down
  <2>2. downstream # <<>> /\ downstream' = Tail(downstream) /\ WireOK
    BY DEF Dispatch, EventsTypeOK
  <2>3. Head(downstream).kind \in {"note"}
    OBVIOUS
  <2>4. Head(downstream) = downstream[1] /\ 1 \in Down({"note"}, k)
    BY <2>2, <2>3, DownTaken
  <2>5. /\ \A p \in Nat \ {0} : p \in Down({"note"}, k)' <=> p + 1 \in Down({"note"}, k)
        /\ Down({"note"}, k)' \subseteq Nat \ {0} /\ Down({"note"}, k) \subseteq Nat \ {0}
    BY <2>2, DownTaken
  <2> QED BY <2>1, <2>4, <2>5
<1>2. sent[k] \in Nat
  BY DEF EventsTypeOK, WireOK
<1>3. \A p \in OnTheWire(k) : downstream[p].n \in 1 .. sent[k]
  BY DEF KeyOK, ServedOK
<1>4. sent[k] = 1
  BY <1>1, <1>2, <1>3 DEF KeyOK, ServedOK
<1>5. k \notin active
  BY <1>4 DEF KeyOK, ServedOK
<1>6. ASSUME handle[k] \in Live, NEW p \in OnTheWire(k)' PROVE FALSE
  <2>1. p \in Nat \ {0} /\ p + 1 \in OnTheWire(k) /\ 1 < p + 1
    BY <1>1
  <2>2. downstream[1].n < downstream[p + 1].n
    BY Zenon, <1>1, <1>6, <2>1 DEF KeyOK, InOrder
  <2>3. downstream[1].n = 1 /\ downstream[p + 1].n = 1
    BY <1>1, <1>3, <1>4, <2>1
  <2> QED BY <2>2, <2>3
<1> QED BY <1>5, <1>6

\* A notification is buffered; a one-shot's route is retired.
LEMMA NoteDispatchedOK ==
  ASSUME EventsTypeOK, NEW k \in Keys, KeyOK(k), Dispatch, Head(downstream).key = k,
         Head(downstream).kind = "note"
  PROVE  KeyOK(k)' /\ closed' = closed
<1>1. /\ requests' = requests /\ closed' = closed
      /\ routes' = IF k \in OneShot THEN routes \ {k} ELSE routes
      /\ buffer' = [i \in DOMAIN buffer |->
                      IF i = k /\ i \in routes THEN Append(buffer[i], Head(downstream).n)
                      ELSE buffer[i]]
  BY DEF Dispatch, Reply, Notification, Malformed
<1>2. "note" \notin AckKinds /\ "note" \notin EndKinds /\ "note" \notin {"reject"} /\ "note" \notin {"ack"}
  BY DEF AckKinds, EndKinds
<1>3. /\ Down(AckKinds, k)' = {} <=> Down(AckKinds, k) = {}
      /\ Single(Down(AckKinds, k)')
      /\ Down(EndKinds, k)' = {} <=> Down(EndKinds, k) = {}
      /\ Single(Down(EndKinds, k)')
      /\ Down({"reject"}, k)' = {} <=> Down({"reject"}, k) = {}
      /\ Down({"ack"}, k)' = {} <=> Down({"ack"}, k) = {}
  BY Singles, <1>2, Dispatched DEF KeyOK, OpenOK, EndOK, Once
<1>4. /\ \A w : Up(w, k)' = Up(w, k)
      /\ handle' = handle /\ task' = task /\ gaveUp' = gaveUp /\ taken' = taken
      /\ sent' = sent /\ active' = active /\ faulted' = faulted /\ ~closed
  BY Zenon, Dispatched
<1>o. k \in OneShot => k \notin active /\ (handle[k] \in Live => OnTheWire(k)' = {})
  BY Zenon, LastNote
<1>5. /\ OnTheWire(k)' \subseteq Nat \ {0} /\ OnTheWire(k) \subseteq Nat \ {0}
      /\ \A p \in Nat \ {0} : p \in OnTheWire(k)' <=> p + 1 \in OnTheWire(k)
      /\ \A p \in OnTheWire(k)' : downstream'[p] = downstream[p + 1]
      /\ Head(downstream) = downstream[1] /\ 1 \in OnTheWire(k)
  <2>1. OnTheWire(k) = Down({"note"}, k) /\ OnTheWire(k)' = Down({"note"}, k)'
    BY DEF OnTheWire, Down
  <2>2. OnTheWire(k)' \subseteq DOMAIN downstream'
    BY DEF OnTheWire
  <2>3. downstream # <<>> /\ downstream' = Tail(downstream) /\ WireOK
    BY DEF Dispatch, EventsTypeOK
  <2>4. Head(downstream).kind \in {"note"}
    OBVIOUS
  <2>5. Head(downstream) = downstream[1] /\ 1 \in Down({"note"}, k)
    BY <2>3, <2>4, DownTaken
  <2>6. /\ \A p \in Nat \ {0} : p \in Down({"note"}, k)' <=> p + 1 \in Down({"note"}, k)
        /\ Down({"note"}, k)' \subseteq Nat \ {0} /\ Down({"note"}, k) \subseteq Nat \ {0}
    BY <2>3, DownTaken
  <2>7. \A p \in DOMAIN downstream' : downstream'[p] = downstream[p + 1]
    BY <2>3, DownTaken
  <2> QED BY <2>1, <2>2, <2>5, <2>6, <2>7
<1>6. OpenOK(k)'
  BY Singles, <1>1, <1>3, <1>4 DEF KeyOK, OpenOK, Once
<1>7. EndOK(k)'
  BY Singles, <1>1, <1>3, <1>4, <1>o DEF KeyOK, EndOK, Once
<1>8. ServedOK(k)'
  <2>1. \A p \in OnTheWire(k)' : p + 1 \in OnTheWire(k)
    BY <1>5
  <2> QED BY Zenon, <1>3, <1>4, <1>5, <2>1 DEF KeyOK, ServedOK
<1>9. RoutedOK(k)'
  <2>1. SUFFICES ASSUME handle[k] \in Live
                 PROVE  /\ k \in active => k \in routes'
                        /\ \A q \in OnTheWire(k)' : k \in routes'
    BY <1>4 DEF RoutedOK
  <2>2. k \in routes
    BY Zenon, <2>1, NextNote
  <2> QED BY <1>1, <1>o, <2>1, <2>2
<1>10. FreshOK(k)'
  <2>1. handle[k] # "sending"
    <3>1. sent[k] # 0
      BY <1>5 DEF KeyOK, ServedOK
    <3> QED BY <3>1 DEF KeyOK, OpenOK
  <2> QED BY <1>4, <2>1 DEF KeyOK, FreshOK
<1>11. InOrder(k)'
  <2>1. SUFFICES ASSUME handle[k] \in Live PROVE InOrder(k)'
    BY Zenon, <1>4 DEF InOrder
  <2> DEFINE T == Len(taken[k])
             B == Len(buffer[k])
  <2>2. k \in routes /\ downstream[1].n = T + B + 1 /\ T \in Nat /\ B \in Nat
    BY Zenon, <2>1, <1>5, NextNote
  <2>3. k \in DOMAIN buffer /\ buffer[k] \in Seq(Nat) /\ sent[k] \in Nat
    BY <2>1 DEF EventsTypeOK, OwnerOK, WireOK
  <2>4. buffer'[k] = Append(buffer[k], T + B + 1)
    BY Zenon, <1>1, <1>5, <2>2, <2>3
  <2>5. /\ Len(buffer'[k]) = B + 1 /\ buffer'[k][B + 1] = T + B + 1
        /\ \A i \in 1 .. B : buffer'[k][i] = buffer[k][i]
    <3>1. T + B + 1 \in Nat
      <4>1. \A x, y \in Nat : x + y + 1 \in Nat
        OBVIOUS
      <4> QED BY Zenon, <4>1, <2>2
    <3> QED BY <3>1, <2>3, <2>4, Appended
  <2>6. /\ \A i \in 1 .. T : taken[k][i] = i
        /\ \A i \in 1 .. B : buffer[k][i] = T + i
        /\ \A x \in Nat : T + B < x /\ x <= sent[k] <=> \E p \in OnTheWire(k) : downstream[p].n = x
        /\ \A p, q \in OnTheWire(k) : p < q => downstream[p].n < downstream[q].n
    BY Zenon, <2>1 DEF KeyOK, InOrder
  <2>s. downstream[1].n \in 1 .. sent[k]
    BY <1>5 DEF KeyOK, ServedOK
  <2> HIDE DEF T, B
  <2>7. \A i \in 1 .. B + 1 : buffer'[k][i] = T + i
    <3>1. \A i \in 1 .. B : buffer'[k][i] = T + i
      BY <2>5, <2>6
    <3>2. buffer'[k][B + 1] = T + (B + 1)
      <4>1. \A x, y \in Nat : x + y + 1 = x + (y + 1)
        OBVIOUS
      <4> QED BY <2>2, <2>5, <4>1
    <3>3. \A i \in 1 .. B + 1 : i \in 1 .. B \/ i = B + 1
      BY <2>2
    <3> QED BY <3>1, <3>2, <3>3
  <2>8. T + (B + 1) <= sent[k]
    BY <2>2, <2>3, <2>s
  <2>9. ASSUME NEW p \in OnTheWire(k)', NEW q \in OnTheWire(k)', p < q
        PROVE  downstream'[p].n < downstream'[q].n
    <3>1. p + 1 \in OnTheWire(k) /\ q + 1 \in OnTheWire(k) /\ p + 1 < q + 1
      BY <1>5, <2>9
    <3>2. downstream[p + 1].n < downstream[q + 1].n
      BY <3>1, <2>6
    <3> QED BY <1>5, <3>2
  <2>10. ASSUME NEW x \in Nat
         PROVE  T + (B + 1) < x /\ x <= sent[k] <=> \E p \in OnTheWire(k)' : downstream'[p].n = x
    <3>1. ASSUME T + (B + 1) < x, x <= sent[k]
          PROVE  \E p \in OnTheWire(k)' : downstream'[p].n = x
      <4>1. T + B < x /\ x # T + B + 1
        BY <2>2, <3>1
      <4>2. PICK p \in OnTheWire(k) : downstream[p].n = x
        BY <2>6, <3>1, <4>1
      <4>3. p # 1
        BY <2>2, <4>1, <4>2
      <4>4. p - 1 \in Nat \ {0} /\ (p - 1) + 1 = p
        BY <1>5, <4>3
      <4>5. p - 1 \in OnTheWire(k)'
        BY <1>5, <4>2, <4>4
      <4> QED BY <1>5, <4>2, <4>4, <4>5
    <3>2. ASSUME NEW p \in OnTheWire(k)', downstream'[p].n = x
          PROVE  T + (B + 1) < x /\ x <= sent[k]
      <4>1. p + 1 \in OnTheWire(k) /\ 1 < p + 1 /\ downstream[p + 1].n = x
        BY <1>5, <3>2
      <4>2. x <= sent[k]
        BY <2>6, <4>1
      <4>3. T + B + 1 < x
        BY <1>5, <2>2, <2>6, <4>1
      <4> QED BY <2>2, <4>2, <4>3
    <3> QED BY <3>1, <3>2
  <2> QED BY Zenon, <1>4, <2>5, <2>6, <2>7, <2>8, <2>9, <2>10 DEF InOrder, T, B
<1> QED BY Zenon, <1>1, <1>6, <1>7, <1>8, <1>9, <1>10, <1>11 DEF KeyOK

\* The reader dispatches a frame.
LEMMA DispatchOK ==
  ASSUME EventsTypeOK, \A k \in Keys : KeyOK(k), closed => faulted, Dispatch
  PROVE  (\A k \in Keys : KeyOK(k)') /\ (closed' => faulted')
<1>0. PICK f \in Frames : f = Head(downstream)
  BY DownTaken DEF EventsTypeOK, Dispatch
<1>d. downstream # <<>> /\ downstream' = Tail(downstream) /\ WireOK /\ upstream' = upstream
  BY DEF EventsTypeOK, Dispatch
<1>1. PICK h \in Keys : h = f.key
  BY DEF Frames
<1>k. f.kind \in Kinds
  BY DEF Frames
<1>2. CASE f.kind = "junk"
  <2>1. ASSUME NEW k \in Keys PROVE KeyOK(k)'
    <3>1. DownMoves(1, k) /\ UpMoves(0, k)
      BY <1>0, <1>d, <1>2, DownTaken, UpStays
    <3>2. Kept(k)
      BY <1>0, <1>2 DEF Kept, Dispatch, Reply, Notification, Malformed, owner, server
    <3> QED BY <3>1, <3>2, KeptOK
  <2> QED BY <1>0, <1>2, <2>1 DEF Dispatch, Reply, Notification, Malformed
<1>3. CASE f.kind # "junk"
  <2>1. KeyOK(h)' /\ (closed' => faulted')
    <3>1. CASE f.kind = "ack"
      BY Zenon, <1>0, <1>1, <3>1, AckDispatchedOK
    <3>2. CASE f.kind = "reject"
      BY <1>0, <1>1, <3>2, RejectDispatchedOK
    <3>3. CASE f.kind \in EndKinds
      BY Zenon, <1>0, <1>1, <3>3, EndDispatchedOK
    <3>4. CASE f.kind = "note"
      <4>1. KeyOK(h)' /\ closed' = closed
        BY <1>0, <1>1, <3>4, NoteDispatchedOK
      <4> QED BY <4>1 DEF Dispatch
    <3> QED BY <1>k, <1>3, <3>1, <3>2, <3>3, <3>4 DEF Kinds, EndKinds
  <2>2. ASSUME NEW k \in Keys, k # h PROVE KeyOK(k)'
    <3>1. DownMoves(1, k) /\ UpMoves(0, k)
      BY Zenon, <1>0, <1>d, <1>1, <2>2, DownTaken, UpStays
    <3>2. Kept(k)
      <4>1. \A w : <<w, k>> \in requests' <=> <<w, k>> \in requests
        BY <1>0, <1>1, <2>2 DEF Dispatch, Reply, Notification, Malformed
      <4>2. k \in routes' <=> k \in routes
        BY <1>0, <1>1, <2>2 DEF Dispatch, Reply, Notification, Malformed
      <4>3. handle[k] \in Live => buffer'[k] = buffer[k]
        <5>1. handle[k] \in Live => k \in DOMAIN buffer
          BY DEF EventsTypeOK, OwnerOK
        <5> QED BY <1>0, <1>1, <2>2, <5>1 DEF Dispatch, Reply, Notification, Malformed
      <4> QED BY <4>1, <4>2, <4>3 DEF Kept, Dispatch, owner, server
    <3> QED BY <3>1, <3>2, KeptOK
  <2> QED BY <2>1, <2>2
<1> QED BY <1>2, <1>3

-----------------------------------------------------------------------------
\* Nothing is subscribed at first.
LEMMA EventsInitOK ==
  EventsInit => EventsInv
<1> SUFFICES ASSUME EventsInit PROVE EventsInv
  OBVIOUS
<1>1. /\ upstream = <<>> /\ downstream = <<>> /\ DOMAIN upstream = {} /\ DOMAIN downstream = {}
  BY DEF EventsInit
<1>2. EventsTypeOK
  <2>1. upstream \in Seq({"sub", "unsub"} \X Keys) /\ downstream \in Seq(Frames)
    BY <1>1
  <2>2. WireOK
    BY Zenon, <2>1 DEF EventsInit, WireOK
  <2>3. DOMAIN buffer = {} /\ buffer \in [DOMAIN buffer -> Seq(Nat)]
    BY DEF EventsInit
  <2>4. \A k \in Keys : <<>> \in Seq(Nat)
    OBVIOUS
  <2> QED BY <2>2, <2>3, <2>4 DEF EventsInit, EventsTypeOK, OwnerOK, Live
<1>3. ASSUME NEW k \in Keys PROVE KeyOK(k)
  <2>1. (\A w : Up(w, k) = {}) /\ (\A K : Down(K, k) = {}) /\ OnTheWire(k) = {}
    BY <1>1 DEF Up, Down, OnTheWire
  <2>2. /\ handle[k] = "unborn" /\ task[k] = "none" /\ taken[k] = <<>> /\ sent[k] = 0
        /\ requests = {} /\ routes = {} /\ active = {} /\ gaveUp = {}
    BY DEF EventsInit
  <2>3. /\ Once(Up("sub", k), Down(AckKinds, k)) /\ Once(Up("unsub", k), Down(EndKinds, k))
        /\ Up("sub", k) = {} /\ Up("unsub", k) = {} /\ Down(AckKinds, k) = {} /\ Down(EndKinds, k) = {}
        /\ Down({"reject"}, k) = {}
    BY <2>1, Singles DEF Once
  <2>4. OpenOK(k) /\ EndOK(k)
    BY <2>2, <2>3 DEF OpenOK, EndOK
  <2>5. ServedOK(k)
    BY <2>1, <2>2, <2>3 DEF ServedOK
  <2>6. RoutedOK(k) /\ InOrder(k) /\ FreshOK(k)
    BY <2>2 DEF RoutedOK, InOrder, FreshOK, Live
  <2> QED BY <2>4, <2>5, <2>6 DEF KeyOK
<1>4. closed => faulted
  BY DEF EventsInit
<1> QED BY <1>2, <1>3, <1>4 DEF EventsInv

\* The inductive invariant is kept by every step.
LEMMA EventsStep ==
  EventsInv /\ [EventsNext]_eventsVars => EventsInv'
<1> SUFFICES ASSUME EventsInv, [EventsNext]_eventsVars PROVE EventsInv'
  OBVIOUS
<1>0. EventsTypeOK /\ (closed => faulted) /\ \A k \in Keys : KeyOK(k)
  BY DEF EventsInv
<1>1. ASSUME NEW n \in Keys, Register(n) \/ Send(n) \/ Acked(n) \/ Take(n) \/ Drop(n)
      PROVE  EventsInv'
  <2>1. EventsTypeOK'
    BY <1>0, <1>1, OwnerTyped
  <2>2. \A k \in Keys : KeyOK(k)'
    BY <1>0, <1>1, RegisterOK, SendOK, AckedOK, TakeOK, DropOK
  <2>3. closed' => faulted'
    BY Zenon, <1>0, <1>1 DEF Register, Send, Acked, Take, Drop, router
  <2> QED BY <2>1, <2>2, <2>3 DEF EventsInv
<1>2. ASSUME NEW n \in Keys, Unroute(n) \/ GiveUp(n) \/ Unsubscribe(n) PROVE EventsInv'
  <2>1. EventsTypeOK'
    BY <1>0, <1>2, TaskTyped
  <2>2. \A k \in Keys : KeyOK(k)'
    BY <1>0, <1>2, UnrouteOK, GiveUpOK, UnsubscribeOK
  <2>3. closed' => faulted'
    BY Zenon, <1>0, <1>2 DEF Unroute, GiveUp, Unsubscribe
  <2> QED BY <2>1, <2>2, <2>3 DEF EventsInv
<1>3. ASSUME NEW n \in Keys, ServerNotifies(n) PROVE EventsInv'
  <2>1. EventsTypeOK'
    BY <1>0, <1>3, ServerTyped
  <2>2. \A k \in Keys : KeyOK(k)'
    BY <1>0, <1>3, NotifyOK
  <2>3. closed' => faulted'
    BY <1>0, <1>3 DEF ServerNotifies, router
  <2> QED BY <2>1, <2>2, <2>3 DEF EventsInv
<1>4. CASE Dispatch
  BY <1>0, <1>4, ReaderTyped, DispatchOK DEF EventsInv
<1>5. CASE Close
  <2>1. EventsTypeOK'
    BY <1>0, <1>5, ReaderTyped
  <2>2. \A k \in Keys : KeyOK(k)'
    BY <1>0, <1>5, CloseOK
  <2>3. closed' => faulted'
    BY <1>5 DEF Close
  <2> QED BY <2>1, <2>2, <2>3 DEF EventsInv
<1>6. CASE Serve
  <2>1. EventsTypeOK'
    BY <1>0, <1>6, ServerTyped
  <2>2. \A k \in Keys : KeyOK(k)'
    BY <1>0, <1>6, ServeOK
  <2>3. closed' => faulted'
    BY <1>0, <1>6 DEF Serve, router
  <2> QED BY <2>1, <2>2, <2>3 DEF EventsInv
<1>7. CASE Garble
  <2>1. EventsTypeOK'
    BY <1>0, <1>7, ServerTyped
  <2>2. \A k \in Keys : KeyOK(k)'
    BY <1>0, <1>7, GarbleOK
  <2>3. closed' => faulted'
    BY <1>0, <1>7 DEF Garble, router
  <2> QED BY <2>1, <2>2, <2>3 DEF EventsInv
<1>8. CASE UNCHANGED eventsVars
  <2>1. EventsTypeOK'
    BY <1>0, <1>8 DEF eventsVars, EventsTypeOK, OwnerOK, WireOK
  <2>2. ASSUME NEW k \in Keys PROVE KeyOK(k)'
    <3>1. DownMoves(0, k) /\ UpMoves(0, k)
      BY <1>0, <1>8, DownStays, UpStays DEF eventsVars, EventsTypeOK
    <3>2. Kept(k)
      BY <1>8 DEF Kept, eventsVars
    <3> QED BY <1>0, <3>1, <3>2, KeptOK
  <2>3. closed' => faulted'
    BY <1>0, <1>8 DEF eventsVars
  <2> QED BY <2>1, <2>2, <2>3 DEF EventsInv
<1> QED BY <1>1, <1>2, <1>3, <1>4, <1>5, <1>6, <1>7, <1>8 DEF EventsNext

\* Concatenated, what was taken and what is buffered count from 1.
LEMMA Counted ==
  ASSUME NEW t \in Seq(Nat), NEW b \in Seq(Nat),
         \A i \in 1 .. Len(t) : t[i] = i, \A i \in 1 .. Len(b) : b[i] = Len(t) + i
  PROVE  t \o b = [i \in 1 .. Len(t \o b) |-> i] /\ Len(t \o b) = Len(t) + Len(b)
<1>1. /\ t \o b \in Seq(Nat) /\ Len(t \o b) = Len(t) + Len(b) /\ Len(t) \in Nat /\ Len(b) \in Nat
      /\ \A i \in 1 .. Len(t) + Len(b) : (t \o b)[i] = IF i <= Len(t) THEN t[i] ELSE b[i - Len(t)]
  OBVIOUS
<1>2. \A i \in 1 .. Len(t) + Len(b) : (t \o b)[i] = i
  <2> SUFFICES ASSUME NEW i \in 1 .. Len(t) + Len(b) PROVE (t \o b)[i] = i
    OBVIOUS
  <2>1. CASE i <= Len(t)
    BY <1>1, <2>1
  <2>2. CASE ~(i <= Len(t))
    <3>1. i - Len(t) \in 1 .. Len(b) /\ Len(t) + (i - Len(t)) = i
      BY <1>1, <2>2
    <3> QED BY <1>1, <2>2, <3>1
  <2> QED BY <2>1, <2>2
<1> DEFINE c == t \o b
<1>3. c \in Seq(Nat)
  BY <1>1
<1>4. \A i \in 1 .. Len(c) : c[i] = i
  BY <1>1, <1>2
<1> HIDE DEF c
<1>5. c = [i \in 1 .. Len(c) |-> i]
  BY <1>3, <1>4
<1> QED BY <1>1, <1>5 DEF c

\* A handle is given every notification, once and in order (dispatch,
\* EventBuffer::observe, Subscription::next).
THEOREM NothingIsMissed == EventsSpec => []NothingMissed
<1>1. EventsInv => NothingMissed
  <2> SUFFICES ASSUME EventsInv, NEW k \in Keys, handle[k] \in {"acking", "held"}
               PROVE  /\ Received(k) = [i \in 1 .. Len(Received(k)) |-> i]
                      /\ {downstream[p].n : p \in OnTheWire(k)} = Len(Received(k)) + 1 .. sent[k]
                      /\ \A p, q \in OnTheWire(k) : p < q => downstream[p].n < downstream[q].n
    BY DEF NothingMissed
  <2>1. /\ handle[k] \in Live /\ InOrder(k) /\ ServedOK(k)
        /\ taken[k] \in Seq(Nat) /\ buffer[k] \in Seq(Nat) /\ sent[k] \in Nat
    BY DEF EventsInv, KeyOK, EventsTypeOK, OwnerOK, WireOK, Live
  <2>2. /\ Received(k) = [i \in 1 .. Len(Received(k)) |-> i]
        /\ Len(Received(k)) = Len(taken[k]) + Len(buffer[k])
    BY Zenon, <2>1, Counted DEF InOrder, Received
  <2> DEFINE L == Len(Received(k))
             N == {downstream[p].n : p \in OnTheWire(k)}
  <2>3. L \in Nat /\ L = Len(taken[k]) + Len(buffer[k])
    <3>1. Len(taken[k]) \in Nat /\ Len(buffer[k]) \in Nat
      BY <2>1
    <3>2. \A x, y \in Nat : x + y \in Nat
      OBVIOUS
    <3> QED BY Zenon, <2>2, <3>1, <3>2
  <2>4. \A m \in Nat : L < m /\ m <= sent[k] <=> m \in N
    BY Zenon, <2>1, <2>3 DEF InOrder
  <2>5. \A m \in N : m \in Nat
    BY <2>1 DEF ServedOK
  <2> HIDE DEF L, N
  <2>6. \A m : m \in N <=> m \in L + 1 .. sent[k]
    <3>1. \A x, y, m \in Nat : m \in x + 1 .. y <=> x < m /\ m <= y
      OBVIOUS
    <3>2. \A x, y \in Nat : \A m \in x + 1 .. y : m \in Nat
      OBVIOUS
    <3> QED BY Zenon, <2>1, <2>3, <2>4, <2>5, <3>1, <3>2
  <2>7. N = L + 1 .. sent[k]
    BY Zenon, <2>6
  <2> QED BY Zenon, <2>1, <2>2, <2>7 DEF InOrder, L, N
<1> QED BY <1>1, EventsInitOK, EventsStep, PTL DEF EventsSpec

\* Handles come and go without ending the connection or leaving a trace (Drop,
\* unsubscribe, dispatch).
THEOREM HandlesLeaveNoTrace == EventsSpec => []HandlesComeAndGo
<1>1. EventsInv => HandlesComeAndGo
  <2> SUFFICES ASSUME EventsInv PROVE HandlesComeAndGo
    OBVIOUS
  <2>1. OnlyFaultsClose
    BY DEF EventsInv, OnlyFaultsClose
  <2>2. DOMAIN buffer = {k \in Keys : handle[k] \in {"sending", "acking", "held"}}
    BY DEF EventsInv, EventsTypeOK, OwnerOK, Live
  <2>3. ASSUME NEW k \in Keys, Quiet(k)
        PROVE  <<"sub", k>> \notin requests /\ k \notin routes /\ (k \in active => k \in gaveUp)
    <3>1. EndOK(k)
      BY DEF EventsInv, KeyOK
    <3>2. Up("unsub", k) = {}
      BY <2>3 DEF Quiet, Up
    <3> QED BY <2>3, <3>1, <3>2 DEF Quiet, EndOK
  <2> QED BY <2>1, <2>2, <2>3 DEF HandlesComeAndGo, DroppedIsReleased
<1> QED BY <1>1, EventsInitOK, EventsStep, PTL DEF EventsSpec
=============================================================================
