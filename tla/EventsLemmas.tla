---------------------------- MODULE EventsLemmas ----------------------------
(***************************************************************************)
(* The inductive invariant of the event streams (Events), the lemmas about *)
(* the wire its proof keeps needing, and the steps of the handle's owner,  *)
(* of its task and of the connection, each of which keeps the invariant.   *)
(* The server's answers and the reader's steps are in EventsProofs.        *)
(***************************************************************************)
EXTENDS Events, TLAPS

Kinds == {"ack", "reject", "ok", "invalid", "note", "junk"}
Frames == [kind : Kinds, key : Keys, n : Nat]
Live == {"sending", "acking", "held"}

\* The shape of the state.
OwnerOK ==
  /\ handle \in [Keys -> Live \cup {"unborn", "dropped"}]
  /\ task \in [Keys -> {"none", "ack", "send", "done"}]
  /\ taken \in [Keys -> Seq(Nat)]
  /\ DOMAIN buffer = {k \in Keys : handle[k] \in Live}
  /\ buffer \in [DOMAIN buffer -> Seq(Nat)]
WireOK ==
  /\ upstream \in Seq({"sub", "unsub"} \X Keys)
  /\ downstream \in Seq(Frames)
  /\ sent \in [Keys -> Nat]
  /\ closed \in BOOLEAN
EventsTypeOK == OwnerOK /\ WireOK

\* Where on the wire a request of k, and a frame of one of these kinds, is.
Up(what, k) == {p \in DOMAIN upstream : upstream[p] = <<what, k>>}
Down(kinds, k) == {p \in DOMAIN downstream : downstream[p].kind \in kinds /\ downstream[p].key = k}

AckKinds == {"ack", "reject"}
EndKinds == {"ok", "invalid"}

\* At most one place.
Single(S) == \A p, q \in S : p = q

\* A request or its answer, at most one of them.
Once(S, T) == (S = {} \/ T = {}) /\ Single(S) /\ Single(T)

\* How a subscription is opened.
OpenOK(k) ==
  /\ task[k] = "none" <=> handle[k] # "dropped"
  /\ handle[k] \in {"unborn", "sending"} =>
       /\ Up("sub", k) = {} /\ Down(AckKinds, k) = {}
       /\ sent[k] = 0 /\ k \notin active /\ k \notin routes
  /\ Once(Up("sub", k), Down(AckKinds, k))
  /\ Up("sub", k) # {} \/ Down(AckKinds, k) # {} => <<"sub", k>> \in requests \/ k \in gaveUp
  /\ Up("sub", k) # {} => k \notin active /\ sent[k] = 0
  /\ <<"sub", k>> \in requests => k \notin routes

\* How it is ended.
EndOK(k) ==
  /\ task[k] \in {"send", "done"} => <<"sub", k>> \notin requests /\ (k \in routes => closed)
  /\ k \in gaveUp => task[k] = "done"
  /\ ~closed /\ <<"sub", k>> \notin requests /\ task[k] \in {"none", "ack"} /\ k \notin routes =>
       k \notin active
  /\ task[k] = "done" /\ k \notin gaveUp /\ k \in active => Up("unsub", k) # {}
  /\ task[k] # "done" => Up("unsub", k) = {} /\ Down(EndKinds, k) = {}
  /\ Once(Up("unsub", k), Down(EndKinds, k))
  /\ Up("unsub", k) # {} \/ Down(EndKinds, k) # {} => <<"unsub", k>> \in requests

\* What the server says of it.
ServedOK(k) ==
  /\ Down({"reject"}, k) # {} => faulted
  /\ k \in OneShot => sent[k] <= 1 /\ (sent[k] = 1 => k \notin active)
  /\ \A p \in OnTheWire(k) : downstream[p].n \in 1 .. sent[k]

\* A notification finds its route.
RoutedOK(k) ==
  handle[k] \in Live =>
    /\ k \in active => k \in routes \/ Down({"ack"}, k) # {}
    /\ \A q \in OnTheWire(k) : k \in routes \/ \E p \in Down({"ack"}, k) : p < q

\* What was received and what is on the wire are consecutive.
InOrder(k) ==
  handle[k] \in Live =>
    /\ \A i \in 1 .. Len(taken[k]) : taken[k][i] = i
    /\ \A i \in 1 .. Len(buffer[k]) : buffer[k][i] = Len(taken[k]) + i
    /\ Len(taken[k]) + Len(buffer[k]) <= sent[k]
    /\ \A m \in Nat : Len(taken[k]) + Len(buffer[k]) < m /\ m <= sent[k] <=>
                       \E p \in OnTheWire(k) : downstream[p].n = m
    /\ \A p, q \in OnTheWire(k) : p < q => downstream[p].n < downstream[q].n

FreshOK(k) == handle[k] \in {"unborn", "sending"} =>
  taken[k] = <<>> /\ (handle[k] = "sending" => buffer[k] = <<>> /\ <<"sub", k>> \in requests)

KeyOK(k) == OpenOK(k) /\ EndOK(k) /\ ServedOK(k) /\ RoutedOK(k) /\ InOrder(k) /\ FreshOK(k)

EventsInv == EventsTypeOK /\ (closed => faulted) /\ \A k \in Keys : KeyOK(k)

-----------------------------------------------------------------------------
\* A frame, or a request, is put last.
LEMMA Appended ==
  ASSUME NEW S, NEW s \in Seq(S), NEW e \in S, NEW t, t = Append(s, e)
  PROVE  /\ t \in Seq(S) /\ Len(t) = Len(s) + 1 /\ DOMAIN t = DOMAIN s \cup {Len(s) + 1}
         /\ \A p \in DOMAIN s : t[p] = s[p]
         /\ t[Len(s) + 1] = e /\ Len(s) + 1 \notin DOMAIN s /\ DOMAIN s = 1 .. Len(s) /\ Len(s) \in Nat
OBVIOUS

\* None is at most one, and one is.
LEMMA Singles ==
  Single({}) /\ \A S, x : S = {} => Single(S \cup {x}) /\ S \cup {x} # {}
BY DEF Single

\* The first one is taken.
LEMMA Taken ==
  ASSUME NEW S, NEW s \in Seq(S), s # <<>>, NEW t, t = Tail(s)
  PROVE  /\ t \in Seq(S) /\ Len(t) = Len(s) - 1 /\ DOMAIN t = 1 .. Len(s) - 1
         /\ \A p \in DOMAIN t : p + 1 \in DOMAIN s /\ t[p] = s[p + 1]
         /\ Head(s) = s[1] /\ 1 \in DOMAIN s /\ Head(s) \in S
         /\ DOMAIN s = 1 .. Len(s) /\ Len(s) \in Nat
OBVIOUS

\* The first number of a run is moved to the end of the run before it.
LEMMA NextTaken ==
  ASSUME NEW t \in Seq(Nat), NEW b \in Seq(Nat), b # <<>>,
         \A i \in 1 .. Len(t) : t[i] = i,
         \A i \in 1 .. Len(b) : b[i] = Len(t) + i
  PROVE  /\ \A i \in 1 .. Len(Append(t, Head(b))) : Append(t, Head(b))[i] = i
         /\ \A i \in 1 .. Len(Tail(b)) : Tail(b)[i] = Len(Append(t, Head(b))) + i
         /\ Len(Append(t, Head(b))) + Len(Tail(b)) = Len(t) + Len(b)
<1> DEFINE m == Len(t)
           l == Len(b)
<1>1. /\ Len(Tail(b)) = l - 1 /\ \A i \in 1 .. l - 1 : Tail(b)[i] = b[i + 1]
      /\ Head(b) = b[1] /\ Head(b) \in Nat /\ l \in Nat /\ l >= 1
  BY Taken
<1>2. /\ Len(Append(t, Head(b))) = m + 1 /\ m \in Nat /\ \A i \in 1 .. m : Append(t, Head(b))[i] = t[i]
      /\ Append(t, Head(b))[m + 1] = Head(b)
  BY <1>1, Appended
<1>3. \A i \in 1 .. m : t[i] = i
  OBVIOUS
<1>4. \A i \in 1 .. l : b[i] = m + i
  OBVIOUS
<1> HIDE DEF m, l
<1>5. \A i \in 1 .. m + 1 : Append(t, Head(b))[i] = i
  <2>1. \A i \in 1 .. m + 1 : i \in 1 .. m \/ i = m + 1
    BY <1>2
  <2>2. Head(b) = m + 1
    BY <1>1, <1>4
  <2> QED BY <1>2, <1>3, <2>1, <2>2
<1>6. \A i \in 1 .. l - 1 : Tail(b)[i] = (m + 1) + i
  <2> SUFFICES ASSUME NEW i \in 1 .. l - 1 PROVE Tail(b)[i] = (m + 1) + i
    BY Zenon
  <2>1. i + 1 \in 1 .. l /\ i \in Nat
    BY <1>1
  <2>2. Tail(b)[i] = b[i + 1] /\ b[i + 1] = m + (i + 1)
    BY <1>1, <1>4, <2>1
  <2>3. m + (i + 1) = (m + 1) + i
    BY <1>2, <2>1
  <2> QED BY Zenon, <2>2, <2>3
<1>7. (m + 1) + (l - 1) = m + l
  BY <1>1, <1>2
<1> QED BY <1>1, <1>2, <1>5, <1>6, <1>7 DEF m, l
-----------------------------------------------------------------------------
\* A step leaves what concerns handle k as it is ...
Kept(k) ==
  /\ handle'[k] = handle[k] /\ task'[k] = task[k]
  /\ taken'[k] = taken[k] /\ sent'[k] = sent[k]
  /\ handle[k] \in Live => buffer'[k] = buffer[k]
  /\ <<"sub", k>> \in requests' <=> <<"sub", k>> \in requests
  /\ <<"unsub", k>> \in requests' <=> <<"unsub", k>> \in requests
  /\ k \in routes' <=> k \in routes
  /\ k \in active' <=> k \in active
  /\ k \in gaveUp' <=> k \in gaveUp
  /\ closed => closed'
  /\ faulted => faulted'

\* ... and on the wire only moves it by u places, and by d.
Shift(S, T, d) ==
  /\ \A p \in Nat \ {0} : p \in T <=> p + d \in S
  /\ \A p \in S : p > d
  /\ T \subseteq Nat \ {0} /\ S \subseteq Nat
UpMoves(u, k) == \A w \in {"sub", "unsub"} : Shift(Up(w, k), Up(w, k)', u)
At(wire, p, k) == p \in DOMAIN wire /\ wire[p].key = k /\ wire[p].kind # "junk"
DownMoves(d, k) ==
  /\ \A p \in Nat \ {0} :
       /\ At(downstream', p, k) <=> At(downstream, p + d, k)
       /\ At(downstream', p, k) => downstream'[p] = downstream[p + d]
  /\ \A p \in 1 .. d : ~At(downstream, p, k)
  /\ DOMAIN downstream \subseteq Nat \ {0} /\ DOMAIN downstream' \subseteq Nat \ {0}

\* The frames of k of some kinds move with it.
LEMMA DownMoved ==
  ASSUME NEW k, NEW d \in {0, 1}, DownMoves(d, k), NEW K, "junk" \notin K
  PROVE  /\ Shift(Down(K, k), Down(K, k)', d)
         /\ \A p \in Down(K, k)' : downstream'[p] = downstream[p + d]
<1>0. Down(K, k)' \subseteq Nat \ {0} /\ Down(K, k) \subseteq Nat \ {0}
  BY DEF DownMoves, Down
<1>1. \A p : p \in Down(K, k) <=> At(downstream, p, k) /\ downstream[p].kind \in K
  BY DEF At, Down
<1>2. \A p : p \in Down(K, k)' <=> At(downstream', p, k) /\ downstream'[p].kind \in K
  BY DEF At, Down
<1>a. \A p \in Nat \ {0} : 
        /\ At(downstream', p, k) <=> At(downstream, p + d, k)
        /\ At(downstream', p, k) => downstream'[p] = downstream[p + d]
  BY DEF DownMoves
<1>3. ASSUME NEW p \in Nat \ {0}
      PROVE  p \in Down(K, k)' <=> p + d \in Down(K, k)
  <2>1. p \in Down(K, k)' <=> At(downstream', p, k) /\ downstream'[p].kind \in K
    BY <1>2
  <2>2. p + d \in Down(K, k) <=> At(downstream, p + d, k) /\ downstream[p + d].kind \in K
    BY <1>1
  <2> QED BY <2>1, <2>2, <1>a
<1>4. \A p \in Down(K, k)' : downstream'[p] = downstream[p + d]
  BY <1>2, <1>0, <1>a
<1>5. \A p \in Down(K, k) : p > d
  <2>1. \A p \in Down(K, k) : p \notin 1 .. d
    BY <1>1 DEF DownMoves
  <2> QED BY <2>1, <1>0
<1> QED BY <1>0, <1>3, <1>4, <1>5 DEF Shift

\* Places that move stay as many.
LEMMA Moved ==
  ASSUME NEW S, NEW T, NEW d \in {0, 1}, Shift(S, T, d)
  PROVE  /\ S = {} <=> T = {}
         /\ Single(S) => Single(T)
         /\ \A p \in S : p - d \in T
         /\ \A p \in T : p + d \in S
<1>1. \A p \in S : p - d \in Nat \ {0} /\ (p - d) + d = p
  BY DEF Shift
<1>2. \A p \in S : p - d \in T
  BY <1>1 DEF Shift
<1>3. \A p \in T : p + d \in S
  BY DEF Shift
<1>4. S = {} <=> T = {}
  BY <1>2, <1>3
<1>5. Single(S) => Single(T)
  <2>1. SUFFICES ASSUME Single(S), NEW p \in T, NEW q \in T
                 PROVE  p = q
    BY DEF Single
  <2>2. p + d = q + d
    BY <2>1, <1>3 DEF Single
  <2>3. p \in Nat /\ q \in Nat /\ d \in Nat
    BY DEF Shift
  <2> QED BY <2>2, <2>3
<1> QED BY <1>2, <1>3, <1>4, <1>5

\* What a step keeps of a handle stays right.
LEMMA KeptOK ==
  ASSUME NEW k \in Keys, KeyOK(k), Kept(k), NEW u \in {0, 1}, UpMoves(u, k),
         NEW d \in {0, 1}, DownMoves(d, k)
  PROVE  KeyOK(k)'
<1>u. \A w \in {"sub", "unsub"} :
        /\ Up(w, k) = {} <=> Up(w, k)' = {}
        /\ Single(Up(w, k)) => Single(Up(w, k)')
  BY Moved DEF UpMoves
<1>d. ASSUME NEW K, "junk" \notin K
      PROVE  /\ Down(K, k) = {} <=> Down(K, k)' = {}
             /\ Single(Down(K, k)) => Single(Down(K, k)')
  <2>1. Shift(Down(K, k), Down(K, k)', d)
    BY DownMoved, <1>d
  <2> QED BY <2>1, Moved
<1>a. /\ Down(AckKinds, k) = {} <=> Down(AckKinds, k)' = {}
      /\ Single(Down(AckKinds, k)) => Single(Down(AckKinds, k)')
  <2>1. "junk" \notin AckKinds
    BY DEF AckKinds
  <2> QED BY <2>1, <1>d
<1>e. /\ Down(EndKinds, k) = {} <=> Down(EndKinds, k)' = {}
      /\ Single(Down(EndKinds, k)) => Single(Down(EndKinds, k)')
  <2>1. "junk" \notin EndKinds
    BY DEF EndKinds
  <2> QED BY <2>1, <1>d
<1>r. Down({"reject"}, k) = {} <=> Down({"reject"}, k)' = {}
  <2>1. "junk" \notin {"reject"}
    OBVIOUS
  <2> QED BY <2>1, <1>d
<1>1. OpenOK(k)'
  BY Singles, <1>u, <1>a DEF KeyOK, OpenOK, Kept, Once
<1>2. EndOK(k)'
  BY Singles, <1>u, <1>e DEF KeyOK, EndOK, Kept, Once
<1>n. /\ Shift(OnTheWire(k), OnTheWire(k)', d)
      /\ \A p \in OnTheWire(k)' : downstream'[p] = downstream[p + d]
  <2>1. "junk" \notin {"note"}
    OBVIOUS
  <2>2. OnTheWire(k) = Down({"note"}, k) /\ OnTheWire(k)' = Down({"note"}, k)'
    BY DEF OnTheWire, Down
  <2> QED BY <2>1, <2>2, DownMoved
<1>l. OnTheWire(k)' \subseteq Nat /\ OnTheWire(k) \subseteq Nat
  BY <1>n DEF Shift
<1>m. \A q \in OnTheWire(k)' : q + d \in OnTheWire(k) /\ downstream'[q] = downstream[q + d]
  BY <1>n, Moved
<1>b. \A q \in OnTheWire(k) : q - d \in OnTheWire(k)' /\ downstream'[q - d] = downstream[q]
  <2>1. \A q \in OnTheWire(k) : q - d \in OnTheWire(k)' /\ (q - d) + d = q
    BY <1>n, <1>l, Moved
  <2> QED BY <2>1, <1>m
<1>3. ServedOK(k)'
  BY <1>r, <1>m DEF KeyOK, ServedOK, Kept
<1>4. RoutedOK(k)'
  <2>1. "junk" \notin {"ack"}
    OBVIOUS
  <2>2. Shift(Down({"ack"}, k), Down({"ack"}, k)', d)
    BY <2>1, DownMoved
  <2>3. /\ \A p \in Down({"ack"}, k) : p - d \in Down({"ack"}, k)' /\ p \in Nat
    BY <2>2, Moved DEF Shift
  <2>4. SUFFICES ASSUME handle[k] \in Live
                 PROVE  /\ k \in active => k \in routes \/ Down({"ack"}, k)' # {}
                        /\ \A q \in OnTheWire(k)' : k \in routes \/ \E p \in Down({"ack"}, k)' : p < q
    BY DEF RoutedOK, Kept
  <2>5. k \in active => k \in routes \/ Down({"ack"}, k)' # {}
    BY <2>3, <2>4 DEF KeyOK, RoutedOK
  <2>6. ASSUME NEW q \in OnTheWire(k)', k \notin routes
        PROVE  \E p \in Down({"ack"}, k)' : p < q
    <3>1. PICK p \in Down({"ack"}, k) : p < q + d
      BY <1>m, <2>4, <2>6 DEF KeyOK, RoutedOK
    <3>2. p - d \in Down({"ack"}, k)' /\ p - d < q
      BY <3>1, <2>3, <1>l
    <3> QED BY <3>2
  <2> QED BY <2>5, <2>6
<1>5. InOrder(k)'
  <2>1. SUFFICES ASSUME handle[k] \in Live
                 PROVE  /\ \A m \in Nat : Len(taken[k]) + Len(buffer[k]) < m /\ m <= sent[k] <=>
                                            \E p \in OnTheWire(k)' : downstream'[p].n = m
                        /\ \A p, q \in OnTheWire(k)' : p < q => downstream'[p].n < downstream'[q].n
    BY Zenon DEF InOrder, KeyOK, Kept
  <2>2. \A m : (\E p \in OnTheWire(k)' : downstream'[p].n = m) <=>
              (\E p \in OnTheWire(k) : downstream[p].n = m)
    BY <1>m, <1>b
  <2>3. ASSUME NEW p \in OnTheWire(k)', NEW q \in OnTheWire(k)', p < q
        PROVE  downstream'[p].n < downstream'[q].n
    <3>1. p + d < q + d
      BY <2>3, <1>l
    <3> QED BY Zenon, <3>1, <1>m, <2>1 DEF KeyOK, InOrder
  <2> QED BY Zenon, <2>1, <2>2, <2>3 DEF KeyOK, InOrder
<1>6. FreshOK(k)'
  BY DEF KeyOK, FreshOK, Kept, Live
<1> QED BY <1>1, <1>2, <1>3, <1>4, <1>5, <1>6 DEF KeyOK

-----------------------------------------------------------------------------
Requests == {"sub", "unsub"} \X Keys

\* Nothing on the wire moves.
LEMMA UpStays ==
  ASSUME WireOK, upstream' = upstream, NEW k
  PROVE  UpMoves(0, k) /\ \A w : Up(w, k)' = Up(w, k)
<1>1. DOMAIN upstream \subseteq Nat \ {0}
  BY DEF WireOK
<1>2. \A w : Up(w, k)' = Up(w, k) /\ Up(w, k) \subseteq Nat \ {0}
  BY <1>1 DEF Up
<1>3. ASSUME NEW w \in {"sub", "unsub"} PROVE Shift(Up(w, k), Up(w, k)', 0)
  <2> DEFINE S == Up(w, k)
  <2>1. S \subseteq Nat \ {0} /\ Up(w, k)' = S
    BY <1>2
  <2> HIDE DEF S
  <2>2. Shift(S, S, 0)
    BY <2>1 DEF Shift
  <2> QED BY <2>1, <2>2 DEF S
<1> QED BY <1>2, <1>3 DEF UpMoves

\* ... and one that does not touch what the server sent keeps the frames.
LEMMA DownStays ==
  ASSUME WireOK, downstream' = downstream, NEW k
  PROVE  /\ DownMoves(0, k)
         /\ \A K : Down(K, k)' = Down(K, k)
         /\ OnTheWire(k)' = OnTheWire(k)
<1>1. DOMAIN downstream \subseteq Nat \ {0}
  BY DEF WireOK
<1>2. DownMoves(0, k)
  BY <1>1 DEF DownMoves
<1> QED BY <1>2 DEF Down, OnTheWire

\* A request is put last.
LEMMA UpAppended ==
  ASSUME WireOK, NEW r \in Requests, upstream' = Append(upstream, r)
  PROVE  /\ upstream' \in Seq(Requests)
         /\ \A w, k : Up(w, k)' = IF r = <<w, k>> THEN Up(w, k) \cup {Len(upstream) + 1} ELSE Up(w, k)
         /\ \A w, k : Up(w, k) \subseteq Nat \ {0}
<1>0. upstream \in Seq(Requests)
  BY DEF WireOK, Requests
<1>1. /\ upstream' \in Seq(Requests)
      /\ DOMAIN upstream' = DOMAIN upstream \cup {Len(upstream) + 1}
      /\ \A p \in DOMAIN upstream : upstream'[p] = upstream[p]
      /\ upstream'[Len(upstream) + 1] = r /\ Len(upstream) + 1 \notin DOMAIN upstream
      /\ DOMAIN upstream \subseteq Nat \ {0}
  BY <1>0, Appended
<1>2. ASSUME NEW w, NEW k
      PROVE  Up(w, k)' = IF r = <<w, k>> THEN Up(w, k) \cup {Len(upstream) + 1} ELSE Up(w, k)
  <2>1. \A p : p \in Up(w, k)' <=> p \in Up(w, k) \/ (p = Len(upstream) + 1 /\ r = <<w, k>>)
    BY Zenon, <1>1 DEF Up
  <2> QED BY Zenon, <2>1
<1>3. ASSUME NEW w, NEW k PROVE Up(w, k) \subseteq Nat \ {0}
  BY <1>1 DEF Up
<1> QED BY <1>1, <1>2, <1>3

\* A request of another handle is none of k's.
LEMMA OthersUpStay ==
  ASSUME WireOK, NEW r \in Requests, upstream' = Append(upstream, r), NEW k, r[2] # k
  PROVE  UpMoves(0, k)
<1>1. ASSUME NEW w \in {"sub", "unsub"} PROVE Shift(Up(w, k), Up(w, k)', 0)
  <2> DEFINE S == Up(w, k)
  <2>1. S \subseteq Nat \ {0} /\ Up(w, k)' = S
    BY UpAppended
  <2> HIDE DEF S
  <2>2. Shift(S, S, 0)
    BY <2>1 DEF Shift
  <2> QED BY <2>1, <2>2 DEF S
<1> QED BY <1>1 DEF UpMoves

\* The first request is taken: the others move, and if it was the only one of
\* its kind, none is left.
LEMMA UpTaken ==
  ASSUME WireOK, upstream # <<>>, upstream' = Tail(upstream)
  PROVE  /\ upstream' \in Seq(Requests) /\ Head(upstream) \in Requests
         /\ \A w, k : Head(upstream) # <<w, k>> => Shift(Up(w, k), Up(w, k)', 1)
         /\ \A w, k : Head(upstream) = <<w, k>> =>
              /\ Up(w, k) # {}
              /\ Single(Up(w, k)) => Up(w, k)' = {}
<1>0. upstream \in Seq(Requests)
  BY DEF WireOK, Requests
<1>1. /\ upstream' \in Seq(Requests) /\ Len(upstream) \in Nat
      /\ DOMAIN upstream' = 1 .. Len(upstream) - 1 /\ DOMAIN upstream = 1 .. Len(upstream)
      /\ \A p \in DOMAIN upstream' : p + 1 \in DOMAIN upstream /\ upstream'[p] = upstream[p + 1]
      /\ Head(upstream) = upstream[1] /\ 1 \in DOMAIN upstream /\ Head(upstream) \in Requests
  BY <1>0, Taken
<1>2. ASSUME NEW w, NEW k, NEW p \in Nat \ {0} PROVE p \in Up(w, k)' <=> p + 1 \in Up(w, k)
  <2>1. p \in DOMAIN upstream' <=> p + 1 \in DOMAIN upstream
    BY <1>1
  <2> QED BY <2>1, <1>1 DEF Up
<1>3. ASSUME NEW w, NEW k PROVE Up(w, k)' \subseteq Nat \ {0} /\ Up(w, k) \subseteq Nat \ {0}
  BY <1>1 DEF Up
<1>4. ASSUME NEW w, NEW k, Head(upstream) # <<w, k>> PROVE Shift(Up(w, k), Up(w, k)', 1)
  <2>1. 1 \notin Up(w, k)
    BY <1>1, <1>4 DEF Up
  <2>2. \A p \in Up(w, k) : p > 1
    BY <2>1, <1>3
  <2> QED BY <2>2, <1>2, <1>3 DEF Shift
<1>5. ASSUME NEW w, NEW k, Head(upstream) = <<w, k>>
      PROVE  Up(w, k) # {} /\ (Single(Up(w, k)) => Up(w, k)' = {})
  <2>1. 1 \in Up(w, k)
    BY <1>1, <1>5 DEF Up
  <2>2. ASSUME Single(Up(w, k)), NEW p \in Up(w, k)' PROVE FALSE
    <3>1. p \in Nat \ {0} /\ p + 1 \in Up(w, k)
      BY <1>2, <1>3
    <3>2. p + 1 = 1
      BY <3>1, <2>1, <2>2 DEF Single
    <3> QED BY <3>1, <3>2
  <2> QED BY <2>1, <2>2
<1> QED BY <1>1, <1>4, <1>5

\* The same for frames.
LEMMA DownAppended ==
  ASSUME WireOK, NEW f \in Frames, downstream' = Append(downstream, f)
  PROVE  /\ downstream' \in Seq(Frames)
         /\ \A K, k : Down(K, k)' = IF f.kind \in K /\ f.key = k
                                     THEN Down(K, k) \cup {Len(downstream) + 1} ELSE Down(K, k)
         /\ \A K, k : Down(K, k) \subseteq 1 .. Len(downstream)
         /\ Len(downstream) \in Nat
         /\ downstream'[Len(downstream) + 1] = f
         /\ \A p \in 1 .. Len(downstream) : downstream'[p] = downstream[p]
         /\ \A k : f.key # k \/ f.kind = "junk" => DownMoves(0, k)
<1>0. downstream \in Seq(Frames)
  BY DEF WireOK
<1>1. /\ downstream' \in Seq(Frames)
      /\ DOMAIN downstream' = DOMAIN downstream \cup {Len(downstream) + 1}
      /\ \A p \in DOMAIN downstream : downstream'[p] = downstream[p]
      /\ downstream'[Len(downstream) + 1] = f /\ Len(downstream) + 1 \notin DOMAIN downstream
      /\ DOMAIN downstream = 1 .. Len(downstream) /\ Len(downstream) \in Nat
  BY <1>0, Appended
<1>2. ASSUME NEW K, NEW k
      PROVE  Down(K, k)' = IF f.kind \in K /\ f.key = k
                             THEN Down(K, k) \cup {Len(downstream) + 1} ELSE Down(K, k)
  <2>1. \A p : p \in Down(K, k)' <=>
              p \in Down(K, k) \/ (p = Len(downstream) + 1 /\ f.kind \in K /\ f.key = k)
    BY <1>1 DEF Down
  <2> QED BY Zenon, <2>1
<1>3. ASSUME NEW K, NEW k PROVE Down(K, k) \subseteq 1 .. Len(downstream)
  BY <1>1 DEF Down
<1>4. ASSUME NEW k, f.key # k \/ f.kind = "junk" PROVE DownMoves(0, k)
  <2>1. \A p \in Nat \ {0} : At(downstream', p, k) <=> At(downstream, p, k)
    BY <1>1, <1>4 DEF At
  <2>2. \A p \in Nat \ {0} : At(downstream, p, k) => downstream'[p] = downstream[p]
    BY <1>1 DEF At
  <2>3. DOMAIN downstream \subseteq Nat \ {0} /\ DOMAIN downstream' \subseteq Nat \ {0}
    BY <1>1
  <2>4. \A p \in Nat : p + 0 = p
    OBVIOUS
  <2>5. \A p \in 1 .. 0 : FALSE
    OBVIOUS
  <2> QED BY Zenon, <2>1, <2>2, <2>3, <2>4, <2>5 DEF DownMoves
<1> QED BY <1>1, <1>2, <1>3, <1>4

\* The first frame is read: the others move one place up.
LEMMA DownTaken ==
  ASSUME WireOK, downstream # <<>>, downstream' = Tail(downstream)
  PROVE  /\ downstream' \in Seq(Frames) /\ Head(downstream) \in Frames
         /\ Head(downstream) = downstream[1]
         /\ \A K, k : ~(Head(downstream).kind \in K /\ Head(downstream).key = k) =>
              Shift(Down(K, k), Down(K, k)', 1)
         /\ \A K, k : Head(downstream).kind \in K /\ Head(downstream).key = k =>
              1 \in Down(K, k) /\ (Single(Down(K, k)) => Down(K, k)' = {})
         /\ \A K, k : \A p \in Nat \ {0} : p \in Down(K, k)' <=> p + 1 \in Down(K, k)
         /\ \A K, k : Down(K, k)' \subseteq Nat \ {0} /\ Down(K, k) \subseteq Nat \ {0}
         /\ \A p \in DOMAIN downstream' : downstream'[p] = downstream[p + 1]
         /\ \A k : Head(downstream).key # k \/ Head(downstream).kind = "junk" => DownMoves(1, k)
<1>0. downstream \in Seq(Frames)
  BY DEF WireOK
<1>1. /\ downstream' \in Seq(Frames) /\ Len(downstream) \in Nat
      /\ DOMAIN downstream' = 1 .. Len(downstream) - 1 /\ DOMAIN downstream = 1 .. Len(downstream)
      /\ \A p \in DOMAIN downstream' :
           p + 1 \in DOMAIN downstream /\ downstream'[p] = downstream[p + 1]
      /\ Head(downstream) = downstream[1] /\ 1 \in DOMAIN downstream /\ Head(downstream) \in Frames
  BY <1>0, Taken
<1>p. \A p \in Nat \ {0} : p \in DOMAIN downstream' <=> p + 1 \in DOMAIN downstream
  BY <1>1
<1>2. ASSUME NEW K, NEW k, NEW p \in Nat \ {0} PROVE p \in Down(K, k)' <=> p + 1 \in Down(K, k)
  BY <1>p, <1>1 DEF Down
<1>3. ASSUME NEW K, NEW k PROVE Down(K, k)' \subseteq Nat \ {0} /\ Down(K, k) \subseteq Nat \ {0}
  BY <1>1 DEF Down
<1>4. ASSUME NEW K, NEW k, ~(Head(downstream).kind \in K /\ Head(downstream).key = k)
      PROVE  Shift(Down(K, k), Down(K, k)', 1)
  <2>1. 1 \notin Down(K, k)
    BY <1>1, <1>4 DEF Down
  <2>2. \A p \in Down(K, k) : p > 1
    BY <2>1, <1>3
  <2> QED BY <2>2, <1>2, <1>3 DEF Shift
<1>5. ASSUME NEW K, NEW k, Head(downstream).kind \in K /\ Head(downstream).key = k
      PROVE  1 \in Down(K, k) /\ (Single(Down(K, k)) => Down(K, k)' = {})
  <2>1. 1 \in Down(K, k)
    BY <1>1, <1>5 DEF Down
  <2>2. ASSUME Single(Down(K, k)), NEW p \in Down(K, k)' PROVE FALSE
    <3>1. p \in Nat \ {0} /\ p + 1 \in Down(K, k)
      BY <1>2, <1>3
    <3>2. p + 1 = 1
      BY <3>1, <2>1, <2>2 DEF Single
    <3> QED BY <3>1, <3>2
  <2> QED BY <2>1, <2>2
<1>6. ASSUME NEW k, Head(downstream).key # k \/ Head(downstream).kind = "junk"
      PROVE  DownMoves(1, k)
  <2>1. \A p \in Nat \ {0} :
          /\ At(downstream', p, k) <=> At(downstream, p + 1, k)
          /\ At(downstream', p, k) => downstream'[p] = downstream[p + 1]
    BY <1>p, <1>1 DEF At
  <2>2. ~At(downstream, 1, k)
    BY <1>1, <1>6 DEF At
  <2>3. DOMAIN downstream \subseteq Nat \ {0} /\ DOMAIN downstream' \subseteq Nat \ {0}
    BY <1>1
  <2>4. \A p \in 1 .. 1 : p = 1
    OBVIOUS
  <2> QED BY Zenon, <2>1, <2>2, <2>3, <2>4 DEF DownMoves
<1> QED BY <1>1, <1>2, <1>3, <1>4, <1>5, <1>6

-----------------------------------------------------------------------------
\* The shape is kept by the owner's steps ...
LEMMA OwnerTyped ==
  ASSUME EventsTypeOK, NEW n \in Keys,
         Register(n) \/ Send(n) \/ Acked(n) \/ Take(n) \/ Drop(n)
  PROVE  EventsTypeOK'
<1> USE DEF EventsTypeOK
<1>1. CASE Register(n)
  <2>1. WireOK'
    BY <1>1 DEF Register, WireOK, server
  <2> QED BY <1>1, <2>1 DEF Register, OwnerOK, Live
<1>2. CASE Send(n)
  <2>0. <<"sub", n>> \in Requests
    BY DEF Requests
  <2>1. upstream' \in Seq(Requests)
    BY <1>2, <2>0, UpAppended DEF Send
  <2>2. WireOK'
    BY <1>2, <2>1 DEF Send, WireOK, server, router, Requests
  <2> QED BY <1>2, <2>2 DEF Send, OwnerOK, router, Live
<1>3. CASE Acked(n)
  <2>1. WireOK'
    BY <1>3 DEF Acked, WireOK, server, router
  <2> QED BY <1>3, <2>1 DEF Acked, OwnerOK, router, Live
<1>4. CASE Take(n)
  <2>0. n \in DOMAIN buffer /\ buffer[n] \in Seq(Nat) /\ buffer[n] # <<>>
    BY <1>4 DEF Take, OwnerOK, Live
  <2>1. Head(buffer[n]) \in Nat /\ Tail(buffer[n]) \in Seq(Nat)
    BY <2>0
  <2>2. Append(taken[n], Head(buffer[n])) \in Seq(Nat)
    BY <2>1 DEF OwnerOK
  <2>3. WireOK'
    BY <1>4 DEF Take, WireOK, server
  <2> QED BY <1>4, <2>0, <2>1, <2>2, <2>3 DEF Take, OwnerOK
<1>5. CASE Drop(n)
  <2>1. WireOK'
    BY <1>5 DEF Drop, WireOK, server
  <2> QED BY <1>5, <2>1 DEF Drop, OwnerOK, Live
<1> QED BY <1>1, <1>2, <1>3, <1>4, <1>5

\* ... by the unsubscribe task ...
LEMMA TaskTyped ==
  ASSUME EventsTypeOK, NEW n \in Keys, Unroute(n) \/ GiveUp(n) \/ Unsubscribe(n)
  PROVE  EventsTypeOK'
<1> USE DEF EventsTypeOK
<1>1. CASE Unroute(n)
  BY <1>1 DEF Unroute, OwnerOK, WireOK, server
<1>2. CASE GiveUp(n)
  BY <1>2 DEF GiveUp, OwnerOK, WireOK, server
<1>3. CASE Unsubscribe(n)
  <2>0. <<"unsub", n>> \in Requests
    BY DEF Requests
  <2>1. upstream' \in Seq(Requests)
    <3>1. CASE upstream' = Append(upstream, <<"unsub", n>>)
      BY <3>1, <2>0, UpAppended
    <3>2. CASE upstream' = upstream
      BY <3>2 DEF WireOK, Requests
    <3> QED BY <1>3, <3>1, <3>2 DEF Unsubscribe
  <2>2. WireOK'
    BY <1>3, <2>1 DEF Unsubscribe, WireOK, server, Requests
  <2> QED BY <1>3, <2>2 DEF Unsubscribe, OwnerOK
<1> QED BY <1>1, <1>2, <1>3

\* ... by the reader ...
LEMMA ReaderTyped ==
  ASSUME EventsTypeOK, Dispatch \/ Close
  PROVE  EventsTypeOK'
<1> USE DEF EventsTypeOK
<1>1. CASE Dispatch
  <2>1. downstream' \in Seq(Frames) /\ Head(downstream) \in Frames
    BY <1>1, DownTaken DEF Dispatch
  <2>2. closed' \in BOOLEAN
    BY Zenon, <1>1 DEF Dispatch, Reply, Notification, Malformed, WireOK
  <2>3. WireOK'
    BY <1>1, <2>1, <2>2 DEF Dispatch, WireOK, server
  <2>4. DOMAIN buffer' = DOMAIN buffer /\ buffer' \in [DOMAIN buffer -> Seq(Nat)]
    <3>1. Head(downstream).n \in Nat
      BY <2>1 DEF Frames
    <3>2. CASE Notification(Head(downstream))
      BY <3>1, <3>2 DEF Notification, OwnerOK
    <3>3. CASE buffer' = buffer
      BY <3>3 DEF OwnerOK
    <3> QED BY <1>1, <3>2, <3>3 DEF Dispatch, Reply, Malformed
  <2> QED BY <1>1, <2>3, <2>4 DEF Dispatch, OwnerOK, owner
<1>2. CASE Close
  BY <1>2 DEF Close, OwnerOK, WireOK, server, owner
<1> QED BY <1>1, <1>2

\* ... and by the server.
LEMMA ServerTyped ==
  ASSUME EventsTypeOK, Serve \/ Garble \/ \E n \in Keys : ServerNotifies(n)
  PROVE  EventsTypeOK'
<1> USE DEF EventsTypeOK
<1>f. \A kind \in Kinds, k \in Keys, m \in Nat : Frame(kind, k, m) \in Frames
  BY DEF Frame, Frames
<1>1. CASE Serve
  <2>1. upstream' \in Seq(Requests) /\ Head(upstream) \in Requests
    BY <1>1, UpTaken DEF Serve
  <2>2. \E kind \in Kinds : downstream' = Append(downstream, Frame(kind, Head(upstream)[2], 0))
    BY <1>1 DEF Serve, Kinds
  <2>3. downstream' \in Seq(Frames)
    BY <2>1, <2>2, <1>f, DownAppended DEF Requests
  <2>4. WireOK'
    BY <1>1, <2>1, <2>3 DEF Serve, WireOK, router, Requests
  <2> QED BY <1>1, <2>4 DEF Serve, OwnerOK, router, owner
<1>2. CASE Garble
  <2>1. PICK k \in Keys : downstream' = Append(downstream, Frame("junk", k, 0))
    BY <1>2 DEF Garble
  <2>2. downstream' \in Seq(Frames)
    BY <2>1, <1>f, DownAppended DEF Kinds
  <2>4. WireOK'
    BY <1>2, <2>2 DEF Garble, WireOK, router, server
  <2> QED BY <1>2, <2>4 DEF Garble, OwnerOK, router, owner
<1>3. ASSUME NEW n \in Keys, ServerNotifies(n) PROVE EventsTypeOK'
  <2>1. sent' \in [Keys -> Nat] /\ sent'[n] \in Nat
    BY <1>3 DEF ServerNotifies, WireOK
  <2>2. downstream' \in Seq(Frames)
    BY <1>3, <2>1, <1>f, DownAppended DEF Kinds, ServerNotifies
  <2>4. WireOK'
    BY <1>3, <2>1, <2>2 DEF ServerNotifies, WireOK, router
  <2> QED BY <1>3, <2>4 DEF ServerNotifies, OwnerOK, router, owner
<1> QED BY <1>1, <1>2, <1>3

-----------------------------------------------------------------------------
\* A handle is registered: nothing of it is on the wire.
LEMMA RegisterOK ==
  ASSUME EventsTypeOK, NEW n \in Keys, NEW k \in Keys, KeyOK(k), Register(n)
  PROVE  KeyOK(k)'
<1>w. WireOK /\ OwnerOK
  BY DEF EventsTypeOK
<1>d. DownMoves(0, k) /\ (\A K : Down(K, k)' = Down(K, k)) /\ OnTheWire(k)' = OnTheWire(k)
  BY Zenon, <1>w, DownStays DEF Register
<1>u. UpMoves(0, k) /\ \A w : Up(w, k)' = Up(w, k)
  BY Zenon, <1>w, UpStays DEF Register
<1>1. CASE k # n
  <2>1. Kept(k)
    BY <1>1, <1>w DEF Kept, Register, OwnerOK, WireOK, Live, server
  <2> QED BY <1>d, <1>u, <2>1, KeptOK
<1>2. CASE k = n
  <2>1. OpenOK(k)'
    BY <1>2, <1>d, <1>u, <1>w DEF Register, KeyOK, OpenOK, OwnerOK, server
  <2>2. EndOK(k)'
    BY <1>2, <1>d, <1>u, <1>w DEF Register, KeyOK, EndOK, OpenOK, OwnerOK, server
  <2>3. ServedOK(k)'
    BY <1>2, <1>d, <1>u DEF Register, KeyOK, ServedOK, server
  <2>4. RoutedOK(k)'
    <3>1. sent[k] = 0 /\ k \notin active
      BY <1>2 DEF Register, KeyOK, OpenOK
    <3>2. OnTheWire(k) = {}
      BY <3>1 DEF KeyOK, ServedOK
    <3> QED BY <1>2, <1>d, <3>1, <3>2 DEF Register, RoutedOK, server
  <2>5. InOrder(k)'
    BY <1>2, <1>d, <1>u, <1>w DEF Register, KeyOK, InOrder, Live, OwnerOK, server, OpenOK, FreshOK, ServedOK
  <2>6. FreshOK(k)'
    BY <1>2, <1>w DEF Register, KeyOK, FreshOK, OwnerOK, Live, server
  <2> QED BY <2>1, <2>2, <2>3, <2>4, <2>5, <2>6 DEF KeyOK
<1> QED BY <1>1, <1>2

\* The acknowledgment is seen by the opening future.
LEMMA AckedOK ==
  ASSUME EventsTypeOK, NEW n \in Keys, NEW k \in Keys, KeyOK(k), Acked(n)
  PROVE  KeyOK(k)'
<1>w. WireOK /\ OwnerOK
  BY DEF EventsTypeOK
<1>d. DownMoves(0, k) /\ (\A K : Down(K, k)' = Down(K, k)) /\ OnTheWire(k)' = OnTheWire(k)
  BY <1>w, DownStays DEF Acked
<1>u. UpMoves(0, k) /\ \A w : Up(w, k)' = Up(w, k)
  BY <1>w, UpStays DEF Acked
<1>1. CASE k # n
  <2>1. Kept(k)
    BY <1>1, <1>w DEF Kept, Acked, OwnerOK, WireOK, Live, server, router
  <2> QED BY <1>d, <1>u, <2>1, KeptOK
<1>2. CASE k = n
  <2>1. OpenOK(k)'
    BY <1>2, <1>d, <1>u, <1>w DEF Acked, KeyOK, OpenOK, OwnerOK, server, router
  <2>2. EndOK(k)'
    BY <1>2, <1>d, <1>u, <1>w DEF Acked, KeyOK, EndOK, OwnerOK, server, router
  <2>3. ServedOK(k)'
    BY <1>2, <1>d, <1>u DEF Acked, KeyOK, ServedOK, server, router
  <2>4. RoutedOK(k)'
    BY <1>2, <1>d, <1>u, <1>w DEF Acked, KeyOK, RoutedOK, Live, OwnerOK, server, router
  <2>5. InOrder(k)'
    BY <1>2, <1>d, <1>u, <1>w DEF Acked, KeyOK, InOrder, Live, OwnerOK, server, router
  <2>6. FreshOK(k)'
    BY <1>2, <1>w DEF Acked, KeyOK, FreshOK, OwnerOK, Live, server, router
  <2> QED BY <2>1, <2>2, <2>3, <2>4, <2>5, <2>6 DEF KeyOK
<1> QED BY <1>1, <1>2

\* A handle is dropped.
LEMMA DropOK ==
  ASSUME EventsTypeOK, NEW n \in Keys, NEW k \in Keys, KeyOK(k), Drop(n)
  PROVE  KeyOK(k)'
<1>w. WireOK /\ OwnerOK
  BY DEF EventsTypeOK
<1>d. DownMoves(0, k) /\ (\A K : Down(K, k)' = Down(K, k)) /\ OnTheWire(k)' = OnTheWire(k)
  BY <1>w, DownStays DEF Drop
<1>u. UpMoves(0, k) /\ \A w : Up(w, k)' = Up(w, k)
  BY <1>w, UpStays DEF Drop
<1>1. CASE k # n
  <2>1. Kept(k)
    BY <1>1, <1>w DEF Kept, Drop, OwnerOK, WireOK, Live, server
  <2> QED BY <1>d, <1>u, <2>1, KeptOK
<1>2. CASE k = n
  <2>1. OpenOK(k)'
    BY <1>2, <1>d, <1>u, <1>w DEF Drop, KeyOK, OpenOK, OwnerOK, server, Live
  <2>2. EndOK(k)'
    BY <1>2, <1>d, <1>u, <1>w DEF Drop, KeyOK, EndOK, OpenOK, Live, OwnerOK, server
  <2>3. ServedOK(k)'
    BY <1>2, <1>d, <1>u DEF Drop, KeyOK, ServedOK, server
  <2>4. RoutedOK(k)'
    BY <1>2, <1>d, <1>u, <1>w DEF Drop, KeyOK, RoutedOK, Live, OwnerOK, server
  <2>5. InOrder(k)'
    BY <1>2, <1>d, <1>u, <1>w DEF Drop, KeyOK, InOrder, Live, OwnerOK, server
  <2>6. FreshOK(k)'
    BY <1>2, <1>w DEF Drop, KeyOK, FreshOK, OwnerOK, Live, server
  <2> QED BY <2>1, <2>2, <2>3, <2>4, <2>5, <2>6 DEF KeyOK
<1> QED BY <1>1, <1>2

\* Its task takes the route.
LEMMA UnrouteOK ==
  ASSUME EventsTypeOK, NEW n \in Keys, NEW k \in Keys, KeyOK(k), Unroute(n)
  PROVE  KeyOK(k)'
<1>w. WireOK /\ OwnerOK
  BY DEF EventsTypeOK
<1>d. DownMoves(0, k) /\ (\A K : Down(K, k)' = Down(K, k)) /\ OnTheWire(k)' = OnTheWire(k)
  BY <1>w, DownStays DEF Unroute
<1>u. UpMoves(0, k) /\ \A w : Up(w, k)' = Up(w, k)
  BY <1>w, UpStays DEF Unroute
<1>1. CASE k # n
  <2>1. Kept(k)
    BY <1>1, <1>w DEF Kept, Unroute, OwnerOK, WireOK, Live, server
  <2> QED BY <1>d, <1>u, <2>1, KeptOK
<1>2. CASE k = n
  <2>1. OpenOK(k)'
    BY <1>2, <1>d, <1>u, <1>w DEF Unroute, KeyOK, OpenOK, OwnerOK, server
  <2>2. EndOK(k)'
    BY <1>2, <1>d, <1>u, <1>w DEF Unroute, KeyOK, EndOK, OwnerOK, server, OpenOK
  <2>3. ServedOK(k)'
    BY <1>2, <1>d, <1>u DEF Unroute, KeyOK, ServedOK, server
  <2>4. RoutedOK(k)'
    BY <1>2, <1>d, <1>u, <1>w DEF Unroute, KeyOK, RoutedOK, Live, OwnerOK, server, OpenOK
  <2>5. InOrder(k)'
    BY <1>2, <1>d, <1>u, <1>w DEF Unroute, KeyOK, InOrder, Live, OwnerOK, server, OpenOK
  <2>6. FreshOK(k)'
    BY <1>2, <1>w DEF Unroute, KeyOK, FreshOK, OwnerOK, Live, server
  <2> QED BY <2>1, <2>2, <2>3, <2>4, <2>5, <2>6 DEF KeyOK
<1> QED BY <1>1, <1>2

\* Its task gives up.
LEMMA GiveUpOK ==
  ASSUME EventsTypeOK, NEW n \in Keys, NEW k \in Keys, KeyOK(k), GiveUp(n)
  PROVE  KeyOK(k)'
<1>w. WireOK /\ OwnerOK
  BY DEF EventsTypeOK
<1>d. DownMoves(0, k) /\ (\A K : Down(K, k)' = Down(K, k)) /\ OnTheWire(k)' = OnTheWire(k)
  BY <1>w, DownStays DEF GiveUp
<1>u. UpMoves(0, k) /\ \A w : Up(w, k)' = Up(w, k)
  BY <1>w, UpStays DEF GiveUp
<1>1. CASE k # n
  <2>1. Kept(k)
    BY <1>1, <1>w DEF Kept, GiveUp, OwnerOK, WireOK, Live, server
  <2> QED BY <1>d, <1>u, <2>1, KeptOK
<1>2. CASE k = n
  <2>1. OpenOK(k)'
    BY <1>2, <1>d, <1>u, <1>w DEF GiveUp, KeyOK, OpenOK, OwnerOK, server, EndOK
  <2>2. EndOK(k)'
    BY <1>2, <1>d, <1>u, <1>w DEF GiveUp, KeyOK, EndOK, OwnerOK, server, OpenOK
  <2>3. ServedOK(k)'
    BY <1>2, <1>d, <1>u DEF GiveUp, KeyOK, ServedOK, server
  <2>4. RoutedOK(k)'
    BY <1>2, <1>d, <1>u, <1>w DEF GiveUp, KeyOK, RoutedOK, Live, OwnerOK, server, OpenOK
  <2>5. InOrder(k)'
    BY <1>2, <1>d, <1>u, <1>w DEF GiveUp, KeyOK, InOrder, Live, OwnerOK, server, OpenOK
  <2>6. FreshOK(k)'
    BY <1>2, <1>w DEF GiveUp, KeyOK, OpenOK, FreshOK, OwnerOK, Live, server
  <2> QED BY <2>1, <2>2, <2>3, <2>4, <2>5, <2>6 DEF KeyOK
<1> QED BY <1>1, <1>2

\* The subscribe request is sent, the first of its key.
LEMMA SendOK ==
  ASSUME EventsTypeOK, NEW n \in Keys, NEW k \in Keys, KeyOK(k), Send(n)
  PROVE  KeyOK(k)'
<1>w. WireOK /\ OwnerOK
  BY DEF EventsTypeOK
<1>r. <<"sub", n>> \in Requests /\ <<"sub", n>>[2] = n
  BY DEF Requests
<1>d. DownMoves(0, k) /\ (\A K : Down(K, k)' = Down(K, k)) /\ OnTheWire(k)' = OnTheWire(k)
  BY Zenon, <1>w, DownStays DEF Send
<1>1. CASE k # n
  <2>1. Kept(k)
    BY <1>1, <1>w DEF Kept, Send, OwnerOK, WireOK, Live, server, router
  <2>2. UpMoves(0, k)
    BY <1>1, <1>w, <1>r, OthersUpStay DEF Send
  <2> QED BY <1>d, <2>1, <2>2, KeptOK
<1>2. CASE k = n
  <2>u. Up("unsub", k)' = Up("unsub", k) /\ Up("sub", k)' = Up("sub", k) \cup {Len(upstream) + 1}
    BY <1>2, <1>w, <1>r, UpAppended DEF Send
  <2>s. handle[k] = "sending" /\ Up("sub", k) = {} /\ task[k] = "none"
    BY <1>2 DEF Send, KeyOK, OpenOK
  <2>1. OpenOK(k)'
    <3>1. <<"sub", k>> \in requests
      BY <1>2 DEF Send, KeyOK, FreshOK
    <3>2. Up("sub", k)' # {} /\ Single(Up("sub", k)') /\ Down(AckKinds, k)' = {} /\ Single(Down(AckKinds, k)')
      BY Zenon, Singles, <1>d, <2>u, <2>s DEF KeyOK, OpenOK
    <3> QED BY <1>2, <2>s, <1>w, <3>1, <3>2
            DEF Send, KeyOK, OpenOK, OwnerOK, server, router, Once
  <2>2. EndOK(k)'
    BY <1>2, <1>d, <2>u, <1>w DEF Send, KeyOK, EndOK, OwnerOK, server, router
  <2>3. ServedOK(k)'
    BY Zenon, <1>2, <1>d DEF Send, KeyOK, ServedOK, server
  <2>4. RoutedOK(k)'
    BY <1>2, <1>d, <1>w DEF Send, KeyOK, RoutedOK, Live, OwnerOK, server, router
  <2>5. InOrder(k)'
    BY <1>2, <1>d, <1>w DEF Send, KeyOK, InOrder, Live, OwnerOK, server, router
  <2>6. FreshOK(k)'
    BY <1>2, <1>w DEF Send, KeyOK, FreshOK, OwnerOK, Live, server, router
  <2> QED BY <2>1, <2>2, <2>3, <2>4, <2>5, <2>6 DEF KeyOK
<1> QED BY <1>1, <1>2

\* An event is taken: what was received stays the same.
LEMMA TakeOK ==
  ASSUME EventsTypeOK, NEW n \in Keys, NEW k \in Keys, KeyOK(k), Take(n)
  PROVE  KeyOK(k)'
<1>w. WireOK /\ OwnerOK
  BY DEF EventsTypeOK
<1>d. DownMoves(0, k) /\ (\A K : Down(K, k)' = Down(K, k)) /\ OnTheWire(k)' = OnTheWire(k)
  BY Zenon, <1>w, DownStays DEF Take
<1>u. UpMoves(0, k) /\ \A w : Up(w, k)' = Up(w, k)
  BY Zenon, <1>w, UpStays DEF Take
<1>1. CASE k # n
  <2>1. Kept(k)
    BY <1>1, <1>w DEF Kept, Take, OwnerOK, WireOK, Live, server
  <2> QED BY <1>d, <1>u, <2>1, KeptOK
<1>2. CASE k = n
  <2>1. OpenOK(k)' /\ EndOK(k)' /\ ServedOK(k)' /\ RoutedOK(k)' /\ FreshOK(k)'
    <3>1. OpenOK(k)'
      BY <1>2, <1>d, <1>u DEF Take, KeyOK, OpenOK, server
    <3>2. EndOK(k)'
      BY <1>2, <1>d, <1>u DEF Take, KeyOK, EndOK, server
    <3>3. ServedOK(k)'
      BY <1>2, <1>d, <1>u DEF Take, KeyOK, ServedOK, server
    <3>4. RoutedOK(k)'
      BY <1>2, <1>d, <1>u DEF Take, KeyOK, RoutedOK, server
    <3>5. FreshOK(k)'
      BY <1>2 DEF Take, FreshOK
    <3> QED BY <3>1, <3>2, <3>3, <3>4, <3>5
  <2>b. /\ k \in DOMAIN buffer /\ buffer[k] \in Seq(Nat) /\ taken[k] \in Seq(Nat)
        /\ buffer[k] # <<>> /\ handle[k] \in Live
    BY <1>2, <1>w DEF Take, OwnerOK, Live
  <2>2. taken'[k] = Append(taken[k], Head(buffer[k])) /\ buffer'[k] = Tail(buffer[k])
    BY <1>2, <2>b, <1>w DEF Take, OwnerOK
  <2>3. /\ \A i \in 1 .. Len(taken[k]) : taken[k][i] = i
        /\ \A i \in 1 .. Len(buffer[k]) : buffer[k][i] = Len(taken[k]) + i
    BY <2>b DEF KeyOK, InOrder
  <2>4. /\ \A i \in 1 .. Len(taken'[k]) : taken'[k][i] = i
        /\ \A i \in 1 .. Len(buffer'[k]) : buffer'[k][i] = Len(taken'[k]) + i
        /\ Len(taken'[k]) + Len(buffer'[k]) = Len(taken[k]) + Len(buffer[k])
    <3> DEFINE t == taken[k]
               b == buffer[k]
    <3>1. t \in Seq(Nat) /\ b \in Seq(Nat) /\ b # <<>>
      BY <2>b
    <3>2. (\A i \in 1 .. Len(t) : t[i] = i) /\ \A i \in 1 .. Len(b) : b[i] = Len(t) + i
      BY <2>3
    <3> HIDE DEF t, b
    <3>3. /\ \A i \in 1 .. Len(Append(t, Head(b))) : Append(t, Head(b))[i] = i
          /\ \A i \in 1 .. Len(Tail(b)) : Tail(b)[i] = Len(Append(t, Head(b))) + i
          /\ Len(Append(t, Head(b))) + Len(Tail(b)) = Len(t) + Len(b)
      BY Zenon, <3>1, <3>2, NextTaken
    <3> QED BY Zenon, <2>2, <3>3 DEF t, b
  <2>5. InOrder(k)'
    BY <1>2, <2>b, <1>d, <2>4 DEF Take, KeyOK, InOrder, server
  <2> QED BY <2>1, <2>5 DEF KeyOK
<1> QED BY <1>1, <1>2

\* The task unsubscribes, once.
LEMMA UnsubscribeOK ==
  ASSUME EventsTypeOK, NEW n \in Keys, NEW k \in Keys, KeyOK(k), Unsubscribe(n)
  PROVE  KeyOK(k)'
<1>w. WireOK /\ OwnerOK
  BY DEF EventsTypeOK
<1>r. <<"unsub", n>> \in Requests /\ <<"unsub", n>>[2] = n
  BY DEF Requests
<1>d. DownMoves(0, k) /\ (\A K : Down(K, k)' = Down(K, k)) /\ OnTheWire(k)' = OnTheWire(k)
  BY Zenon, <1>w, DownStays DEF Unsubscribe
<1>c. \/ upstream' = Append(upstream, <<"unsub", n>>) /\ gaveUp' = gaveUp
      \/ upstream' = upstream /\ gaveUp' = gaveUp \cup {n}
  BY DEF Unsubscribe
<1>1. CASE k # n
  <2>1. Kept(k)
    BY <1>1, <1>w, <1>c DEF Kept, Unsubscribe, OwnerOK, WireOK, Live, server
  <2>2. UpMoves(0, k)
    BY <1>1, <1>w, <1>r, <1>c, OthersUpStay, UpStays
  <2> QED BY <1>d, <2>1, <2>2, KeptOK
<1>2. CASE k = n
  <2>u. /\ Up("sub", k)' = Up("sub", k)
        /\ \/ Up("unsub", k)' = Up("unsub", k) \cup {Len(upstream) + 1} /\ gaveUp' = gaveUp
           \/ Up("unsub", k)' = Up("unsub", k) /\ gaveUp' = gaveUp \cup {k}
    BY Zenon, <1>2, <1>w, <1>r, <1>c, UpAppended, UpStays
  <2>s. task[k] = "send" /\ handle[k] = "dropped" /\ task'[k] = "done" /\ handle'[k] = "dropped"
    BY <1>2, <1>w DEF Unsubscribe, KeyOK, OpenOK, OwnerOK
  <2>q. /\ Up("unsub", k) = {} /\ Down(EndKinds, k) = {}
        /\ <<"sub", k>> \notin requests /\ (k \in routes => closed) /\ k \notin gaveUp
    BY <2>s DEF KeyOK, EndOK
  <2>p. <<"sub", k>> \notin requests' /\ <<"unsub", k>> \in requests'
    BY <1>2, <2>q DEF Unsubscribe
  <2>1. OpenOK(k)'
    BY <1>2, <1>d, <2>u, <2>s, <2>q, <2>p DEF Unsubscribe, KeyOK, OpenOK, server
  <2>2. EndOK(k)'
    <3>1. /\ Single(Up("unsub", k)') /\ Down(EndKinds, k)' = {} /\ Single(Down(EndKinds, k)')
          /\ Up("unsub", k)' # {} \/ k \in gaveUp'
      BY Zenon, Singles, <1>d, <2>u, <2>q
    <3> QED BY <1>2, <2>s, <2>q, <2>p, <3>1 DEF Unsubscribe, EndOK, server, Once
  <2>3. ServedOK(k)'
    BY <1>2, <1>d DEF Unsubscribe, KeyOK, ServedOK, server
  <2>4. RoutedOK(k)' /\ InOrder(k)' /\ FreshOK(k)'
    BY <2>s DEF RoutedOK, InOrder, FreshOK, Live
  <2> QED BY <2>1, <2>2, <2>3, <2>4 DEF KeyOK
<1> QED BY <1>1, <1>2

\* The connection is closed.
LEMMA CloseOK ==
  ASSUME EventsTypeOK, NEW k \in Keys, KeyOK(k), Close
  PROVE  KeyOK(k)'
<1>1. DownMoves(0, k) /\ UpMoves(0, k)
  BY DownStays, UpStays DEF Close, EventsTypeOK
<1>2. Kept(k)
  BY DEF Kept, Close, owner, server
<1> QED BY <1>1, <1>2, KeptOK

\* A frame that is no answer is sent.
LEMMA GarbleOK ==
  ASSUME EventsTypeOK, NEW k \in Keys, KeyOK(k), Garble
  PROVE  KeyOK(k)'
<1>1. PICK j \in Keys : downstream' = Append(downstream, Frame("junk", j, 0))
  BY DEF Garble
<1>2. Frame("junk", j, 0) \in Frames /\ Frame("junk", j, 0).kind = "junk"
  BY DEF Frame, Frames, Kinds
<1>3. DownMoves(0, k)
  BY <1>1, <1>2, DownAppended DEF EventsTypeOK
<1>4. UpMoves(0, k)
  BY UpStays DEF Garble, EventsTypeOK
<1>5. Kept(k)
  BY DEF Kept, Garble, owner, server, router
<1> QED BY <1>3, <1>4, <1>5, KeptOK

\* The server sends the next notification, the last on the wire.
LEMMA NotifyOK ==
  ASSUME EventsTypeOK, NEW n \in Keys, NEW k \in Keys, KeyOK(k), ServerNotifies(n)
  PROVE  KeyOK(k)'
<1>w. WireOK /\ OwnerOK
  BY DEF EventsTypeOK
<1>u. UpMoves(0, k) /\ \A w : Up(w, k)' = Up(w, k)
  BY Zenon, <1>w, UpStays DEF ServerNotifies
<1> DEFINE f == Frame("note", n, sent'[n])
<1>s. sent'[n] = sent[n] + 1 /\ sent[n] \in Nat /\ \A j \in Keys : j # n => sent'[j] = sent[j]
  BY <1>w DEF ServerNotifies, WireOK
<1>f. f \in Frames /\ f.kind = "note" /\ f.key = n /\ f.n = sent[n] + 1
  BY <1>s DEF Frame, Frames, Kinds
<1>a. downstream' = Append(downstream, f)
  BY DEF ServerNotifies
<1> HIDE DEF f
<1>1. CASE k # n
  <2>1. Kept(k)
    BY <1>1, <1>s DEF Kept, ServerNotifies, owner, router
  <2>2. DownMoves(0, k)
    BY <1>1, <1>w, <1>f, <1>a, DownAppended
  <2> QED BY <1>u, <2>1, <2>2, KeptOK
<1>2. CASE k = n
  <2>t. sent[k] \in Nat /\ sent'[k] = sent[k] + 1
    BY <1>2, <1>s
  <2>d. /\ Down(AckKinds, k)' = Down(AckKinds, k) /\ Down(EndKinds, k)' = Down(EndKinds, k)
        /\ Down({"reject"}, k)' = Down({"reject"}, k) /\ Down({"ack"}, k)' = Down({"ack"}, k)
    <3>1. "note" \notin AckKinds /\ "note" \notin EndKinds /\ "note" \notin {"reject"} /\ "note" \notin {"ack"}
      BY DEF AckKinds, EndKinds
    <3> QED BY <3>1, <1>w, <1>f, <1>a, DownAppended
  <2>n. /\ OnTheWire(k)' = OnTheWire(k) \cup {Len(downstream) + 1}
        /\ OnTheWire(k) \subseteq 1 .. Len(downstream) /\ Len(downstream) \in Nat
    <3>1. OnTheWire(k) = Down({"note"}, k) /\ OnTheWire(k)' = Down({"note"}, k)'
      BY DEF OnTheWire, Down
    <3> QED BY <3>1, <1>2, <1>w, <1>f, <1>a, DownAppended
  <2>m. /\ downstream'[Len(downstream) + 1].n = sent[k] + 1
        /\ \A p \in OnTheWire(k) : downstream'[p] = downstream[p]
    BY <1>2, <2>n, <1>w, <1>f, <1>a, DownAppended
  <2>l. Down({"ack"}, k) \subseteq 1 .. Len(downstream)
    BY <1>w, <1>f, <1>a, DownAppended
  <2>x. k \in active /\ (k \in OneShot => k \notin active') /\ (k \notin OneShot => active' = active)
    BY <1>2 DEF ServerNotifies
  <2>1. OpenOK(k)'
    BY <1>2, <1>u, <2>d, <2>x DEF ServerNotifies, KeyOK, OpenOK, owner, router
  <2>2. EndOK(k)'
    BY <1>2, <1>u, <2>d, <2>x DEF ServerNotifies, KeyOK, EndOK, owner, router
  <2>3. ServedOK(k)'
    <3>1. k \in OneShot => sent[k] = 0
      BY <2>x, <2>t DEF KeyOK, ServedOK
    <3>2. \A p \in OnTheWire(k)' : downstream'[p].n \in 1 .. sent'[k]
      BY <2>n, <2>m, <2>t DEF KeyOK, ServedOK
    <3>3. k \in OneShot => sent'[k] <= 1 /\ k \notin active'
      BY <3>1, <2>x, <2>t
    <3>4. Down({"reject"}, k)' # {} => faulted'
      BY <2>d DEF KeyOK, ServedOK, ServerNotifies
    <3> QED BY <3>2, <3>3, <3>4 DEF ServedOK
  <2>4. RoutedOK(k)'
    <3>1. SUFFICES ASSUME handle[k] \in Live
                   PROVE  /\ k \in routes \/ Down({"ack"}, k) # {}
                          /\ \A q \in OnTheWire(k)' : k \in routes \/ \E p \in Down({"ack"}, k) : p < q
      BY <2>d DEF RoutedOK, ServerNotifies, owner, router
    <3>2. k \in routes \/ Down({"ack"}, k) # {}
      BY <3>1, <2>x DEF KeyOK, RoutedOK
    <3>3. \A p \in Down({"ack"}, k) : p < Len(downstream) + 1
      BY <2>l, <2>n
    <3>4. \A q \in OnTheWire(k) : k \in routes \/ \E p \in Down({"ack"}, k) : p < q
      BY <3>1 DEF KeyOK, RoutedOK
    <3>5. \A q \in OnTheWire(k)' : q \in OnTheWire(k) \/ q = Len(downstream) + 1
      BY <2>n
    <3>6. k \in routes \/ \E p \in Down({"ack"}, k) : p < Len(downstream) + 1
      BY <3>2, <3>3
    <3> QED BY <3>2, <3>4, <3>5, <3>6
  <2>5. InOrder(k)'
    <3>0. ServedOK(k)
      BY DEF KeyOK
    <3>1. SUFFICES ASSUME handle[k] \in Live
                   PROVE  /\ \A m \in Nat : Len(taken[k]) + Len(buffer[k]) < m /\ m <= sent[k] + 1 <=>
                                              \E p \in OnTheWire(k)' : downstream'[p].n = m
                          /\ \A p, q \in OnTheWire(k)' : p < q => downstream'[p].n < downstream'[q].n
      <4>1. /\ handle' = handle /\ taken' = taken /\ buffer' = buffer /\ sent'[k] = sent[k] + 1
        BY <1>2, <1>s DEF ServerNotifies, owner, router
      <4>2. handle[k] \in Live => Len(taken[k]) + Len(buffer[k]) <= sent[k] + 1
        <5>1. SUFFICES ASSUME handle[k] \in Live
                       PROVE  Len(taken[k]) + Len(buffer[k]) <= sent[k] + 1
          BY Zenon
        <5>2. taken[k] \in Seq(Nat) /\ buffer[k] \in Seq(Nat)
          BY <1>w, <5>1 DEF OwnerOK
        <5>3. Len(taken[k]) \in Nat /\ Len(buffer[k]) \in Nat
          BY <5>2
        <5>4. Len(taken[k]) + Len(buffer[k]) <= sent[k]
          BY Zenon, <5>1 DEF KeyOK, InOrder
        <5>5. \A x, y, z \in Nat : x + y <= z => x + y <= z + 1
          OBVIOUS
        <5> QED BY Zenon, <5>3, <5>4, <5>5, <2>t
      <4> QED BY Zenon, <4>1, <4>2 DEF InOrder, KeyOK
    <3>c. /\ \A m \in Nat : Len(taken[k]) + Len(buffer[k]) < m /\ m <= sent[k] <=>
                             \E p \in OnTheWire(k) : downstream[p].n = m
          /\ \A p, q \in OnTheWire(k) : p < q => downstream[p].n < downstream[q].n
      BY Zenon, <3>1 DEF KeyOK, InOrder
    <3>2. ASSUME NEW p \in OnTheWire(k)', NEW q \in OnTheWire(k)', p < q
          PROVE  downstream'[p].n < downstream'[q].n
      <4>1. p \in OnTheWire(k) /\ p \in 1 .. Len(downstream)
        BY <3>2, <2>n
      <4>2. CASE q \in OnTheWire(k)
        BY <3>2, <4>1, <4>2, <3>c, <2>m
      <4>3. CASE q = Len(downstream) + 1
        <5>1. downstream[p].n \in 1 .. sent[k]
          BY <4>1, <3>0 DEF ServedOK
        <5> QED BY <4>1, <4>3, <5>1, <2>m, <1>2, <1>s
      <4> QED BY <4>2, <4>3, <2>n
    <3>3. \A m : (\E p \in OnTheWire(k)' : downstream'[p].n = m) <=>
                (\E p \in OnTheWire(k) : downstream[p].n = m) \/ m = sent[k] + 1
      BY <2>n, <2>m
    <3>5. Len(taken[k]) + Len(buffer[k]) \in Nat /\ Len(taken[k]) + Len(buffer[k]) <= sent[k]
      <4>1. taken[k] \in Seq(Nat) /\ buffer[k] \in Seq(Nat)
        BY <1>w, <3>1 DEF OwnerOK
      <4>2. Len(taken[k]) \in Nat /\ Len(buffer[k]) \in Nat
        BY <4>1
      <4>3. Len(taken[k]) + Len(buffer[k]) <= sent[k]
        BY Zenon, <3>1 DEF KeyOK, InOrder
      <4>4. \A x, y \in Nat : x + y \in Nat
        OBVIOUS
      <4> QED BY Zenon, <4>2, <4>3, <4>4
    <3>4. ASSUME NEW m \in Nat
          PROVE  Len(taken[k]) + Len(buffer[k]) < m /\ m <= sent[k] + 1 <=>
                 (Len(taken[k]) + Len(buffer[k]) < m /\ m <= sent[k]) \/ m = sent[k] + 1
      <4>1. \A x, z \in Nat : x <= z => (x < m /\ m <= z + 1 <=> (x < m /\ m <= z) \/ m = z + 1)
        OBVIOUS
      <4> QED BY Zenon, <3>5, <4>1, <2>t
    <3> QED BY Zenon, <3>2, <3>3, <3>4, <3>c
  <2>6. FreshOK(k)'
    BY DEF KeyOK, FreshOK, ServerNotifies, owner, router
  <2> QED BY <2>1, <2>2, <2>3, <2>4, <2>5, <2>6 DEF KeyOK
<1> QED BY <1>1, <1>2
=============================================================================
