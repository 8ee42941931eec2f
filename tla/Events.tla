------------------------------- MODULE Events -------------------------------
(***************************************************************************)
(* Event subscriptions over one websocket: Connection and Router of        *)
(* transport/subscription.rs with the EventBuffer and the typed            *)
(* Subscription handles of transport/events.rs.                            *)
(*                                                                         *)
(* A handle is opened (register, send, await the acknowledgment), read,    *)
(* and dropped; the drop spawns a task that unsubscribes.  The opening     *)
(* future may be dropped at any await.  One reader task dispatches frames. *)
(* Each key subscribes once and unsubscribes once, so <<"sub", k>> and     *)
(* <<"unsub", k>> stand for the request ids, and k for its subscription id *)
(* on the server.                                                          *)
(***************************************************************************)
EXTENDS Naturals, Sequences

CONSTANTS
  Keys,       \* the handles, each with its own buffer key
  OneShot,    \* those of topic Signature: the server sends one notification
  MaxEvents   \* bound on the notifications of a subscription

EventsAssumption == OneShot \subseteq Keys /\ MaxEvents \in Nat \ {0}

VARIABLES
  handle,     \* of each key, what its owner holds
  task,       \* the unsubscribe task of a dropped handle
  gaveUp,     \* keys whose unsubscribe failed or timed out
  requests,   \* Router.requests
  routes,     \* Router.subscriptions
  buffer,     \* EventBuffer.by_key of the keys it still has
  malformed,  \* EventBuffer.malformed is not 0
  closed,     \* Router.error is set
  faulted,    \* the server, the network or the owner ended the connection
  taken,      \* events each handle has returned to its owner
  upstream, downstream,  \* frames on the wire, in order
  active,     \* subscriptions the server serves
  sent        \* notifications the server has sent for each

eventsVars == <<handle, task, gaveUp, requests, routes, buffer, malformed, closed, faulted,
                taken, upstream, downstream, active, sent>>
owner == <<handle, task, gaveUp, taken>>
router == <<requests, routes, buffer, malformed, closed>>
server == <<active, sent>>

-----------------------------------------------------------------------------
EventsInit ==
  /\ handle = [k \in Keys |-> "unborn"]
  /\ task = [k \in Keys |-> "none"]
  /\ gaveUp = {} /\ requests = {} /\ routes = {}
  /\ buffer = [k \in {} |-> <<>>]
  /\ malformed = FALSE /\ closed = FALSE /\ faulted = FALSE
  /\ taken = [k \in Keys |-> <<>>]
  /\ upstream = <<>> /\ downstream = <<>>
  /\ active = {}
  /\ sent = [k \in Keys |-> 0]

\* EventBuffer::register and Router::register, before the sink is awaited.
Register(k) ==
  /\ handle[k] = "unborn"
  /\ handle' = [handle EXCEPT ![k] = "sending"]
  /\ buffer' = [i \in DOMAIN buffer \cup {k} |-> IF i = k THEN <<>> ELSE buffer[i]]
  /\ requests' = requests \cup {<<"sub", k>>}
  /\ UNCHANGED <<task, gaveUp, routes, malformed, closed, faulted, taken,
                 upstream, downstream, server>>

\* socket::send under the sink lock.
Send(k) ==
  /\ handle[k] = "sending" /\ ~closed
  /\ handle' = [handle EXCEPT ![k] = "acking"]
  /\ upstream' = Append(upstream, <<"sub", k>>)
  /\ UNCHANGED <<task, gaveUp, router, faulted, taken, downstream, server>>

\* await_ack: no Subscribe request of this key is pending any more.
Acked(k) ==
  /\ handle[k] = "acking" /\ ~closed
  /\ <<"sub", k>> \notin requests
  /\ handle' = [handle EXCEPT ![k] = "held"]
  /\ UNCHANGED <<task, gaveUp, router, faulted, taken, upstream, downstream, server>>

\* Subscription::next, next_from and try_next pop the oldest event; a closed
\* connection or a malformed frame fails them instead.
Take(k) ==
  /\ handle[k] = "held" /\ ~closed /\ ~malformed
  /\ buffer[k] # <<>>
  /\ taken' = [taken EXCEPT ![k] = Append(@, Head(buffer[k]))]
  /\ buffer' = [buffer EXCEPT ![k] = Tail(@)]
  /\ UNCHANGED <<handle, task, gaveUp, requests, routes, malformed, closed, faulted,
                 upstream, downstream, server>>

\* Mutant: a handle dropped before it was acknowledged is not unsubscribed.
DropUnacked(k) ==
  /\ handle[k] \in {"sending", "acking", "held"}
  /\ task' = [task EXCEPT ![k] = IF handle[k] = "held" THEN "ack" ELSE "done"]
  /\ handle' = [handle EXCEPT ![k] = "dropped"]
  /\ buffer' = [i \in DOMAIN buffer \ {k} |-> buffer[i]]
  /\ UNCHANGED <<gaveUp, requests, routes, malformed, closed, faulted, taken,
                 upstream, downstream, server>>

\* Drop of a Subscription, by its owner or with the future that opens it (a
\* failed or cancelled send, a failed, timed out or cancelled acknowledgment).
Drop(k) ==
  /\ handle[k] \in {"sending", "acking", "held"}
  /\ handle' = [handle EXCEPT ![k] = "dropped"]
  /\ task' = [task EXCEPT ![k] = "ack"]
  /\ buffer' = [i \in DOMAIN buffer \ {k} |-> buffer[i]]
  /\ UNCHANGED <<gaveUp, requests, routes, malformed, closed, faulted, taken,
                 upstream, downstream, server>>

-----------------------------------------------------------------------------
\* unsubscribe, once acknowledged: the route is taken, if there still is one.
Unroute(k) ==
  /\ task[k] = "ack" /\ ~closed
  /\ <<"sub", k>> \notin requests
  /\ task' = [task EXCEPT ![k] = IF k \in routes THEN "send" ELSE "done"]
  /\ routes' = routes \ {k}
  /\ UNCHANGED <<handle, gaveUp, requests, buffer, malformed, closed, faulted, taken,
                 upstream, downstream, server>>

\* await_ack fails (closed, or no answer in time): the request is forgotten.
GiveUp(k) ==
  /\ task[k] = "ack" /\ (closed \/ <<"sub", k>> \in requests)
  /\ requests' = requests \ {<<"sub", k>>}
  /\ gaveUp' = gaveUp \cup {k}
  /\ task' = [task EXCEPT ![k] = "done"]
  /\ UNCHANGED <<handle, routes, buffer, malformed, closed, faulted, taken,
                 upstream, downstream, server>>

Unsubscribe(k) ==
  /\ task[k] = "send"
  /\ requests' = requests \cup {<<"unsub", k>>}
  /\ task' = [task EXCEPT ![k] = "done"]
  /\ \/ ~closed /\ upstream' = Append(upstream, <<"unsub", k>>) /\ gaveUp' = gaveUp
     \/ upstream' = upstream /\ gaveUp' = gaveUp \cup {k}  \* the send fails
  /\ UNCHANGED <<handle, routes, buffer, malformed, closed, faulted, taken,
                 downstream, server>>

-----------------------------------------------------------------------------
\* "Completed routes may be retired before asynchronous cleanup."
Tolerated(frame) == <<"unsub", frame.key>> \in requests /\ frame.kind = "invalid"

Reply(frame) ==
  /\ frame.kind \in {"ack", "ok", "invalid", "reject"}
  /\ requests' = requests \ {<<IF frame.kind \in {"ack", "reject"} THEN "sub" ELSE "unsub",
                               frame.key>>}
  /\ routes' = IF frame.kind = "ack" /\ <<"sub", frame.key>> \in requests
                 THEN routes \cup {frame.key} ELSE routes
  /\ closed' = (frame.kind \in {"invalid", "reject"} /\ ~Tolerated(frame))
  /\ UNCHANGED <<buffer, malformed>>

\* Mutant: a notification is put before those that wait.
NotificationFirst(frame) ==
  /\ frame.kind = "note"
  /\ buffer' = [i \in DOMAIN buffer |->
                  IF i = frame.key /\ i \in routes THEN <<frame.n>> \o buffer[i] ELSE buffer[i]]
  /\ routes' = IF frame.key \in OneShot THEN routes \ {frame.key} ELSE routes
  /\ UNCHANGED <<requests, malformed, closed>>

\* EventBuffer::observe for a routed frame; a signature's route is retired.
Notification(frame) ==
  /\ frame.kind = "note"
  /\ buffer' = [i \in DOMAIN buffer |->
                  IF i = frame.key /\ i \in routes THEN Append(buffer[i], frame.n) ELSE buffer[i]]
  /\ routes' = IF frame.key \in OneShot THEN routes \ {frame.key} ELSE routes
  /\ UNCHANGED <<requests, malformed, closed>>

\* Frame::Malformed, counted for the whole connection.
Malformed(frame) ==
  /\ frame.kind = "junk"
  /\ malformed' = TRUE
  /\ UNCHANGED <<requests, routes, buffer, closed>>

\* The reader takes the next frame and dispatches it.
Dispatch ==
  /\ ~closed /\ downstream # <<>>
  /\ LET frame == Head(downstream)
     IN  Reply(frame) \/ Notification(frame) \/ Malformed(frame)
  /\ downstream' = Tail(downstream)
  /\ UNCHANGED <<owner, faulted, upstream, server>>

\* The stream ends, or finalize stops it: Router::close.
Close ==
  /\ ~closed
  /\ closed' = TRUE /\ faulted' = TRUE
  /\ UNCHANGED <<owner, requests, routes, buffer, malformed, upstream, downstream, server>>

-----------------------------------------------------------------------------
Frame(kind, k, n) == [kind |-> kind, key |-> k, n |-> n]

\* External: the server answers requests in order.  A subscription it has
\* retired is an invalid id; it may reject a subscribe.
Serve ==
  /\ upstream # <<>> /\ ~closed
  /\ upstream' = Tail(upstream)
  /\ LET k == Head(upstream)[2]
     IN  \/ /\ Head(upstream)[1] = "sub"
            /\ active' = active \cup {k}
            /\ downstream' = Append(downstream, Frame("ack", k, 0))
            /\ UNCHANGED faulted
         \/ /\ Head(upstream)[1] = "sub"
            /\ downstream' = Append(downstream, Frame("reject", k, 0))
            /\ faulted' = TRUE
            /\ UNCHANGED active
         \/ /\ Head(upstream)[1] = "unsub"
            /\ active' = active \ {k}
            /\ downstream' = Append(downstream,
                                    Frame(IF k \in active THEN "ok" ELSE "invalid", k, 0))
            /\ UNCHANGED faulted
  /\ UNCHANGED <<owner, router, sent>>

\* External: the server notifies; a one-shot subscription ends with it.
ServerNotifies(k) ==
  /\ k \in active /\ sent[k] < MaxEvents /\ ~closed
  /\ sent' = [sent EXCEPT ![k] = @ + 1]
  /\ downstream' = Append(downstream, Frame("note", k, sent'[k]))
  /\ active' = IF k \in OneShot THEN active \ {k} ELSE active
  /\ UNCHANGED <<owner, router, faulted, upstream>>

\* External: a frame that is no JSON-RPC message, at most one.
Garble ==
  /\ ~closed /\ ~malformed /\ \A i \in DOMAIN downstream : downstream[i].kind # "junk"
  /\ \E k \in Keys : downstream' = Append(downstream, Frame("junk", k, 0))
  /\ UNCHANGED <<owner, router, faulted, upstream, server>>

EventsNext ==
  \/ \E k \in Keys :
       \/ Register(k) \/ Send(k) \/ Acked(k) \/ Take(k) \/ Drop(k)
       \/ Unroute(k) \/ GiveUp(k) \/ Unsubscribe(k) \/ ServerNotifies(k)
  \/ Dispatch \/ Close \/ Serve \/ Garble

EventsSpec == EventsInit /\ [][EventsNext]_eventsVars

(***************************************************************************)
(* The reader, the opening future, a reading owner and the unsubscribe     *)
(* task are polled by the runtime.  The server owes an answer to nothing:  *)
(* a timeout ends the wait for it.                                         *)
(***************************************************************************)
EventsFairness ==
  /\ WF_eventsVars(Dispatch)
  /\ \A k \in Keys : /\ WF_eventsVars(Acked(k)) /\ WF_eventsVars(Take(k))
                     /\ WF_eventsVars(Unroute(k)) /\ WF_eventsVars(GiveUp(k))
                     /\ WF_eventsVars(Unsubscribe(k))

-----------------------------------------------------------------------------
\* What the owner of handle k has been given, with what waits for it.
Received(k) == taken[k] \o buffer[k]

\* The places on the wire of the notifications of k that are not dispatched yet.
OnTheWire(k) == {p \in DOMAIN downstream : downstream[p].kind = "note" /\ downstream[p].key = k}

\* A handle loses, repeats and reorders nothing: what it has returned and what
\* it buffers are the server's notifications from the first on, and the rest of
\* them is on the wire in order, also if they overtake the opening future's
\* resumption (dispatch, take).
NothingMissed ==
  \A k \in Keys : handle[k] \in {"acking", "held"} =>
    /\ Received(k) = [i \in 1 .. Len(Received(k)) |-> i]
    /\ {downstream[p].n : p \in OnTheWire(k)} = Len(Received(k)) + 1 .. sent[k]
    /\ \A p, q \in OnTheWire(k) : p < q => downstream[p].n < downstream[q].n

\* Handles that come and go never end the connection the others share, not
\* even an unsubscribe that crosses the last notification of a one-shot.
OnlyFaultsClose == closed => faulted

Quiet(k) == task[k] = "done" /\ upstream = <<>> /\ downstream = <<>> /\ ~closed

\* Only live handles have a buffer, and once a dropped handle's task is done
\* and the wire is silent, the router has forgotten the handle, and so has the
\* server unless the task gave up.
DroppedIsReleased ==
  /\ DOMAIN buffer = {k \in Keys : handle[k] \in {"sending", "acking", "held"}}
  /\ \A k \in Keys : Quiet(k) =>
       <<"sub", k>> \notin requests /\ k \notin routes /\ (k \in active => k \in gaveUp)

\* Handles come and go without disturbing the others or leaving a trace (Drop,
\* unsubscribe, dispatch).
HandlesComeAndGo == OnlyFaultsClose /\ DroppedIsReleased

\* Notifications sent for a handle that its owner has not been given yet.
Owed ==
  \E k \in Keys : /\ handle[k] \in {"acking", "held"} /\ Len(taken[k]) < sent[k]
                  /\ ~closed /\ ~malformed
=============================================================================
