----------------------------- MODULE MCNetFault -----------------------------
(***************************************************************************)
(* Instances of NetFault.  The messages are an HTTP exchange, a            *)
(* subscription on the socket, its end and a notification of it; each run  *)
(* takes three of them.                                                    *)
(***************************************************************************)
EXTENDS NetFault

CONSTANTS h1, w1, p1, u1, k1

MCTraffic ==
  [m \in {h1, w1, u1, p1} |->
     CASE m = h1 -> [kind |-> "http", method |-> "getAccountInfo", keys |-> {k1}, of |-> h1]
       [] m = w1 -> [kind |-> "ws", method |-> "accountSubscribe", keys |-> {k1}, of |-> w1]
       [] m = u1 -> [kind |-> "ws", method |-> "accountUnsubscribe", keys |-> {}, of |-> w1]
       [] m = p1 -> [kind |-> "push", method |-> "accountNotification", keys |-> {}, of |-> w1]]

Anything == [transport |-> "any", stages |-> {}, methods |-> {}, keys |-> {}]

MCStageSelectors ==
  {[Anything EXCEPT !.stages = {"request"}],
   [Anything EXCEPT !.stages = {"response", "notification"}, !.keys = {k1}]}

MCSelectors ==
  MCStageSelectors \cup
  {[Anything EXCEPT !.transport = "ws", !.methods = {"accountSubscribe"}]}
=============================================================================
