------------------------------ MODULE NetFault ------------------------------
(***************************************************************************)
(* The fault proxy of core/src/netfault: a gate that every relayed message *)
(* passes, the scope through which one scenario arms traps and faults, and *)
(* the HTTP and WebSocket relays that carry the messages.  The scenario is *)
(* the one of run_shared_scenario: open a scope, run a body, reset, drop.  *)
(*                                                                         *)
(* Everything runs on one thread: a step is what a task does between two   *)
(* awaits.  Observe rules only count and are left out, and so are the      *)
(* diagnostic counters of State.                                           *)
(***************************************************************************)
EXTENDS Naturals, Sequences, FiniteSets, FiniteSetsExt

CONSTANTS
  Messages,    \* messages the relays see
  Traffic,     \* per message: kind, method, keys, and the request it concerns
  Selectors,   \* selectors the scenarios use
  MaxScopes,   \* bound on the scopes opened one after the other
  MaxHandles   \* bound on the traps and rules installed, over all scopes

Stages == {"request", "response", "notification"}
Scopes == 1 .. MaxScopes
Decisions == {"release", "discard", "reject"}

\* "http": an exchange on its own connection; "ws": an exchange on the relayed
\* socket; "push": a notification of the subscription Traffic[m].of.  A "ws"
\* exchange with Traffic[m].of # m is the Unsubscribe of that subscription.
ASSUME NetFaultAssumption ==
  /\ IsFiniteSet(Messages)
  /\ MaxScopes \in Nat /\ MaxHandles \in Nat
  /\ \A m \in Messages :
       /\ Traffic[m].kind \in {"http", "ws", "push"}
       /\ Traffic[m].of \in Messages

VARIABLES
  pc,        \* the scenario: "out", "body", "bodyReset", "finalReset", "closing"
  body,      \* outcome of the body so far: "ok" or "err"
  verdict,   \* what the last scenario reported
  scope,     \* number of the last scope opened
  base,      \* handles installed before this scope
  effect,    \* what each handle is: a sequence of [kind, sel]
  rules,     \* State.rules
  armed,     \* State.traps whose sender is still there
  orphans,   \* traps whose receiver was dropped
  unfired,   \* State.unfired
  fired,     \* history: traps that caught a message
  holding,   \* State.holding, per scope
  at,        \* where each message is
  gate,      \* the Gate a waiting message awaits
  decision,  \* what its Held decided
  woken,     \* held messages whose reset receiver has changed
  holds,     \* live Holding guards, per message
  letGo,     \* history: gates that released a message they had held
  outbound,  \* queue of the WebSocket writer
  subs       \* WsRelay.subscriptions

vars == <<pc, body, verdict, scope, base, effect, rules, armed, orphans,
          unfired, fired, holding, at, gate, decision, woken, holds, letGo,
          outbound, subs>>

scenario == <<pc, body, verdict, scope, base, effect>>
faults == <<rules, armed, orphans, unfired, fired>>
relay == <<at, gate, woken, holds, holding, letGo, outbound, subs>>

-----------------------------------------------------------------------------
Free == [why |-> "none", scope |-> 0, handle |-> 0]

Kind(m) == Traffic[m].kind
Transport(m) == IF Kind(m) = "http" THEN "http" ELSE "ws"
OnSocket == {m \in Messages : Transport(m) = "ws"}
Waiting(m) == at[m] \in Stages
Active == pc # "out"

\* The metadata of a message; a notification has its subscription's keys.
Operation(m, stage) ==
  [transport |-> Transport(m), stage |-> stage, method |-> Traffic[m].method,
   keys |-> Traffic[IF stage = "notification" THEN Traffic[m].of ELSE m].keys]

\* Selector::matches; a selector's keys are its optional signature and account.
Matches(sel, op) ==
  /\ sel.transport \in {"any", op.transport}
  /\ sel.stages = {} \/ op.stage \in sel.stages
  /\ sel.methods = {} \/ op.method \in sel.methods
  /\ sel.keys \subseteq op.keys

Matching(handles, op) == {h \in handles : Matches(effect[h].sel, op)}

\* gate(): the first matching fault decides before the first matching trap.
Disposition(op) ==
  LET faulting == Matching(rules, op)
      trapping == Matching(armed, op)
  IN IF ~Active THEN [then |-> "release", handle |-> 0]
     ELSE IF faulting # {} THEN
       [then |-> IF effect[Min(faulting)].kind = "reject" THEN "reject" ELSE "stalled",
        handle |-> Min(faulting)]
     ELSE IF trapping # {} THEN [then |-> "held", handle |-> Min(trapping)]
     ELSE [then |-> "release", handle |-> 0]

-----------------------------------------------------------------------------
Init ==
  /\ pc = "out" /\ body = "ok" /\ verdict = "none"
  /\ scope = 0 /\ base = 0 /\ effect = <<>>
  /\ rules = {} /\ armed = {} /\ orphans = {} /\ unfired = {} /\ fired = {}
  /\ holding = [s \in Scopes |-> 0]
  /\ at = [m \in Messages |-> "idle"]
  /\ gate = [m \in Messages |-> Free]
  /\ decision = [m \in Messages |-> "none"]
  /\ woken = {}
  /\ holds = [m \in Messages |-> {}]
  /\ letGo = {}
  /\ outbound = <<>>
  /\ subs = {}

\* Dropping the guards that the messages of S own.
DropHolds(S) ==
  /\ holds' = [m \in Messages |-> IF m \in S THEN {} ELSE holds[m]]
  /\ holding' = [s \in Scopes |->
       holding[s] - Cardinality({h \in S \X Stages : <<s, h[2]>> \in holds[h[1]]})]

\* Mutant: an aborted connection does not give its guards back.
LoseLeaks(S) ==
  /\ at' = [m \in Messages |->
       IF m \in S /\ at[m] \notin {"idle", "done"} THEN "lost" ELSE at[m]]
  /\ gate' = [m \in Messages |-> IF m \in S THEN Free ELSE gate[m]]
  /\ woken' = woken \ S
  /\ UNCHANGED <<holds, holding>>

\* A set of messages dies with its connection task.
Lose(S) ==
  /\ at' = [m \in Messages |->
       IF m \in S /\ at[m] \notin {"idle", "done"} THEN "lost" ELSE at[m]]
  /\ gate' = [m \in Messages |-> IF m \in S THEN Free ELSE gate[m]]
  /\ woken' = woken \ S
  /\ DropHolds(S)

RelayDies ==
  /\ Lose(OnSocket)
  /\ outbound' = <<>>
  /\ subs' = {}

\* Mutant: the guard goes as soon as the message is unblocked.
ForwardUnguarded(m, stage, d, known) ==
  LET next ==
        CASE d = "discard" -> "lost"
          [] d = "reject" /\ Kind(m) = "push" -> "lost"
          [] d = "release" /\ stage = "request" -> "upstream"
          [] OTHER -> "writing"
  IN /\ at' = [at EXCEPT ![m] = next]
     /\ gate' = [gate EXCEPT ![m] = Free]
     /\ woken' = woken \ {m}
     /\ DropHolds({m})
     /\ outbound' = IF next = "writing" /\ Kind(m) # "http"
                    THEN Append(outbound, m) ELSE outbound
     /\ subs' = known

\* What a relay does with a message once its gate has decided, with `known` the
\* subscriptions it then remembers.
Forward(m, stage, d, known) ==
  LET spent ==   \* guards that die with this step
        IF \/ Kind(m) = "http" /\ d = "discard"
           \/ Kind(m) # "http" /\ stage = "request"
           \/ Kind(m) # "http" /\ d = "discard"
           \/ Kind(m) = "push" /\ d = "reject"
        THEN {m} ELSE {}
      next ==
        CASE d = "discard" -> "lost"
          [] d = "reject" /\ Kind(m) = "push" -> "lost"
          [] d = "release" /\ stage = "request" -> "upstream"
          [] OTHER -> "writing"
  IN IF d = "discard" /\ Kind(m) = "ws" /\ stage = "request"
     THEN RelayDies
     ELSE /\ at' = [at EXCEPT ![m] = next]
          /\ gate' = [gate EXCEPT ![m] = Free]
          /\ woken' = woken \ {m}
          /\ DropHolds(spent)
          /\ outbound' = IF next = "writing" /\ Kind(m) # "http"
                         THEN Append(outbound, m) ELSE outbound
          /\ subs' = known

\* A message reaches its gate: it is decided at once, or waits with a guard.
PassGate(m, stage, known) ==
  LET to == Disposition(Operation(m, stage))
  IN \/ /\ to.then \in Decisions
        /\ Forward(m, stage, to.then, known)
        /\ UNCHANGED <<faults, decision, letGo>>
     \/ /\ to.then \in {"held", "stalled"}
        /\ at' = [at EXCEPT ![m] = stage]
        /\ gate' = [gate EXCEPT ![m] =
             [why |-> to.then, scope |-> scope, handle |-> to.handle]]
        /\ holds' = [holds EXCEPT ![m] = @ \cup {<<scope, stage>>}]
        /\ holding' = [holding EXCEPT ![scope] = @ + 1]
        /\ armed' = armed \ {to.handle}
        /\ fired' = IF to.then = "held" THEN fired \cup {to.handle} ELSE fired
        /\ decision' = [decision EXCEPT ![m] =
             IF to.then = "held" /\ to.handle \in orphans THEN "release" ELSE "none"]
        /\ subs' = known
        /\ UNCHANGED <<rules, orphans, unfired, woken, letGo, outbound>>

\* A request waiting at its gate keeps the WebSocket relay from its other frames.
RelayBlocked == \E m \in OnSocket : at[m] = "request"

\* serve_http and WsRelay::request read a request.
Request(m) ==
  /\ at[m] = "idle" /\ Kind(m) # "push"
  /\ Kind(m) = "ws" => ~RelayBlocked
  /\ PassGate(m, "request", subs)
  /\ UNCHANGED scenario

\* The upstream answers, an HTTP error included; a subscription or its end is
\* noted before the reply meets its gate.
Response(m) ==
  /\ at[m] = "upstream"
  /\ Kind(m) = "ws" => ~RelayBlocked
  /\ \E known \in IF Kind(m) = "http" THEN {subs}
                  ELSE IF Traffic[m].of = m THEN {subs, subs \cup {m}}
                  ELSE {subs, subs \ {Traffic[m].of}} :
       PassGate(m, "response", known)
  /\ UNCHANGED scenario

Notification(m) ==
  /\ at[m] = "idle" /\ Kind(m) = "push" /\ Traffic[m].of \in subs
  /\ ~RelayBlocked
  /\ PassGate(m, "notification", subs)
  /\ UNCHANGED scenario

\* Gate::resolve is ready, and with what.
Resolution(m) ==
  IF gate[m].why = "held" THEN
    IF decision[m] # "none" THEN decision[m]
    ELSE IF m \in woken THEN "release" ELSE "none"
  ELSE IF gate[m].handle \in rules THEN "none" ELSE "release"

Resolve(m) ==
  /\ Waiting(m) /\ Resolution(m) # "none"
  /\ Forward(m, at[m], Resolution(m), subs)
  /\ letGo' = IF Resolution(m) = "release"
              THEN letGo \cup {<<m, at[m], gate[m].scope>>} ELSE letGo
  /\ UNCHANGED <<scenario, faults, decision>>

\* The client has read the reply, or is gone.
HttpWrite(m) ==
  /\ Kind(m) = "http" /\ at[m] = "writing"
  /\ at' \in {[at EXCEPT ![m] = "done"], [at EXCEPT ![m] = "lost"]}
  /\ DropHolds({m})
  /\ UNCHANGED <<scenario, faults, gate, decision, woken, letGo, outbound, subs>>

WsWrite ==
  /\ outbound # <<>>
  /\ at' = [at EXCEPT ![Head(outbound)] = "done"]
  /\ DropHolds({Head(outbound)})
  /\ outbound' = Tail(outbound)
  /\ UNCHANGED <<scenario, faults, gate, decision, woken, letGo, subs>>

\* Either side of the socket goes away, which a blocked relay does not notice.
WsCloses ==
  /\ ~RelayBlocked
  /\ RelayDies
  /\ UNCHANGED <<scenario, faults, decision, letGo>>

-----------------------------------------------------------------------------
OpenScope ==
  /\ pc = "out" /\ scope < MaxScopes
  /\ pc' = "body" /\ body' = "ok" /\ verdict' = "none"
  /\ scope' = scope + 1 /\ base' = Len(effect)
  /\ unfired' = {}
  /\ UNCHANGED <<effect, rules, armed, orphans, fired, relay, decision>>

\* Faults::intercept, reject and stall
Install ==
  /\ pc = "body" /\ Len(effect) < MaxHandles
  /\ \E kind \in {"trap", "reject", "stall"}, sel \in Selectors :
       /\ effect' = Append(effect, [kind |-> kind, sel |-> sel])
       /\ IF kind = "trap"
          THEN armed' = armed \cup {Len(effect) + 1} /\ UNCHANGED rules
          ELSE rules' = rules \cup {Len(effect) + 1} /\ UNCHANGED armed
  /\ UNCHANGED <<pc, body, verdict, scope, base, orphans, unfired, fired, relay,
                 decision>>

\* RuleHandle::remove
RemoveRule ==
  /\ pc = "body"
  /\ \E h \in rules : rules' = rules \ {h}
  /\ UNCHANGED <<scenario, armed, orphans, unfired, fired, relay, decision>>

\* Held::release, discard and reject; dropping a Held or its Trap releases.
Decide(m) ==
  /\ gate[m].why = "held" /\ decision[m] = "none"
  /\ \E d \in Decisions : decision' = [decision EXCEPT ![m] = d]
  /\ UNCHANGED <<scenario, faults, relay>>

\* Trap::wait gives up, or the Trap is dropped, before anything arrived.
AbandonTrap ==
  /\ \E h \in armed \ orphans : orphans' = orphans \cup {h}
  /\ UNCHANGED <<scenario, rules, armed, unfired, fired, relay, decision>>

\* Mutants: restore forgets the traps that never fired; it clears them without
\* signalling the messages that are held.
RestoreForgets ==
  /\ rules' = {} /\ armed' = {}
  /\ woken' = woken \cup
       {m \in Messages : gate[m].why = "held" /\ gate[m].scope = scope}
  /\ UNCHANGED <<unfired, orphans, fired, holding, at, gate, decision, holds,
                 letGo, outbound, subs>>

RestoreSilently ==
  /\ rules' = {} /\ armed' = {}
  /\ unfired' = unfired \cup armed
  /\ UNCHANGED <<woken, orphans, fired, holding, at, gate, decision, holds,
                 letGo, outbound, subs>>

\* State::restore
RestoreState ==
  /\ rules' = {} /\ armed' = {}
  /\ unfired' = unfired \cup armed
  /\ woken' = woken \cup
       {m \in Messages : gate[m].why = "held" /\ gate[m].scope = scope}
  /\ UNCHANGED <<orphans, fired, holding, at, gate, decision, holds, letGo,
                 outbound, subs>>

Restore ==
  /\ pc = "body"
  /\ RestoreState
  /\ UNCHANGED scenario

Disconnect ==
  /\ pc = "body"
  /\ \/ /\ Lose(Messages \ OnSocket)
        /\ UNCHANGED <<outbound, subs>>
     \/ RelayDies
  /\ UNCHANGED <<scenario, faults, decision, letGo>>

\* Faults::reset, called by the body and again when the body is over.
BeginReset ==
  /\ pc = "body"
  /\ \/ pc' = "bodyReset" /\ UNCHANGED body
     \/ pc' = "finalReset" /\ body' \in {"ok", "err"}
  /\ RestoreState
  /\ UNCHANGED <<verdict, scope, base, effect>>

ResetReturns(ok) ==
  \/ /\ pc = "bodyReset"
     /\ pc' = IF ok THEN "body" ELSE "finalReset"
     /\ body' = IF ok THEN body ELSE "err"
     /\ UNCHANGED verdict
  \/ /\ pc = "finalReset"
     /\ pc' = "closing"
     /\ verdict' = IF ok /\ body = "ok" THEN "pass" ELSE "fail"
     /\ UNCHANGED body

ResetDrained ==
  /\ pc \in {"bodyReset", "finalReset"} /\ holding[scope] = 0
  /\ ResetReturns(unfired = {})
  /\ unfired' = {}
  /\ UNCHANGED <<scope, base, effect, rules, armed, orphans, fired, relay, decision>>

ResetTimesOut ==
  /\ pc \in {"bodyReset", "finalReset"} /\ holding[scope] # 0
  /\ ResetReturns(FALSE)
  /\ UNCHANGED <<scope, base, effect, faults, relay, decision>>

\* Drop for Faults
CloseScope ==
  /\ pc = "closing"
  /\ pc' = "out"
  /\ RestoreState
  /\ UNCHANGED <<body, verdict, scope, base, effect>>

-----------------------------------------------------------------------------
Next ==
  \/ \E m \in Messages :
       \/ Request(m) \/ Response(m) \/ Notification(m)
       \/ Resolve(m) \/ HttpWrite(m) \/ Decide(m)
  \/ WsWrite \/ WsCloses
  \/ OpenScope \/ Install \/ RemoveRule \/ AbandonTrap \/ Restore
  \/ Disconnect \/ BeginReset \/ ResetDrained \/ ResetTimesOut \/ CloseScope

Spec == Init /\ [][Next]_vars

(***************************************************************************)
(* Tasks that can run do run: a gate whose channel is ready, the two       *)
(* writers, and a post, which has the client's timeout.  Neither the       *)
(* scenario's decisions nor the 60 s timeout of reset is counted on.       *)
(***************************************************************************)
Fairness ==
  /\ \A m \in Messages :
       /\ WF_vars(Resolve(m)) /\ WF_vars(HttpWrite(m))
       /\ Kind(m) = "http" => WF_vars(Response(m))
  /\ WF_vars(WsWrite) /\ WF_vars(ResetDrained)

FairSpec == Spec /\ Fairness

-----------------------------------------------------------------------------
\* State.holding is exactly the number of live guards of its own scope, through
\* releases, discards, rejections, aborted connections and later scopes.
HoldingCountsGuards ==
  \A s \in Scopes :
    holding[s] = Cardinality({h \in Messages \X Stages : <<s, h[2]>> \in holds[h[1]]})

\* "A requested interception must fire for its check to succeed": a scenario
\* passes only if every trap of its scope caught a message, also the ones that
\* an earlier restore or a failed reset had already discarded.
PassMeansAllFired ==
  verdict = "pass" =>
    {h \in base + 1 .. Len(effect) : effect[h].kind = "trap"} \subseteq fired

Forwarding(m, stage) ==
  CASE stage = "request" ->
         Kind(m) = "http" /\ at[m] \in {"upstream", "response", "writing"}
    [] OTHER -> at[m] = "writing"

\* "Kept until the released operation has been forwarded, not merely unblocked":
\* when a scenario passes, whatever its scope had held has left the proxy.
PassMeansForwarded ==
  verdict = "pass" =>
    \A m \in Messages :
      /\ Waiting(m) => gate[m].scope # scope
      /\ \A stage \in Stages : <<m, stage, scope>> \in letGo => ~Forwarding(m, stage)

\* A scenario passes only if its interceptions happened and are over.
PassMeansCarriedOut == PassMeansAllFired /\ PassMeansForwarded

\* "Dropping the scope restores traffic": outside a body nothing waits at a gate
\* that is not ready to let it go, whichever scope it was caught by.
NothingWaitsOutside ==
  \A m \in Messages : Waiting(m) /\ pc # "body" => Resolution(m) # "none"

\* No message is stranded at a gate and no guard in the counter a reset awaits.
NothingStranded == HoldingCountsGuards /\ NothingWaitsOutside

\* A reset returns without its timeout, whatever was held, stalled, cut or
\* waiting upstream when it began.
ResetReturnsByItself ==
  pc \in {"bodyReset", "finalReset"} ~> pc \notin {"bodyReset", "finalReset"}
====
