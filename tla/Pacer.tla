-------------------------------- MODULE Pacer --------------------------------
(***************************************************************************)
(* The pacer of core/src/transport/rate.rs: wait returns when the next     *)
(* admission is due.  It does not sleep for less than the timer resolution *)
(* and gives up slots it is too late for.  The admission engine awaits it  *)
(* in a select!, so a sleeping wait may be dropped and called again.       *)
(***************************************************************************)
EXTENDS Naturals, Sequences

CONSTANTS
  Intervals,   \* Pacing::interval, in ticks: 0 is a rate beyond the clock's grain
  Resolution,  \* TIMER_RESOLUTION
  Slack,       \* RESYNC_SLACK
  MaxTime,     \* bound on the clock
  MaxAdmitted  \* bound on the admissions of one behaviour

ASSUME PacerAssumption ==
  /\ Intervals \subseteq Nat
  /\ {Resolution, Slack, MaxTime, MaxAdmitted} \subseteq Nat

VARIABLES
  interval,  \* never changes
  now,       \* the clock
  next,      \* when the next slot begins
  asleep,    \* wait is suspended in sleep_until
  log        \* returns of wait: when, and for which slot

pacerVars == <<interval, now, next, asleep, log>>

-----------------------------------------------------------------------------
PacerInit ==
  /\ interval \in Intervals
  /\ now \in 0 .. MaxTime
  /\ next = now
  /\ asleep = FALSE
  /\ log = <<>>

\* Mutant: a slot is never given up.
GrantNeverResynced(slot) ==
  /\ Len(log) < MaxAdmitted
  /\ log' = Append(log, [at |-> now, slot |-> next])
  /\ next' = next + interval
  /\ asleep' = FALSE
  /\ UNCHANGED <<interval, now>>

\* wait returns for a slot.
Grant(slot) ==
  /\ Len(log) < MaxAdmitted
  /\ log' = Append(log, [at |-> now, slot |-> slot])
  /\ next' = slot + interval
  /\ asleep' = FALSE
  /\ UNCHANGED <<interval, now>>

\* The first poll of wait: return at once, resynchronised if too late, or
\* sleep.
Wait ==
  /\ ~asleep
  /\ \/ next > now /\ next - now < Resolution /\ Grant(next)
     \/ next <= now /\ now - next <= Slack /\ Grant(next)
     \/ next <= now /\ now - next > Slack /\ Grant(now)
     \/ /\ next > now /\ next - now >= Resolution
        /\ asleep' = TRUE
        /\ UNCHANGED <<interval, now, next, log>>

\* The sleep is over, perhaps long since.
Wake ==
  /\ asleep /\ now >= next
  /\ Grant(next)

\* Another branch of the select! won and the future is dropped.
Cancel ==
  /\ asleep
  /\ asleep' = FALSE
  /\ UNCHANGED <<interval, now, next, log>>

Tick ==
  /\ now < MaxTime
  /\ now' = now + 1
  /\ UNCHANGED <<interval, next, asleep, log>>

PacerNext == Wait \/ Wake \/ Cancel \/ Tick

PacerSpec == PacerInit /\ [][PacerNext]_pacerVars

-----------------------------------------------------------------------------
Entry == [at : Nat, slot : Nat]

\* The variables keep to the values the code can give them.
PacerTypeOK ==
  /\ interval \in Intervals
  /\ now \in Nat
  /\ next \in Nat
  /\ asleep \in BOOLEAN
  /\ log \in Seq(Entry)

\* However the calls, delays and cancellations fall, the admissions of any
\* stretch of time are at most those of the offered rate, the slack, the timer
\* resolution and one more: a late pacer never repays its debt in a burst.
NoBurst ==
  \A i, j \in DOMAIN log :
    i < j => log[j].at + Resolution + Slack >= log[i].at + (j - i - 1) * interval

\* No slot is handed out twice, cancelled waits included, nor before its time
\* by the timer resolution or more.
SlotsAreSpaced ==
  \A i \in DOMAIN log :
    /\ log[i].slot <= log[i].at + Resolution
    /\ i > 1 => log[i].slot >= log[i - 1].slot + interval
=============================================================================
