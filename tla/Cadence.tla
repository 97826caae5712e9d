------------------------------- MODULE Cadence -------------------------------
(***************************************************************************)
(* The cadence of scheduled cycles (src/client/runner.rs): the one the     *)
(* operator sets at the server, the one the heartbeat task last put into   *)
(* the interval channel, and the clock of the sync task, which restarts    *)
(* when the channel changes and when a cycle ends.                         *)
(*                                                                         *)
(* Time is a number of units.  It passes while a cycle runs and while the  *)
(* sync task waits with nothing to react to: the task is not slow to wake. *)
(* Whether a trigger of the interval begins a cycle is the pause flag's    *)
(* choice, which is in Runner.                                             *)
(***************************************************************************)
EXTENDS Integers

CONSTANTS Configured,  \* sync_interval_secs of the configuration
          Floor,       \* MIN_SYNC_INTERVAL_SECS
          Settable,    \* the cadences an operator may set
          Horizon      \* the longest time there is to tell

VARIABLES
  running,   \* the tasks run
  wanted,    \* the cadence set at the server, or Unset
  told,      \* the one in the answer under way, or Unset
  channel,   \* the interval channel's value
  changed,   \* the sync task has not seen it yet
  period,    \* its interval's period
  elapsed,   \* the time since the interval was reset or ticked, until it is due
  cycling,   \* a cycle is running
  rested     \* history: the time since the last cycle ended, 0 during one

clockVars == <<period, elapsed, cycling, rested>>

\* No cadence, which is not the cadence 0.
Unset == -1

Larger(a, b) == IF a < b THEN b ELSE a

\* Mistake: the floor is forgotten.
ClampUnfloored(set) == IF set = Unset THEN Configured ELSE set

\* The operator's cadence, floored, or else the service's own.
Clamp(set) == IF set = Unset THEN Configured ELSE Larger(set, Floor)

Init ==
  /\ wanted \in Settable \cup {Unset} /\ told = Unset
  /\ channel = Configured /\ changed = FALSE
  /\ period = Configured /\ elapsed = 0
  /\ cycling = FALSE /\ rested = Horizon

\* The operator sets a cadence, or clears it.
SetCadence ==
  /\ wanted' \in (Settable \cup {Unset}) \ {wanted}
  /\ UNCHANGED <<told, channel, changed, clockVars>>

-----------------------------------------------------------------------------
(* The heartbeat task, and main before it. *)

\* The server answers a heartbeat or an enrolment.
Answer ==
  /\ told' = wanted
  /\ UNCHANGED <<wanted, channel, changed, clockVars>>

\* Mistake: every heartbeat sends.
OutOfDateAlways == TRUE

\* Whether a heartbeat has to send.
OutOfDate == channel # Clamp(told)

\* A heartbeat brings the channel up to date, and leaves it alone if it is.
Reconcile ==
  /\ channel' = Clamp(told) /\ told' = Unset
  /\ changed' = (changed \/ OutOfDate)
  /\ UNCHANGED <<wanted, clockVars>>

\* Mistake: a re-enrolment keeps the cadence there is.
KeptByReenrolment == channel

SentByReenrolment == Clamp(told)

\* A re-enrolment sends whether or not anything has changed.
Reenrolled ==
  /\ channel' = SentByReenrolment /\ told' = Unset
  /\ changed' = TRUE
  /\ UNCHANGED <<wanted, clockVars>>

\* The first enrolment starts the tasks, and queues a cycle.
Begin ==
  /\ channel' = Clamp(told) /\ told' = Unset
  /\ changed' = FALSE
  /\ period' = channel' /\ elapsed' = 0
  /\ cycling' \in BOOLEAN /\ rested' = IF cycling' THEN 0 ELSE Horizon
  /\ UNCHANGED wanted

Stop ==
  /\ told' = Unset
  /\ channel' = Configured /\ changed' = FALSE
  /\ period' = Configured /\ elapsed' = 0
  /\ cycling' = FALSE /\ rested' = Horizon
  /\ UNCHANGED wanted

-----------------------------------------------------------------------------
(* The sync task. *)

Waiting == running /\ ~cycling

Due == elapsed >= period

\* The cadence changed: the clock starts over, at the new period.
ClockRestarts ==
  /\ Waiting /\ changed
  /\ changed' = FALSE
  /\ period' = channel /\ elapsed' = 0
  /\ UNCHANGED <<wanted, told, channel, cycling, rested>>

\* The interval's trigger; select takes it, or a change, whichever it likes.
Tick ==
  /\ Waiting /\ Due
  /\ elapsed' = 0
  /\ cycling' \in BOOLEAN /\ rested' = IF cycling' THEN 0 ELSE rested
  /\ UNCHANGED <<wanted, told, channel, changed, period>>

\* The trigger of a command.
Trigger ==
  /\ Waiting /\ cycling' = TRUE /\ rested' = 0
  /\ UNCHANGED <<wanted, told, channel, changed, period, elapsed>>

\* Mistake: an overrun leaves its tick due.
AfterCycle == elapsed

\* interval.reset(): a full interval from here.
ResetByCycle == 0

CycleEnds ==
  /\ running /\ cycling
  /\ cycling' = FALSE /\ elapsed' = ResetByCycle
  /\ UNCHANGED <<wanted, told, channel, changed, period, rested>>

Pass ==
  /\ running /\ (cycling \/ ~(changed \/ Due))
  /\ elapsed' = IF Due THEN elapsed ELSE elapsed + 1
  /\ rested' = IF cycling \/ rested = Horizon THEN rested ELSE rested + 1
  /\ UNCHANGED <<wanted, told, channel, changed, period, cycling>>
=============================================================================
