---------------------------- MODULE ControlPlane ----------------------------
(***************************************************************************)
(* The runner against the control plane: the session of Session and the    *)
(* cadence of Cadence, in one process.  Every answer that brings a token   *)
(* brings a cadence, an enrolment that starts the tasks starts the clock,  *)
(* a restart stops it, and the sync task calls the server within a cycle.  *)
(***************************************************************************)
EXTENDS Session, Integers

CONSTANTS Configured, Floor, Settable, Horizon

ASSUME CadencesAreNat ==
  /\ Configured \in Nat \ {0} /\ Floor \in Nat \ {0} /\ Horizon \in Nat
  /\ Settable \subseteq Nat

ASSUME HorizonIsFar == \A p \in Settable \cup {Configured, Floor} : p <= Horizon

VARIABLES wanted, told, channel, changed, period, elapsed, cycling, rested

C == INSTANCE Cadence WITH running <- started

clockVars == <<period, elapsed, cycling, rested>>
planeVars == <<vars, wanted, told, channel, changed, clockVars>>

PlaneInit == Init /\ C!Init

\* An answer that is given up on takes its cadence with it.
ToldLost ==
  /\ told' = IF hb' \in {"renewed", "enrolled"} THEN told ELSE C!Unset
  /\ UNCHANGED <<wanted, channel, changed, clockVars>>

AloneInSession ==
  \/ HeartbeatSend \/ CommandsEnd \/ EnrolSend
  \/ \E isLate \in BOOLEAN : GiveUp(isLate)
  \/ \E c \in Callers : (c = "sync" => cycling) /\ Call(c)
  \/ \E c \in Callers : CallStep(c)
  \/ Expire \/ Revoke \/ Mint \/ Outage \/ ServeLate

Restarts == C!ClockRestarts /\ UNCHANGED vars

Ticks == C!Tick /\ UNCHANGED vars

\* The calls of a cycle end before it does.
Ends == call["sync"] = "idle" /\ C!CycleEnds /\ UNCHANGED vars

TimePasses == C!Pass /\ UNCHANGED vars

PlaneNext ==
  \/ (ServeHeartbeat \/ ServeEnrol) /\ C!Answer
  \/ HeartbeatOk /\ C!Reconcile
  \/ EnrolOk /\ (IF started THEN C!Reenrolled ELSE C!Begin)
  \/ Crash /\ C!Stop
  \/ AloneInSession /\ ToldLost
  \/ (C!SetCadence \/ (hb = "commands" /\ C!Trigger)) /\ UNCHANGED vars
  \/ Restarts \/ Ticks \/ Ends \/ TimePasses

\* Beside the session's: time passes and a clock that is due ticks, select!
\* chooses at random among what is ready, a change of the cadence included, and
\* a cycle, which is a finite series of calls, ends.
PlaneFairness ==
  /\ Fairness
  /\ WF_planeVars(TimePasses \/ Ticks)
  /\ SF_planeVars(Restarts) /\ SF_planeVars(Ends)

PlaneSpec == PlaneInit /\ [][PlaneNext]_planeVars /\ PlaneFairness

-----------------------------------------------------------------------------
Periods == {Configured} \cup {p \in Settable \cup {Floor} : p >= Floor}

\* The types of both parts; no period is below the floor, unless the service is
\* configured so (runner.rs:45-56).
PlaneTypeOK ==
  /\ TypeOK
  /\ wanted \in Settable \cup {C!Unset} /\ told \in Settable \cup {C!Unset}
  /\ channel \in Periods /\ period \in Periods
  /\ changed \in BOOLEAN /\ cycling \in BOOLEAN
  /\ elapsed \in 0..Horizon /\ rested \in 0..Horizon
  /\ ~started => ~cycling /\ ~changed

\* "Scheduled cycles always begin a full interval after the previous one
\* completed" (runner.rs:506-509), overruns, commands' cycles and changes of
\* the cadence, before, during and after it, notwithstanding: the interval is
\* the one the clock runs at.
FullIntervalBetween ==
  [][C!Tick /\ cycling' => rested >= period]_planeVars

Stands == <>[](up /\ granted) /\ <>[][started => started']_vars

\* Once the operator leaves the cadence alone, calls get through and restarts
\* cease, the clock runs at that cadence for good: a heartbeat or an enrolment
\* brings it, whichever the session allows (runner.rs:245-253, 274-277).
CadenceAdopted ==
  Stands /\ <>[][wanted' = wanted]_planeVars
    => <>[](started => period = C!Clamp(wanted))

\* Scheduled triggers go on, whatever the heartbeats come to, once operators leave
\* the cadence alone and send no commands that start cycles (each resets the clock
\* when it ends), and no re-enrolment restarts the clock again and again, as one
\* does even when the cadence is the same (runner.rs:274, 387-397, 506-509).
TicksGoOn ==
  <>[](started /\ hb # "enrolled") /\ <>[][wanted' = wanted /\ ~C!Trigger]_planeVars
    => []<><<C!Tick>>_planeVars
=============================================================================
