-------------------------- MODULE ControlPlaneProofs --------------------------
(***************************************************************************)
(* Proofs about the session token and the cadence, for any cadences and    *)
(* any floor, whatever outages, expiries, lost or late requests, restarts  *)
(* and changes there are.                                                  *)
(***************************************************************************)
EXTENDS ControlPlane, TLAPS

\* What the heartbeat task knows: when its heartbeat carries a dead token, or
\* was refused, the session has ended, and its own copy is dead as well.
Heard ==
  /\ hb = "beating" /\ "beat" \notin current => ended /\ "heartbeat" \notin current
  /\ started /\ hb \in {"enrol", "enrolling", "enrolled"}
       => ended /\ "heartbeat" \notin current

\* A second attempt under way with a dead token is excused already.
ResentInv ==
  \A c \in Callers : call[c] = "resent" /\ c \notin current
                       => c \in excused /\ (c = "command" => ended)

SessionInv == TypeOK /\ StaleWithCause /\ Heard /\ ResentInv /\ RefusedWithCause

\* While no cycle runs, the clock is no further than the rest since the last.
ClockInv == ~cycling => elapsed <= rested

\* The clock runs at the cadence in the channel, unless a change of it waits for
\* the sync task: no change is lost, whatever a heartbeat, an enrolment, a cycle
\* or a restart of the clock come between.
ClockFollows == changed \/ period = channel

-----------------------------------------------------------------------------
(* The session. *)

\* The composition leaves the session as it is, or takes one of its steps.
LEMMA SessionSteps == [PlaneNext]_planeVars => [Next]_vars
BY DEF PlaneNext, planeVars, AloneInSession, Restarts, Ticks, Ends, TimePasses,
       Next, HeartbeatStep, vars

\* Nothing the cadence brings in takes a behaviour away from the session, its
\* fairness included: what holds of the session alone, its liveness too, holds
\* of the process.
THEOREM ImplementsSession == PlaneSpec => Spec
<1>1. PlaneInit => Init
  BY DEF PlaneInit
<1>2. [PlaneNext]_planeVars => [Next]_vars
  BY SessionSteps
<1> QED BY <1>1, <1>2, PTL DEF PlaneSpec, Spec, PlaneFairness

LEMMA SessionInit == Init => SessionInv
BY DEF Init, SessionInv, TypeOK, StaleWithCause, Heard, ResentInv,
       RefusedWithCause, Callers

USE DEF Callers, Copies, Holders

LEMMA SessionTyped == TypeOK /\ [Next]_vars => TypeOK'
<1> SUFFICES ASSUME TypeOK, [Next]_vars PROVE TypeOK'
  OBVIOUS
<1> USE DEF TypeOK
<1>1. CASE HeartbeatSend
  BY <1>1 DEF HeartbeatSend, Handed
<1>2. CASE ServeHeartbeat
  BY <1>2 DEF ServeHeartbeat, AfterRefusal, Resent
<1>3. CASE HeartbeatOk
  BY <1>3 DEF HeartbeatOk, Handed
<1>4. CASE EnrolSend
  BY <1>4 DEF EnrolSend
<1>5. CASE ServeEnrol
  BY <1>5 DEF ServeEnrol, NotEnrolled, AfterEnrolling, Resent
<1>6. CASE EnrolOk
  BY <1>6 DEF EnrolOk, Handed, ToldByEnrolment
<1>7. ASSUME NEW isLate \in BOOLEAN, GiveUp(isLate) PROVE TypeOK'
  BY <1>7 DEF GiveUp, LeftBehind, Handed, NotEnrolled, AfterFailure
<1>8. CASE CommandsEnd
  BY <1>8 DEF CommandsEnd
<1>9. ASSUME NEW c \in Callers, Call(c) PROVE TypeOK'
  BY <1>9 DEF Call, Handed
<1>10. ASSUME NEW c \in Callers, CallStep(c) PROVE TypeOK'
  BY <1>10 DEF CallStep, Serve, Resend, CallLost, Return, Stamped, Handed, Excuse
<1>11. CASE Expire \/ Revoke \/ ServeLate
  BY <1>11 DEF Expire, Revoke, ServeLate, EndBehindBack, Resent
<1>12. CASE Mint \/ Outage \/ UNCHANGED vars
  BY <1>12 DEF Mint, Outage, vars
<1>13. CASE Crash
  BY <1>13 DEF Crash, Handed
<1> QED BY <1>1, <1>2, <1>3, <1>4, <1>5, <1>6, <1>7, <1>8, <1>9, <1>10, <1>11,
           <1>12, <1>13 DEF Next, HeartbeatStep

\* A copy falls behind only by a rotation under way or the end of the session,
\* and what the heartbeat task knows of it is so.
LEMMA TokensHeard ==
  TypeOK /\ StaleWithCause /\ Heard /\ [Next]_vars => StaleWithCause' /\ Heard'
<1> SUFFICES ASSUME TypeOK, StaleWithCause, Heard, [Next]_vars
             PROVE  StaleWithCause' /\ Heard'
  OBVIOUS
<1> USE DEF TypeOK, StaleWithCause, Heard
<1>1. CASE HeartbeatSend
  BY <1>1 DEF HeartbeatSend, Handed
<1>2. CASE ServeHeartbeat
  BY <1>2 DEF ServeHeartbeat, AfterRefusal
<1>3. CASE HeartbeatOk
  BY <1>3 DEF HeartbeatOk, Handed
<1>4. CASE EnrolSend
  BY <1>4 DEF EnrolSend
<1>5. CASE ServeEnrol
  BY <1>5 DEF ServeEnrol, NotEnrolled, AfterEnrolling
<1>6. CASE EnrolOk
  BY <1>6 DEF EnrolOk, Handed, ToldByEnrolment
<1>7. ASSUME NEW isLate \in BOOLEAN, GiveUp(isLate) PROVE StaleWithCause' /\ Heard'
  BY <1>7 DEF GiveUp, LeftBehind, Handed, NotEnrolled, AfterFailure
<1>8. CASE CommandsEnd
  BY <1>8 DEF CommandsEnd
<1>9. ASSUME NEW c \in Callers, Call(c) \/ CallStep(c) PROVE StaleWithCause' /\ Heard'
  BY <1>9 DEF Call, CallStep, Serve, Resend, CallLost, Return, Stamped, Handed
<1>10. CASE Expire \/ Revoke \/ ServeLate
  BY <1>10 DEF Expire, Revoke, ServeLate, EndBehindBack
<1>11. CASE Mint \/ Outage \/ UNCHANGED vars
  BY <1>11 DEF Mint, Outage, vars
<1>12. CASE Crash
  BY <1>12 DEF Crash, Handed
<1> QED BY <1>1, <1>2, <1>3, <1>4, <1>5, <1>6, <1>7, <1>8, <1>9, <1>10, <1>11,
           <1>12 DEF Next, HeartbeatStep

\* Whoever takes the token of a second attempt away excuses it.
LEMMA RefusalsExcused ==
  SessionInv /\ [Next]_vars => ResentInv' /\ RefusedWithCause'
<1> SUFFICES ASSUME SessionInv, [Next]_vars PROVE ResentInv' /\ RefusedWithCause'
  OBVIOUS
<1> USE DEF SessionInv, TypeOK, StaleWithCause, ResentInv, RefusedWithCause
<1>1. CASE HeartbeatSend
  BY <1>1 DEF HeartbeatSend, Handed
<1>2. CASE ServeHeartbeat
  BY <1>2 DEF ServeHeartbeat, AfterRefusal, Resent
<1>3. CASE HeartbeatOk
  BY <1>3 DEF HeartbeatOk, Handed
<1>4. CASE EnrolSend
  BY <1>4 DEF EnrolSend
<1>5. CASE ServeEnrol
  BY <1>5 DEF ServeEnrol, NotEnrolled, AfterEnrolling, Resent
<1>6. CASE EnrolOk
  BY <1>6 DEF EnrolOk, Handed, ToldByEnrolment
<1>7. ASSUME NEW isLate \in BOOLEAN, GiveUp(isLate) PROVE ResentInv' /\ RefusedWithCause'
  BY <1>7 DEF GiveUp, LeftBehind, Handed, NotEnrolled, AfterFailure
<1>8. CASE CommandsEnd
  BY <1>8 DEF CommandsEnd
<1>9. ASSUME NEW c \in Callers, Call(c) PROVE ResentInv' /\ RefusedWithCause'
  BY <1>9 DEF Call, Handed
<1>10. ASSUME NEW c \in Callers, CallStep(c) PROVE ResentInv' /\ RefusedWithCause'
  <2>1. CASE Serve(c)
    BY <2>1 DEF Serve
  <2>2. CASE Resend(c)
    BY <2>2 DEF Resend, Stamped, Handed, Excuse
  <2>3. CASE CallLost(c) \/ Return(c)
    BY <2>3 DEF CallLost, Return
  <2> QED BY <1>10, <2>1, <2>2, <2>3 DEF CallStep
<1>11. CASE Expire \/ Revoke \/ ServeLate
  BY <1>11 DEF Expire, Revoke, ServeLate, EndBehindBack, Resent
<1>12. CASE Mint \/ Outage \/ UNCHANGED vars
  BY <1>12 DEF Mint, Outage, vars
<1>13. CASE Crash
  BY <1>13 DEF Crash, Handed
<1> QED BY <1>1, <1>2, <1>3, <1>4, <1>5, <1>6, <1>7, <1>8, <1>9, <1>10, <1>11,
           <1>12, <1>13 DEF Next, HeartbeatStep

LEMMA SessionInvariant == PlaneSpec => []SessionInv
<1>1. PlaneInit => SessionInv
  BY SessionInit DEF PlaneInit
<1>2. SessionInv /\ [Next]_vars => SessionInv'
  BY SessionTyped, TokensHeard, RefusalsExcused DEF SessionInv
<1>3. SessionInv /\ [PlaneNext]_planeVars => SessionInv'
  BY <1>2, SessionSteps
<1> QED BY <1>1, <1>3, PTL DEF PlaneSpec

\* The token every call reads lags behind the server's only for a cause, at any
\* cadence (runner.rs:238, 272).
THEOREM CopiesLagWithCause == PlaneSpec => []StaleWithCause
<1>1. SessionInv => StaleWithCause
  BY DEF SessionInv
<1> QED BY <1>1, SessionInvariant, PTL

\* A call is refused after its second attempt only if it met a rotation or the
\* end of the session, and a command's only the end (river_data_client.rs:720-744).
THEOREM RefusalsHaveCause == PlaneSpec => []RefusedWithCause
<1>1. SessionInv => RefusedWithCause
  BY DEF SessionInv
<1> QED BY <1>1, SessionInvariant, PTL

\* A running service enrols again only when its token was refused
\* (control_plane.rs:124-125).
THEOREM EnrolsOnlyWhenRefused == PlaneSpec => NoNeedlessEnrolment
<1> DEFINE Needed == started /\ hb' = "enrol" /\ started' => "heartbeat" \notin current
<1>1. SessionInv /\ [Next]_vars => [Needed]_vars
  <2> SUFFICES ASSUME SessionInv, Next, started, hb' = "enrol", started'
               PROVE  "heartbeat" \notin current
    BY DEF Needed
  <2>1. CASE hb = "enrol"
    BY <2>1 DEF SessionInv, Heard
  <2>2. CASE hb # "enrol"
    BY <2>2 DEF SessionInv, Heard, TypeOK, Next, HeartbeatStep, HeartbeatSend,
       ServeHeartbeat, HeartbeatOk, EnrolSend, ServeEnrol, EnrolOk, GiveUp,
       NotEnrolled, AfterFailure, AfterRefusal, CommandsEnd, Call, CallStep,
       Serve, Resend, CallLost, Return, Expire, Revoke, Mint, Outage, ServeLate, Crash
  <2> QED BY <2>1, <2>2
<1>2. SessionInv /\ [PlaneNext]_planeVars => [Needed]_vars
  BY <1>1, SessionSteps
<1> QED BY <1>2, SessionInvariant, PTL DEF PlaneSpec, NoNeedlessEnrolment

-----------------------------------------------------------------------------
(* The cadence. *)

LEMMA PeriodsInSight == Periods \subseteq 1..Horizon
<1> SUFFICES ASSUME NEW p \in Periods PROVE p \in 1..Horizon
  OBVIOUS
<1>1. p \in Settable \cup {Configured, Floor}
  BY DEF Periods
<1>2. p = Configured \/ p >= Floor
  BY DEF Periods
<1>3. p \in Nat /\ p <= Horizon
  BY <1>1, CadencesAreNat, HorizonIsFar
<1> QED BY <1>2, <1>3, CadencesAreNat

LEMMA ClampIsPeriod ==
  ASSUME told \in Settable \cup {C!Unset}
  PROVE  C!Clamp(told) \in Periods
BY CadencesAreNat DEF C!Clamp, C!Larger, C!Unset, Periods

LEMMA PlaneTyped == PlaneTypeOK /\ [PlaneNext]_planeVars => PlaneTypeOK'
<1> SUFFICES ASSUME PlaneTypeOK, [PlaneNext]_planeVars PROVE PlaneTypeOK'
  OBVIOUS
<1>1. TypeOK'
  BY SessionSteps, SessionTyped DEF PlaneTypeOK
<1>2. /\ period \in 1..Horizon /\ Horizon \in Nat /\ Configured \in Periods
      /\ 0 \in 0..Horizon /\ Horizon \in 0..Horizon
  BY PeriodsInSight, CadencesAreNat DEF PlaneTypeOK, Periods
<1> USE <1>1, <1>2 DEF PlaneTypeOK, C!clockVars, C!Unset
<1>3. ASSUME ServeHeartbeat \/ ServeEnrol, C!Answer PROVE PlaneTypeOK'
  BY <1>3 DEF C!Answer, ServeHeartbeat, ServeEnrol
<1>4. ASSUME HeartbeatOk, C!Reconcile PROVE PlaneTypeOK'
  <2>1. hb = "renewed" /\ started
    BY <1>4 DEF HeartbeatOk, TypeOK
  <2>2. C!Clamp(told) \in Periods
    BY ClampIsPeriod
  <2> QED BY <1>4, <2>1, <2>2 DEF C!Reconcile, C!OutOfDate, HeartbeatOk
<1>5. ASSUME EnrolOk, C!Reenrolled \/ C!Begin PROVE PlaneTypeOK'
  <2>1. C!Clamp(told) \in Periods
    BY ClampIsPeriod
  <2>2. CASE C!Reenrolled
    BY <1>5, <2>1, <2>2 DEF EnrolOk, C!Reenrolled, C!SentByReenrolment
  <2>3. CASE C!Begin
    <3>1. started'
      BY <1>5 DEF EnrolOk
    <3>2. /\ channel' \in Periods /\ period' \in Periods /\ elapsed' \in 0..Horizon
          /\ told' \in Settable \cup {C!Unset} /\ wanted' \in Settable \cup {C!Unset}
      BY <1>2, <2>1, <2>3 DEF C!Begin, C!Unset, PlaneTypeOK
    <3>3. changed' \in BOOLEAN /\ cycling' \in BOOLEAN
      BY <2>3, Zenon DEF C!Begin
    <3>4. rested' \in 0..Horizon
      <4>1. CASE cycling'
        BY <1>2, <2>3, <4>1, Zenon DEF C!Begin
      <4>2. CASE ~cycling'
        BY <1>2, <2>3, <4>2, Zenon DEF C!Begin
      <4> QED BY <4>1, <4>2
    <3> QED BY <3>1, <3>2, <3>3, <3>4, Zenon DEF PlaneTypeOK
  <2> QED BY <1>5, <2>2, <2>3
<1>6. ASSUME Crash, C!Stop PROVE PlaneTypeOK'
  <2>1. /\ channel' \in Periods /\ period' \in Periods /\ elapsed' \in 0..Horizon
        /\ rested' \in 0..Horizon
        /\ told' \in Settable \cup {C!Unset} /\ wanted' \in Settable \cup {C!Unset}
    BY <1>2, <1>6 DEF C!Stop
  <2>2. changed' = FALSE /\ cycling' = FALSE
    BY <1>6 DEF C!Stop
  <2> QED BY <1>1, <2>1, <2>2, Zenon
<1>7. ASSUME AloneInSession, ToldLost PROVE PlaneTypeOK'
  <2>1. started' = started
    BY <1>7 DEF AloneInSession, HeartbeatSend, CommandsEnd, EnrolSend, GiveUp, Call,
       CallStep, Serve, Resend, CallLost, Return, Expire, Revoke, Mint, Outage, ServeLate
  <2> QED BY <1>7, <2>1 DEF ToldLost, clockVars
<1>8. ASSUME C!SetCadence \/ C!Trigger, UNCHANGED vars PROVE PlaneTypeOK'
  <2>1. CASE C!SetCadence
    BY <1>8, <2>1 DEF C!SetCadence, vars
  <2>2. CASE C!Trigger
    BY <1>8, <2>2 DEF C!Trigger, C!Waiting, vars
  <2> QED BY <1>8, <2>1, <2>2
<1>9. CASE Restarts \/ Ticks \/ Ends
  <2>1. CASE Restarts
    <3>1. /\ channel' \in Periods /\ period' \in Periods /\ elapsed' \in 0..Horizon
          /\ rested' \in 0..Horizon
          /\ told' \in Settable \cup {C!Unset} /\ wanted' \in Settable \cup {C!Unset}
      BY <1>2, <2>1 DEF Restarts, C!ClockRestarts
    <3>2. changed' = FALSE /\ cycling' = cycling /\ ~cycling
      BY <2>1 DEF Restarts, C!ClockRestarts, C!Waiting
    <3> QED BY <1>1, <3>1, <3>2, Zenon
  <2>2. CASE Ticks
    BY <2>2 DEF Ticks, C!Tick, C!Waiting, vars
  <2>3. CASE Ends
    <3>1. /\ channel' \in Periods /\ period' \in Periods /\ elapsed' \in 0..Horizon
          /\ rested' \in 0..Horizon
          /\ told' \in Settable \cup {C!Unset} /\ wanted' \in Settable \cup {C!Unset}
      BY <1>2, <2>3 DEF Ends, C!CycleEnds, C!ResetByCycle
    <3>2. changed' = changed /\ cycling' = FALSE /\ started' = started
      BY <2>3 DEF Ends, C!CycleEnds, vars
    <3> QED BY <1>1, <3>1, <3>2, Zenon
  <2> QED BY <1>9, <2>1, <2>2, <2>3
<1>10. CASE TimePasses
  BY <1>10 DEF TimePasses, C!Pass, C!Due, vars
<1>11. CASE UNCHANGED planeVars
  BY <1>11 DEF planeVars, clockVars, vars
<1> QED BY <1>3, <1>4, <1>5, <1>6, <1>7, <1>8, <1>9, <1>10, <1>11 DEF PlaneNext

LEMMA ClockKept == PlaneTypeOK /\ ClockInv /\ [PlaneNext]_planeVars => ClockInv'
<1> SUFFICES ASSUME PlaneTypeOK, ClockInv, [PlaneNext]_planeVars PROVE ClockInv'
  OBVIOUS
<1> USE DEF ClockInv, C!clockVars
<1>1. elapsed \in 0..Horizon /\ rested \in 0..Horizon /\ period \in 1..Horizon
  BY PeriodsInSight DEF PlaneTypeOK
<1>2. CASE C!Answer \/ C!Reconcile \/ C!Reenrolled \/ C!SetCadence
  BY <1>2 DEF C!Answer, C!Reconcile, C!Reenrolled, C!SetCadence
<1>3. CASE C!Begin \/ C!Stop
  BY <1>3, CadencesAreNat DEF C!Begin, C!Stop
<1>4. CASE ToldLost
  BY <1>4 DEF ToldLost, clockVars
<1>5. CASE C!Trigger \/ C!ClockRestarts \/ C!Tick \/ C!CycleEnds
  BY <1>1, <1>5 DEF C!Trigger, C!ClockRestarts, C!Tick, C!CycleEnds, C!ResetByCycle
<1>6. CASE C!Pass
  BY <1>1, <1>6 DEF C!Pass, C!Due
<1>7. CASE UNCHANGED planeVars
  BY <1>7 DEF planeVars, clockVars
<1> QED BY <1>2, <1>3, <1>4, <1>5, <1>6, <1>7
        DEF PlaneNext, Restarts, Ticks, Ends, TimePasses

LEMMA PlaneStarts == PlaneInit => PlaneTypeOK /\ ClockInv
<1> SUFFICES ASSUME PlaneInit PROVE PlaneTypeOK /\ ClockInv
  OBVIOUS
<1>1. TypeOK
  BY SessionInit DEF PlaneInit, SessionInv
<1>2. Configured \in Periods /\ Horizon \in Nat /\ 0 \in 0..Horizon /\ Horizon \in 0..Horizon
  BY CadencesAreNat DEF Periods
<1>3. /\ channel \in Periods /\ period \in Periods /\ elapsed \in 0..Horizon
      /\ rested \in 0..Horizon
      /\ told \in Settable \cup {C!Unset} /\ wanted \in Settable \cup {C!Unset}
  BY <1>2 DEF PlaneInit, C!Init
<1>4. changed = FALSE /\ cycling = FALSE
  BY DEF PlaneInit, C!Init
<1>5. ClockInv
  BY <1>2 DEF PlaneInit, C!Init, ClockInv
<1> QED BY <1>1, <1>3, <1>4, <1>5, Zenon DEF PlaneTypeOK

\* Types of both parts, the floor of every period included (runner.rs:45-56).
THEOREM TypeCorrect == PlaneSpec => []PlaneTypeOK
BY PlaneStarts, PlaneTyped, PTL DEF PlaneSpec

\* Scheduled cycles begin a full interval after the previous cycle ended, at
\* every cadence and however often it changes (runner.rs:506-509).
THEOREM CyclesKeepApart == PlaneSpec => FullIntervalBetween
<1> DEFINE Apart == C!Tick /\ cycling' => rested >= period
<1>1. PlaneTypeOK /\ ClockInv => Apart
  <2>1. PlaneTypeOK => period \in Nat /\ elapsed \in Nat /\ rested \in Nat
    BY PeriodsInSight, CadencesAreNat DEF PlaneTypeOK
  <2> QED BY <2>1 DEF ClockInv, C!Tick, C!Waiting, C!Due
<1>2. PlaneTypeOK /\ ClockInv /\ [PlaneNext]_planeVars => [Apart]_planeVars
  BY <1>1
<1>3. PlaneSpec => [](PlaneTypeOK /\ ClockInv)
  BY PlaneStarts, PlaneTyped, ClockKept, PTL DEF PlaneSpec
<1> HIDE DEF Apart
<1>4. PlaneSpec => [][Apart]_planeVars
  BY <1>2, <1>3, PTL DEF PlaneSpec
<1> QED BY <1>4 DEF FullIntervalBetween, Apart

\* The safety half of CadenceAdopted: the sync task misses no change of the
\* cadence, at any cadence (runner.rs:245-253, 274-277, 387-397).
THEOREM NoChangeMissed == PlaneSpec => []ClockFollows
<1>1. PlaneInit => ClockFollows
  BY DEF PlaneInit, C!Init, ClockFollows
<1>2. PlaneTypeOK /\ ClockFollows /\ [PlaneNext]_planeVars => ClockFollows'
  <2> SUFFICES ASSUME PlaneTypeOK, ClockFollows, [PlaneNext]_planeVars
               PROVE  ClockFollows'
    OBVIOUS
  <2> USE DEF ClockFollows, C!clockVars
  <2>1. changed \in BOOLEAN
    BY DEF PlaneTypeOK
  <2>2. CASE C!Answer \/ C!SetCadence \/ C!Trigger \/ C!Tick \/ C!CycleEnds \/ C!Pass
    BY <2>2 DEF C!Answer, C!SetCadence, C!Trigger, C!Tick, C!CycleEnds, C!Pass
  <2>3. CASE C!Reconcile
    <3>1. CASE channel = C!Clamp(told)
      BY <2>3, <3>1 DEF C!Reconcile
    <3>2. CASE channel # C!Clamp(told)
      BY <2>3, <3>2, Zenon DEF C!Reconcile, C!OutOfDate
    <3> QED BY <3>1, <3>2
  <2>4. CASE C!Reenrolled \/ C!Begin \/ C!Stop \/ C!ClockRestarts
    BY <2>4, Zenon DEF C!Reenrolled, C!Begin, C!Stop, C!ClockRestarts
  <2>5. CASE ToldLost \/ UNCHANGED planeVars
    BY <2>5 DEF ToldLost, clockVars, planeVars
  <2> QED BY <2>2, <2>3, <2>4, <2>5 DEF PlaneNext, Restarts, Ticks, Ends, TimePasses
<1> QED BY <1>1, <1>2, TypeCorrect, PTL DEF PlaneSpec
=============================================================================
