------------------------------- MODULE Session -------------------------------
(***************************************************************************)
(* The session token of the process.  The heartbeat task holds one copy    *)
(* (ControlPlaneClient.session_token), the client of the data API another  *)
(* (RiverDataClient.token), read by every call of both tasks.  The server  *)
(* replaces the token at every heartbeat and at enrolment, and refuses any *)
(* other; a refused call is sent once more with the token as it is then.   *)
(*                                                                         *)
(* Tokens are not counted: `current' names those who hold the one the      *)
(* server accepts, so that heartbeats can go on for ever.                  *)
(***************************************************************************)
EXTENDS FiniteSets

VARIABLES
  granted,  \* the credentials are accepted
  up,       \* calls get through and are answered
  current,  \* who holds the token the server accepts: a subset of Holders
  late,     \* requests given up on that may still be served
  started,  \* the first enrolment is done and the tasks run
  hb,       \* what the heartbeat task, or main before it, is at
  call,     \* per caller: the call under way
  ended,    \* history: the session ended behind the client's back
  excused   \* history: callers whose second attempt met a reason to fail

vars == <<granted, up, current, late, started, hb, call, ended, excused>>

\* The sync task, and the commands that the heartbeat task runs itself.
Callers == {"sync", "command"}

\* The two copies, the token in an answer under way, and those in requests.
Copies  == {"heartbeat", "client"}
Holders == Copies \cup Callers \cup {"reply", "beat", "lateBeat"}

\* `from' hands its token, current or not, to everyone in `to'.
Handed(from, to) == IF from \in current THEN current \cup to ELSE current \ to

-----------------------------------------------------------------------------
(* The server, and whatever may happen to the session there. *)

Resent == {c \in Callers : call[c] = "resent"}

\* The session the copies belong to is over, and nobody tells the client.
EndBehindBack == ended' = TRUE /\ excused' = excused \cup Resent

\* A token outlives the call that brings it: 900 s against 30 s.
Expire ==
  /\ current # {} /\ hb \notin {"renewed", "enrolled"}
  /\ current' = {} /\ EndBehindBack
  /\ UNCHANGED <<granted, up, late, started, hb, call>>

Revoke ==
  /\ granted /\ granted' = FALSE
  /\ current' = {} /\ EndBehindBack
  /\ UNCHANGED <<up, late, started, hb, call>>

Mint ==
  /\ ~granted /\ granted' = TRUE
  /\ UNCHANGED <<up, current, late, started, hb, call, ended, excused>>

Outage == up' = ~up
          /\ UNCHANGED <<granted, current, late, started, hb, call, ended, excused>>

\* Whether enrolling ends a session that is still good is the server's choice.
AfterEnrolling(holders) == {holders, holders \cup current}

ServeLate ==
  \/ /\ "beat" \in late /\ late' = late \ {"beat"}
     /\ IF "lateBeat" \in current THEN current' = {} /\ EndBehindBack
                                  ELSE UNCHANGED <<current, ended, excused>>
     /\ UNCHANGED <<granted, up, started, hb, call>>
  \/ /\ "enrol" \in late /\ late' = late \ {"enrol"}
     /\ \/ granted /\ current' = {} /\ EndBehindBack
        \/ UNCHANGED <<current, ended, excused>>
     /\ UNCHANGED <<granted, up, started, hb, call>>

-----------------------------------------------------------------------------
(* The heartbeat task, and main before it. *)

Init ==
  /\ granted \in BOOLEAN /\ up \in BOOLEAN
  /\ current = {} /\ late = {}
  /\ started = FALSE /\ hb = "enrol"
  /\ call = [c \in Callers |-> "idle"]
  /\ ended = FALSE /\ excused = {}

HeartbeatSend ==
  /\ hb = "idle" /\ hb' = "beating"
  /\ current' = Handed("heartbeat", {"beat"})
  /\ UNCHANGED <<granted, up, late, started, call, ended, excused>>

\* Mistake: a refused heartbeat is taken for one that failed.
RefusedKeepsOn == "idle"

\* What the task does next when its heartbeat is refused.
AfterRefusal == "enrol"

\* A new token in the answer, the old one void at once; or a 401 or 403.
ServeHeartbeat ==
  /\ hb = "beating" /\ up
  /\ IF "beat" \in current
       THEN hb' = "renewed" /\ current' = {"reply"} /\ excused' = excused \cup Resent
       ELSE hb' = AfterRefusal /\ UNCHANGED <<current, excused>>
  /\ UNCHANGED <<granted, up, late, started, call, ended>>

HeartbeatOk ==
  /\ hb = "renewed" /\ hb' = "commands"
  /\ current' = Handed("reply", Copies) \ {"reply"}
  /\ ended' = ("reply" \notin current)
  /\ UNCHANGED <<granted, up, late, started, call, excused>>

\* The last of the pending commands has been handled.
CommandsEnd ==
  /\ hb = "commands" /\ call["command"] = "idle"
  /\ hb' = "idle"
  /\ UNCHANGED <<granted, up, current, late, started, call, ended, excused>>

EnrolSend ==
  /\ hb = "enrol" /\ hb' = "enrolling"
  /\ UNCHANGED <<granted, up, current, late, started, call, ended, excused>>

\* Before the tasks run an enrolment is retried, afterwards it waits for the
\* next heartbeat to be refused.
NotEnrolled == IF started THEN "idle" ELSE "enrol"

ServeEnrol ==
  /\ hb = "enrolling" /\ up
  /\ IF granted THEN hb' = "enrolled" /\ current' \in AfterEnrolling({"reply"})
                ELSE hb' = NotEnrolled /\ UNCHANGED current
  /\ excused' = excused \cup Resent
  /\ UNCHANGED <<granted, up, late, started, call, ended>>

\* Mistake: the client of the data API keeps the token of the old session.
ClientUntold == {"heartbeat"}

\* Those an enrolment gives its token to.
ToldByEnrolment == Copies

EnrolOk ==
  /\ hb = "enrolled" /\ hb' = "idle"
  /\ started' = TRUE
  /\ current' = Handed("reply", ToldByEnrolment) \ {"reply"}
  /\ ended' = ("reply" \notin current)
  /\ UNCHANGED <<granted, up, late, call, excused>>

\* What is under way may still be served, and an answer is lost.
LeftBehind(isLate) ==
  /\ late' = late \cup (IF ~isLate THEN {}
                        ELSE IF hb = "beating" THEN {"beat"}
                        ELSE IF hb = "enrolling" THEN {"enrol"} ELSE {})
  /\ current' = (IF isLate /\ hb = "beating" THEN Handed("beat", {"lateBeat"})
                                             ELSE current) \ {"reply"}

\* Mistake: every failure of a heartbeat is taken for a refusal.
FailureEnrols == "enrol"

\* What the task does next when its heartbeat fails.
AfterFailure == "idle"

\* A timeout, a lost answer or a 5xx: the token in hand is kept.
GiveUp(isLate) ==
  /\ ~up
  /\ \/ hb \in {"beating", "renewed"} /\ hb' = AfterFailure
     \/ hb \in {"enrolling", "enrolled"} /\ hb' = NotEnrolled
  /\ LeftBehind(isLate)
  /\ ended' = (ended \/ hb \in {"renewed", "enrolled"})
  /\ UNCHANGED <<granted, up, started, call, excused>>

\* The process is restarted.
Crash ==
  /\ started
  /\ \E isLate \in BOOLEAN :
       /\ late' = late \cup (IF isLate /\ hb = "beating" THEN {"beat"} ELSE {})
                       \cup (IF isLate /\ hb = "enrolling" THEN {"enrol"} ELSE {})
       /\ current' = IF isLate /\ hb = "beating"
                       THEN Handed("beat", {"lateBeat"}) \cap {"lateBeat"}
                       ELSE current \cap {"lateBeat"}
  /\ started' = FALSE /\ hb' = "enrol"
  /\ call' = [c \in Callers |-> "idle"]
  /\ ended' = FALSE /\ excused' = {}
  /\ UNCHANGED <<granted, up>>

-----------------------------------------------------------------------------
(* The calls of the data API: send_authorized. *)

Call(c) ==
  /\ started /\ call[c] = "idle"
  /\ c = "command" => hb = "commands"
  /\ call' = [call EXCEPT ![c] = "sent"]
  /\ current' = Handed("client", {c})
  /\ excused' = excused \ {c}
  /\ UNCHANGED <<granted, up, late, started, hb, ended>>

Serve(c) ==
  /\ up /\ call[c] \in {"sent", "resent"}
  /\ call' = [call EXCEPT ![c] = IF c \in current THEN "idle"
                                 ELSE IF @ = "sent" THEN "denied" ELSE "refused"]
  /\ UNCHANGED <<granted, up, current, late, started, hb, ended, excused>>

\* A rotation under way, or a session that has ended, is a reason to fail.
Excuse(c) == IF ended \/ hb = "renewed" THEN excused \cup {c} ELSE excused

\* Mistake: the second attempt is a copy of the first.
Copied(c) == current

\* The call carries the token as it stands now.
Stamped(c) == Handed("client", {c})

\* Once more.
Resend(c) ==
  /\ call[c] = "denied" /\ call' = [call EXCEPT ![c] = "resent"]
  /\ current' = Stamped(c)
  /\ excused' = Excuse(c)
  /\ UNCHANGED <<granted, up, late, started, hb, ended>>

CallLost(c) ==
  /\ ~up /\ call[c] \in {"sent", "denied", "resent"}
  /\ call' = [call EXCEPT ![c] = "idle"]
  /\ UNCHANGED <<granted, up, current, late, started, hb, ended, excused>>

\* The caller is told that it was refused.
Return(c) ==
  /\ call[c] = "refused" /\ call' = [call EXCEPT ![c] = "idle"]
  /\ UNCHANGED <<granted, up, current, late, started, hb, ended, excused>>

-----------------------------------------------------------------------------
HeartbeatStep ==
  \/ HeartbeatSend \/ ServeHeartbeat \/ HeartbeatOk
  \/ EnrolSend \/ ServeEnrol \/ EnrolOk
  \/ \E isLate \in BOOLEAN : GiveUp(isLate)

CallStep(c) == Serve(c) \/ Resend(c) \/ CallLost(c) \/ Return(c)

Next ==
  \/ HeartbeatStep
  \/ CommandsEnd
  \/ \E c \in Callers : Call(c) \/ CallStep(c)
  \/ Expire \/ Revoke \/ Mint \/ Outage \/ ServeLate
  \/ Crash

\* Heartbeats follow each other, every call has a timeout, and a command is a
\* finite series of calls.
Fairness ==
  /\ WF_vars(HeartbeatStep)
  /\ \A c \in Callers : WF_vars(CallStep(c))
  /\ SF_vars(CommandsEnd)

Spec == Init /\ [][Next]_vars /\ Fairness

-----------------------------------------------------------------------------
TypeOK ==
  /\ granted \in BOOLEAN /\ up \in BOOLEAN /\ started \in BOOLEAN
  /\ current \subseteq Holders /\ late \subseteq {"beat", "enrol"}
  /\ hb \in {"idle", "beating", "renewed", "commands", "enrol", "enrolling", "enrolled"}
  /\ call \in [Callers -> {"idle", "sent", "denied", "resent", "refused"}]
  /\ call["command"] # "idle" => hb = "commands"
  /\ ~started => hb \in {"enrol", "enrolling", "enrolled"} /\ call["sync"] = "idle"
  /\ ended \in BOOLEAN /\ excused \subseteq Callers

\* The token every call reads lags behind the server's only while the answer of
\* a heartbeat is under way, or after the session ended at the server: neither
\* a heartbeat nor a re-enrolment leaves a copy behind (runner.rs:238, 272).
StaleWithCause ==
  started /\ ~(Copies \subseteq current) => ended \/ hb = "renewed"

\* A call refused after its second attempt met a rotation or the end of the
\* session during that attempt; one of a command can only have met the end,
\* for the task that rotates the token is busy with the command
\* (river_data_client.rs:720-744, runner.rs:349).
RefusedWithCause ==
  \A c \in Callers : call[c] = "refused" => c \in excused /\ (c = "command" => ended)

\* A running service enrols again only when its token was refused: a server
\* that fails "must not start re-enrollment" (control_plane.rs:124-125).
NoNeedlessEnrolment ==
  [][started /\ hb' = "enrol" /\ started' => "heartbeat" \notin current]_vars

\* Once calls get through, the credentials stand and restarts cease, whatever was
\* lost, revoked or served late before, and however often sessions expire, both
\* copies are the server's again and again.
SessionRecovers ==
  <>[](up /\ granted) /\ <>[][started => started']_vars
    => []<>(started /\ Copies \subseteq current)
=============================================================================
