------------------------------- MODULE Runner -------------------------------
(***************************************************************************)
(* The service runner (src/client/runner.rs): the heartbeat task, the sync *)
(* task and the main task of one process, and what the server keeps of     *)
(* them: the pause an operator asked for, the commands, and the ledger of  *)
(* cycles, one row each.                                                   *)
(*                                                                         *)
(* A cycle is opaque here, and so is a service command: each ends with     *)
(* some outcome.  A call that fails may or may not have been applied.  The *)
(* server, which is external, records whatever status it is sent, and      *)
(* keeps delivering a command for as long as it is pending, in any order.  *)
(***************************************************************************)
EXTENDS Integers, SequencesExt

CONSTANTS QueueCap,        \* the trigger channel's capacity
          CreateAttempts,  \* attempts at creating a row
          Issuable,        \* the kinds of command the operator issues
          MaxCommands,     \* how many of them
          MaxTicks,        \* scheduled cycles the interval starts
          MaxFaults,       \* calls that fail
          MaxRestarts      \* shutdowns and crashes

ASSUME RunnerBoundsAreNat ==
  /\ QueueCap \in Nat \ {0} /\ CreateAttempts \in Nat \ {0}
  /\ MaxCommands \in Nat /\ MaxTicks \in Nat
  /\ MaxFaults \in Nat /\ MaxRestarts \in Nat

\* "service" stands for any command the runner does not know itself.
Kinds    == {"trigger_sync", "pause", "resume", "service"}
Outcomes == {"completed", "partial", "failed"}

ASSUME IssuableAreKinds == Issuable \subseteq Kinds

Scheduled == 0   \* a trigger is a command, or this
NoEvent   == 0

VARIABLES
  serverPaused, \* the server's persisted pause flag
  commands,     \* the server's commands, in the order they were issued
  events,       \* the server's sync_events rows, in the order of creation
  main,         \* "enroll", "running", "closing" or "down"
  closing,      \* the row a shutdown is closing
  paused,       \* the pause channel
  queue,        \* the trigger channel
  hb,           \* the heartbeat task
  sync,         \* the sync task
  active,       \* active_event
  ran,          \* the commands whose cycle has started
  ticks, faults, restarts   \* used up of their bounds

serverVars == <<serverPaused, commands, events>>
counters   == <<ticks, faults, restarts>>
vars == <<serverVars, main, closing, paused, queue, hb, sync, active, ran, counters>>

HbWaiting   == [pc |-> "wait", inbox |-> <<>>, told |-> FALSE]
SyncWaiting == [pc |-> "select", trigger |-> Scheduled, attempt |-> 0,
                row |-> NoEvent, event |-> NoEvent, outcome |-> "completed"]

Alive == main \in {"running", "closing"}

Fault == faults < MaxFaults /\ faults' = faults + 1

Init ==
  /\ serverPaused \in BOOLEAN
  /\ commands = <<>> /\ events = <<>>
  /\ main = "enroll" /\ closing = NoEvent
  /\ paused = FALSE /\ queue = <<>>
  /\ hb = HbWaiting /\ sync = SyncWaiting /\ active = NoEvent
  /\ ran = {}
  /\ ticks = 0 /\ faults = 0 /\ restarts = 0

-----------------------------------------------------------------------------
(* The operator.  The server persists the pause it was asked for. *)

Pending == {c \in DOMAIN commands : commands[c].status = "pending"}

\* `behind`, a history field: the commands not completed when this was issued.
Issue(kind) ==
  /\ Len(commands) < MaxCommands
  /\ commands' = Append(commands,
       [kind |-> kind, status |-> "pending",
        behind |-> {c \in DOMAIN commands : commands[c].status # "completed"}])
  /\ serverPaused' = CASE kind = "pause"  -> TRUE
                       [] kind = "resume" -> FALSE
                       [] OTHER           -> serverPaused
  /\ UNCHANGED <<events, main, closing, paused, queue, hb, sync, active,
                 ran, counters>>

\* update_command and update_sync_event, whose errors nobody acts on.
UpdateCommand(c, status) ==
  \/ /\ commands' = [commands EXCEPT ![c].status = status]
     /\ UNCHANGED faults
  \/ /\ Fault
     /\ commands' \in {commands, [commands EXCEPT ![c].status = status]}

UpdateEvent(e, status) ==
  \/ /\ events' = [events EXCEPT ![e].status = status]
     /\ UNCHANGED faults
  \/ /\ Fault
     /\ events' \in {events, [events EXCEPT ![e].status = status]}

-----------------------------------------------------------------------------
(* The main task. *)

\* Mistake: the pause flag starts out clear, whatever the server says.
StartsClear == FALSE

\* The flag is seeded from what the server persists.
StartsPaused == serverPaused

\* The enrolment loop ends; both loops start, with one cycle queued.
Enroll ==
  /\ main = "enroll"
  /\ main' = "running"
  /\ paused' = StartsPaused
  /\ queue' = <<Scheduled>>
  /\ UNCHANGED <<serverVars, closing, hb, sync, active, ran, counters>>

\* What the process takes with it.
Die ==
  /\ main' = "down" /\ closing' = NoEvent
  /\ paused' = FALSE /\ queue' = <<>>
  /\ hb' = HbWaiting /\ sync' = SyncWaiting /\ active' = NoEvent

\* A termination signal: the row in flight, if any, is closed first, and the
\* other two tasks go on meanwhile.
Shutdown ==
  /\ main = "running"
  /\ restarts < MaxRestarts /\ restarts' = restarts + 1
  /\ IF active # NoEvent
       THEN /\ main' = "closing" /\ closing' = active
            /\ UNCHANGED <<paused, queue, hb, sync, active>>
       ELSE Die
  /\ UNCHANGED <<serverVars, ran, ticks, faults>>

CloseInFlight ==
  /\ main = "closing" /\ closing # NoEvent
  /\ UpdateEvent(closing, "failed")
  /\ closing' = NoEvent
  /\ UNCHANGED <<serverPaused, commands, main, paused, queue, hb, sync, active,
                 ran, ticks, restarts>>

Exit ==
  /\ main = "closing" /\ closing = NoEvent
  /\ Die
  /\ UNCHANGED <<serverVars, ran, counters>>

Crash ==
  /\ Alive
  /\ restarts < MaxRestarts /\ restarts' = restarts + 1
  /\ Die
  /\ UNCHANGED <<serverVars, ran, ticks, faults>>

Restart ==
  /\ main = "down" /\ main' = "enroll"
  /\ UNCHANGED <<serverVars, closing, paused, queue, hb, sync, active, ran, counters>>

-----------------------------------------------------------------------------
(* The heartbeat task. *)

\* Only these of the task's steps touch anything but the task itself.
HbOnly == UNCHANGED <<serverPaused, events, main, closing, sync, active, ran, ticks, restarts>>

\* The server answers a heartbeat; the answer is on its way.
Heartbeat ==
  /\ Alive /\ hb.pc = "wait"
  /\ \E inbox \in SetToSeqs(Pending) :
       hb' = [pc |-> "reply", inbox |-> inbox, told |-> serverPaused]
  /\ HbOnly /\ UNCHANGED <<commands, paused, queue, faults>>

\* Mistake: a command is the only way to change the pause flag.
Unreconciled == paused

\* The flag is the server's, as the answer has it.
Reconciled == hb.told

\* The pause flag is reconciled before the commands are handled.
HeartbeatOk ==
  /\ Alive /\ hb.pc = "reply"
  /\ paused' = Reconciled
  /\ hb' = [hb EXCEPT !.pc = IF hb.inbox = <<>> THEN "wait" ELSE "ack"]
  /\ HbOnly /\ UNCHANGED <<commands, queue, faults>>

\* The answer is lost, or it is an error: a 401 or 403 re-enrols, at once, which
\* brings the pause flag but no commands; anything else waits for the next
\* heartbeat, and so does an enrolment that fails in its turn.
HeartbeatFails ==
  /\ Alive /\ hb.pc = "reply"
  /\ Fault
  /\ paused' \in {paused, serverPaused}
  /\ hb' = HbWaiting
  /\ HbOnly /\ UNCHANGED <<commands, queue>>

Acknowledge ==
  /\ Alive /\ hb.pc = "ack"
  /\ UpdateCommand(Head(hb.inbox), "acknowledged")
  /\ hb' = [hb EXCEPT !.pc = "handle"]
  /\ HbOnly /\ UNCHANGED <<paused, queue>>

NextCommand(h) == [h EXCEPT !.inbox = Tail(h.inbox),
                            !.pc = IF Tail(h.inbox) = <<>> THEN "wait" ELSE "ack"]

\* Mistake: the channel has no bound.
RoomAlways == TRUE

Room == Len(queue) < QueueCap

\* send().await: the task waits here for as long as the channel is full.
QueueTrigger ==
  /\ Alive /\ hb.pc = "handle"
  /\ commands[Head(hb.inbox)].kind = "trigger_sync"
  /\ Room
  /\ queue' = Append(queue, Head(hb.inbox))
  /\ hb' = NextCommand(hb)
  /\ HbOnly /\ UNCHANGED <<commands, paused, faults>>

PauseOrResume ==
  /\ Alive /\ hb.pc = "handle"
  /\ commands[Head(hb.inbox)].kind \in {"pause", "resume"}
  /\ paused' = (commands[Head(hb.inbox)].kind = "pause")
  /\ hb' = [hb EXCEPT !.pc = "report"]
  /\ HbOnly /\ UNCHANGED <<commands, queue, faults>>

\* service.handle_command, inline: no heartbeat is sent until it is done.
ServiceCommandEnds ==
  /\ Alive /\ hb.pc = "handle"
  /\ commands[Head(hb.inbox)].kind = "service"
  /\ hb' = [hb EXCEPT !.pc = "report"]
  /\ HbOnly /\ UNCHANGED <<commands, paused, queue, faults>>

ReportHandled ==
  /\ Alive /\ hb.pc = "report"
  /\ \/ UpdateCommand(Head(hb.inbox), "completed")
     \/ /\ commands[Head(hb.inbox)].kind = "service"
        /\ UpdateCommand(Head(hb.inbox), "failed")
  /\ hb' = NextCommand(hb)
  /\ HbOnly /\ UNCHANGED <<paused, queue>>

HeartbeatStep ==
  \/ Heartbeat
  \/ HeartbeatOk
  \/ Acknowledge
  \/ QueueTrigger
  \/ PauseOrResume
  \/ ServiceCommandEnds
  \/ ReportHandled

-----------------------------------------------------------------------------
(* The sync task. *)

SyncOnly == UNCHANGED <<serverPaused, main, closing, paused, hb, restarts>>

\* Mistake: pause holds triggered cycles back too.
AllHeldBack(trigger) == paused

\* Pause holds scheduled cycles back, and no other.
HeldBack(trigger) == trigger = Scheduled /\ paused

Begin(trigger) ==
  IF HeldBack(trigger)
    THEN UNCHANGED <<sync, ran>>
    ELSE /\ sync' = [SyncWaiting EXCEPT !.pc = "create", !.trigger = trigger]
         /\ ran' = ran \cup ({trigger} \ {Scheduled})

Tick ==
  /\ Alive /\ sync.pc = "select"
  /\ ticks < MaxTicks /\ ticks' = ticks + 1
  /\ Begin(Scheduled)
  /\ SyncOnly /\ UNCHANGED <<commands, events, queue, active, faults>>

\* Mistake: nothing is taken from the queue while pause is set.
ReceivableUnlessPaused == queue # <<>> /\ ~paused

Receivable == queue # <<>>

Receive ==
  /\ Alive /\ sync.pc = "select"
  /\ Receivable
  /\ queue' = Tail(queue)
  /\ Begin(Head(queue))
  /\ SyncOnly /\ UNCHANGED <<commands, events, active, ticks, faults>>

\* The server creates the row; the answer is on its way.
CreateLands ==
  /\ Alive /\ sync.pc = "create" /\ sync.row = NoEvent
  /\ events' = Append(events, [status |-> "running"])
  /\ sync' = [sync EXCEPT !.row = Len(events) + 1]
  /\ SyncOnly /\ UNCHANGED <<commands, queue, active, ran, ticks, faults>>

\* Mistake: the id of the row is not kept for its close.
IdForgotten == NoEvent

AnsweredId == sync.row

CreateOk ==
  /\ Alive /\ sync.pc = "create" /\ sync.row # NoEvent
  /\ sync' = [sync EXCEPT !.pc = "sync", !.event = AnsweredId]
  /\ active' = sync.row
  /\ SyncOnly /\ UNCHANGED <<commands, events, queue, ran, ticks, faults>>

\* An attempt is refused, or its answer lost: the next one is a fresh request,
\* and after the last the cycle runs without a row.  So it does, at once and at
\* any attempt, when the server says the row is there and its answer cannot be
\* read.
CreateFails ==
  /\ Alive /\ sync.pc = "create"
  /\ Fault
  /\ \/ /\ sync.attempt + 1 < CreateAttempts
        /\ sync' = [sync EXCEPT !.attempt = @ + 1, !.row = NoEvent]
     \/ /\ sync.attempt + 1 = CreateAttempts \/ sync.row # NoEvent
        /\ sync' = [sync EXCEPT !.pc = "sync", !.row = NoEvent]
  /\ SyncOnly
  /\ UNCHANGED <<commands, events, queue, active, ran, ticks>>

AfterClose == IF sync.trigger = Scheduled THEN "select" ELSE "report"

\* service.sync returns: no row is in flight any more.
SyncEnds ==
  /\ Alive /\ sync.pc = "sync"
  /\ \E outcome \in Outcomes :
       sync' = [sync EXCEPT !.outcome = outcome,
                            !.pc = IF sync.event # NoEvent THEN "close"
                                                           ELSE AfterClose]
  /\ active' = NoEvent
  /\ SyncOnly
  /\ UNCHANGED <<commands, events, queue, ran, ticks, faults>>

CloseEvent ==
  /\ Alive /\ sync.pc = "close"
  /\ UpdateEvent(sync.event, sync.outcome)
  /\ sync' = [sync EXCEPT !.pc = AfterClose]
  /\ SyncOnly /\ UNCHANGED <<commands, queue, active, ran, ticks>>

ReportCycle ==
  /\ Alive /\ sync.pc = "report"
  /\ UpdateCommand(sync.trigger,
                   IF sync.outcome = "failed" THEN "failed" ELSE "completed")
  /\ sync' = SyncWaiting
  /\ SyncOnly /\ UNCHANGED <<events, queue, active, ran, ticks>>

SyncStep ==
  \/ Receive
  \/ CreateLands
  \/ CreateOk
  \/ SyncEnds
  \/ CloseEvent
  \/ ReportCycle

-----------------------------------------------------------------------------
MainStep == Enroll \/ CloseInFlight \/ Exit \/ Restart

Next ==
  \/ \E kind \in Issuable : Issue(kind)
  \/ MainStep
  \/ Shutdown
  \/ Crash
  \/ HeartbeatStep
  \/ HeartbeatFails
  \/ Tick
  \/ SyncStep
  \/ CreateFails

\* Each task keeps going: its timers fire, its calls return, cycles and
\* service commands end, and the process is started again.
Fairness == WF_vars(MainStep) /\ WF_vars(HeartbeatStep) /\ WF_vars(SyncStep)

Spec == Init /\ [][Next]_vars /\ Fairness

-----------------------------------------------------------------------------
Commands == 1..Len(commands)

TypeOK ==
  /\ serverPaused \in BOOLEAN
  /\ commands \in Seq([kind : Kinds, behind : SUBSET Nat,
                       status : {"pending", "acknowledged", "completed", "failed"}])
  /\ events \in Seq([status : Outcomes \cup {"running"}])
  /\ main \in {"enroll", "running", "closing", "down"}
  /\ closing \in 0..Len(events)
  /\ paused \in BOOLEAN
  /\ queue \in Seq(0..Len(commands)) /\ Len(queue) <= QueueCap
  /\ hb \in [pc : {"wait", "reply", "ack", "handle", "report"},
             inbox : Seq(Commands), told : BOOLEAN]
  /\ hb.pc \in {"ack", "handle", "report"} => hb.inbox # <<>>
  /\ sync \in [pc : {"select", "create", "sync", "close", "report"},
               trigger : 0..Len(commands), attempt : 0..(CreateAttempts - 1),
               row : 0..Len(events), event : 0..Len(events), outcome : Outcomes]
  /\ active \in 0..Len(events)
  /\ ran \subseteq Commands
  /\ ticks \in 0..MaxTicks /\ faults \in 0..MaxFaults /\ restarts \in 0..MaxRestarts

Flags(c) == commands[c].kind \in {"pause", "resume"}
Wants(c) == commands[c].kind = "pause"

Contrary(c, d) == Flags(c) /\ Flags(d) /\ commands[c].kind # commands[d].kind

\* The last word on the pause, and reported completed: none to the contrary was
\* issued after it, or was still open when it was.
Holds(c) ==
  /\ Flags(c) /\ commands[c].status = "completed"
  /\ \A d \in Commands : Contrary(c, d) => d < c /\ d \notin commands[c].behind

\* An operator's last word sticks: once a pause is reported completed no
\* scheduled cycle starts, and once a resume is, none is held back, across lost
\* answers, commands delivered twice or in any order, re-enrolments and restarts
\* of the process (runner.rs:122-127, 337-358, protocol.rs:19-20).
LastWordSticks ==
  [][/\ sync.pc = "select" /\ sync'.pc = "create" /\ sync'.trigger = Scheduled
          => ~\E c \in Commands : Holds(c) /\ Wants(c)
     /\ (Tick \/ Receive) /\ sync'.pc = "select"
          => ~\E c \in Commands : Holds(c) /\ ~Wants(c)]_vars

\* The row of the cycle in progress, while the sync task still means to close it.
OwnRow == {sync.event, sync.row} \ {NoEvent}

LeftOpen ==
  {e \in DOMAIN events : events[e].status = "running"} \
     (IF sync.pc \in {"create", "sync", "close"} THEN OwnRow ELSE {})

\* A row is left running for ever only by a failure, and one failure leaves at
\* most one: whatever the retries and the races between the sync task and a
\* shutdown, the ledger never has more dead rows than failures and restarts
\* (runner.rs:421-474, 181-190, river_data_client.rs:663-697).
DeadRowsArePaidFor == Cardinality(LeftOpen) <= faults + restarts

\* Once operators and failures have gone quiet, the running service agrees
\* with the server on whether it is paused, whatever was delivered twice, late
\* or out of order before (runner.rs:240-243).
PauseConverges == <>[](main = "running" /\ paused = serverPaused)

\* No task is ever stuck on another: a heartbeat that is handling commands,
\* full queue or not, is followed by another (runner.rs:309, 386).
HeartbeatsGoOn == hb.pc # "wait" ~> hb.pc = "wait"

\* Every sync command is run, paused or not, whatever answers and reports are
\* lost, as long as the process stays up (runner.rs:308-323, 404).
EveryTriggerRuns ==
  \A c \in 1..MaxCommands :
    c \in Commands /\ commands[c].kind = "trigger_sync" ~> c \in ran
=============================================================================
