------------------------------ MODULE RunnerProofs ------------------------------
(***************************************************************************)
(* Proofs about the runner: the ledger has no more dead rows than there    *)
(* were failures, and an operator's last word on the pause sticks once it  *)
(* is reported completed, whatever is lost, delivered twice or restarted.  *)
(***************************************************************************)
EXTENDS Runner, FiniteSetTheorems, SequenceTheorems, TLAPS

Statuses == {"pending", "acknowledged", "completed", "failed"}
Command  == [kind : Kinds, behind : SUBSET Nat, status : Statuses]
Event    == [status : Outcomes \cup {"running"}]

\* A process that is down, or not enrolled, handles no command.
Still == ~Alive => hb.pc = "wait"

\* Only sync commands are queued as triggers, and only their cycles report.
IsTrigger(c) == c = Scheduled \/ commands[c].kind = "trigger_sync"

Triggers ==
  /\ \A i \in 1..Len(queue) : IsTrigger(queue[i])
  /\ IsTrigger(sync.trigger)
  /\ sync.pc = "report" => sync.trigger # Scheduled

\* The row of a cycle, from its creation to its close.
Rows ==
  /\ sync.pc = "create" => sync.event = NoEvent
  /\ sync.pc \in {"sync", "close"} => sync.event = sync.row
  /\ sync.pc = "close" => sync.event # NoEvent

\* Of the statuses, those that are no verdict.
Underway == {"pending", "acknowledged"}

\* A command is handled once per delivery: of what a heartbeat still has to handle
\* it has reported nothing, sync commands excepted, of which it never does.
Inbox ==
  /\ \A i, j \in 1..Len(hb.inbox) : i # j => hb.inbox[i] # hb.inbox[j]
  /\ \A i \in 1..Len(hb.inbox) :
       commands[hb.inbox[i]].kind # "trigger_sync" => commands[hb.inbox[i]].status \in Underway
  /\ hb.pc = "report" => commands[Head(hb.inbox)].kind # "trigger_sync"

\* A word on the pause to which none to the contrary was issued after it.
Standing(c) == Flags(c) /\ \A d \in Commands : Contrary(c, d) => d < c

\* Why a word that holds is known to the process: the server has it, and so has
\* every answer but one that left before it was issued, and whatever such an
\* answer or a late word to the contrary undoes is put right by the command
\* itself, before it is reported.
Pauses ==
  /\ \A c \in Commands : Standing(c) => (serverPaused <=> Wants(c))
  /\ hb.pc = "reply"
       => \A c \in Commands :
            Standing(c) => (hb.told <=> Wants(c)) \/ commands[c].status = "pending"
  /\ \A c, d \in Commands :
       d < c /\ Flags(d) /\ d \notin commands[c].behind => commands[d].status = "completed"
  /\ hb.pc = "report" /\ Flags(Head(hb.inbox)) => (paused <=> Wants(Head(hb.inbox)))
  /\ Alive => \A c \in Commands : Holds(c) => (paused <=> Wants(c))

-----------------------------------------------------------------------------
(* What the server keeps. *)

LEMMA CommandsSound ==
  ASSUME TypeOK
  PROVE  /\ commands \in Seq(Command) /\ Len(commands) \in Nat
         /\ DOMAIN commands = Commands /\ \A c \in Commands : commands[c] \in Command
         /\ events \in Seq(Event) /\ Len(events) \in Nat
         /\ DOMAIN events = 1..Len(events) /\ \A e \in 1..Len(events) : events[e] \in Event
<1>1. commands \in Seq(Command) /\ events \in Seq(Event)
  BY DEF TypeOK, Command, Event, Statuses
<1>2. /\ \A c \in 1..Len(commands) : commands[c] \in Command
      /\ \A e \in 1..Len(events) : events[e] \in Event
  BY <1>1, ElementOfSeq
<1> QED BY <1>1, <1>2, LenProperties DEF Commands

\* A fault is counted.
LEMMA FaultCounts ==
  ASSUME TypeOK, faults' = faults \/ Fault
  PROVE  faults \in Nat /\ faults' \in 0..MaxFaults /\ faults' >= faults
<1>1. faults \in 0..MaxFaults /\ MaxFaults \in Nat
  BY RunnerBoundsAreNat DEF TypeOK
<1> QED BY <1>1 DEF Fault

\* An update changes the status of one command or of none, and nothing else.
LEMMA UpdateCommandSound ==
  ASSUME TypeOK, NEW c \in Commands, NEW status \in Statuses, UpdateCommand(c, status)
  PROVE  /\ commands' \in Seq(Command) /\ Len(commands') = Len(commands)
         /\ \A d \in Commands :
              /\ commands'[d].kind = commands[d].kind
              /\ commands'[d].behind = commands[d].behind
              /\ d # c => commands'[d].status = commands[d].status
         /\ commands'[c].status \in {commands[c].status, status}
         /\ faults' = faults \/ Fault
<1> DEFINE new == [commands EXCEPT ![c].status = status]
           rec == [commands[c] EXCEPT !.status = status]
<1>1. commands \in Seq(Command) /\ c \in 1..Len(commands) /\ commands[c] \in Command
  BY CommandsSound DEF Commands
<1>2. /\ rec \in Command /\ rec.kind = commands[c].kind /\ rec.behind = commands[c].behind
      /\ rec.status = status
  BY <1>1 DEF Command
<1>3. new = [commands EXCEPT ![c] = rec]
  OBVIOUS
<1> HIDE DEF rec, new
<1>4. /\ new \in Seq(Command) /\ Len(new) = Len(commands)
      /\ \A d \in 1..Len(commands) : new[d] = IF d = c THEN rec ELSE commands[d]
  BY <1>1, <1>2, <1>3, ExceptSeq
<1>5. commands' = new \/ commands' = commands
  BY DEF UpdateCommand, new
<1>6. faults' = faults \/ Fault
  BY DEF UpdateCommand
<1> QED BY <1>1, <1>2, <1>4, <1>5, <1>6 DEF Commands

\* An update of a row is recorded, or it is a failure.
LEMMA UpdateEventSound ==
  ASSUME TypeOK, NEW e \in 1..Len(events), NEW status \in Outcomes, UpdateEvent(e, status)
  PROVE  /\ events' \in Seq(Event) /\ Len(events') = Len(events)
         /\ \A d \in 1..Len(events) : d # e => events'[d].status = events[d].status
         /\ events'[e].status \in {events[e].status, status}
         /\ events'[e].status = status \/ Fault
         /\ faults' = faults \/ Fault
<1> DEFINE new == [events EXCEPT ![e].status = status]
           rec == [events[e] EXCEPT !.status = status]
<1>1. events \in Seq(Event) /\ events[e] \in Event
  BY CommandsSound
<1>2. rec \in Event /\ rec.status = status
  BY <1>1 DEF Event
<1>3. new = [events EXCEPT ![e] = rec]
  OBVIOUS
<1> HIDE DEF rec, new
<1>4. /\ new \in Seq(Event) /\ Len(new) = Len(events)
      /\ \A d \in 1..Len(events) : new[d] = IF d = e THEN rec ELSE events[d]
  BY <1>1, <1>2, <1>3, ExceptSeq
<1>5. events' = new \/ (events' = events /\ Fault)
  BY DEF UpdateEvent, new
<1>6. faults' = faults \/ Fault
  BY DEF UpdateEvent
<1> QED BY <1>1, <1>2, <1>4, <1>5, <1>6

-----------------------------------------------------------------------------
(* Types. *)

LEMMA InitTypeOK == Init => TypeOK
<1> SUFFICES ASSUME Init PROVE TypeOK
  OBVIOUS
<1>1. /\ Len(<<>>) = 0 /\ \A S : <<>> \in Seq(S)
      /\ 0 \in 0..0 /\ 0 \in 0..(CreateAttempts - 1) /\ 0 <= QueueCap
      /\ 0 \in 0..MaxTicks /\ 0 \in 0..MaxFaults /\ 0 \in 0..MaxRestarts
  BY RunnerBoundsAreNat
<1>2. sync \in [pc : {"select", "create", "sync", "close", "report"},
               trigger : 0..0, attempt : 0..(CreateAttempts - 1),
               row : 0..0, event : 0..0, outcome : Outcomes]
  BY <1>1 DEF Init, SyncWaiting, Scheduled, NoEvent, Outcomes
<1>3. hb \in [pc : {"wait", "reply", "ack", "handle", "report"},
             inbox : Seq(Commands), told : BOOLEAN] /\ hb.pc = "wait"
  BY <1>1 DEF Init, HbWaiting
<1> QED BY <1>1, <1>2, <1>3 DEF Init, TypeOK, NoEvent, Scheduled

\* What the operator's command adds to the server's.
LEMMA IssueSound ==
  ASSUME TypeOK, NEW kind \in Issuable, Issue(kind)
  PROVE  LET n == Len(commands) + 1
         IN  /\ commands' \in Seq(Command) /\ Len(commands') = n /\ n <= MaxCommands
             /\ Commands \subseteq Commands' /\ \A c \in Commands' : c \in Commands \/ c = n
             /\ \A c \in Commands : c < n /\ commands'[c] = commands[c]
             /\ commands'[n].kind = kind /\ commands'[n].status = "pending"
             /\ commands'[n].behind = {c \in Commands : commands[c].status # "completed"}
<1> DEFINE behind == {c \in Commands : commands[c].status # "completed"}
           new    == [kind |-> kind, status |-> "pending", behind |-> behind]
<1>1. /\ commands \in Seq(Command) /\ Len(commands) \in Nat
      /\ DOMAIN commands = Commands
  BY CommandsSound
<1>2. behind \subseteq Nat /\ kind \in Kinds
  BY <1>1, IssuableAreKinds DEF Commands
<1>3. new \in Command
  BY <1>2 DEF Command, Statuses
<1>4. commands' = Append(commands, new) /\ Len(commands) < MaxCommands
  BY <1>1 DEF Issue
<1>5. new.kind = kind /\ new.status = "pending" /\ new.behind = behind
  OBVIOUS
<1> HIDE DEF new
<1>6. /\ commands' \in Seq(Command) /\ Len(commands') = Len(commands) + 1
      /\ \A c \in 1..Len(commands) : commands'[c] = commands[c]
      /\ commands'[Len(commands) + 1] = new
  BY <1>1, <1>3, <1>4, AppendProperties
<1>7. /\ Commands \subseteq Commands' /\ \A c \in Commands' : c \in Commands \/ c = Len(commands) + 1
      /\ \A c \in Commands : c < Len(commands) + 1
  BY <1>1, <1>6 DEF Commands
<1> QED BY <1>1, <1>4, <1>5, <1>6, <1>7, RunnerBoundsAreNat DEF Commands

LEMMA IssueTypeOK == ASSUME TypeOK, NEW kind \in Issuable, Issue(kind) PROVE TypeOK'
<1>1. /\ commands' \in Seq(Command) /\ Commands \subseteq Commands'
      /\ Len(commands') = Len(commands) + 1 /\ Len(commands) \in Nat
  BY IssueSound, CommandsSound
<1>2. /\ UNCHANGED <<events, main, closing, paused, queue, hb, sync, active, ran, counters>>
      /\ serverPaused' \in BOOLEAN
  BY DEF Issue, TypeOK
<1>3. 0..Len(commands) \subseteq 0..Len(commands')
  BY <1>1
<1>4. queue \in Seq(0..Len(commands'))
  BY <1>3, SeqMonotonic DEF TypeOK
<1>5. hb.inbox \in Seq(Commands')
  <2>1. hb.inbox \in Seq(Commands)
    BY DEF TypeOK
  <2> QED BY <1>1, <2>1, SeqMonotonic
<1>6. hb \in [pc : {"wait", "reply", "ack", "handle", "report"},
              inbox : Seq(Commands'), told : BOOLEAN]
  BY <1>5 DEF TypeOK
<1>7. sync \in [pc : {"select", "create", "sync", "close", "report"},
               trigger : 0..Len(commands'), attempt : 0..(CreateAttempts - 1),
               row : 0..Len(events), event : 0..Len(events), outcome : Outcomes]
  BY <1>3 DEF TypeOK
<1> QED BY <1>1, <1>2, <1>4, <1>6, <1>7 DEF TypeOK, counters, Command, Statuses

\* The steps of the main task.
LEMMA DieTypeOK ==
  ASSUME TypeOK, Die, UNCHANGED <<serverVars, ran, ticks>>,
         faults' \in 0..MaxFaults, restarts' \in 0..MaxRestarts
  PROVE  TypeOK'
<1>1. /\ main' = "down" /\ closing' = 0 /\ paused' = FALSE /\ queue' = <<>>
      /\ hb' = HbWaiting /\ sync' = SyncWaiting /\ active' = 0
  BY DEF Die, NoEvent
<1>2. /\ Len(<<>>) = 0 /\ <<>> \in Seq(0..Len(commands)) /\ <<>> \in Seq(Commands)
      /\ 0 \in 0..(CreateAttempts - 1) /\ 0 <= QueueCap
      /\ 0 \in 0..Len(commands) /\ 0 \in 0..Len(events)
  BY CommandsSound, RunnerBoundsAreNat
<1>3. sync' \in [pc : {"select", "create", "sync", "close", "report"},
               trigger : 0..Len(commands), attempt : 0..(CreateAttempts - 1),
               row : 0..Len(events), event : 0..Len(events), outcome : Outcomes]
  BY <1>1, <1>2 DEF SyncWaiting, Scheduled, NoEvent, Outcomes
<1>4. hb' \in [pc : {"wait", "reply", "ack", "handle", "report"},
               inbox : Seq(Commands), told : BOOLEAN] /\ hb'.pc = "wait"
  BY <1>1, <1>2 DEF HbWaiting
<1>5. Commands' = Commands
  BY DEF serverVars, Commands
<1> QED BY <1>1, <1>2, <1>3, <1>4, <1>5 DEF TypeOK, serverVars

LEMMA MainTypeOK ==
  ASSUME TypeOK, MainStep \/ Shutdown \/ Crash
  PROVE  TypeOK'
<1>1. /\ 0 \in 0..Len(commands) /\ 0 \in 0..Len(events) /\ 1 <= QueueCap
      /\ Len(commands) \in Nat
      /\ restarts < MaxRestarts => restarts + 1 \in 0..MaxRestarts
  BY CommandsSound, RunnerBoundsAreNat DEF TypeOK
<1>2. CASE Enroll
  <2>1. /\ main' = "running" /\ paused' = serverPaused /\ queue' = <<0>>
        /\ UNCHANGED <<serverVars, closing, hb, sync, active, ran, counters>>
    BY <1>2 DEF Enroll, StartsPaused, Scheduled
  <2>2. <<0>> \in Seq(0..Len(commands)) /\ Len(<<0>>) = 1
    BY <1>1
  <2>3. Commands' = Commands
    BY <2>1 DEF serverVars, Commands
  <2> QED BY <1>1, <2>1, <2>2, <2>3 DEF TypeOK, serverVars, counters
<1>3. CASE Shutdown
  <2>1. restarts' \in 0..MaxRestarts /\ faults' \in 0..MaxFaults
    BY <1>1, <1>3 DEF Shutdown, TypeOK
  <2>2. CASE active # NoEvent
    <3>1. /\ main' = "closing" /\ closing' = active
          /\ UNCHANGED <<paused, queue, hb, sync, active, serverVars, ran, ticks, faults>>
      BY <1>3, <2>2 DEF Shutdown
    <3>2. Commands' = Commands
      BY <3>1 DEF serverVars, Commands
    <3> QED BY <2>1, <3>1, <3>2 DEF TypeOK, serverVars
  <2>3. CASE active = NoEvent
    BY <1>3, <2>1, <2>3, DieTypeOK DEF Shutdown
  <2> QED BY <2>2, <2>3
<1>4. CASE CloseInFlight
  <2>1. /\ closing \in 1..Len(events) /\ "failed" \in Outcomes /\ UpdateEvent(closing, "failed")
        /\ closing' = 0
        /\ UNCHANGED <<serverPaused, commands, main, paused, queue, hb, sync, active,
                       ran, ticks, restarts>>
    BY <1>4 DEF CloseInFlight, NoEvent, TypeOK, Outcomes
  <2>2. /\ events' \in Seq(Event) /\ Len(events') = Len(events) /\ faults' \in 0..MaxFaults
    BY <2>1, UpdateEventSound, FaultCounts
  <2>3. Commands' = Commands
    BY <2>1 DEF Commands
  <2> QED BY <1>1, <2>1, <2>2, <2>3 DEF TypeOK, Event
<1>5. CASE Exit
  BY <1>5, DieTypeOK DEF Exit, counters, TypeOK
<1>6. CASE Crash
  <2>1. restarts' \in 0..MaxRestarts /\ faults' \in 0..MaxFaults
    BY <1>1, <1>6 DEF Crash, TypeOK
  <2> QED BY <1>6, <2>1, DieTypeOK DEF Crash
<1>7. CASE Restart
  <2>1. Commands' = Commands
    BY <1>7 DEF Restart, serverVars, Commands
  <2> QED BY <1>7, <2>1 DEF Restart, TypeOK, serverVars, counters
<1> QED BY <1>2, <1>3, <1>4, <1>5, <1>6, <1>7 DEF MainStep

\* The answer to a heartbeat carries the pending commands, each once.
LEMMA HeartbeatSound ==
  ASSUME TypeOK, Heartbeat
  PROVE  /\ hb'.pc = "reply" /\ hb'.told = serverPaused /\ hb'.inbox \in Seq(Commands)
         /\ hb' \in [pc : {"reply"}, inbox : Seq(Commands), told : BOOLEAN]
         /\ \A i \in 1..Len(hb'.inbox) : commands[hb'.inbox[i]].status = "pending"
         /\ \A i, j \in 1..Len(hb'.inbox) : i # j => hb'.inbox[i] # hb'.inbox[j]
<1>1. IsFiniteSet(Pending) /\ Pending \subseteq Commands
  <2>1. IsFiniteSet(Commands) /\ DOMAIN commands = Commands
    BY CommandsSound, FS_Interval DEF Commands
  <2>2. Pending \in SUBSET Commands
    BY <2>1 DEF Pending
  <2> QED BY <2>1, <2>2, FS_Subset
<1>2. PICK inbox \in SetToSeqs(Pending) :
        hb' = [pc |-> "reply", inbox |-> inbox, told |-> serverPaused]
  BY DEF Heartbeat
<1> DEFINE n == Cardinality(Pending)
<1>3. n \in Nat
  BY <1>1, FS_CardinalityType
<1>4. /\ inbox \in [1..n -> Pending]
      /\ \A i, j \in 1..n : i # j => inbox[i] # inbox[j]
  BY DEF SetToSeqs
<1> HIDE DEF n
<1>5. /\ inbox \in Seq(Pending) /\ Len(inbox) = n
      /\ \A i \in 1..n : commands[inbox[i]].status = "pending"
  BY <1>3, <1>4 DEF Pending
<1>6. inbox \in Seq(Commands)
  BY <1>1, <1>5, SeqMonotonic
<1>7. hb'.pc = "reply" /\ hb'.told = serverPaused /\ hb'.inbox = inbox
  BY <1>2
<1>8. hb' \in [pc : {"reply"}, inbox : Seq(Commands), told : BOOLEAN]
  <2>1. serverPaused \in BOOLEAN
    BY DEF TypeOK
  <2> QED BY <1>2, <1>6, <2>1
<1> QED BY <1>4, <1>5, <1>6, <1>7, <1>8

\* The command at hand, and what is left when it is dealt with.
LEMMA InboxSound ==
  ASSUME TypeOK, hb.pc \in {"ack", "handle", "report"}
  PROVE  /\ hb.inbox \in Seq(Commands) /\ hb.inbox # <<>>
         /\ Head(hb.inbox) = hb.inbox[1] /\ Head(hb.inbox) \in Commands
         /\ Tail(hb.inbox) \in Seq(Commands) /\ Len(hb.inbox) \in Nat /\ Len(hb.inbox) >= 1
         /\ Len(Tail(hb.inbox)) = Len(hb.inbox) - 1
         /\ \A i \in 1..(Len(hb.inbox) - 1) : Tail(hb.inbox)[i] = hb.inbox[i + 1]
         /\ NextCommand(hb) \in [pc : {"wait", "ack"}, inbox : Seq(Commands), told : BOOLEAN]
         /\ NextCommand(hb).inbox = Tail(hb.inbox)
         /\ NextCommand(hb).pc = "ack" => Tail(hb.inbox) # <<>>
<1>1. hb.inbox \in Seq(Commands) /\ hb.inbox # <<>>
  BY DEF TypeOK
<1>2. /\ Head(hb.inbox) \in Commands /\ Tail(hb.inbox) \in Seq(Commands)
      /\ Len(Tail(hb.inbox)) = Len(hb.inbox) - 1
      /\ \A i \in 1..Len(Tail(hb.inbox)) : Tail(hb.inbox)[i] = hb.inbox[i + 1]
      /\ Len(hb.inbox) \in Nat /\ Len(hb.inbox) >= 1
  BY <1>1, HeadTailProperties, EmptySeq
<1>3. Head(hb.inbox) = hb.inbox[1]
  BY <1>1
<1>4. /\ NextCommand(hb) \in [pc : {"wait", "ack"}, inbox : Seq(Commands), told : BOOLEAN]
      /\ NextCommand(hb).inbox = Tail(hb.inbox)
      /\ NextCommand(hb).pc = "ack" => Tail(hb.inbox) # <<>>
  BY <1>2 DEF NextCommand, TypeOK
<1> QED BY <1>1, <1>2, <1>3, <1>4

LEMMA HeartbeatTaskTypeOK ==
  ASSUME TypeOK, HeartbeatStep \/ HeartbeatFails
  PROVE  TypeOK'
\* A step of the task that leaves well-formed what it writes.
<1>1. ASSUME HbOnly, Commands' = Commands, commands' \in Seq(Command), Len(commands') = Len(commands),
             paused' \in BOOLEAN, faults' \in 0..MaxFaults,
             queue' \in Seq(0..Len(commands)), Len(queue') <= QueueCap,
             hb' \in [pc : {"wait", "reply", "ack", "handle", "report"},
                      inbox : Seq(Commands), told : BOOLEAN],
             hb'.pc \in {"ack", "handle", "report"} => hb'.inbox # <<>>
      PROVE  TypeOK'
  BY <1>1 DEF TypeOK, HbOnly, Command, Statuses
<1>2. /\ commands \in Seq(Command) /\ paused \in BOOLEAN /\ serverPaused \in BOOLEAN
      /\ faults \in 0..MaxFaults
      /\ queue \in Seq(0..Len(commands)) /\ Len(queue) <= QueueCap
      /\ hb \in [pc : {"wait", "reply", "ack", "handle", "report"},
                 inbox : Seq(Commands), told : BOOLEAN]
      /\ Len(commands) \in Nat /\ QueueCap \in Nat
  BY CommandsSound, RunnerBoundsAreNat DEF TypeOK
<1>3. commands' = commands => Commands' = Commands
  BY DEF Commands
<1>4. CASE Heartbeat
  BY <1>1, <1>2, <1>3, <1>4, HeartbeatSound DEF Heartbeat
<1>5. CASE HeartbeatOk
  <2>1. /\ hb' \in [pc : {"wait", "ack"}, inbox : Seq(Commands), told : BOOLEAN]
        /\ hb'.pc = "ack" => hb'.inbox # <<>>
        /\ paused' \in BOOLEAN
    BY <1>2, <1>5 DEF HeartbeatOk, Reconciled
  <2> QED BY <1>1, <1>2, <1>3, <1>5, <2>1 DEF HeartbeatOk
<1>6. CASE HeartbeatFails
  <2>1. hb' \in [pc : {"wait"}, inbox : Seq(Commands), told : BOOLEAN]
    BY <1>6 DEF HeartbeatFails, HbWaiting
  <2>2. paused' \in BOOLEAN /\ faults' \in 0..MaxFaults
    BY <1>2, <1>6, FaultCounts DEF HeartbeatFails
  <2> QED BY <1>1, <1>2, <1>3, <1>6, <2>1, <2>2 DEF HeartbeatFails
<1>7. CASE Acknowledge
  <2>1. Head(hb.inbox) \in Commands /\ hb.inbox # <<>>
    BY <1>7, InboxSound DEF Acknowledge
  <2>2. /\ commands' \in Seq(Command) /\ Len(commands') = Len(commands)
        /\ faults' \in 0..MaxFaults
    BY <1>7, <2>1, UpdateCommandSound, FaultCounts DEF Acknowledge, Statuses
  <2>3. /\ hb' \in [pc : {"handle"}, inbox : Seq(Commands), told : BOOLEAN]
        /\ hb'.inbox # <<>>
    BY <1>2, <1>7, <2>1 DEF Acknowledge
  <2>4. Commands' = Commands
    BY <2>2 DEF Commands
  <2> QED BY <1>1, <1>2, <1>7, <2>2, <2>3, <2>4 DEF Acknowledge
<1>8. CASE QueueTrigger
  <2>1. /\ Head(hb.inbox) \in Commands
        /\ hb' \in [pc : {"wait", "ack"}, inbox : Seq(Commands), told : BOOLEAN]
        /\ hb'.pc = "ack" => hb'.inbox # <<>>
    BY <1>8, InboxSound DEF QueueTrigger
  <2>2. Head(hb.inbox) \in 0..Len(commands)
    BY <1>2, <2>1 DEF Commands
  <2>3. /\ queue' \in Seq(0..Len(commands)) /\ Len(queue') = Len(queue) + 1 /\ Len(queue) \in Nat
        /\ Len(queue) < QueueCap
    BY <1>2, <1>8, <2>2, AppendProperties DEF QueueTrigger, Room
  <2>4. Len(queue') <= QueueCap
    BY <1>2, <2>3
  <2> QED BY <1>1, <1>2, <1>3, <1>8, <2>1, <2>3, <2>4 DEF QueueTrigger
<1>9. CASE PauseOrResume \/ ServiceCommandEnds
  <2>1. hb.inbox # <<>>
    BY <1>9, InboxSound DEF PauseOrResume, ServiceCommandEnds
  <2>2. /\ hb' \in [pc : {"report"}, inbox : Seq(Commands), told : BOOLEAN]
        /\ hb'.inbox # <<>> /\ paused' \in BOOLEAN
    BY <1>2, <1>9, <2>1 DEF PauseOrResume, ServiceCommandEnds
  <2> QED BY <1>1, <1>2, <1>3, <1>9, <2>2 DEF PauseOrResume, ServiceCommandEnds
<1>10. CASE ReportHandled
  <2>1. /\ Head(hb.inbox) \in Commands
        /\ hb' \in [pc : {"wait", "ack"}, inbox : Seq(Commands), told : BOOLEAN]
        /\ hb'.pc = "ack" => hb'.inbox # <<>>
    BY <1>10, InboxSound DEF ReportHandled
  <2>2. /\ commands' \in Seq(Command) /\ Len(commands') = Len(commands)
        /\ faults' \in 0..MaxFaults
    BY <1>10, <2>1, UpdateCommandSound, FaultCounts DEF ReportHandled, Statuses
  <2>3. Commands' = Commands
    BY <2>2 DEF Commands
  <2> QED BY <1>1, <1>2, <1>10, <2>1, <2>2, <2>3 DEF ReportHandled
<1> QED BY <1>4, <1>5, <1>6, <1>7, <1>8, <1>9, <1>10 DEF HeartbeatStep

LEMMA SyncTaskTypeOK ==
  ASSUME TypeOK, Triggers, Rows, SyncStep \/ Tick \/ CreateFails
  PROVE  TypeOK'
<1> DEFINE SyncRec == [pc : {"select", "create", "sync", "close", "report"},
                       trigger : 0..Len(commands), attempt : 0..(CreateAttempts - 1),
                       row : 0..Len(events'), event : 0..Len(events'), outcome : Outcomes]
\* A step of the task that leaves well-formed what it writes.
<1>1. ASSUME SyncOnly, commands' \in Seq(Command), Len(commands') = Len(commands),
             events' \in Seq(Event), Len(events) <= Len(events'),
             queue' \in Seq(0..Len(commands)), Len(queue') <= QueueCap,
             sync' \in SyncRec, active' \in 0..Len(events'), ran' \subseteq Commands,
             ticks' \in 0..MaxTicks, faults' \in 0..MaxFaults
      PROVE  TypeOK'
  <2>1. Commands' = Commands
    BY <1>1 DEF Commands
  <2>2. closing \in 0..Len(events')
    <3>1. closing \in 0..Len(events) /\ Len(events) \in Nat
      BY CommandsSound DEF TypeOK
    <3>2. Len(events') \in Nat
      BY <1>1, LenProperties
    <3> QED BY <1>1, <3>1, <3>2
  <2> QED BY <1>1, <2>1, <2>2 DEF TypeOK, SyncOnly, Command, Event, Statuses
<1>2. /\ commands \in Seq(Command) /\ Len(commands) \in Nat
      /\ events \in Seq(Event) /\ Len(events) \in Nat
      /\ queue \in Seq(0..Len(commands)) /\ Len(queue) <= QueueCap
      /\ active \in 0..Len(events) /\ ran \subseteq Commands
      /\ ticks \in 0..MaxTicks /\ faults \in 0..MaxFaults
      /\ QueueCap \in Nat /\ CreateAttempts \in Nat \ {0} /\ MaxTicks \in Nat
  BY CommandsSound, RunnerBoundsAreNat DEF TypeOK
<1>3. /\ sync.trigger \in 0..Len(commands) /\ sync.attempt \in 0..(CreateAttempts - 1)
      /\ sync.row \in 0..Len(events) /\ sync.event \in 0..Len(events)
      /\ sync \in [pc : {"select", "create", "sync", "close", "report"},
                   trigger : 0..Len(commands), attempt : 0..(CreateAttempts - 1),
                   row : 0..Len(events), event : 0..Len(events), outcome : Outcomes]
  BY DEF TypeOK
<1>4. ASSUME NEW trigger \in 0..Len(commands), Begin(trigger), events' = events
      PROVE  sync' \in SyncRec /\ ran' \subseteq Commands
  <2>1. CASE HeldBack(trigger)
    BY <1>2, <1>3, <1>4, <2>1 DEF Begin
  <2>2. CASE ~HeldBack(trigger)
    <3>1. /\ sync' = [SyncWaiting EXCEPT !.pc = "create", !.trigger = trigger]
          /\ ran' = ran \cup ({trigger} \ {Scheduled})
      BY <1>4, <2>2 DEF Begin
    <3>2. trigger # Scheduled => trigger \in Commands
      BY <1>2 DEF Commands, Scheduled
    <3>3. 0 \in 0..Len(events) /\ 0 \in 0..(CreateAttempts - 1)
      BY <1>2
    <3> QED BY <1>2, <1>4, <3>1, <3>2, <3>3 DEF SyncWaiting, NoEvent, Scheduled, Outcomes
  <2> QED BY <2>1, <2>2
<1>5. CASE Tick
  <2>1. ticks' \in 0..MaxTicks
    BY <1>2, <1>5 DEF Tick
  <2>2. Scheduled \in 0..Len(commands)
    BY <1>2 DEF Scheduled
  <2> HIDE DEF SyncRec
  <2> QED BY <1>1, <1>2, <1>4, <1>5, <2>1, <2>2 DEF Tick
<1>6. CASE Receive
  <2>1. queue # <<>>
    BY <1>6 DEF Receive, Receivable
  <2>2. /\ Head(queue) \in 0..Len(commands) /\ queue' \in Seq(0..Len(commands))
        /\ Len(queue') <= QueueCap
    BY <1>2, <1>6, <2>1, HeadTailProperties, EmptySeq DEF Receive
  <2> HIDE DEF SyncRec
  <2> QED BY <1>1, <1>2, <1>4, <1>6, <2>2 DEF Receive
<1>7. CASE CreateLands
  <2> DEFINE new == [status |-> "running"]
  <2>1. events' \in Seq(Event) /\ Len(events') = Len(events) + 1
    BY <1>2, <1>7, AppendProperties DEF CreateLands, Event
  <2>2. /\ 0..Len(events) \subseteq 0..Len(events') /\ Len(events) + 1 \in 0..Len(events')
    BY <1>2, <2>1
  <2>3. sync' \in SyncRec
    BY <1>3, <1>7, <2>2 DEF CreateLands
  <2> HIDE DEF SyncRec
  <2> QED BY <1>1, <1>2, <1>7, <2>1, <2>2, <2>3 DEF CreateLands
<1>8. CASE CreateOk
  <2>1. sync' \in SyncRec /\ active' \in 0..Len(events')
    BY <1>3, <1>8 DEF CreateOk, AnsweredId
  <2> HIDE DEF SyncRec
  <2> QED BY <1>1, <1>2, <1>8, <2>1 DEF CreateOk
<1>9. CASE CreateFails
  <2>1. 0 \in 0..Len(events) /\ events' = events
    BY <1>2, <1>9 DEF CreateFails
  <2>2. sync.attempt + 1 < CreateAttempts => sync.attempt + 1 \in 0..(CreateAttempts - 1)
    BY <1>2, <1>3
  <2>3. sync' \in SyncRec
    BY <1>3, <1>9, <2>1, <2>2 DEF CreateFails, NoEvent
  <2>4. faults' \in 0..MaxFaults
    BY <1>9, FaultCounts DEF CreateFails
  <2> HIDE DEF SyncRec
  <2> QED BY <1>1, <1>2, <1>9, <2>1, <2>3, <2>4 DEF CreateFails
<1>10. CASE SyncEnds
  <2>1. /\ events' = events /\ active' = 0
        /\ AfterClose \in {"select", "report"}
    BY <1>10 DEF SyncEnds, NoEvent, AfterClose
  <2>2. sync' \in SyncRec
    BY <1>3, <1>10, <2>1 DEF SyncEnds
  <2>3. 0 \in 0..Len(events)
    BY <1>2
  <2> HIDE DEF SyncRec
  <2> QED BY <1>1, <1>2, <1>10, <2>1, <2>2, <2>3 DEF SyncEnds
<1>11. CASE CloseEvent
  <2>1. /\ sync.event \in 1..Len(events) /\ sync.outcome \in Outcomes
        /\ UpdateEvent(sync.event, sync.outcome)
    BY <1>2, <1>3, <1>11 DEF CloseEvent, Rows, NoEvent
  <2>2. /\ events' \in Seq(Event) /\ Len(events') = Len(events) /\ faults' \in 0..MaxFaults
    BY <2>1, UpdateEventSound, FaultCounts
  <2>3. sync' \in SyncRec
    BY <1>3, <1>11, <2>2 DEF CloseEvent, AfterClose
  <2> HIDE DEF SyncRec
  <2> QED BY <1>1, <1>2, <1>11, <2>2, <2>3 DEF CloseEvent
<1>12. CASE ReportCycle
  <2> DEFINE status == IF sync.outcome = "failed" THEN "failed" ELSE "completed"
  <2>1. /\ sync.trigger \in Commands /\ status \in Statuses
        /\ UpdateCommand(sync.trigger, status)
    BY <1>2, <1>3, <1>12 DEF ReportCycle, Triggers, Scheduled, Statuses, Commands
  <2> HIDE DEF status
  <2>2. /\ commands' \in Seq(Command) /\ Len(commands') = Len(commands)
        /\ faults' \in 0..MaxFaults
    BY <2>1, UpdateCommandSound, FaultCounts
  <2>3. /\ 0 \in 0..Len(commands) /\ 0 \in 0..Len(events') /\ 0 \in 0..(CreateAttempts - 1)
    BY <1>2, <1>12 DEF ReportCycle
  <2>4. sync' \in SyncRec
    BY <1>12, <2>3 DEF ReportCycle, SyncWaiting, Scheduled, NoEvent, Outcomes
  <2> HIDE DEF SyncRec
  <2> QED BY <1>1, <1>2, <1>12, <2>2, <2>4 DEF ReportCycle
<1> QED BY <1>5, <1>6, <1>7, <1>8, <1>9, <1>10, <1>11, <1>12 DEF SyncStep

LEMMA NextTypeOK ==
  ASSUME TypeOK, Triggers, Rows, [Next]_vars PROVE TypeOK'
<1>1. CASE UNCHANGED vars
  <2>1. UNCHANGED <<serverPaused, commands, events, main, closing, paused, queue, hb, sync,
                    active, ran, ticks, faults, restarts>>
    BY <1>1 DEF vars, serverVars, counters
  <2>2. Commands' = Commands
    BY <2>1 DEF Commands
  <2> QED BY <2>1, <2>2 DEF TypeOK
<1> QED BY <1>1, IssueTypeOK, MainTypeOK, HeartbeatTaskTypeOK, SyncTaskTypeOK DEF Next

-----------------------------------------------------------------------------
(* The tasks and what they hold. *)

\* The steps that write to the commands.
LEMMA WhoWrites ==
  ASSUME [Next]_vars
  PROVE  \/ commands' = commands \/ \E kind \in Issuable : Issue(kind)
         \/ Acknowledge \/ ReportHandled \/ ReportCycle
BY DEF Next, vars, serverVars, MainStep, Enroll, CloseInFlight, Exit, Restart, Shutdown, Crash,
       HeartbeatStep, Heartbeat, HeartbeatOk, QueueTrigger, PauseOrResume, ServiceCommandEnds,
       HeartbeatFails, Tick, SyncStep, Receive, CreateLands, CreateOk, SyncEnds, CloseEvent,
       CreateFails

\* A command keeps its kind, and what was open when it was issued.
LEMMA CommandsStay ==
  ASSUME TypeOK, Triggers, Rows, [Next]_vars
  PROVE  /\ Len(commands) \in Nat /\ Len(commands') \in Nat /\ Commands \subseteq Commands'
         /\ \A c \in Commands : /\ commands'[c].kind = commands[c].kind
                               /\ commands'[c].behind = commands[c].behind
<1>1. Len(commands) \in Nat
  BY CommandsSound
<1>2. CASE commands' = commands
  BY <1>1, <1>2 DEF Commands
<1>3. ASSUME NEW c \in Commands, NEW status \in Statuses, UpdateCommand(c, status)
      PROVE  /\ Len(commands') = Len(commands)
             /\ \A d \in Commands : /\ commands'[d].kind = commands[d].kind
                                   /\ commands'[d].behind = commands[d].behind
  BY <1>3, UpdateCommandSound
<1>4. CASE \E kind \in Issuable : Issue(kind)
  BY <1>1, <1>4, IssueSound
<1>5. CASE Acknowledge \/ ReportHandled
  <2>1. /\ Head(hb.inbox) \in Commands
        /\ \E status \in Statuses : UpdateCommand(Head(hb.inbox), status)
    BY <1>5, InboxSound DEF Acknowledge, ReportHandled, Statuses
  <2> QED BY <1>1, <1>3, <2>1 DEF Commands
<1>6. CASE ReportCycle
  <2>1. /\ sync.trigger \in Commands
        /\ \E status \in Statuses : UpdateCommand(sync.trigger, status)
    BY <1>6, <1>1 DEF ReportCycle, Triggers, TypeOK, Commands, Scheduled, Statuses
  <2> QED BY <1>1, <1>3, <2>1 DEF Commands
<1> QED BY <1>2, <1>4, <1>5, <1>6, WhoWrites

\* Only the heartbeat task changes the status of a command that is no sync
\* command, and only that of the command at hand.
LEMMA StatusChanges ==
  ASSUME TypeOK, Triggers, Rows, [Next]_vars, NEW c \in Commands,
         commands[c].kind # "trigger_sync", commands'[c].status # commands[c].status
  PROVE  /\ c = Head(hb.inbox)
         /\ \/ Acknowledge /\ commands'[c].status = "acknowledged"
            \/ /\ ReportHandled
               /\ commands'[c].status = "completed" \/ commands[c].kind = "service"
<1>1. CASE \E kind \in Issuable : Issue(kind)
  BY <1>1, IssueSound
<1>2. CASE Acknowledge
  <2>1. Head(hb.inbox) \in Commands /\ UpdateCommand(Head(hb.inbox), "acknowledged")
    BY <1>2, InboxSound DEF Acknowledge
  <2> QED BY <1>2, <2>1, UpdateCommandSound DEF Statuses
<1>3. CASE ReportHandled
  <2>1. /\ Head(hb.inbox) \in Commands
        /\ \/ UpdateCommand(Head(hb.inbox), "completed")
           \/ /\ commands[Head(hb.inbox)].kind = "service"
              /\ UpdateCommand(Head(hb.inbox), "failed")
    BY <1>3, InboxSound DEF ReportHandled
  <2> QED BY <1>3, <2>1, UpdateCommandSound DEF Statuses
<1>4. CASE ReportCycle
  <2>1. /\ sync.trigger \in Commands /\ commands[sync.trigger].kind = "trigger_sync"
        /\ \E status \in Statuses : UpdateCommand(sync.trigger, status)
    BY <1>4, CommandsSound
       DEF ReportCycle, Triggers, IsTrigger, TypeOK, Commands, Scheduled, Statuses
  <2> QED BY <2>1, UpdateCommandSound
<1> QED BY <1>1, <1>2, <1>3, <1>4, WhoWrites

\* Which task a step is of, and what it leaves to the others.
LEMMA WhoActs ==
  ASSUME [Next]_vars
  PROVE  \/ UNCHANGED vars
         \/ \E kind \in Issuable : Issue(kind)
         \/ MainStep \/ Shutdown \/ Crash
         \/ (HeartbeatStep \/ HeartbeatFails) /\ Alive /\ HbOnly
         \/ (SyncStep \/ Tick \/ CreateFails) /\ Alive /\ SyncOnly
BY DEF Next, HeartbeatStep, Heartbeat, HeartbeatOk, Acknowledge, QueueTrigger, PauseOrResume,
       ServiceCommandEnds, ReportHandled, HeartbeatFails, Tick, SyncStep, Receive, CreateLands,
       CreateOk, SyncEnds, CloseEvent, ReportCycle, CreateFails

LEMMA NextStill == ASSUME TypeOK, Still, [Next]_vars PROVE Still'
<1>1. CASE UNCHANGED vars \/ \E kind \in Issuable : Issue(kind)
  BY <1>1 DEF Still, Alive, vars, Issue
<1>2. CASE MainStep \/ Shutdown \/ Crash
  BY <1>2 DEF Still, Alive, MainStep, Enroll, CloseInFlight, Exit, Die, Restart, Shutdown, Crash,
              HbWaiting
<1>3. CASE Alive /\ HbOnly
  BY <1>3 DEF Still, Alive, HbOnly
<1>4. CASE Alive /\ SyncOnly
  BY <1>4 DEF Still, Alive, SyncOnly
<1> QED BY <1>1, <1>2, <1>3, <1>4, WhoActs

LEMMA NextTriggers ==
  ASSUME TypeOK, Triggers, Rows, [Next]_vars PROVE Triggers'
<1> DEFINE StillTrigger(c) == c = Scheduled \/ commands'[c].kind = "trigger_sync"
<1>1. \A c \in 0..Len(commands) : IsTrigger(c) => StillTrigger(c)
  BY CommandsStay DEF IsTrigger, Commands, Scheduled
<1>2. /\ queue \in Seq(0..Len(commands)) /\ Len(queue) \in Nat
      /\ \A i \in 1..Len(queue) : StillTrigger(queue[i])
  <2>1. queue \in Seq(0..Len(commands)) /\ Len(queue) \in Nat
    BY DEF TypeOK
  <2>2. \A i \in 1..Len(queue) : queue[i] \in 0..Len(commands)
    BY <2>1, ElementOfSeq
  <2> QED BY <1>1, <2>1, <2>2 DEF Triggers
<1>3. StillTrigger(sync.trigger) /\ StillTrigger(Scheduled)
  BY <1>1 DEF TypeOK, Triggers
<1>4. SUFFICES /\ \A i \in 1..Len(queue') : StillTrigger(queue'[i])
               /\ StillTrigger(sync'.trigger)
               /\ sync'.pc = "report" => sync'.trigger # Scheduled
  BY DEF Triggers, IsTrigger
<1> HIDE DEF StillTrigger
<1>5. CASE queue' = queue /\ (UNCHANGED sync \/ sync' = SyncWaiting)
  BY <1>2, <1>3, <1>5 DEF SyncWaiting, Triggers
<1>6. CASE queue' = <<>> /\ sync' = SyncWaiting
  BY <1>3, <1>6 DEF SyncWaiting
<1>7. CASE Enroll
  BY <1>3, <1>7 DEF Enroll, Triggers
<1>8. CASE QueueTrigger
  <2>1. /\ Head(hb.inbox) \in Commands /\ commands[Head(hb.inbox)].kind = "trigger_sync"
        /\ queue' = Append(queue, Head(hb.inbox)) /\ UNCHANGED <<sync, commands>>
    BY <1>8, InboxSound DEF QueueTrigger, HbOnly
  <2>2. StillTrigger(Head(hb.inbox))
    BY <2>1 DEF StillTrigger
  <2>3. /\ Len(queue') = Len(queue) + 1 /\ queue'[Len(queue) + 1] = Head(hb.inbox)
        /\ \A i \in 1..Len(queue) : queue'[i] = queue[i]
    <3>1. Head(hb.inbox) \in 0..Len(commands)
      BY <2>1, CommandsSound DEF Commands
    <3> QED BY <1>2, <2>1, <3>1, AppendProperties
  <2> QED BY <1>2, <1>3, <2>1, <2>2, <2>3 DEF Triggers
<1>9. CASE Receive
  <2>1. queue # <<>> /\ queue' = Tail(queue) /\ Begin(Head(queue)) /\ sync.pc = "select"
    BY <1>9 DEF Receive, Receivable
  <2>2. /\ Len(queue) >= 1 /\ Len(queue') = Len(queue) - 1 /\ Head(queue) = queue[1]
        /\ \A i \in 1..Len(queue') : queue'[i] = queue[i + 1]
    BY <1>2, <2>1, HeadTailProperties, EmptySeq
  <2>3. StillTrigger(Head(queue))
    BY <1>2, <2>2
  <2>4. StillTrigger(sync'.trigger) /\ sync'.pc # "report"
    BY <1>3, <2>1, <2>3 DEF Begin, SyncWaiting
  <2> QED BY <1>2, <2>2, <2>4
<1>10. CASE Tick
  BY <1>2, <1>3, <1>10 DEF Tick, Begin, SyncWaiting, Triggers
<1>11. CASE CreateLands \/ CreateOk \/ CreateFails \/ SyncEnds \/ CloseEvent
  <2>1. /\ sync'.trigger = sync.trigger /\ queue' = queue
        /\ sync'.pc = "report" => sync.trigger # Scheduled
    BY <1>11 DEF CreateLands, CreateOk, CreateFails, SyncEnds, CloseEvent, AfterClose, TypeOK, Triggers
  <2> QED BY <1>2, <1>3, <2>1
<1> QED
  <2>1. CASE UNCHANGED vars \/ \E kind \in Issuable : Issue(kind)
    BY <1>5, <2>1 DEF vars, Issue
  <2>2. CASE MainStep \/ Shutdown \/ Crash
    BY <1>5, <1>6, <1>7, <2>2 DEF MainStep, CloseInFlight, Exit, Die, Restart, Shutdown, Crash
  <2>3. CASE HeartbeatStep \/ HeartbeatFails
    BY <1>5, <1>8, <2>3 DEF HeartbeatStep, HeartbeatFails, Heartbeat, HeartbeatOk, Acknowledge,
                            PauseOrResume, ServiceCommandEnds, ReportHandled, HbOnly
  <2>4. CASE SyncStep \/ Tick \/ CreateFails
    BY <1>5, <1>9, <1>10, <1>11, <2>4 DEF SyncStep, ReportCycle
  <2> QED BY <2>1, <2>2, <2>3, <2>4, WhoActs

LEMMA NextRows == ASSUME TypeOK, Rows, [Next]_vars PROVE Rows'
<1>1. CASE UNCHANGED sync \/ sync' = SyncWaiting
  BY <1>1 DEF Rows, SyncWaiting
<1>2. sync \in [pc : {"select", "create", "sync", "close", "report"},
               trigger : 0..Len(commands), attempt : 0..(CreateAttempts - 1),
               row : 0..Len(events), event : 0..Len(events), outcome : Outcomes]
  BY DEF TypeOK
<1>3. CASE Tick \/ Receive
  BY <1>1, <1>2, <1>3 DEF Tick, Receive, Begin, Rows, SyncWaiting
<1>4. CASE CreateLands \/ CreateOk \/ CreateFails
  BY <1>2, <1>4 DEF CreateLands, CreateOk, CreateFails, AnsweredId, Rows
<1>5. CASE SyncEnds \/ CloseEvent
  BY <1>2, <1>5 DEF SyncEnds, CloseEvent, AfterClose, Rows
<1> QED
  <2>1. CASE \/ UNCHANGED vars \/ (\E kind \in Issuable : Issue(kind))
             \/ MainStep \/ Shutdown \/ Crash \/ HbOnly
    BY <1>1, <2>1 DEF vars, Issue, MainStep, Enroll, CloseInFlight, Exit, Die, Restart, Shutdown,
                      Crash, HbOnly
  <2>2. CASE SyncStep \/ Tick \/ CreateFails
    BY <1>1, <1>3, <1>4, <1>5, <2>2 DEF SyncStep, ReportCycle
  <2> QED BY <2>1, <2>2, WhoActs

LEMMA NextInbox ==
  ASSUME TypeOK, Triggers, Rows, Inbox, [Next]_vars PROVE Inbox'
\* What stays in the inbox keeps its status.
<1> DEFINE Open(c) == commands'[c].kind # "trigger_sync" => commands'[c].status \in Underway
<1>1. /\ hb.inbox \in Seq(Commands) /\ Len(hb.inbox) \in Nat
      /\ \A i \in 1..Len(hb.inbox) : hb.inbox[i] \in Commands
  <2>1. hb.inbox \in Seq(Commands)
    BY DEF TypeOK
  <2> QED BY <2>1, ElementOfSeq
<1>2. \A i \in 1..Len(hb.inbox) :
        (ReportHandled => hb.inbox[i] # Head(hb.inbox)) => Open(hb.inbox[i])
  <2> SUFFICES ASSUME NEW i \in 1..Len(hb.inbox),
                      ReportHandled => hb.inbox[i] # Head(hb.inbox),
                      commands'[hb.inbox[i]].kind # "trigger_sync"
               PROVE  commands'[hb.inbox[i]].status \in Underway
    OBVIOUS
  <2>1. commands[hb.inbox[i]].kind # "trigger_sync"
    BY <1>1, CommandsStay
  <2>2. commands[hb.inbox[i]].status \in Underway
    BY <2>1 DEF Inbox
  <2> QED BY <1>1, <2>1, <2>2, StatusChanges DEF Underway
<1>3. CASE UNCHANGED hb /\ ~ReportHandled
  <2>1. hb.pc = "report" => commands'[Head(hb.inbox)].kind # "trigger_sync"
    BY InboxSound, CommandsStay DEF Inbox
  <2> QED BY <1>2, <1>3, <2>1 DEF Inbox
<1>4. CASE hb' = HbWaiting
  <2>1. Len(<<>>) = 0
    OBVIOUS
  <2> QED BY <1>4, <2>1 DEF Inbox, HbWaiting
<1>5. CASE Heartbeat
  <2>1. UNCHANGED commands
    BY <1>5 DEF Heartbeat
  <2> QED BY <1>5, <2>1, HeartbeatSound DEF Inbox, Underway
<1>6. CASE HeartbeatOk \/ Acknowledge
  <2>1. hb'.inbox = hb.inbox /\ hb'.pc # "report" /\ ~ReportHandled
    BY <1>6 DEF HeartbeatOk, Acknowledge, ReportHandled, TypeOK
  <2> QED BY <1>2, <2>1 DEF Inbox
<1>7. CASE PauseOrResume \/ ServiceCommandEnds
  <2>1. /\ hb'.inbox = hb.inbox /\ UNCHANGED commands
        /\ commands[Head(hb.inbox)].kind # "trigger_sync"
    BY <1>7 DEF PauseOrResume, ServiceCommandEnds, TypeOK
  <2> QED BY <2>1 DEF Inbox
<1>8. CASE QueueTrigger \/ ReportHandled
  <2>1. /\ Len(hb.inbox) >= 1 /\ Head(hb.inbox) = hb.inbox[1]
        /\ hb' = NextCommand(hb) /\ hb'.inbox = Tail(hb.inbox) /\ hb'.pc # "report"
        /\ Len(hb'.inbox) = Len(hb.inbox) - 1
        /\ \A i \in 1..(Len(hb.inbox) - 1) : hb'.inbox[i] = hb.inbox[i + 1]
    BY <1>8, InboxSound DEF QueueTrigger, ReportHandled
  <2>2. ASSUME NEW i \in 1..Len(hb'.inbox), NEW j \in 1..Len(hb'.inbox), i # j
        PROVE  hb'.inbox[i] # hb'.inbox[j]
    <3>1. i + 1 \in 1..Len(hb.inbox) /\ j + 1 \in 1..Len(hb.inbox) /\ i + 1 # j + 1
      BY <1>1, <2>1, <2>2
    <3>2. hb'.inbox[i] = hb.inbox[i + 1] /\ hb'.inbox[j] = hb.inbox[j + 1]
      BY <1>1, <2>1
    <3> QED BY <3>1, <3>2 DEF Inbox
  <2>3. ASSUME NEW i \in 1..Len(hb'.inbox) PROVE Open(hb'.inbox[i])
    <3>1. i + 1 \in 1..Len(hb.inbox) /\ 1 \in 1..Len(hb.inbox) /\ 1 # i + 1
      BY <1>1, <2>1
    <3>2. hb.inbox[i + 1] # Head(hb.inbox)
      BY <2>1, <3>1 DEF Inbox
    <3>3. hb'.inbox[i] = hb.inbox[i + 1]
      BY <1>1, <2>1
    <3> HIDE DEF Open
    <3> QED BY <1>2, <3>1, <3>2, <3>3
  <2> QED BY <2>1, <2>2, <2>3 DEF Inbox
<1> QED
  <2>1. CASE \/ UNCHANGED vars \/ (\E kind \in Issuable : Issue(kind))
             \/ MainStep \/ Shutdown \/ Crash \/ (SyncOnly /\ Alive)
    <3>1. CASE ReportHandled
      BY <1>8, <3>1
    <3> QED BY <1>3, <1>4, <2>1, <3>1
            DEF vars, Issue, MainStep, Enroll, CloseInFlight, Exit, Die, Restart, Shutdown,
                Crash, SyncOnly
  <2>2. CASE HeartbeatStep \/ HeartbeatFails
    BY <1>4, <1>5, <1>6, <1>7, <1>8, <2>2 DEF HeartbeatStep, HeartbeatFails
  <2> QED BY <2>1, <2>2, WhoActs

-----------------------------------------------------------------------------
(* The pause. *)

LEMMA OnlyIssueAdds ==
  ASSUME TypeOK, Triggers, Rows, [Next]_vars, ~\E kind \in Issuable : Issue(kind)
  PROVE  Commands' = Commands /\ serverPaused' = serverPaused
<1>1. serverPaused' = serverPaused
  BY WhoActs DEF vars, serverVars, MainStep, Enroll, CloseInFlight, Exit, Restart, Shutdown, Crash,
                 HbOnly, SyncOnly
<1>2. Len(commands') = Len(commands)
  <2>1. CASE Acknowledge \/ ReportHandled
    <3>1. /\ Head(hb.inbox) \in Commands
          /\ \E status \in Statuses : UpdateCommand(Head(hb.inbox), status)
      BY <2>1, InboxSound DEF Acknowledge, ReportHandled, Statuses
    <3> QED BY <3>1, UpdateCommandSound
  <2>2. CASE ReportCycle
    <3>1. /\ sync.trigger \in Commands
          /\ \E status \in Statuses : UpdateCommand(sync.trigger, status)
      BY <2>2, CommandsSound DEF ReportCycle, Triggers, TypeOK, Commands, Scheduled, Statuses
    <3> QED BY <3>1, UpdateCommandSound
  <2> QED BY <2>1, <2>2, WhoWrites
<1> QED BY <1>1, <1>2 DEF Commands

LEMMA StandingStays ==
  ASSUME TypeOK, Triggers, Rows, [Next]_vars, NEW c \in Commands
  PROVE  /\ Flags(c)' <=> Flags(c)
         /\ Wants(c)' <=> Wants(c)
         /\ \A d \in Commands : Contrary(c, d)' <=> Contrary(c, d)
         /\ Standing(c)' => Standing(c)
<1>1. Commands \subseteq Commands' /\ \A d \in Commands : commands'[d].kind = commands[d].kind
  BY CommandsStay
<1>2. \A d \in Commands : Flags(d)' <=> Flags(d)
  BY <1>1 DEF Flags
<1>3. \A d \in Commands : Contrary(c, d)' <=> Contrary(c, d)
  BY <1>1, <1>2 DEF Contrary
<1>4. Wants(c)' <=> Wants(c)
  BY <1>1 DEF Wants
<1> QED BY <1>1, <1>2, <1>3, <1>4 DEF Standing

\* A command other than a sync command that was given a verdict keeps it.
LEMMA VerdictStays ==
  ASSUME TypeOK, Triggers, Rows, Inbox, [Next]_vars, NEW c \in Commands,
         commands[c].kind # "trigger_sync", commands[c].status \notin Underway
  PROVE  commands'[c].status = commands[c].status
<1> SUFFICES ASSUME commands'[c].status # commands[c].status PROVE FALSE
  OBVIOUS
<1>1. c = Head(hb.inbox) /\ (Acknowledge \/ ReportHandled)
  BY StatusChanges
<1>2. hb.inbox[1] = c /\ 1 \in 1..Len(hb.inbox)
  BY <1>1, InboxSound DEF Acknowledge, ReportHandled
<1> QED BY <1>2 DEF Inbox

\* A word holds once it has been reported, and for no other reason.
LEMMA HoldsWhenReported ==
  ASSUME TypeOK, Triggers, Rows, Inbox, [Next]_vars, NEW c \in Commands', Holds(c)'
  PROVE  /\ c \in Commands /\ Flags(c) /\ Standing(c)
         /\ Holds(c) \/ (ReportHandled /\ c = Head(hb.inbox))
<1>1. /\ Flags(c)' /\ commands'[c].status = "completed"
      /\ \A d \in Commands' : Contrary(c, d)' => d < c /\ d \notin commands'[c].behind
  BY DEF Holds
<1>2. c \in Commands
  BY <1>1, OnlyIssueAdds, IssueSound
<1>3. /\ Flags(c)
      /\ \A d \in Commands : Contrary(c, d) => d < c /\ d \notin commands[c].behind
  BY <1>1, <1>2, CommandsStay, StandingStays
<1>4. commands[c].status = "completed" \/ (ReportHandled /\ c = Head(hb.inbox))
  BY <1>1, <1>2, <1>3, StatusChanges DEF Flags
<1> QED BY <1>2, <1>3, <1>4 DEF Standing, Holds

\* Who moves the pause flag of a live process.
LEMMA FlagMoves ==
  ASSUME [Next]_vars
  PROVE  \/ paused' = paused \/ Enroll \/ Die
         \/ HeartbeatOk \/ HeartbeatFails \/ PauseOrResume
BY WhoActs DEF vars, Issue, MainStep, CloseInFlight, Exit, Restart, Shutdown, Crash, SyncOnly,
               HeartbeatStep, Heartbeat, Acknowledge, QueueTrigger, ServiceCommandEnds, ReportHandled

\* Who takes the heartbeat task where.
LEMMA HeartbeatMoves ==
  ASSUME TypeOK, [Next]_vars
  PROVE  \/ hb' = hb \/ Heartbeat \/ PauseOrResume \/ ServiceCommandEnds
         \/ hb'.pc \in {"wait", "ack", "handle"}
<1>1. hb \in [pc : {"wait", "reply", "ack", "handle", "report"},
             inbox : Seq(Commands), told : BOOLEAN]
  BY DEF TypeOK
<1>2. CASE HeartbeatStep \/ HeartbeatFails
  <2>1. CASE HeartbeatOk \/ Acknowledge \/ HeartbeatFails
    BY <1>1, <2>1 DEF HeartbeatFails, HbWaiting, HeartbeatOk, Acknowledge
  <2>2. CASE QueueTrigger \/ ReportHandled
    BY <2>2, InboxSound DEF QueueTrigger, ReportHandled
  <2> QED BY <1>2, <2>1, <2>2 DEF HeartbeatStep
<1>3. CASE MainStep \/ Shutdown \/ Crash
  BY <1>3 DEF MainStep, Enroll, CloseInFlight, Exit, Restart, Shutdown, Crash, Die, HbWaiting
<1> QED BY <1>2, <1>3, WhoActs DEF vars, Issue, SyncOnly

LEMMA HoldsIsKnown ==
  ASSUME TypeOK, Triggers, Rows, Inbox, Pauses, [Next]_vars,
         NEW c \in Commands', Holds(c)', Alive'
  PROVE  paused' <=> Wants(c)
<1>1. /\ c \in Commands /\ Flags(c) /\ Standing(c) /\ (serverPaused <=> Wants(c))
      /\ Holds(c) \/ (ReportHandled /\ c = Head(hb.inbox))
  BY HoldsWhenReported DEF Pauses
<1>2. CASE ReportHandled /\ c = Head(hb.inbox)
  BY <1>1, <1>2 DEF ReportHandled, Pauses
<1>3. CASE Enroll
  BY <1>1, <1>3 DEF Enroll, StartsPaused
<1>4. CASE Holds(c) /\ HeartbeatOk
  <2>1. commands[c].status # "pending" /\ hb.pc = "reply" /\ paused' = hb.told
    BY <1>4 DEF Holds, HeartbeatOk, Reconciled
  <2> QED BY <1>1, <2>1 DEF Pauses
<1>5. CASE Holds(c) /\ HeartbeatFails
  <2>1. paused <=> Wants(c)
    BY <1>1, <1>5 DEF HeartbeatFails, Pauses
  <2> QED BY <1>1, <1>5, <2>1 DEF HeartbeatFails
<1>6. CASE Holds(c) /\ PauseOrResume
  <2> DEFINE d == Head(hb.inbox)
  <2>1. hb.inbox[1] = d /\ 1 \in 1..Len(hb.inbox) /\ d \in Commands
    BY <1>6, InboxSound DEF PauseOrResume
  <2>2. Flags(d) /\ (paused' <=> Wants(d))
    BY <1>6 DEF PauseOrResume, Flags, Wants
  <2>3. commands[d].status # "completed"
    BY <2>1, <2>2 DEF Inbox, Flags, Underway
  <2>4. ASSUME Contrary(c, d) PROVE FALSE
    <3>1. d < c /\ d \notin commands[c].behind
      BY <1>6, <2>1, <2>4 DEF Holds
    <3> QED BY <1>1, <2>1, <2>2, <2>3, <3>1 DEF Pauses
  <2>5. Wants(d) <=> Wants(c)
    BY <1>1, <2>2, <2>4 DEF Contrary, Flags, Wants
  <2> QED BY <2>2, <2>5
<1>7. CASE paused' = paused /\ Holds(c) /\ Alive
  BY <1>1, <1>7 DEF Pauses
<1>8. ~Die /\ (~Alive => Enroll)
  BY WhoActs DEF Alive, Die, vars, Issue, MainStep, Enroll, CloseInFlight, Exit, Restart, Shutdown, Crash
<1> QED BY <1>1, <1>2, <1>3, <1>4, <1>5, <1>6, <1>7, <1>8, FlagMoves

LEMMA NextPauses ==
  ASSUME TypeOK, Still, Triggers, Rows, Inbox, Pauses, [Next]_vars PROVE Pauses'
<1>1. ASSUME NEW c \in Commands', Standing(c)' PROVE serverPaused' <=> Wants(c)'
  <2>1. CASE c \in Commands /\ serverPaused' = serverPaused
    BY <1>1, <2>1, StandingStays DEF Pauses
  <2>2. ASSUME NEW kind \in Issuable, Issue(kind),
               c \notin Commands \/ serverPaused' # serverPaused
        PROVE  serverPaused' <=> Wants(c)'
    <3>1. PICK n : /\ n \in Commands' /\ commands'[n].kind = kind
                   /\ c \in Commands => ~(n < c)
                   /\ c \notin Commands => c = n
      <4> DEFINE n == Len(commands) + 1
      <4>1. Len(commands) \in Nat
        BY CommandsSound
      <4>2. /\ n \in Commands' /\ commands'[n].kind = kind
            /\ c \in Commands => ~(n < c)
            /\ c \notin Commands => c = n
        BY <1>1, <2>2, <4>1, IssueSound DEF Commands
      <4> QED BY <4>2
    <3>2. CASE kind \in {"pause", "resume"}
      <4>1. serverPaused' <=> kind = "pause"
        BY <2>2, <3>2 DEF Issue
      <4>2. Contrary(c, n)' => n < c
        BY <1>1, <3>1 DEF Standing
      <4>3. Flags(c)' /\ Flags(n)'
        BY <1>1, <3>1, <3>2 DEF Standing, Flags
      <4>4. commands'[c].kind = kind
        BY <3>1, <4>2, <4>3 DEF Contrary
      <4> QED BY <4>1, <4>4 DEF Wants
    <3>3. CASE kind \notin {"pause", "resume"}
      BY <1>1, <2>2, <3>1, <3>3 DEF Issue, Standing, Flags
    <3> QED BY <3>2, <3>3
  <2> QED BY <1>1, <2>1, <2>2, OnlyIssueAdds
<1>2. ASSUME hb'.pc = "reply", NEW c \in Commands', Standing(c)', ~(hb'.told <=> Wants(c)')
      PROVE  commands'[c].status = "pending"
  <2>1. c \in Commands => /\ Standing(c) /\ commands[c].kind # "trigger_sync"
                          /\ serverPaused <=> Wants(c)
                          /\ ~(hb'.told <=> Wants(c))
    BY <1>2, StandingStays DEF Standing, Pauses, Flags
  <2>2. Heartbeat \/ (hb' = hb)
    BY <1>2, HeartbeatMoves DEF PauseOrResume, ServiceCommandEnds, TypeOK
  <2>3. CASE Heartbeat
    <3>1. hb'.told = serverPaused /\ Commands' = Commands
      BY <2>3, HeartbeatSound DEF Heartbeat, Commands
    <3> QED BY <1>2, <2>1, <3>1
  <2>4. CASE hb' = hb /\ c \in Commands
    <3>1. commands[c].status = "pending"
      BY <1>2, <2>1, <2>4 DEF Pauses
    <3>2. ~Acknowledge /\ ~ReportHandled
      BY <1>2, <2>4 DEF Acknowledge, ReportHandled
    <3> QED BY <2>1, <2>4, <3>1, <3>2, StatusChanges
  <2>5. CASE c \notin Commands
    BY <2>5, OnlyIssueAdds, IssueSound
  <2> QED BY <2>2, <2>3, <2>4, <2>5
<1>3. ASSUME NEW c \in Commands', NEW d \in Commands', d < c, Flags(d)',
             d \notin commands'[c].behind
      PROVE  commands'[d].status = "completed"
  <2>1. d \in Commands
    BY <1>3, OnlyIssueAdds, IssueSound, CommandsSound DEF Commands
  <2>2. Flags(d) /\ commands[d].kind # "trigger_sync"
    BY <1>3, <2>1, StandingStays DEF Flags
  <2>3. commands[d].status = "completed"
    BY <1>3, <2>1, <2>2, CommandsStay, OnlyIssueAdds, IssueSound DEF Pauses
  <2> QED BY <2>1, <2>2, <2>3, VerdictStays DEF Underway
<1>4. ASSUME hb'.pc = "report", Flags(Head(hb.inbox))'
      PROVE  paused' <=> Wants(Head(hb.inbox))'
  <2>1. PauseOrResume \/ ServiceCommandEnds \/ hb' = hb
    BY <1>4, HeartbeatMoves DEF Heartbeat
  <2>2. CASE PauseOrResume \/ ServiceCommandEnds
    <3>1. hb'.inbox = hb.inbox /\ commands' = commands
      BY <2>2 DEF PauseOrResume, ServiceCommandEnds, TypeOK
    <3> QED BY <1>4, <2>2, <3>1 DEF PauseOrResume, ServiceCommandEnds, Flags, Wants
  <2>3. CASE hb' = hb
    <3>1. /\ Flags(Head(hb.inbox)) /\ hb.pc = "report" /\ Alive
          /\ Wants(Head(hb.inbox))' <=> Wants(Head(hb.inbox))
      BY <1>4, <2>3, InboxSound, StandingStays DEF Still
    <3>2. paused <=> Wants(Head(hb.inbox))
      BY <3>1 DEF Pauses
    <3>3. ~Enroll /\ ~HeartbeatOk /\ ~HeartbeatFails /\ ~PauseOrResume /\ ~Die
      BY <2>3, <3>1 DEF Enroll, Alive, HeartbeatOk, HeartbeatFails, PauseOrResume, Die, HbWaiting
    <3> QED BY <3>1, <3>2, <3>3, FlagMoves
  <2> QED BY <2>1, <2>2, <2>3
<1>5. ASSUME Alive', NEW c \in Commands', Holds(c)' PROVE paused' <=> Wants(c)'
  BY <1>5, HoldsIsKnown, HoldsWhenReported, StandingStays
<1> QED BY <1>1, <1>2, <1>3, <1>4, <1>5 DEF Pauses

-----------------------------------------------------------------------------
(* The ledger. *)

\* One is kept for the row a shutdown is about to close.
Reserved == IF main = "closing" THEN 1 ELSE 0

Paid == Cardinality(LeftOpen) + Reserved <= faults + restarts

\* A step that failed, or ended the process, pays for a row.
Pays(cost) == faults + restarts + Reserved' + cost <= faults' + restarts' + Reserved

\* The sync task answers for one row at a time.
LEMMA OneOwnRow ==
  ASSUME TypeOK, Rows, sync.pc \in {"create", "sync", "close"}
  PROVE  OwnRow = {sync.row} \ {NoEvent}
BY DEF OwnRow, Rows

LEMMA LeftOpenFinite ==
  ASSUME TypeOK
  PROVE  IsFiniteSet(LeftOpen) /\ Cardinality(LeftOpen) \in Nat
<1>1. IsFiniteSet(1..Len(events)) /\ LeftOpen \subseteq 1..Len(events)
  BY CommandsSound, FS_Interval DEF LeftOpen
<1> QED BY <1>1, FS_Subset, FS_CardinalityType

\* The rows in use by the sync task, and those nobody will close.
LEMMA LeftOpenIs ==
  ASSUME TypeOK
  PROVE  \A e : e \in LeftOpen <=>
           /\ e \in 1..Len(events) /\ events[e].status = "running"
           /\ ~(sync.pc \in {"create", "sync", "close"} /\ e \in OwnRow)
BY CommandsSound DEF LeftOpen

\* A step leaves no row behind, or one, and then it is paid for.
LEMMA PaidWhen ==
  ASSUME TypeOK, TypeOK', Paid, NEW cost \in {0, 1}, NEW e,
         cost = 0 => LeftOpen' \subseteq LeftOpen, LeftOpen' \subseteq LeftOpen \cup {e},
         Pays(cost)
  PROVE  Paid'
<1>1. IsFiniteSet(LeftOpen) /\ Cardinality(LeftOpen) \in Nat
  BY LeftOpenFinite
<1>2. /\ IsFiniteSet(LeftOpen \cup {e}) /\ Cardinality(LeftOpen \cup {e}) \in Nat
      /\ Cardinality(LeftOpen \cup {e}) <= Cardinality(LeftOpen) + 1
  <2>1. /\ IsFiniteSet(LeftOpen \cup {e})
        /\ \/ Cardinality(LeftOpen \cup {e}) = Cardinality(LeftOpen)
           \/ Cardinality(LeftOpen \cup {e}) = Cardinality(LeftOpen) + 1
    BY <1>1, FS_AddElement
  <2> QED BY <1>1, <2>1
<1>3. /\ Cardinality(LeftOpen') \in Nat
      /\ Cardinality(LeftOpen') <= Cardinality(LeftOpen) + cost
  <2>1. CASE cost = 0
    BY <1>1, <2>1, FS_Subset, FS_CardinalityType
  <2>2. CASE cost = 1
    <3>1. /\ Cardinality(LeftOpen') \in Nat
          /\ Cardinality(LeftOpen') <= Cardinality(LeftOpen \cup {e})
      BY <1>2, FS_Subset, FS_CardinalityType
    <3> QED BY <1>1, <1>2, <2>2, <3>1
  <2> QED BY <2>1, <2>2
<1>4. /\ faults \in Nat /\ restarts \in Nat /\ faults' \in Nat /\ restarts' \in Nat
      /\ Reserved \in Nat /\ Reserved' \in Nat
  BY RunnerBoundsAreNat DEF TypeOK, Reserved
<1>5. Cardinality(LeftOpen) + Reserved <= faults + restarts
  BY DEF Paid
<1>6. \A n, m, f, g, r, s, v, w \in Nat :
        m <= n + cost /\ n + v <= f + r /\ f + r + w + cost <= g + s + v => m + w <= g + s
  OBVIOUS
<1>7. faults + restarts + Reserved' + cost <= faults' + restarts' + Reserved
  BY DEF Pays
<1>8. Cardinality(LeftOpen') + Reserved' <= faults' + restarts'
  BY <1>1, <1>3, <1>4, <1>5, <1>6, <1>7, Zenon
<1> QED BY <1>8 DEF Paid

LEMMA FreeWhen ==
  ASSUME TypeOK, UNCHANGED <<main, restarts>>, faults' = faults \/ Fault
  PROVE  Pays(0) /\ (Fault => Pays(1))
<1>1. /\ faults \in Nat /\ faults' \in Nat /\ faults' >= faults /\ restarts \in Nat
      /\ Fault => faults' >= faults + 1
  BY FaultCounts, RunnerBoundsAreNat DEF TypeOK, Fault
<1>2. Reserved' = Reserved /\ restarts' = restarts /\ Reserved \in Nat
  BY DEF Reserved
<1>3. \A f, g, r, v, cost \in Nat : g >= f + cost => f + r + v + cost <= g + r + v
  OBVIOUS
<1>4. ASSUME NEW cost \in Nat, faults' >= faults + cost PROVE Pays(cost)
  <2>1. faults + restarts + Reserved + cost <= faults' + restarts + Reserved
    BY <1>1, <1>2, <1>3, <1>4, Zenon
  <2> QED BY <1>2, <2>1, Zenon DEF Pays
<1>5. Pays(0)
  <2>1. faults' >= faults + 0
    BY <1>1
  <2> QED BY <1>4, <2>1
<1> QED BY <1>1, <1>4, <1>5

\* A process that ends leaves the row of its cycle, at the price of a restart.
LEMMA DiePays ==
  ASSUME TypeOK, TypeOK', Rows, Paid, Crash \/ Exit \/ (Shutdown /\ Die)
  PROVE  Paid'
<1>1. /\ main' = "down" /\ sync' = SyncWaiting /\ UNCHANGED <<events, faults>>
      /\ \/ restarts' = restarts + 1
         \/ restarts' = restarts /\ main = "closing"
  BY DEF Crash, Exit, Shutdown, Die, serverVars, counters
<1>2. /\ faults \in Nat /\ restarts \in Nat /\ Reserved' = 0 /\ Reserved \in {0, 1}
      /\ main = "closing" => Reserved = 1
  BY <1>1, RunnerBoundsAreNat DEF TypeOK, Reserved
<1>3. Pays(1)
  BY <1>1, <1>2 DEF Pays
<1>4. LeftOpen' \subseteq LeftOpen \cup {sync.row}
  BY <1>1, OneOwnRow DEF LeftOpen
<1> QED BY <1>3, <1>4, PaidWhen

\* The steps of the sync task.
LEMMA SyncPays ==
  ASSUME TypeOK, TypeOK', Rows, Paid, SyncStep \/ Tick \/ CreateFails
  PROVE  Paid'
<1>1. \A e : e \in LeftOpen' <=>
        /\ e \in DOMAIN events' /\ events'[e].status = "running"
        /\ ~(sync'.pc \in {"create", "sync", "close"} /\ e \in OwnRow')
  BY DEF LeftOpen
<1>2. sync \in [pc : {"select", "create", "sync", "close", "report"},
               trigger : 0..Len(commands), attempt : 0..(CreateAttempts - 1),
               row : 0..Len(events), event : 0..Len(events), outcome : Outcomes]
  BY DEF TypeOK
<1>3. UNCHANGED <<main, restarts>>
  BY DEF SyncStep, Tick, CreateFails, Receive, CreateLands, CreateOk, SyncEnds, CloseEvent,
         ReportCycle, SyncOnly
<1>4. ASSUME LeftOpen' \subseteq LeftOpen, faults' = faults \/ Fault PROVE Paid'
  BY <1>3, <1>4, FreeWhen, PaidWhen
<1>5. ASSUME LeftOpen' \subseteq LeftOpen \cup {sync.row}, Fault PROVE Paid'
  BY <1>3, <1>5, FreeWhen, PaidWhen
<1>6. CASE Tick \/ Receive
  <2>1. UNCHANGED <<events, faults>> /\ sync.pc = "select"
    BY <1>6 DEF Tick, Receive
  <2>2. sync' = sync \/ OwnRow' = {}
    BY <1>6 DEF Tick, Receive, Begin, SyncWaiting, OwnRow
  <2>3. LeftOpen' \subseteq LeftOpen
    BY <1>1, <2>1, <2>2, LeftOpenIs, CommandsSound
  <2> QED BY <1>4, <2>1, <2>3
<1>7. CASE CreateLands
  <2>1. /\ sync.pc = "create" /\ sync'.pc = "create" /\ sync'.row = Len(events) + 1
        /\ sync.row = NoEvent /\ events' = Append(events, [status |-> "running"])
        /\ faults' = faults
    BY <1>2, <1>7 DEF CreateLands
  <2>2. OwnRow = {} /\ Len(events) + 1 \in OwnRow'
    BY <1>7, <2>1, OneOwnRow, CommandsSound DEF OwnRow, NoEvent
  <2>3. /\ DOMAIN events' = 1..(Len(events) + 1)
        /\ \A e \in 1..Len(events) : events'[e] = events[e]
    BY <2>1, CommandsSound, AppendProperties DEF Event
  <2>4. \A e \in DOMAIN events' : e = Len(events) + 1 \/ e \in 1..Len(events)
    BY <2>3, CommandsSound
  <2>5. LeftOpen' \subseteq LeftOpen
    BY <1>1, <2>1, <2>2, <2>3, <2>4, LeftOpenIs
  <2> QED BY <1>4, <2>1, <2>5
<1>8. CASE CreateOk \/ SyncEnds \/ ReportCycle
  <2>1. events' = events /\ (faults' = faults \/ Fault)
    BY <1>8 DEF CreateOk, SyncEnds, ReportCycle, UpdateCommand
  <2>2. sync.pc \notin {"create", "sync", "close"} \/ OwnRow = {}
          \/ (sync'.pc \in {"create", "sync", "close"} /\ OwnRow \subseteq OwnRow')
    <3>1. CASE CreateOk
      BY <1>2, <3>1, OneOwnRow DEF CreateOk, AnsweredId, OwnRow
    <3>2. CASE SyncEnds
      <4>1. CASE sync.event = NoEvent
        BY <3>2, <4>1, OneOwnRow DEF SyncEnds, Rows
      <4>2. CASE sync.event # NoEvent
        BY <1>2, <3>2, <4>2 DEF SyncEnds, OwnRow
      <4> QED BY <4>1, <4>2
    <3> QED BY <1>8, <3>1, <3>2 DEF ReportCycle
  <2>3. LeftOpen' \subseteq LeftOpen
    BY <1>1, <2>1, <2>2, LeftOpenIs, CommandsSound
  <2> QED BY <1>4, <2>1, <2>3
<1>9. CASE CreateFails
  <2>1. UNCHANGED events /\ Fault /\ sync.pc = "create"
    BY <1>9 DEF CreateFails
  <2>2. LeftOpen' \subseteq LeftOpen \cup {sync.row}
    BY <1>1, <2>1, LeftOpenIs, OneOwnRow, CommandsSound
  <2> QED BY <1>5, <2>1, <2>2
<1>10. CASE CloseEvent
  <2>1. /\ sync.event \in 1..Len(events) /\ sync.event = sync.row /\ sync.outcome \in Outcomes
        /\ sync.pc = "close" /\ sync'.pc \in {"select", "report"}
        /\ UpdateEvent(sync.event, sync.outcome)
    BY <1>2, <1>10 DEF CloseEvent, Rows, NoEvent, AfterClose
  <2>2. /\ Len(events') = Len(events) /\ events' \in Seq(Event)
        /\ \A d \in 1..Len(events) : d # sync.row => events'[d].status = events[d].status
        /\ events'[sync.row].status # "running" \/ Fault
        /\ faults' = faults \/ Fault
    BY <2>1, UpdateEventSound DEF Outcomes
  <2>3. OwnRow \subseteq {sync.row} /\ DOMAIN events' = 1..Len(events)
    BY <2>1, <2>2, OneOwnRow, CommandsSound
  <2>4. LeftOpen' \subseteq LeftOpen \cup {sync.row}
    BY <1>1, <2>2, <2>3, LeftOpenIs
  <2>5. CASE events'[sync.row].status # "running"
    <3>1. LeftOpen' \subseteq LeftOpen
      BY <1>1, <2>4, <2>5
    <3> QED BY <1>4, <2>2, <3>1
  <2> QED BY <1>5, <2>2, <2>4, <2>5
<1> QED BY <1>6, <1>7, <1>8, <1>9, <1>10 DEF SyncStep

LEMMA NextPaid ==
  ASSUME TypeOK, TypeOK', Rows, Paid, [Next]_vars PROVE Paid'
<1>1. CASE UNCHANGED <<events, sync>> /\ Pays(0)
  <2>1. LeftOpen' \subseteq LeftOpen
    BY <1>1 DEF LeftOpen, OwnRow
  <2> QED BY <1>1, <2>1, PaidWhen
<1>2. CASE UNCHANGED vars \/ (\E kind \in Issuable : Issue(kind))
  BY <1>1, <1>2, FreeWhen DEF vars, serverVars, counters, Issue
<1>3. CASE HeartbeatStep \/ HeartbeatFails
  <2>1. UNCHANGED <<events, sync, main, restarts>> /\ (faults' = faults \/ Fault)
    BY <1>3 DEF HeartbeatStep, Heartbeat, HeartbeatOk, Acknowledge, QueueTrigger, PauseOrResume,
                ServiceCommandEnds, ReportHandled, HeartbeatFails, HbOnly, UpdateCommand
  <2> QED BY <1>1, <2>1, FreeWhen
<1>4. CASE Enroll \/ Restart
  <2>1. UNCHANGED <<events, sync, faults, restarts>> /\ Reserved' = 0 /\ Reserved = 0
    BY <1>4 DEF Enroll, Restart, serverVars, counters, Reserved
  <2>2. faults \in Nat /\ restarts \in Nat
    BY RunnerBoundsAreNat DEF TypeOK
  <2>3. Pays(0)
    BY <2>1, <2>2 DEF Pays
  <2> QED BY <1>1, <2>1, <2>3
<1>5. CASE Shutdown /\ ~Die
  <2>1. /\ UNCHANGED <<events, sync, faults>> /\ restarts' = restarts + 1
        /\ Reserved' = 1 /\ Reserved = 0 /\ faults \in Nat /\ restarts \in Nat
    BY <1>5, RunnerBoundsAreNat DEF Shutdown, serverVars, Reserved, TypeOK
  <2>2. Pays(0)
    BY <2>1 DEF Pays
  <2> QED BY <1>1, <2>1, <2>2
<1>6. CASE CloseInFlight
  <2>1. /\ closing \in 1..Len(events) /\ UpdateEvent(closing, "failed")
        /\ UNCHANGED <<main, sync, restarts>>
    BY <1>6, CommandsSound DEF CloseInFlight, NoEvent, TypeOK
  <2>2. /\ Len(events') = Len(events) /\ events' \in Seq(Event)
        /\ \A d \in 1..Len(events) :
             events'[d].status = "running" => events[d].status = "running"
        /\ faults' = faults \/ Fault
    BY <2>1, UpdateEventSound DEF Outcomes
  <2>3. DOMAIN events' = DOMAIN events /\ DOMAIN events = 1..Len(events)
    BY <2>2, CommandsSound
  <2>4. LeftOpen' \subseteq LeftOpen
    BY <2>1, <2>2, <2>3 DEF LeftOpen, OwnRow
  <2> QED BY <2>1, <2>2, <2>4, FreeWhen, PaidWhen
<1> QED BY <1>2, <1>3, <1>4, <1>5, <1>6, DiePays, SyncPays, WhoActs DEF MainStep

-----------------------------------------------------------------------------
(* The sync commands. *)

\* A sync command that is reported completed has had its cycle.
CompletedWasRun ==
  \A c \in Commands :
    commands[c].kind = "trigger_sync" /\ commands[c].status = "completed" => c \in ran

RunInv ==
  /\ CompletedWasRun
  /\ sync.pc # "select" /\ sync.trigger # Scheduled => sync.trigger \in ran

\* The heartbeat task acknowledges sync commands, and reports none of them.
LEMMA WhoCompletes ==
  ASSUME TypeOK, Triggers, Rows, Inbox, [Next]_vars, NEW c \in Commands',
         commands'[c].kind = "trigger_sync", commands'[c].status = "completed"
  PROVE  /\ c \in Commands /\ commands[c].kind = "trigger_sync"
         /\ commands[c].status = "completed" \/ (ReportCycle /\ c = sync.trigger)
<1>1. c \in Commands
  BY OnlyIssueAdds, IssueSound
<1>2. commands[c].kind = "trigger_sync"
  BY <1>1, CommandsStay
<1>3. CASE \E kind \in Issuable : Issue(kind)
  BY <1>1, <1>2, <1>3, IssueSound
<1>4. CASE Acknowledge
  <2>1. Head(hb.inbox) \in Commands /\ UpdateCommand(Head(hb.inbox), "acknowledged")
    BY <1>4, InboxSound DEF Acknowledge
  <2> QED BY <1>1, <1>2, <2>1, UpdateCommandSound DEF Statuses
<1>5. CASE ReportHandled
  <2>1. /\ Head(hb.inbox) \in Commands /\ commands[Head(hb.inbox)].kind # "trigger_sync"
        /\ \E status \in Statuses : UpdateCommand(Head(hb.inbox), status)
    BY <1>5, InboxSound DEF ReportHandled, Inbox, Statuses
  <2> QED BY <1>1, <1>2, <2>1, UpdateCommandSound
<1>6. CASE ReportCycle
  <2>1. /\ sync.trigger \in Commands
        /\ \E status \in Statuses : UpdateCommand(sync.trigger, status)
    BY <1>6, CommandsSound DEF ReportCycle, Triggers, TypeOK, Commands, Scheduled, Statuses
  <2> QED BY <1>1, <1>2, <1>6, <2>1, UpdateCommandSound
<1> QED BY <1>1, <1>2, <1>3, <1>4, <1>5, <1>6, WhoWrites

LEMMA NextRunInv ==
  ASSUME TypeOK, Triggers, Rows, Inbox, RunInv, [Next]_vars PROVE RunInv'
<1>1. sync \in [pc : {"select", "create", "sync", "close", "report"},
               trigger : 0..Len(commands), attempt : 0..(CreateAttempts - 1),
               row : 0..Len(events), event : 0..Len(events), outcome : Outcomes]
  BY DEF TypeOK
<1>2. ran \subseteq ran'
  BY WhoActs DEF vars, Issue, MainStep, Enroll, CloseInFlight, Exit, Restart, Shutdown, Crash, HbOnly,
                 SyncStep, Tick, CreateFails, Receive, Begin, CreateLands, CreateOk, SyncEnds,
                 CloseEvent, ReportCycle
<1>3. CompletedWasRun'
  <2> SUFFICES ASSUME NEW c \in Commands', commands'[c].kind = "trigger_sync",
                      commands'[c].status = "completed"
               PROVE  c \in ran'
    BY DEF CompletedWasRun
  <2>1. /\ c \in Commands /\ commands[c].kind = "trigger_sync"
        /\ commands[c].status = "completed" \/ (ReportCycle /\ c = sync.trigger)
    BY WhoCompletes
  <2>2. CASE ReportCycle /\ c = sync.trigger
    BY <1>2, <2>2 DEF ReportCycle, RunInv, Triggers
  <2> QED BY <1>2, <2>1, <2>2 DEF RunInv, CompletedWasRun
<1>4. ASSUME sync'.pc # "select", sync'.trigger # Scheduled PROVE sync'.trigger \in ran'
  <2>1. CASE Tick \/ Receive
    <3>1. PICK trigger : Begin(trigger)
      BY <2>1 DEF Tick, Receive
    <3>2. sync.pc = "select"
      BY <2>1 DEF Tick, Receive
    <3>3. /\ sync' = [SyncWaiting EXCEPT !.pc = "create", !.trigger = trigger]
          /\ ran' = ran \cup ({trigger} \ {Scheduled})
      BY <1>4, <3>1, <3>2 DEF Begin
    <3>4. sync'.trigger = trigger
      BY <3>3 DEF SyncWaiting
    <3> QED BY <1>4, <3>3, <3>4
  <2>2. CASE CreateLands \/ CreateOk \/ CreateFails \/ SyncEnds \/ CloseEvent
    <3>1. sync.pc # "select" /\ sync'.trigger = sync.trigger
      BY <1>1, <2>2 DEF CreateLands, CreateOk, CreateFails, SyncEnds, CloseEvent
    <3> QED BY <1>2, <1>4, <3>1 DEF RunInv
  <2>3. CASE sync' = SyncWaiting
    BY <1>4, <2>3 DEF SyncWaiting
  <2>4. CASE sync' = sync
    BY <1>2, <1>4, <2>4 DEF RunInv
  <2> QED BY <2>1, <2>2, <2>3, <2>4, WhoActs
          DEF vars, Issue, MainStep, Enroll, CloseInFlight, Exit, Die, Restart, Shutdown, Crash,
              HbOnly, SyncStep, ReportCycle
<1> QED BY <1>3, <1>4 DEF RunInv

-----------------------------------------------------------------------------
(* The theorems. *)

IInv == TypeOK /\ Still /\ Triggers /\ Rows /\ Inbox /\ Pauses /\ Paid /\ RunInv

LEMMA InitIInv == Init => IInv
<1> SUFFICES ASSUME Init PROVE IInv
  OBVIOUS
<1>1. /\ Len(<<>>) = 0 /\ 1..0 = {} /\ queue = <<>> /\ hb = HbWaiting /\ sync = SyncWaiting
      /\ commands = <<>> /\ events = <<>> /\ main = "enroll" /\ faults = 0 /\ restarts = 0
  BY DEF Init
<1>2. Commands = {} /\ LeftOpen = {}
  BY <1>1 DEF Commands, LeftOpen
<1>3. Still /\ Triggers /\ Rows
  BY <1>1 DEF Still, Triggers, IsTrigger, Rows, HbWaiting, SyncWaiting
<1>4. Inbox /\ Pauses
  BY <1>1, <1>2 DEF Inbox, Pauses, HbWaiting
<1>5. Paid
  BY <1>1, <1>2, FS_EmptySet DEF Paid, Reserved
<1>6. RunInv
  BY <1>1, <1>2 DEF RunInv, CompletedWasRun, SyncWaiting
<1> QED BY <1>3, <1>4, <1>5, <1>6, InitTypeOK DEF IInv

LEMMA NextIInv == IInv /\ [Next]_vars => IInv'
<1> SUFFICES ASSUME IInv, [Next]_vars PROVE IInv'
  OBVIOUS
<1>1. TypeOK /\ Still /\ Triggers /\ Rows /\ Inbox /\ Pauses /\ Paid /\ RunInv
  BY DEF IInv
<1>2. TypeOK' /\ Still' /\ Triggers' /\ Rows' /\ Inbox' /\ Pauses' /\ RunInv'
  BY <1>1, NextTypeOK, NextStill, NextTriggers, NextRows, NextInbox, NextPauses,
     NextRunInv
<1>3. Paid'
  BY <1>1, <1>2, NextPaid
<1> QED BY <1>2, <1>3 DEF IInv

LEMMA AlwaysIInv == Spec => []IInv
BY InitIInv, NextIInv, PTL DEF Spec

\* The runner's state always has its type.
THEOREM TypeCorrect == Spec => []TypeOK
<1>1. IInv => TypeOK
  BY DEF IInv
<1> QED BY <1>1, AlwaysIInv, PTL

\* There are never more rows left running than there were failures and
\* restarts, however many rows, retries, cycles and shutdowns there are.
THEOREM LedgerPaid == Spec => []DeadRowsArePaidFor
<1>1. IInv => DeadRowsArePaidFor
  <2> SUFFICES ASSUME IInv PROVE Cardinality(LeftOpen) <= faults + restarts
    BY DEF DeadRowsArePaidFor
  <2>1. /\ Cardinality(LeftOpen) \in Nat /\ Reserved \in Nat /\ faults \in Nat /\ restarts \in Nat
        /\ Cardinality(LeftOpen) + Reserved <= faults + restarts
    BY LeftOpenFinite, RunnerBoundsAreNat DEF IInv, TypeOK, Reserved, Paid
  <2> QED BY <2>1
<1> QED BY <1>1, AlwaysIInv, PTL

\* A sync command is reported completed only after a cycle was run for it,
\* however often it is delivered, and whatever reports are lost.
THEOREM CompletedOnlyIfRun == Spec => []CompletedWasRun
<1>1. IInv => CompletedWasRun
  BY DEF IInv, RunInv
<1> QED BY <1>1, AlwaysIInv, PTL

\* An operator's last word on the pause sticks, for any number of commands
\* delivered in any order, and of lost answers and restarts.
THEOREM LastWordHolds == Spec => LastWordSticks
<1>1. ASSUME IInv, [Next]_vars, sync.pc = "select", sync'.pc = "create",
             sync'.trigger = Scheduled
      PROVE  ~\E c \in Commands : Holds(c) /\ Wants(c)
  <2>1. (Tick \/ Receive) /\ Alive
    <3>1. sync' # sync /\ sync' # SyncWaiting
      BY <1>1 DEF SyncWaiting
    <3>2. CASE SyncStep \/ Tick \/ CreateFails
      BY <1>1, <3>2 DEF SyncStep, CreateLands, CreateOk, SyncEnds, CloseEvent, ReportCycle,
                        CreateFails, Tick, Receive
    <3> QED BY <1>1, <3>1, <3>2, WhoActs
            DEF vars, Issue, MainStep, Enroll, CloseInFlight, Exit, Restart, Shutdown, Crash, Die,
                HbOnly
  <2>2. PICK trigger : Begin(trigger)
    BY <2>1 DEF Tick, Receive
  <2>3. ~HeldBack(trigger) /\ sync' = [SyncWaiting EXCEPT !.pc = "create", !.trigger = trigger]
    BY <1>1, <2>2 DEF Begin
  <2>4. trigger = Scheduled
    BY <1>1, <2>3 DEF SyncWaiting
  <2>5. ~paused
    BY <2>3, <2>4 DEF HeldBack
  <2> QED BY <1>1, <2>1, <2>5 DEF IInv, Pauses
<1>2. ASSUME IInv, Tick \/ Receive, sync'.pc = "select"
      PROVE  ~\E c \in Commands : Holds(c) /\ ~Wants(c)
  <2>1. PICK trigger : Begin(trigger) /\ Alive
    BY <1>2 DEF Tick, Receive
  <2>2. HeldBack(trigger)
    BY <1>2, <2>1 DEF Begin, SyncWaiting
  <2> QED BY <1>2, <2>1, <2>2 DEF HeldBack, IInv, Pauses
<1> QED BY <1>1, <1>2, AlwaysIInv, PTL DEF Spec, LastWordSticks

\* A verdict on a pause, a resume or a service command is final, however often it
\* was delivered: no later delivery acknowledges it again or reports another, as
\* long as the reports themselves do not arrive late (runner.rs:324-368).
THEOREM VerdictIsFinal ==
  Spec => [][\A c \in Commands :
               commands[c].kind # "trigger_sync" /\ commands[c].status \notin Underway
                 => commands'[c].status = commands[c].status]_vars
<1> DEFINE Final ==
      \A c \in Commands :
        commands[c].kind # "trigger_sync" /\ commands[c].status \notin Underway
          => commands'[c].status = commands[c].status
<1>1. IInv /\ [Next]_vars => [Final]_vars
  BY VerdictStays DEF IInv
<1> HIDE DEF Final
<1>2. Spec => [][Final]_vars
  BY <1>1, AlwaysIInv, PTL DEF Spec
<1> QED BY <1>2 DEF Final

-----------------------------------------------------------------------------
(* What is promised to whoever issues commands. *)

\* The commands as their issuer sees them.
Board == [c \in Commands |-> [kind |-> commands[c].kind, status |-> commands[c].status]]

Ledger == INSTANCE CommandLedger WITH board <- Board, ran <- ran

LEMMA BoardSound ==
  ASSUME TypeOK
  PROVE  /\ DOMAIN Board = Commands
         /\ \A c \in Commands : /\ Board[c].kind = commands[c].kind
                                /\ Board[c].status = commands[c].status
BY DEF Board

\* A status that is recorded, or not, shows on the board and changes nothing else.
LEMMA UpdateShows ==
  ASSUME TypeOK, NEW c \in Commands, NEW status \in Statuses, UpdateCommand(c, status)
  PROVE  Board' = Board \/ Ledger!Becomes(c, status)
<1>1. /\ Len(commands') = Len(commands)
      /\ \A d \in Commands : /\ commands'[d].kind = commands[d].kind
                             /\ d # c => commands'[d].status = commands[d].status
      /\ commands'[c].status \in {commands[c].status, status}
  BY UpdateCommandSound
<1>2. Commands' = Commands
  BY <1>1 DEF Commands
<1>3. CASE commands'[c].status = commands[c].status
  <2>1. \A d \in Commands : /\ commands'[d].kind = commands[d].kind
                            /\ commands'[d].status = commands[d].status
    <3> SUFFICES ASSUME NEW d \in Commands
                 PROVE  commands'[d].kind = commands[d].kind /\ commands'[d].status = commands[d].status
      OBVIOUS
    <3>1. CASE d = c
      BY <1>1, <1>3, <3>1
    <3>2. CASE d # c
      BY <1>1, <3>2
    <3> QED BY <3>1, <3>2
  <2> QED BY <1>2, <2>1 DEF Board
<1>4. CASE commands'[c].status = status
  <2> DEFINE shown(d) == [kind |-> commands[d].kind, status |-> commands[d].status]
  <2>1. \A d \in Commands : [kind |-> commands'[d].kind, status |-> commands'[d].status]
                               = IF d = c THEN [shown(d) EXCEPT !.status = status] ELSE shown(d)
    <3> SUFFICES ASSUME NEW d \in Commands
                 PROVE  [kind |-> commands'[d].kind, status |-> commands'[d].status]
                          = IF d = c THEN [shown(d) EXCEPT !.status = status] ELSE shown(d)
      OBVIOUS
    <3>1. CASE d = c
      BY <1>1, <1>4, <3>1
    <3>2. CASE d # c
      BY <1>1, <3>2
    <3> QED BY <3>1, <3>2
  <2>2. [Board EXCEPT ![c].status = status]
          = [d \in Commands |-> IF d = c THEN [shown(d) EXCEPT !.status = status] ELSE shown(d)]
    BY DEF Board
  <2>3. Board' = [d \in Commands |-> [kind |-> commands'[d].kind, status |-> commands'[d].status]]
    BY <1>2 DEF Board
  <2> HIDE DEF shown
  <2> QED BY <2>1, <2>2, <2>3 DEF Ledger!Becomes
<1> QED BY <1>1, <1>3, <1>4

\* A command that is issued comes last on the board.
LEMMA IssueShows ==
  ASSUME TypeOK, NEW kind \in Issuable, Issue(kind)
  PROVE  Ledger!Issue
<1> DEFINE n == Len(commands) + 1
<1>1. /\ commands \in Seq(Command) /\ Len(commands) \in Nat /\ DOMAIN commands = Commands
      /\ \A c \in Commands : commands[c] \in Command
  BY CommandsSound
<1>2. /\ ran' = ran /\ kind \in Kinds
      /\ \E new : /\ commands' = Append(commands, new) /\ new.kind = kind /\ new.status = "pending"
                  /\ new \in Command
  <2> DEFINE new == [kind |-> kind, status |-> "pending",
                     behind |-> {c \in DOMAIN commands : commands[c].status # "completed"}]
  <2>1. commands' = Append(commands, new) /\ ran' = ran
    BY DEF Issue
  <2>2. new \in Command
    BY <1>1, IssuableAreKinds DEF Command, Statuses, Commands
  <2> QED BY <2>1, <2>2, IssuableAreKinds
<1>3. PICK new \in Command : /\ commands' = Append(commands, new)
                             /\ new.kind = kind /\ new.status = "pending"
  BY <1>2
<1>4. /\ Len(commands') = n /\ commands'[n] = new
      /\ \A c \in Commands : commands'[c] = commands[c]
  BY <1>1, <1>3 DEF Commands
<1> DEFINE shown == [kind |-> kind, status |-> "pending"]
           Shown == [kind : Kinds, status : Statuses]
<1>5. Board \in Seq(Shown) /\ Len(Board) = Len(commands)
  <2>1. Board \in [1..Len(commands) -> Shown]
    BY <1>1 DEF Board, Commands, Command
  <2> HIDE DEF Shown
  <2> QED BY <1>1, <2>1
<1>6. Append(Board, shown) = [c \in 1..n |-> IF c = n THEN shown ELSE Board[c]]
  <2> HIDE DEF Shown
  <2> QED BY <1>1, <1>5
<1>7. Board' = [c \in 1..n |-> [kind |-> commands'[c].kind, status |-> commands'[c].status]]
  BY <1>4 DEF Board, Commands
<1>8. \A c \in 1..n : [kind |-> commands'[c].kind, status |-> commands'[c].status]
                        = IF c = n THEN shown ELSE Board[c]
  BY <1>1, <1>3, <1>4 DEF Board, Commands
<1>9. Board' = Append(Board, shown)
  <2> HIDE DEF shown
  <2> QED BY <1>6, <1>7, <1>8
<1> QED BY <1>2, <1>9 DEF Ledger!Issue, Kinds

\* What the ledger sees of a command.
LEMMA LedgerSees ==
  ASSUME TypeOK, NEW c \in Commands
  PROVE  /\ c \in DOMAIN Board
         /\ Ledger!IsSync(c) <=> commands[c].kind = "trigger_sync"
         /\ commands[c].status \in Underway => Ledger!Open(c)
         /\ commands[c].kind = "trigger_sync" => Ledger!Open(c)
BY BoardSound DEF Ledger!IsSync, Ledger!Open, Ledger!Verdicts, Underway

\* Every step of the runner is one of the ledger's or leaves it alone.
LEMMA NextShows == IInv /\ [Next]_vars => [Ledger!Next]_(Ledger!vars)
<1> SUFFICES ASSUME IInv, [Next]_vars PROVE Ledger!Next \/ UNCHANGED <<Board, ran>>
  BY DEF Ledger!vars
<1>0. TypeOK /\ Triggers /\ Rows /\ Inbox /\ RunInv
  BY DEF IInv
<1>1. ASSUME NEW kind \in Issuable, Issue(kind) PROVE Ledger!Next
  BY <1>0, <1>1, IssueShows DEF Ledger!Next
<1>2. CASE Acknowledge
  <2> DEFINE c == Head(hb.inbox)
  <2>1. /\ c \in Commands /\ hb.inbox[1] = c /\ 1 \in 1..Len(hb.inbox)
        /\ UpdateCommand(c, "acknowledged") /\ ran' = ran
    BY <1>0, <1>2, InboxSound DEF Acknowledge, HbOnly
  <2>2. commands[c].kind = "trigger_sync" \/ commands[c].status \in Underway
    BY <1>0, <2>1 DEF Inbox
  <2> HIDE DEF c
  <2>3. Ledger!Open(c) /\ c \in DOMAIN Board
    BY <1>0, <2>1, <2>2, LedgerSees
  <2>4. Board' = Board \/ Ledger!Becomes(c, "acknowledged")
    BY <1>0, <2>1, UpdateShows DEF Statuses
  <2> QED BY <2>1, <2>3, <2>4 DEF Ledger!Next, Ledger!Acknowledge
<1>3. CASE ReportHandled
  <2> DEFINE c == Head(hb.inbox)
  <2>1. /\ c \in Commands /\ hb.inbox[1] = c /\ 1 \in 1..Len(hb.inbox)
        /\ ran' = ran /\ commands[c].kind # "trigger_sync"
    BY <1>0, <1>3, InboxSound DEF ReportHandled, HbOnly, Inbox
  <2>2. PICK verdict \in {"completed", "failed"} :
          /\ UpdateCommand(c, verdict)
          /\ verdict = "failed" => commands[c].kind = "service"
    BY <1>3 DEF ReportHandled
  <2>3. commands[c].status \in Underway
    BY <1>0, <2>1 DEF Inbox
  <2> HIDE DEF c
  <2>4. Ledger!Open(c) /\ c \in DOMAIN Board /\ ~Ledger!IsSync(c)
    BY <1>0, <2>1, <2>3, LedgerSees
  <2>5. Board' = Board \/ Ledger!Becomes(c, verdict)
    BY <1>0, <2>1, <2>2, UpdateShows DEF Statuses
  <2>6. Board[c].kind = commands[c].kind
    BY <1>0, <2>1, BoardSound
  <2> QED BY <2>1, <2>2, <2>4, <2>5, <2>6 DEF Ledger!Next, Ledger!Decide, Ledger!Verdicts
<1>4. CASE ReportCycle
  <2> DEFINE c == sync.trigger
  <2>1. /\ c \in Commands /\ commands[c].kind = "trigger_sync" /\ c \in ran /\ ran' = ran
    BY <1>0, <1>4, CommandsSound
       DEF ReportCycle, SyncOnly, Triggers, IsTrigger, TypeOK, Commands, Scheduled, RunInv
  <2>2. PICK verdict \in {"completed", "failed"} : UpdateCommand(c, verdict)
    BY <1>4 DEF ReportCycle
  <2> HIDE DEF c
  <2>3. Ledger!Open(c) /\ c \in DOMAIN Board
    BY <1>0, <2>1, LedgerSees
  <2>4. Board' = Board \/ Ledger!Becomes(c, verdict)
    BY <1>0, <2>1, <2>2, UpdateShows DEF Statuses
  <2>5. Board[c].kind = commands[c].kind
    BY <1>0, <2>1, BoardSound
  <2> QED BY <2>1, <2>2, <2>3, <2>4, <2>5 DEF Ledger!Next, Ledger!Decide, Ledger!Verdicts
<1>5. CASE commands' = commands
  <2>1. Board' = Board
    BY <1>5 DEF Board, Commands
  <2>2. CASE Tick \/ Receive
    <3>1. PICK trigger \in 0..Len(commands) : Begin(trigger) /\ IsTrigger(trigger)
      <4>1. CASE Tick
        BY <1>0, <4>1, CommandsSound DEF Tick, IsTrigger, Scheduled
      <4>2. CASE Receive
        <5>1. /\ queue \in Seq(0..Len(commands)) /\ queue # <<>> /\ Begin(Head(queue))
          BY <1>0, <4>2 DEF Receive, Receivable, TypeOK
        <5>2. Len(queue) \in Nat \ {0} /\ Head(queue) = queue[1]
          BY <5>1
        <5>3. Head(queue) \in 0..Len(commands) /\ IsTrigger(Head(queue))
          BY <1>0, <5>1, <5>2, ElementOfSeq DEF Triggers
        <5> QED BY <5>1, <5>3
      <4> QED BY <2>2, <4>1, <4>2
    <3>2. CASE ran' = ran
      BY <2>1, <3>2
    <3>3. CASE ran' # ran
      <4>1. trigger # Scheduled /\ ran' = ran \cup {trigger}
        BY <3>1, <3>3 DEF Begin
      <4>2. trigger \in Commands /\ commands[trigger].kind = "trigger_sync"
        BY <1>0, <3>1, <4>1, CommandsSound DEF IsTrigger, Commands, Scheduled
      <4>3. Ledger!IsSync(trigger) /\ trigger \in DOMAIN Board
        BY <1>0, <4>2, LedgerSees
      <4> QED BY <2>1, <4>1, <4>3 DEF Ledger!Next, Ledger!Run
    <3> QED BY <3>2, <3>3
  <2>3. CASE ~(Tick \/ Receive)
    <3>1. ran' = ran
      BY <2>3, WhoActs DEF vars, Issue, MainStep, Enroll, CloseInFlight, Exit, Restart, Shutdown,
         Crash, HbOnly, SyncStep, CreateFails, CreateLands, CreateOk, SyncEnds, CloseEvent,
         ReportCycle
    <3> QED BY <2>1, <3>1
  <2> QED BY <2>2, <2>3
<1> QED BY <1>1, <1>2, <1>3, <1>4, <1>5, WhoWrites

\* The runner keeps the ledger of commands, whatever is delivered twice or out
\* of order, is not recorded or cut short by a restart.
THEOREM KeepsLedger == Spec => Ledger!Spec
<1>1. Init => Ledger!Init
  <2> SUFFICES ASSUME Init PROVE Board = <<>> /\ ran = {}
    BY DEF Ledger!Init
  <2>1. commands = <<>> /\ ran = {} /\ Commands = {}
    BY DEF Init, Commands
  <2> QED BY <2>1 DEF Board
<1> QED BY <1>1, NextShows, AlwaysIInv, PTL DEF Spec, Ledger!Spec
=============================================================================
