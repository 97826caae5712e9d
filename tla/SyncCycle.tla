------------------------------ MODULE SyncCycle ------------------------------
(***************************************************************************)
(* One cycle of the driver (SyncDriver::sync in src/client/driver.rs): six *)
(* phases in a fixed order, each feeding later ones, none of which may     *)
(* cost another its turn; and the outcome the runner then reports.         *)
(*                                                                         *)
(* What a phase calls, the backend or the server, works or does not, and   *)
(* that changes between and during cycles.  The inside of the discovery    *)
(* and readings phases is in Discovery, AppendIngest and WindowedSync.     *)
(***************************************************************************)
EXTENDS Naturals

CONSTANTS Rediscover,  \* backend.rediscover_every_cycle()
          MaxCurves,   \* the curves a pairing plan stores, one after the other
          MaxChanges   \* calls that start or stop working, and crashes

ASSUME RediscoverIsBoolean == Rediscover \in BOOLEAN

ASSUME CycleBoundsAreNat == MaxCurves \in Nat /\ MaxChanges \in Nat

Phases == {"instruments", "curves", "discovery", "notes", "readings", "status"}

\* Listing the streams, handing the backend the replicate columns' indexes, and
\* ingesting readings are calls of their own.
Calls == Phases \cup {"list", "assign", "ingest"}

VARIABLES
  broken,      \* the calls that fail at the moment
  curve,       \* the newest curve stored by the server, 0 for none
  stream,      \* the server's stream: "unknown", "registered" or "active"
  mapping,     \* the curve the backend was told of
  assigned,    \* the backend has the indexes the server pinned
  discovered,  \* the latch
  pc,          \* the phase to come, "list" for the second listing, or "idle"
  full,        \* the cycle is a full sync
  errors,      \* the errors of the cycle: the calls they speak of
  done,        \* history: the calls of the cycle that did what they should
  asked,       \* history: the curve stored when the cycle began
  outcome,     \* what the runner reports of the cycle that ended last
  changes      \* used up of their bound

process == <<mapping, assigned, discovered, pc, full, errors, done, asked, outcome>>
vars == <<broken, curve, stream, process, changes>>

Works(call) == call \notin broken

Idle == pc' = "idle" /\ full' = FALSE /\ asked' = 0

Init ==
  /\ broken \in SUBSET Calls
  /\ curve = 0 /\ stream = "unknown"
  /\ mapping = 0 /\ assigned = FALSE /\ discovered = FALSE
  /\ pc = "idle" /\ full = FALSE /\ errors = {} /\ done = {} /\ asked = 0
  /\ outcome = "none"
  /\ changes = 0

-----------------------------------------------------------------------------
(* The world around the driver. *)

Change == changes < MaxChanges /\ changes' = changes + 1

Break(call) ==
  /\ Works(call) /\ Change
  /\ broken' = broken \cup {call}
  /\ UNCHANGED <<curve, stream, process>>

Mend(call) ==
  /\ ~Works(call) /\ Change
  /\ broken' = broken \ {call}
  /\ UNCHANGED <<curve, stream, process>>

\* An operator's pairing plan stores a curve, or a newer one.
StoreCurve ==
  /\ curve < MaxCurves /\ curve' = curve + 1
  /\ UNCHANGED <<broken, stream, process, changes>>

Activate ==
  /\ stream = "registered" /\ stream' = "active"
  /\ UNCHANGED <<broken, curve, process, changes>>

\* The process is restarted: the backend and the driver start anew.
Crash ==
  /\ Change
  /\ mapping' = 0 /\ assigned' = FALSE /\ discovered' = FALSE
  /\ Idle /\ errors' = {} /\ done' = {} /\ outcome' = "none"
  /\ UNCHANGED <<broken, curve, stream>>

-----------------------------------------------------------------------------
(* The phases. *)

\* Mistake: readings are fetched before the curves are mapped.
AfterReadingsFirst(phase) ==
  CASE phase = "instruments" -> "discovery"
    [] phase = "discovery"   -> "notes"
    [] phase = "notes"       -> "readings"
    [] phase = "readings"    -> "curves"
    [] phase = "curves"      -> "status"

\* Instruments before curves, curves before registration and fetch, notes
\* after discovery.
After(phase) ==
  CASE phase = "instruments" -> "curves"
    [] phase = "curves"      -> "discovery"
    [] phase = "discovery"   -> "notes"
    [] phase = "notes"       -> "readings"
    [] phase = "readings"    -> "status"

\* What no phase changes.
Aside == UNCHANGED <<broken, curve, full, asked, changes>>

Enter(phase) == pc = phase /\ pc' = After(phase) /\ Aside /\ UNCHANGED outcome

\* Mistake: an error is logged and not kept.
AttemptUnrecorded(phase) ==
  /\ done' = IF Works(phase) THEN done \cup {phase} ELSE done
  /\ UNCHANGED errors

\* A phase that fails leaves an error behind, and nothing else.
Attempt(phase) ==
  IF Works(phase) THEN done' = done \cup {phase} /\ UNCHANGED errors
                  ELSE errors' = errors \cup {phase} /\ UNCHANGED done

Start(isFull) ==
  /\ pc = "idle"
  /\ pc' = "instruments"
  /\ full' = isFull /\ asked' = curve
  /\ errors' = {} /\ done' = {} /\ outcome' = "none"
  /\ UNCHANGED <<broken, curve, stream, mapping, assigned, discovered, changes>>

SyncInstruments ==
  /\ Enter("instruments")
  /\ Attempt("instruments")
  /\ UNCHANGED <<stream, mapping, assigned, discovered>>

\* The curves the server has stored are mapped; a failure keeps the old mapping.
SyncCurves ==
  /\ Enter("curves")
  /\ Attempt("curves")
  /\ mapping' = IF Works("curves") THEN curve ELSE mapping
  /\ UNCHANGED <<stream, assigned, discovered>>

\* Mistake: the latch closes whatever the pass came to.
LatchOnce == TRUE

Latch == discovered \/ Works("discovery")

\* The answer to a registration brings the indexes; a backend that does not
\* take them is an error of the cycle.
Assign(sends) ==
  IF ~sends THEN UNCHANGED <<assigned, errors>>
  ELSE IF Works("assign") THEN assigned' = TRUE /\ UNCHANGED errors
  ELSE errors' = errors \cup {"assign"} /\ UNCHANGED assigned

\* Discovery runs until it has latched, in every full sync, and whenever the
\* backend asks for it; later passes send what has changed.
Discover ==
  /\ Enter("discovery")
  /\ IF ~(full \/ ~discovered \/ Rediscover)
       THEN UNCHANGED <<stream, assigned, errors, done, discovered>>
       ELSE /\ discovered' = Latch
            /\ IF Works("discovery")
                 THEN /\ \E sends \in {TRUE, full \/ ~discovered} : Assign(sends)
                      /\ stream' = IF stream = "unknown" THEN "registered" ELSE stream
                      /\ done' = done \cup {"discovery"}
                 ELSE /\ Attempt("discovery")
                      /\ UNCHANGED <<stream, assigned>>
  /\ UNCHANGED mapping

SyncNotes ==
  /\ Enter("notes")
  /\ Attempt("notes")
  /\ UNCHANGED <<stream, mapping, assigned, discovered>>

\* Mistake: only a registration hands the backend its indexes.
AssignedByRegistration == assigned

\* apply_persisted_assignments: those of the streams listed, which are the
\* active ones; a failure is logged, no more.
AssignedOnceListed ==
  assigned \/ (Works("list") /\ stream = "active" /\ Works("assign"))

\* All its retries included.  A stream that is not ingested is an error of the
\* result; a list or a fetch that fails is an error of the cycle.
SyncReadings ==
  /\ pc = "readings"
  /\ assigned' = AssignedOnceListed
  /\ IF Works("list") /\ Works("readings")
       THEN pc' = After(pc) /\ Attempt("ingest")
       ELSE pc' = "list" /\ errors' = errors \cup {"readings"} /\ UNCHANGED done
  /\ Aside /\ UNCHANGED <<stream, mapping, discovered, outcome>>

\* The runner's verdict on what sync returns.
Finish(said) ==
  /\ Idle
  /\ outcome' = IF "readings" \in said THEN "failed"
                ELSE IF said = {} THEN "completed" ELSE "partial"

\* Mistake: a failed readings phase ends the cycle there and then.
NothingToAsk == FALSE

\* Device health is asked of the active streams, once they are listed.
CanAsk == Works("list") /\ stream = "active"

\* After failed readings the streams are listed once more, for the status
\* events alone; with no answer or no stream there is nothing to ask about.
ListAgain ==
  /\ pc = "list"
  /\ IF CanAsk THEN pc' = "status" /\ Aside /\ UNCHANGED <<errors, done, outcome>>
               ELSE Finish(errors) /\ UNCHANGED <<broken, curve, errors, done, changes>>
  /\ UNCHANGED <<stream, mapping, assigned, discovered>>

SyncStatusEvents ==
  /\ pc = "status"
  /\ Attempt("status")
  /\ Finish(errors')
  /\ UNCHANGED <<broken, curve, stream, mapping, assigned, discovered, changes>>

PhaseStep ==
  \/ SyncInstruments \/ SyncCurves \/ Discover \/ SyncNotes
  \/ SyncReadings \/ ListAgain \/ SyncStatusEvents

Next ==
  \/ \E isFull \in BOOLEAN : Start(isFull)
  \/ PhaseStep
  \/ \E call \in Calls : Break(call) \/ Mend(call)
  \/ StoreCurve
  \/ Activate
  \/ Crash

\* The interval keeps starting cycles, and the calls of a cycle return.
Fairness == WF_vars(\E isFull \in BOOLEAN : Start(isFull)) /\ WF_vars(PhaseStep)

Spec == Init /\ [][Next]_vars /\ Fairness

-----------------------------------------------------------------------------
TypeOK ==
  /\ broken \subseteq Calls
  /\ curve \in 0..MaxCurves /\ mapping \in 0..curve /\ asked \in 0..curve
  /\ stream \in {"unknown", "registered", "active"}
  /\ assigned \in BOOLEAN /\ discovered \in BOOLEAN /\ full \in BOOLEAN
  /\ assigned \/ discovered => stream # "unknown"
  /\ pc \in Phases \cup {"idle", "list"}
  /\ errors \subseteq Calls /\ done \subseteq Calls /\ errors \cap done = {}
  /\ outcome \in {"none", "completed", "partial", "failed"}
  /\ changes \in 0..MaxChanges

\* Readings are never fetched with a curve older than the one stored when their
\* cycle began, unless mapping the curves failed in that very cycle ("each
\* step's mappings are the next one's input", driver.rs:717-718), nor without
\* the replicate indexes of an active stream, unless they cannot be handed
\* over: an index "never falls back to column position merely because discovery
\* did not run in this process", or failed in it (driver.rs:317-323).
FreshMappings ==
  [][pc = "readings" /\ pc' \in Phases \ {pc}
       => /\ "curves" \in errors \/ mapping >= asked
          /\ stream = "active" /\ Works("assign") => assigned']_vars

\* A cycle reported completed did all it had to, the phases whose failure
\* changes nothing else included (runner.rs:453-458, driver.rs:126-237).
CompletedMeansAll ==
  [][pc # "idle" /\ outcome' = "completed"
       => /\ {"instruments", "curves", "notes", "ingest", "status"} \subseteq done'
          /\ discovered /\ (full \/ Rediscover => "discovery" \in done')]_vars

\* No phase is held back by another's failure, for good or for a while: one
\* whose own calls work in the end has its turn again and again
\* (driver.rs:132-139, 711-731).  During an outage of the readings "status
\* events still run first so device health keeps flowing"
\* (docs/sync-service-onboarding.md:204-206, driver.rs:748-758).
NothingHeldBack ==
  /\ \A phase \in {"instruments", "curves", "notes"} :
       <>[]Works(phase) => []<>(phase \in done)
  /\ <>[](Works("list") /\ Works("readings") /\ Works("ingest"))
       => []<>("ingest" \in done)
  /\ <>[](Works("list") /\ Works("status") /\ stream = "active")
       => []<>("status" \in done)
=============================================================================
