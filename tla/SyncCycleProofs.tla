----------------------------- MODULE SyncCycleProofs -----------------------------
(***************************************************************************)
(* Proofs about a cycle of the driver: whatever calls fail in it, and      *)
(* whenever they do, readings are fetched with the mappings of their own   *)
(* cycle, and a cycle that is called complete was.                         *)
(***************************************************************************)
EXTENDS SyncCycle, TLAPS

\* Nothing has been said of a phase that is still to come.
SoFar ==
  LET said == done \cup errors
  IN  /\ pc = "instruments" => said = {}
      /\ pc = "curves"      => said \subseteq {"instruments"}
      /\ pc = "discovery"   => said \subseteq {"instruments", "curves"}
      /\ pc = "notes"       => said \subseteq {"instruments", "curves", "discovery", "assign"}
      /\ pc = "readings"    => {"readings", "ingest", "status"} \cap said = {}
      /\ pc = "list"        => "status" \notin said
      /\ pc = "status"      => "status" \notin said

\* A phase that is over has done what it should or left its error.
Over ==
  LET said == done \cup errors
  IN  /\ pc # "idle" => outcome = "none"
      /\ pc \notin {"idle", "instruments"} => "instruments" \in said
      /\ pc \notin {"idle", "instruments", "curves"} =>
           "curves" \in said /\ ("curves" \in errors \/ mapping >= asked)
      /\ pc \notin {"idle", "instruments", "curves", "discovery"} =>
           /\ discovered \/ "discovery" \in errors
           /\ full \/ Rediscover => "discovery" \in said
      /\ pc \in {"readings", "list", "status"} => "notes" \in said
      /\ pc = "list" => "readings" \in errors
      /\ pc = "status" => "readings" \in errors \/ "ingest" \in said

IInv == TypeOK /\ SoFar /\ Over

-----------------------------------------------------------------------------
\* The counters, apart from the rest.
LEMMA ChangeCounts == TypeOK /\ Change => changes' \in 0..MaxChanges
BY CycleBoundsAreNat DEF TypeOK, Change

LEMMA InitIInv == Init => IInv
<1> SUFFICES ASSUME Init PROVE IInv
  OBVIOUS
<1>1. 0 \in 0..MaxCurves /\ 0 \in 0..MaxChanges /\ 0 \in 0..0
  BY CycleBoundsAreNat
<1>2. TypeOK
  BY <1>1 DEF Init, TypeOK
<1> QED BY <1>2 DEF Init, IInv, SoFar, Over

\* What goes on around the driver, and a restart.
LEMMA WorldIInv ==
  ASSUME IInv,
         (\E call \in Calls : Break(call) \/ Mend(call)) \/ StoreCurve \/ Activate
  PROVE  IInv'
<1>1. UNCHANGED process
  BY DEF StoreCurve, Activate, Break, Mend
<1>2. /\ broken' \subseteq Calls /\ (stream' = stream \/ stream' = "active")
      /\ curve' = curve \/ (curve < MaxCurves /\ curve' = curve + 1)
  BY DEF IInv, TypeOK, StoreCurve, Activate, Break, Mend
<1>3. curve' \in 0..MaxCurves /\ mapping' \in 0..curve' /\ asked' \in 0..curve'
  BY <1>1, <1>2, CycleBoundsAreNat DEF IInv, TypeOK, process
<1>4. changes' \in 0..MaxChanges
  <2>1. CASE changes' = changes
    BY <2>1 DEF IInv, TypeOK
  <2>2. CASE Change
    BY <2>2, ChangeCounts DEF IInv
  <2> QED BY <2>1, <2>2 DEF StoreCurve, Activate, Break, Mend
<1>5. TypeOK'
  BY <1>1, <1>2, <1>3, <1>4 DEF IInv, TypeOK, process
<1>6. SoFar' /\ Over'
  BY <1>1 DEF IInv, SoFar, Over, process
<1> QED BY <1>5, <1>6 DEF IInv

LEMMA CrashIInv == IInv /\ Crash => IInv'
<1> SUFFICES ASSUME IInv, Crash PROVE IInv'
  OBVIOUS
<1>1. /\ mapping' = 0 /\ assigned' = FALSE /\ discovered' = FALSE
      /\ pc' = "idle" /\ full' = FALSE /\ asked' = 0
      /\ errors' = {} /\ done' = {} /\ outcome' = "none"
      /\ UNCHANGED <<broken, curve, stream>> /\ Change
  BY DEF Crash, Idle
<1>2. curve' \in 0..MaxCurves /\ mapping' \in 0..curve' /\ asked' \in 0..curve'
  BY <1>1, CycleBoundsAreNat DEF IInv, TypeOK
<1>3. TypeOK'
  BY <1>1, <1>2, ChangeCounts DEF IInv, TypeOK
<1>4. SoFar' /\ Over'
  BY <1>1 DEF SoFar, Over
<1> QED BY <1>3, <1>4 DEF IInv

-----------------------------------------------------------------------------
(* The phases. *)

LEMMA StartIInv == IInv /\ (\E isFull \in BOOLEAN : Start(isFull)) => IInv'
<1> SUFFICES ASSUME IInv, NEW isFull \in BOOLEAN, Start(isFull) PROVE IInv'
  OBVIOUS
<1>1. /\ pc' = "instruments" /\ full' = isFull /\ asked' = curve
      /\ errors' = {} /\ done' = {} /\ outcome' = "none"
      /\ UNCHANGED <<broken, curve, stream, mapping, assigned, discovered, changes>>
  BY DEF Start
<1>2. full' \in BOOLEAN /\ errors' \cap done' = {} /\ pc' \in Phases
  BY <1>1 DEF Phases
<1>3. TypeOK'
  <2>1. asked' \in 0..curve'
    BY <1>1, CycleBoundsAreNat DEF IInv, TypeOK
  <2> QED BY <1>1, <1>2, <2>1 DEF IInv, TypeOK
<1>4. SoFar' /\ Over'
  BY <1>1 DEF SoFar, Over
<1> QED BY <1>3, <1>4 DEF IInv

\* A phase nothing was said of is named once, as done or as failed.
LEMMA AttemptSound ==
  ASSUME TypeOK, NEW phase \in Calls, phase \notin done \cup errors, Attempt(phase)
  PROVE  /\ errors' \subseteq Calls /\ done' \subseteq Calls /\ errors' \cap done' = {}
         /\ done' \cup errors' = (done \cup errors) \cup {phase}
         /\ errors' = errors \/ errors' = errors \cup {phase}
         /\ errors \subseteq errors' /\ done \subseteq done'
         /\ phase \in done' \/ (~Works(phase) /\ phase \in errors')
BY DEF TypeOK, Attempt

LEMMA SyncInstrumentsIInv == IInv /\ SyncInstruments => IInv'
<1> SUFFICES ASSUME IInv, SyncInstruments PROVE IInv'
  OBVIOUS
<1>1. /\ pc = "instruments" /\ pc' = "curves" /\ Attempt("instruments")
      /\ UNCHANGED <<broken, curve, full, asked, changes, outcome,
                     stream, mapping, assigned, discovered>>
  BY DEF SyncInstruments, Enter, After, Aside
<1>2. "instruments" \in Calls /\ done \cup errors = {}
  BY <1>1 DEF Calls, Phases, IInv, SoFar
<1>3. /\ errors' \subseteq Calls /\ done' \subseteq Calls /\ errors' \cap done' = {}
      /\ done' \cup errors' = {"instruments"}
  BY <1>1, <1>2, AttemptSound DEF IInv
<1>4. TypeOK'
  BY <1>1, <1>3 DEF IInv, TypeOK, Phases
<1>5. SoFar' /\ Over'
  BY <1>1, <1>3 DEF IInv, SoFar, Over
<1> QED BY <1>4, <1>5 DEF IInv

\* The curves in force are those there were when the cycle began, or newer.
LEMMA SyncCurvesIInv == IInv /\ SyncCurves => IInv'
<1> SUFFICES ASSUME IInv, SyncCurves PROVE IInv'
  OBVIOUS
<1>1. /\ pc = "curves" /\ pc' = "discovery" /\ Attempt("curves")
      /\ mapping' = IF Works("curves") THEN curve ELSE mapping
      /\ UNCHANGED <<broken, curve, full, asked, changes, outcome,
                     stream, assigned, discovered>>
  BY DEF SyncCurves, Enter, After, Aside
<1>2. "curves" \in Calls /\ done \cup errors \subseteq {"instruments"}
  BY <1>1 DEF Calls, Phases, IInv, SoFar
<1>3. /\ errors' \subseteq Calls /\ done' \subseteq Calls /\ errors' \cap done' = {}
      /\ done' \cup errors' = (done \cup errors) \cup {"curves"}
      /\ "curves" \in done' \/ (~Works("curves") /\ "curves" \in errors')
  BY <1>1, <1>2, AttemptSound DEF IInv
<1>4. /\ curve \in Nat /\ mapping \in 0..curve /\ asked \in 0..curve
      /\ mapping' \in 0..curve
      /\ "curves" \in errors' \/ mapping' >= asked
  <2>1. curve \in Nat /\ mapping \in 0..curve /\ asked \in 0..curve
    BY CycleBoundsAreNat DEF IInv, TypeOK
  <2>2. "curves" \in errors' \/ Works("curves")
    BY <1>1 DEF Attempt
  <2> QED BY <1>1, <2>1, <2>2
<1>5. TypeOK'
  BY <1>1, <1>3, <1>4 DEF IInv, TypeOK, Phases
<1>6. SoFar'
  BY <1>1, <1>2, <1>3 DEF SoFar
<1>7. Over'
  <2>1. "instruments" \in done \cup errors /\ outcome = "none"
    BY <1>1 DEF IInv, Over
  <2> QED BY <1>1, <1>3, <1>4, <2>1 DEF Over
<1> QED BY <1>5, <1>6, <1>7 DEF IInv

\* A pass works or leaves its error; the latch closes on one that worked.
LEMMA DiscoverIInv == IInv /\ Discover => IInv'
<1> SUFFICES ASSUME IInv, Discover PROVE IInv'
  OBVIOUS
<1>1. /\ pc = "discovery" /\ pc' = "notes"
      /\ UNCHANGED <<broken, curve, full, asked, changes, outcome, mapping>>
  BY DEF Discover, Enter, After, Aside
<1>2. /\ done \cup errors \subseteq {"instruments", "curves"}
      /\ "instruments" \in done \cup errors /\ "curves" \in done \cup errors
      /\ "curves" \in errors \/ mapping >= asked
      /\ outcome = "none"
  BY <1>1 DEF IInv, SoFar, Over
<1>3. /\ stream' \in {"unknown", "registered", "active"}
      /\ assigned' \in BOOLEAN /\ discovered' \in BOOLEAN
      /\ assigned' \/ discovered' => stream' # "unknown"
      /\ done \subseteq done' /\ done' \subseteq done \cup {"discovery"}
      /\ errors \subseteq errors' /\ errors' \subseteq errors \cup {"discovery", "assign"}
      /\ ~("discovery" \in done' /\ "discovery" \in errors')
      /\ discovered' \/ "discovery" \in errors'
      /\ full \/ Rediscover => "discovery" \in done' \cup errors'
  <2>0. /\ stream \in {"unknown", "registered", "active"}
        /\ assigned \in BOOLEAN /\ discovered \in BOOLEAN
        /\ assigned \/ discovered => stream # "unknown"
        /\ "discovery" \notin done \cup errors
    BY <1>2 DEF IInv, TypeOK
  <2>1. CASE ~(full \/ ~discovered \/ Rediscover)
    <3>1. UNCHANGED <<stream, assigned, errors, done, discovered>>
      BY <2>1 DEF Discover
    <3> QED BY <2>0, <2>1, <3>1
  <2>2. CASE (full \/ ~discovered \/ Rediscover) /\ Works("discovery")
    <3>1. /\ discovered' = TRUE
          /\ stream' = IF stream = "unknown" THEN "registered" ELSE stream
          /\ done' = done \cup {"discovery"}
          /\ \E sends \in {TRUE, full \/ ~discovered} : Assign(sends)
      BY <2>2 DEF Discover, Latch
    <3>2. /\ assigned' = assigned \/ assigned' = TRUE
          /\ errors' = errors \/ errors' = errors \cup {"assign"}
      BY <3>1 DEF Assign
    <3> QED BY <2>0, <3>1, <3>2
  <2>3. CASE (full \/ ~discovered \/ Rediscover) /\ ~Works("discovery")
    <3>1. /\ discovered' = discovered
          /\ UNCHANGED <<stream, assigned, done>>
          /\ errors' = errors \cup {"discovery"}
      BY <2>0, <2>3 DEF Discover, Latch, Attempt
    <3> QED BY <2>0, <3>1
  <2> QED BY <2>1, <2>2, <2>3
<1>4. TypeOK'
  BY <1>1, <1>2, <1>3 DEF IInv, TypeOK, Calls, Phases
<1>5. SoFar' /\ Over'
  BY <1>1, <1>2, <1>3 DEF SoFar, Over
<1> QED BY <1>4, <1>5 DEF IInv

LEMMA SyncNotesIInv == IInv /\ SyncNotes => IInv'
<1> SUFFICES ASSUME IInv, SyncNotes PROVE IInv'
  OBVIOUS
<1>1. /\ pc = "notes" /\ pc' = "readings" /\ Attempt("notes")
      /\ UNCHANGED <<broken, curve, full, asked, changes, outcome,
                     stream, mapping, assigned, discovered>>
  BY DEF SyncNotes, Enter, After, Aside
<1>2. "notes" \in Calls /\ "notes" \notin done \cup errors
  BY <1>1 DEF Calls, Phases, IInv, SoFar
<1>3. /\ errors' \subseteq Calls /\ done' \subseteq Calls /\ errors' \cap done' = {}
      /\ done' \cup errors' = (done \cup errors) \cup {"notes"}
      /\ errors \subseteq errors'
  BY <1>1, <1>2, AttemptSound DEF IInv
<1>4. TypeOK'
  BY <1>1, <1>3 DEF IInv, TypeOK, Phases
<1>5. SoFar'
  BY <1>1, <1>3 DEF IInv, SoFar
<1>6. Over'
  BY <1>1, <1>3 DEF IInv, Over
<1> QED BY <1>4, <1>5, <1>6 DEF IInv

\* The readings phase leaves its error and a second listing to come, or goes on
\* with what was ingested, or was not.
LEMMA SyncReadingsIInv == IInv /\ SyncReadings => IInv'
<1> SUFFICES ASSUME IInv, SyncReadings PROVE IInv'
  OBVIOUS
<1>1. /\ pc = "readings" /\ assigned' = AssignedOnceListed
      /\ UNCHANGED <<broken, curve, full, asked, changes, outcome,
                     stream, mapping, discovered>>
  BY DEF SyncReadings, Aside
<1>2. /\ "ingest" \in Calls /\ "readings" \in Calls
      /\ {"readings", "ingest", "status"} \cap (done \cup errors) = {}
  BY <1>1 DEF Calls, Phases, IInv, SoFar
<1>3. \/ /\ pc' = "status" /\ done' \cup errors' = (done \cup errors) \cup {"ingest"}
         /\ errors \subseteq errors' /\ errors' \cap done' = {}
         /\ errors' \subseteq Calls /\ done' \subseteq Calls
      \/ pc' = "list" /\ errors' = errors \cup {"readings"} /\ done' = done
  <2>1. CASE Works("list") /\ Works("readings")
    <3>1. pc' = "status" /\ Attempt("ingest")
      BY <1>1, <2>1 DEF SyncReadings, After
    <3> QED BY <1>2, <3>1, AttemptSound DEF IInv
  <2>2. CASE ~(Works("list") /\ Works("readings"))
    BY <2>2 DEF SyncReadings
  <2> QED BY <2>1, <2>2
<1>4. /\ assigned' \in BOOLEAN /\ (assigned' => assigned \/ stream = "active")
  BY <1>1 DEF AssignedOnceListed, IInv, TypeOK
<1>5. /\ errors' \subseteq Calls /\ done' \subseteq Calls /\ errors' \cap done' = {}
      /\ errors \subseteq errors' /\ done \cup errors \subseteq done' \cup errors'
      /\ "status" \notin done' \cup errors'
  BY <1>2, <1>3 DEF IInv, TypeOK
<1>6. TypeOK'
  BY <1>1, <1>3, <1>4, <1>5 DEF IInv, TypeOK, Phases
<1>7. SoFar'
  BY <1>3, <1>5 DEF SoFar
<1>8. Over'
  BY <1>1, <1>3, <1>5 DEF IInv, Over
<1> QED BY <1>6, <1>7, <1>8 DEF IInv

LEMMA ListAgainIInv == IInv /\ ListAgain => IInv'
<1> SUFFICES ASSUME IInv, ListAgain PROVE IInv'
  OBVIOUS
<1>1. /\ pc = "list"
      /\ UNCHANGED <<broken, curve, errors, done, changes, stream, mapping, assigned, discovered>>
      /\ \/ pc' = "status" /\ UNCHANGED <<full, asked, outcome>>
         \/ /\ pc' = "idle" /\ full' = FALSE /\ asked' = 0
            /\ outcome' \in {"failed", "completed", "partial"}
  BY DEF ListAgain, Aside, Finish, Idle
<1>2. asked' \in 0..curve'
  BY <1>1, CycleBoundsAreNat DEF IInv, TypeOK
<1>3. TypeOK'
  BY <1>1, <1>2 DEF IInv, TypeOK, Phases
<1>4. SoFar'
  BY <1>1 DEF IInv, SoFar
<1>5. Over'
  BY <1>1 DEF IInv, Over
<1> QED BY <1>3, <1>4, <1>5 DEF IInv

LEMMA SyncStatusEventsIInv == IInv /\ SyncStatusEvents => IInv'
<1> SUFFICES ASSUME IInv, SyncStatusEvents PROVE IInv'
  OBVIOUS
<1>1. /\ pc = "status" /\ Attempt("status")
      /\ UNCHANGED <<broken, curve, stream, mapping, assigned, discovered, changes>>
      /\ pc' = "idle" /\ full' = FALSE /\ asked' = 0
      /\ outcome' \in {"failed", "completed", "partial"}
  BY DEF SyncStatusEvents, Finish, Idle
<1>2. "status" \in Calls /\ "status" \notin done \cup errors
  BY <1>1 DEF Calls, Phases, IInv, SoFar
<1>3. errors' \subseteq Calls /\ done' \subseteq Calls /\ errors' \cap done' = {}
  BY <1>1, <1>2, AttemptSound DEF IInv
<1>4. asked' \in 0..curve'
  BY <1>1, CycleBoundsAreNat DEF IInv, TypeOK
<1>5. TypeOK'
  BY <1>1, <1>3, <1>4 DEF IInv, TypeOK
<1>6. SoFar' /\ Over'
  BY <1>1 DEF SoFar, Over
<1> QED BY <1>5, <1>6 DEF IInv

LEMMA NextIInv == IInv /\ [Next]_vars => IInv'
<1> SUFFICES ASSUME IInv, [Next]_vars PROVE IInv'
  OBVIOUS
<1>1. CASE \E isFull \in BOOLEAN : Start(isFull)
  BY <1>1, StartIInv
<1>2. CASE PhaseStep
  BY <1>2, SyncInstrumentsIInv, SyncCurvesIInv, DiscoverIInv, SyncNotesIInv,
     SyncReadingsIInv, ListAgainIInv, SyncStatusEventsIInv DEF PhaseStep
<1>3. CASE (\E call \in Calls : Break(call) \/ Mend(call)) \/ StoreCurve \/ Activate
  BY <1>3, WorldIInv
<1>4. CASE Crash
  BY <1>4, CrashIInv
<1>5. CASE UNCHANGED vars
  BY <1>5 DEF vars, process, IInv, TypeOK, SoFar, Over
<1> QED BY <1>1, <1>2, <1>3, <1>4, <1>5 DEF Next

LEMMA AlwaysIInv == Spec => []IInv
BY InitIInv, NextIInv, PTL DEF Spec

-----------------------------------------------------------------------------
\* A cycle says one thing of a phase at most, and the backend never holds a
\* curve that is newer than the server's, nor indexes of a stream the server
\* does not know.
THEOREM TypeCorrect == Spec => []TypeOK
<1>1. IInv => TypeOK
  BY DEF IInv
<1> QED BY <1>1, AlwaysIInv, PTL

\* Whatever fails and mends while a cycle runs, its readings are fetched with
\* the curves there were when it began, or a newer one, unless mapping them
\* failed in this cycle, and never without replicate indexes that could have
\* been handed over.
THEOREM MappingsFresh == Spec => FreshMappings
<1> DEFINE Fresh ==
      pc = "readings" /\ pc' \in Phases \ {pc}
        => /\ "curves" \in errors \/ mapping >= asked
           /\ stream = "active" /\ Works("assign") => assigned'
<1>1. IInv /\ [Next]_vars => [Fresh]_vars
  <2> SUFFICES ASSUME IInv, Next, pc = "readings", pc' \in Phases \ {pc}
               PROVE  /\ "curves" \in errors \/ mapping >= asked
                      /\ stream = "active" /\ Works("assign") => assigned'
    OBVIOUS
  <2>1. SyncReadings
    BY DEF Next, PhaseStep, Start, SyncInstruments, SyncCurves, Discover, SyncNotes, Enter,
           ListAgain, SyncStatusEvents, Break, Mend, StoreCurve, Activate, Crash, Idle,
           process, Phases
  <2>2. Works("list")
    BY <2>1 DEF SyncReadings, Phases
  <2>3. assigned' = AssignedOnceListed
    BY <2>1 DEF SyncReadings
  <2> QED BY <2>2, <2>3 DEF IInv, Over, AssignedOnceListed
<1>2. Spec => [][Fresh]_vars
  BY <1>1, AlwaysIInv, PTL DEF Spec
<1> QED BY <1>2 DEF FreshMappings

\* A cycle the runner reports as completed did what each phase is there for,
\* however the failures of its calls fell.
THEOREM CompletedIsComplete == Spec => CompletedMeansAll
<1> DEFINE Complete ==
      pc # "idle" /\ outcome' = "completed"
        => /\ {"instruments", "curves", "notes", "ingest", "status"} \subseteq done'
           /\ discovered /\ (full \/ Rediscover => "discovery" \in done')
<1>1. IInv /\ [Next]_vars => [Complete]_vars
  <2> SUFFICES ASSUME IInv, Next, pc # "idle", outcome' = "completed"
               PROVE  /\ {"instruments", "curves", "notes", "ingest", "status"} \subseteq done'
                      /\ discovered /\ (full \/ Rediscover => "discovery" \in done')
    OBVIOUS
  <2>1. outcome = "none"
    BY DEF IInv, Over
  <2>2. ~ListAgain
    <3> SUFFICES ASSUME ListAgain PROVE FALSE
      OBVIOUS
    <3>1. "readings" \in errors
      BY DEF ListAgain, IInv, Over
    <3> QED BY <2>1, <3>1 DEF ListAgain, Finish
  <2>3. SyncStatusEvents
    BY <2>1, <2>2 DEF Next, PhaseStep, Start, SyncInstruments, SyncCurves, Discover, SyncNotes,
                      SyncReadings, Enter, Break, Mend, StoreCurve, Activate, Crash, process
  <2>4. pc = "status" /\ errors' = {} /\ Attempt("status")
    BY <2>3 DEF SyncStatusEvents, Finish
  <2>5. errors = {} /\ done' = done \cup {"status"}
    BY <2>4 DEF Attempt
  <2> QED BY <2>4, <2>5 DEF IInv, Over
<1>2. Spec => [][Complete]_vars
  BY <1>1, AlwaysIInv, PTL DEF Spec
<1> QED BY <1>2 DEF CompletedMeansAll

-----------------------------------------------------------------------------
\* The safety half of NothingHeldBack: a cycle that gets to a verdict has tried
\* every phase, whichever of them failed: each is done or left its error, the
\* status events too whenever there is a stream to ask about.
Tried == done \cup errors

NothingLeftOut ==
  [][pc # "idle" /\ outcome' # "none"
       => /\ {"instruments", "curves", "notes"} \subseteq Tried'
          /\ full \/ Rediscover \/ ~discovered => "discovery" \in Tried'
          /\ "readings" \in Tried' \/ "ingest" \in Tried'
          /\ CanAsk => "status" \in Tried']_vars

\* No failure of one phase takes the turn of another in its cycle
\* (driver.rs:132-139, 711-758).
THEOREM EveryPhaseIsTried == Spec => NothingLeftOut
<1> DEFINE AllTried ==
      pc # "idle" /\ outcome' # "none"
        => /\ {"instruments", "curves", "notes"} \subseteq Tried'
           /\ full \/ Rediscover \/ ~discovered => "discovery" \in Tried'
           /\ "readings" \in Tried' \/ "ingest" \in Tried'
           /\ CanAsk => "status" \in Tried'
<1>1. IInv /\ [Next]_vars => [AllTried]_vars
  <2> SUFFICES ASSUME IInv, Next, pc # "idle", outcome' # "none"
               PROVE  /\ {"instruments", "curves", "notes"} \subseteq Tried'
                      /\ full \/ Rediscover \/ ~discovered => "discovery" \in Tried'
                      /\ "readings" \in Tried' \/ "ingest" \in Tried'
                      /\ CanAsk => "status" \in Tried'
    OBVIOUS
  <2>1. outcome = "none"
    BY DEF IInv, Over
  <2>2. ListAgain \/ SyncStatusEvents
    BY <2>1 DEF Next, PhaseStep, Start, SyncInstruments, SyncCurves, Discover, SyncNotes,
                SyncReadings, Enter, Break, Mend, StoreCurve, Activate, Crash, process
  <2>3. Tried \subseteq Tried' /\ pc \in {"list", "status"}
    BY <2>2 DEF Tried, ListAgain, SyncStatusEvents, Attempt
  <2>4. CASE ListAgain
    BY <2>1, <2>3, <2>4 DEF Tried, ListAgain, IInv, Over
  <2>5. CASE SyncStatusEvents
    <3>1. "status" \in Tried'
      BY <2>5 DEF Tried, SyncStatusEvents, Attempt
    <3> QED BY <2>3, <2>5, <3>1 DEF Tried, SyncStatusEvents, IInv, Over
  <2> QED BY <2>2, <2>4, <2>5
<1> HIDE DEF AllTried
<1>2. Spec => [][AllTried]_vars
  BY <1>1, AlwaysIInv, PTL DEF Spec
<1> QED BY <1>2 DEF NothingLeftOut, AllTried
=============================================================================
