---------------------------- MODULE WindowedSync ----------------------------
(***************************************************************************)
(* The windowed data path of the driver (src/client/driver.rs), for one    *)
(* stream of a source that is edited in place.  Each pass claims to carry  *)
(* the source's full content, so the server withdraws what is absent; a    *)
(* pass whose digest is the one the server persisted is not sent at all.   *)
(* Source-authored annotations are registered after the rows they ride     *)
(* with.  The sync cycle and the resync command run at once.               *)
(*                                                                         *)
(* The server is external.  Of a pass it takes the new rows, withdraws what *)
(* is absent, and leaves a changed row as it is: the change is a proposal, *)
(* which a person accepts or declines.  It persists the digest of a clean  *)
(* pass and of no other; a person's doing never touches it.  A pass that   *)
(* would disturb too much may be braked: its new rows alone are taken,     *)
(* until a person lifts the brake, for one pass.  A claim that the source  *)
(* is empty is refused by a server that holds rows.  Nothing is known of   *)
(* when people decide, or whether.                                         *)
(***************************************************************************)
EXTENDS Naturals

CONSTANTS Keys, Values, \* of rows
          Notes,        \* annotations
          Contents,     \* what the source may hold of them
          Initially,    \* and what it may hold at first
          MaxEdits,     \* changes at the source
          MaxFaults     \* failing calls and crashes

Tasks == {"cycle", "resync"}

Rows == [key : Keys, value : Values]

KeysOf(rows) == {row.key : row \in rows}

\* A persisted digest is a set of one, so that there may be none.
NoDigest == {}

Digests == {NoDigest} \cup {{c} : c \in Contents}

ASSUME ContentsAreRowsAndNotes ==
  /\ Contents \subseteq [rows : SUBSET Rows, notes : SUBSET Notes]
  /\ Initially \subseteq Contents

ASSUME WindowBoundsAreNat == MaxEdits \in Nat /\ MaxFaults \in Nat

VARIABLES
  content,     \* what the source holds
  stored,      \* the server's rows that are not withdrawn
  digest,      \* the server's last_window_digest
  proposed,    \* the changed rows that wait for a person's decision
  declined,    \* those a person declined: the stored value stands
  brake,       \* "off", "fired" or "lifted"
  registered,  \* the annotations the server stored
  paired,      \* whether the stream is paired with a site
  stray,       \* requests nobody waits for any more
  phase,       \* phase[t]: "idle", "list", "fetch", "ingest", "await" or "annotate"
  full,        \* full[t]: skipping is off
  known,       \* known[t]: the digest the stream list carried
  pass,        \* pass[t]: the payload fetched
  applied,     \* applied[t]: the server has ruled on it
  edits, faults   \* used up of their bounds

rowVars    == <<stored, digest, proposed, declined, brake>>
serverVars == <<rowVars, registered, paired>>
taskVars   == <<phase, full, known, pass, applied>>
bounds     == <<edits, faults>>
vars == <<content, serverVars, stray, taskVars, bounds>>

Fault == faults < MaxFaults /\ faults' = faults + 1

\* A fetch stamps the moment of the scan (`to`, `source_rows_read`) on it.
Pass(c, scan) == [rows |-> c.rows, notes |-> c.notes, scan |-> scan]

NoPass == Pass([rows |-> {}, notes |-> {}], 0)

\* Mistake: the digest covers the scan.
DigestWithScan(p) == p

\* The digest covers the rows and the annotations, never the scan; a 64-bit
\* hash in the code, without collisions here.
WindowDigest(p) == [rows |-> p.rows, notes |-> p.notes]

Init ==
  /\ content \in Initially
  /\ stored = {} /\ digest = NoDigest /\ registered = {}
  /\ proposed = {} /\ declined = {} /\ brake = "off"
  /\ paired \in BOOLEAN
  /\ stray = {}
  /\ phase   = [t \in Tasks |-> "idle"]
  /\ full    = [t \in Tasks |-> FALSE]
  /\ known   = [t \in Tasks |-> NoDigest]
  /\ pass    = [t \in Tasks |-> NoPass]
  /\ applied = [t \in Tasks |-> FALSE]
  /\ edits = 0 /\ faults = 0

-----------------------------------------------------------------------------
(* The source, the people at the server, and the server. *)

Edit ==
  /\ edits < MaxEdits /\ edits' = edits + 1
  /\ content' \in Contents \ {content}
  /\ UNCHANGED <<serverVars, stray, taskVars, faults>>

\* What becomes of the digest when a stream is paired, the code does not say.
Pair ==
  /\ ~paired /\ paired' = TRUE
  /\ digest' \in {digest, NoDigest}
  /\ UNCHANGED <<content, stored, proposed, declined, brake, registered, stray,
                 taskVars, bounds>>

\* A decision on a change.
Accept(row) ==
  /\ stored'   = {other \in stored : other.key # row.key} \cup {row}
  /\ proposed' = proposed \ {row}
  /\ declined' = {other \in declined : other.key # row.key}
  /\ UNCHANGED <<content, digest, brake, registered, paired, stray, taskVars, bounds>>

Decline(row) ==
  /\ proposed' = proposed \ {row}
  /\ declined' = declined \cup {row}
  /\ UNCHANGED <<content, stored, digest, brake, registered, paired, stray, taskVars,
                 bounds>>

LiftBrake ==
  /\ brake = "fired" /\ brake' = "lifted"
  /\ UNCHANGED <<content, stored, digest, proposed, declined, registered, paired,
                 stray, taskVars, bounds>>

\* A claim that the source holds nothing, over rows that say it does.
Refuses(p) == p.rows = {} /\ stored # {}

Added(p)   == {row \in p.rows : row.key \notin KeysOf(stored)}
Changed(p) == {row \in p.rows : row.key \in KeysOf(stored) /\ row \notin stored}
Absent(p)  == {row \in stored : row.key \notin KeysOf(p.rows)}

Disturbs(p) == Changed(p) \cup Absent(p) # {}

\* A pass leaves the changes that still wait, or the digest of a clean one.  (That
\* a pass with such changes is a clean one, the code does not rule out.)
Admit(p) ==
  /\ ~Refuses(p)
  /\ stored'   = (stored \ Absent(p)) \cup Added(p)
  /\ proposed' = Changed(p) \ declined
  /\ declined' = {row \in declined : row.key \in KeysOf(p.rows)}
  /\ digest' \in {{WindowDigest(p)}} \cup IF proposed' = {} THEN {} ELSE {digest}
  /\ brake' \in {brake} \cup IF brake = "lifted" /\ Disturbs(p) THEN {"off"} ELSE {}

Brake(p) ==
  /\ ~Refuses(p) /\ Disturbs(p) /\ brake # "lifted"
  /\ brake' = "fired"
  /\ stored' = stored \cup Added(p)
  /\ UNCHANGED <<digest, proposed, declined>>

Rule(p) == Admit(p) \/ Brake(p) \/ (Refuses(p) /\ UNCHANGED rowVars)

Apply(t) ==
  /\ phase[t] = "await" /\ ~applied[t]
  /\ Rule(pass[t])
  /\ applied' = [applied EXCEPT ![t] = TRUE]
  /\ UNCHANGED <<content, registered, paired, stray, phase, full, known, pass,
                 edits, faults>>

ApplyStray(p) ==
  /\ Rule(p)
  /\ stray' = stray \ {p}
  /\ UNCHANGED <<content, registered, paired, taskVars, edits, faults>>

LoseStray(p) ==
  /\ stray' = stray \ {p}
  /\ UNCHANGED <<content, serverVars, taskVars, bounds>>

-----------------------------------------------------------------------------
(* The two tasks. *)

Start(t, isFull) ==
  /\ phase[t] = "idle"
  /\ phase' = [phase EXCEPT ![t] = "list"]
  /\ full'  = [full EXCEPT ![t] = isFull]
  /\ UNCHANGED <<content, serverVars, stray, known, pass, applied, bounds>>

\* Mistake: a full sync or a resync skips unchanged content too.
HeldAlways(t) == digest

\* The digest a pass is compared with.
HeldDigest(t) == IF full[t] THEN NoDigest ELSE digest

ListOk(t) ==
  /\ phase[t] = "list"
  /\ phase' = [phase EXCEPT ![t] = "fetch"]
  /\ known' = [known EXCEPT ![t] = HeldDigest(t)]
  /\ UNCHANGED <<content, serverVars, stray, full, pass, applied, bounds>>

\* No two scans need be alike; a resync compares its own with none.
Scans(t) == IF t = "cycle" THEN {0, 1} ELSE {0}

FetchOk(t) ==
  /\ phase[t] = "fetch"
  /\ phase' = [phase EXCEPT ![t] = "ingest"]
  /\ \E scan \in Scans(t) : pass' = [pass EXCEPT ![t] = Pass(content, scan)]
  /\ UNCHANGED <<content, serverVars, stray, full, known, applied, bounds>>

\* The pass is over, and with it what it knew.
Done(t) ==
  /\ phase'   = [phase EXCEPT ![t] = "idle"]
  /\ full'    = [full EXCEPT ![t] = FALSE]
  /\ known'   = [known EXCEPT ![t] = NoDigest]
  /\ pass'    = [pass EXCEPT ![t] = NoPass]
  /\ applied' = [applied EXCEPT ![t] = FALSE]

\* The cycle fails, or starts over from the list (its retries).
ListOrFetchFails(t) ==
  /\ phase[t] \in {"list", "fetch"}
  /\ Fault
  /\ \/ Done(t)
     \/ /\ t = "cycle"
        /\ phase' = [phase EXCEPT ![t] = "list"]
        /\ known' = [known EXCEPT ![t] = NoDigest]
        /\ UNCHANGED <<full, pass, applied>>
  /\ UNCHANGED <<content, serverVars, stray, edits>>

\* Nothing is sent for content the server says it has applied cleanly, the
\* annotations included.
Skip(t) ==
  /\ phase[t] = "ingest"
  /\ known[t] = {WindowDigest(pass[t])}
  /\ Done(t)
  /\ UNCHANGED <<content, serverVars, stray, bounds>>

\* Even an empty pass is sent: its window is a claim.
Send(t) ==
  /\ phase[t] = "ingest"
  /\ known[t] # {WindowDigest(pass[t])}
  /\ phase' = [phase EXCEPT ![t] = "await"]
  /\ UNCHANGED <<content, serverVars, stray, full, known, pass, applied, edits,
                 faults>>

\* Accepted, held or refused, the annotations are next.
Annotating(t) ==
  IF pass[t].notes = {}
    THEN Done(t)
    ELSE phase' = [phase EXCEPT ![t] = "annotate"]
         /\ UNCHANGED <<full, known, pass, applied>>

Reply(t) ==
  /\ phase[t] = "await" /\ applied[t]
  /\ Annotating(t)
  /\ UNCHANGED <<content, serverVars, stray, bounds>>

Abandoned(t) == IF phase[t] = "await" /\ ~applied[t] THEN {pass[t]} ELSE {}

ReplyError(t) ==
  /\ phase[t] = "await"
  /\ Fault
  /\ stray' = stray \cup Abandoned(t)
  /\ Annotating(t)
  /\ UNCHANGED <<content, serverVars, edits>>

\* register_annotations: an unpaired stream's come back as unpaired.
Annotate(t) ==
  /\ phase[t] = "annotate"
  /\ registered' = IF paired THEN registered \cup pass[t].notes ELSE registered
  /\ Done(t)
  /\ UNCHANGED <<content, rowVars, paired, stray, bounds>>

\* The call fails, and with it, or without, what it should have done.
AnnotateFails(t) ==
  /\ phase[t] = "annotate"
  /\ Fault
  /\ registered' \in {registered,
                      IF paired THEN registered \cup pass[t].notes ELSE registered}
  /\ Done(t)
  /\ UNCHANGED <<content, rowVars, paired, stray, edits>>

Crash ==
  /\ Fault
  /\ stray'   = stray \cup UNION {Abandoned(t) : t \in Tasks}
  /\ phase'   = [t \in Tasks |-> "idle"]
  /\ full'    = [t \in Tasks |-> FALSE]
  /\ known'   = [t \in Tasks |-> NoDigest]
  /\ pass'    = [t \in Tasks |-> NoPass]
  /\ applied' = [t \in Tasks |-> FALSE]
  /\ UNCHANGED <<content, serverVars, edits>>

TaskStep(t) ==
  \/ ListOk(t)
  \/ FetchOk(t)
  \/ Skip(t)
  \/ Send(t)
  \/ Apply(t)
  \/ Reply(t)
  \/ Annotate(t)

\* A resync always has skipping off; a cycle, when it is a full sync.
Next ==
  \/ Edit
  \/ Pair
  \/ \E row \in proposed : Accept(row) \/ Decline(row)
  \/ LiftBrake
  \/ \E isFull \in BOOLEAN : Start("cycle", isFull)
  \/ Start("resync", TRUE)
  \/ \E t \in Tasks : \/ TaskStep(t)
                      \/ ListOrFetchFails(t)
                      \/ ReplyError(t)
                      \/ AnnotateFails(t)
  \/ \E p \in stray : ApplyStray(p) \/ LoseStray(p)
  \/ Crash

\* The interval keeps starting cycles and calls return; a request on its way
\* does not stay on its way for ever.
Fairness ==
  /\ WF_vars(\E isFull \in BOOLEAN : Start("cycle", isFull))
  /\ \A t \in Tasks : WF_vars(TaskStep(t))
  /\ WF_vars(\E p \in stray : ApplyStray(p) \/ LoseStray(p))

Spec == Init /\ [][Next]_vars /\ Fairness

-----------------------------------------------------------------------------
TypeOK ==
  /\ content \in Contents
  /\ stored \subseteq Rows
  /\ digest \in Digests
  /\ proposed \subseteq Rows /\ declined \subseteq Rows
  /\ brake \in {"off", "fired", "lifted"}
  /\ registered \subseteq Notes
  /\ paired \in BOOLEAN
  /\ stray \subseteq [rows : SUBSET Rows, notes : SUBSET Notes, scan : {0, 1}]
  /\ phase \in [Tasks -> {"idle", "list", "fetch", "ingest", "await", "annotate"}]
  /\ full \in [Tasks -> BOOLEAN]
  /\ known \in [Tasks -> Digests]
  /\ pass \in [Tasks -> [rows : SUBSET Rows, notes : SUBSET Notes, scan : {0, 1}]]
  /\ applied \in [Tasks -> BOOLEAN]
  /\ edits \in 0..MaxEdits /\ faults \in 0..MaxFaults

\* People get round to what waits for them, whatever they decide.
Ruled == []<>(proposed = {}) /\ []<>(brake # "fired")

\* The server has the rows of the source, or a person declined to change one.
Agrees ==
  /\ KeysOf(stored) = KeysOf(content.rows)
  /\ content.rows \subseteq stored \cup declined

\* One pass after the other, over a source that changes once at most.
InOrder == [](phase["resync"] = "idle") /\ <>[](faults = 0 /\ edits <= 1)

\* Once the source is no longer edited, failures have stopped and people have
\* decided, the server agrees with the source (driver.rs:414-427, 440-441).  The
\* digest sees to it while passes come in order and the source does not go back to
\* what it was.  Else the digest may be that of an earlier pass than the rows
\* (a braked one changed some, a person accepted a change that was since undone):
\* then full syncs do, if they keep being asked for, as
\* docs/sync-service-onboarding.md:374-375 says.
RowsConverge ==
  Ruled /\ (InOrder \/ []<>full["cycle"])
    => <>[](content.rows = {} \/ Agrees)

\* Passes over unchanged content die out: however the scans differ, once people
\* decide and nobody asks for full passes, the cycle sends nothing
\* (driver.rs:76-79).  While a pass is braked or a change waits for a person,
\* the cycle may go on sending it (driver.rs:414-416).
Quiesces ==
  Ruled /\ <>[](phase["resync"] = "idle" /\ ~full["cycle"])
    => <>[](content.rows = {} \/ phase["cycle"] # "await")

\* (A stream is never unpaired, and `faults` never goes down: what these say of
\* the start and of the end, they say of the whole behaviour.)
NotesSettle == <>[](paired => content.notes \subseteq registered)

\* What the code says of a failed registration: it "costs a cycle, not the
\* note" (driver.rs:497-499).
NotesArrive == paired => NotesSettle

\* With nothing failing, the annotations of a paired stream are registered,
\* those added or moved while no row changed included: the digest covers them,
\* so that the pass that carries them is not skipped (driver.rs:83-91).  And
\* whatever failed, and however late the stream was paired, full syncs that
\* keep being asked for bring them in (driver.rs:382-387).
NotesArriveInTheEnd ==
  (paired /\ <>[](faults = 0)) \/ []<>full["cycle"] => NotesSettle
=============================================================================
