------------------------- MODULE WindowedSyncProofs -------------------------
(***************************************************************************)
(* Theorems about the windowed data path (WindowedSync).  What they rest   *)
(* on is that every payload on its way was the source's content at some    *)
(* time, and that a full task compares it with no digest.                  *)
(***************************************************************************)
EXTENDS WindowedSync, TLAPS

Phases == {"idle", "list", "fetch", "ingest", "await", "annotate"}

Payloads == [rows : SUBSET Rows, notes : SUBSET Notes, scan : {0, 1}]

\* The payloads a fetch can return.
Passes == {Pass(c, scan) : c \in Contents, scan \in {0, 1}}

\* A task holds a payload once it has fetched one.
Fetched(t) == phase[t] \in {"ingest", "await", "annotate"}

\* The payload is still to be ruled on.
Carries(t) == phase[t] \in {"ingest", "await"} /\ ~applied[t]

\* What is on its way is the content of some moment, whole.
Carried ==
  /\ stray \subseteq Passes
  /\ \A t \in Tasks : Fetched(t) => pass[t] \in Passes

\* A task knows no digest before it has the list, and none when it is full.
Ignorant ==
  \A t \in Tasks : phase[t] \in {"idle", "list"} \/ full[t] => known[t] = NoDigest

\* The inductive invariant.
IInv == TypeOK /\ Carried /\ Ignorant

\* A full sync and a resync send what they fetched, whatever digest the server
\* keeps: for a full task the guard of a skip is false (driver.rs:382-387).
FullIsSent ==
  \A t \in Tasks : full[t] /\ phase[t] = "ingest" => known[t] # {WindowDigest(pass[t])}

\* The server agrees with the source, nothing waits for a person, and what is on
\* its way to the server are the source's rows.
Settled ==
  /\ Agrees /\ proposed = {}
  /\ \A p \in stray : p.rows = content.rows
  /\ \A t \in Tasks : Carries(t) => pass[t].rows = content.rows

\* The safety half of RowsConverge: a stream that has settled stays so until
\* the source is edited, through passes admitted, braked or refused, skipped
\* cycles, a resync beside the cycle, late requests, failures and crashes: what a
\* person declined is not proposed again.
SettledStays == [][Settled /\ content' = content => Settled']_vars

\* The digest the server keeps is that of this very content, annotations
\* included; no request is on its way, no full task at work.
Quiet ==
  /\ digest = {WindowDigest(content)} /\ stray = {}
  /\ phase["resync"] = "idle" /\ ~full["cycle"]
  /\ phase["cycle"] \in {"idle", "list", "fetch", "ingest"}
  /\ phase["cycle"] \in {"fetch", "ingest"} => known["cycle"] = digest
  /\ phase["cycle"] = "ingest" => WindowDigest(pass["cycle"]) = WindowDigest(content)

\* The safety half of Quiesces: from then on no cycle sends anything (none
\* reaches "await") while the source is not edited, the stream is not paired and
\* nobody asks for a full pass, whatever fails, whatever people decide and however
\* the scans differ.
QuietStays ==
  [][Quiet /\ content' = content /\ paired' = paired
       /\ phase'["resync"] = "idle" /\ ~full'["cycle"] => Quiet']_vars

-----------------------------------------------------------------------------
(* Payloads and their digests. *)

\* A payload is a content with a scan stamped on it; its digest gives the
\* content back.
LEMMA PassOfContent ==
  ASSUME NEW c \in Contents, NEW scan \in {0, 1}
  PROVE  /\ Pass(c, scan) \in Passes
         /\ Pass(c, scan) \in Payloads
         /\ WindowDigest(Pass(c, scan)) = c
         /\ Pass(c, scan).rows = c.rows /\ Pass(c, scan).notes = c.notes
<1>1. c \in [rows : SUBSET Rows, notes : SUBSET Notes]
  BY ContentsAreRowsAndNotes
<1>2. c = [rows |-> c.rows, notes |-> c.notes]
  BY <1>1
<1> QED BY <1>1, <1>2 DEF Pass, Passes, Payloads, WindowDigest

\* So is everything a fetch returned.
LEMMA PassesAreContents ==
  ASSUME NEW p \in Passes
  PROVE  /\ p \in Payloads
         /\ WindowDigest(p) \in Contents
         /\ WindowDigest(p).rows = p.rows
<1>1. PICK c \in Contents, scan \in {0, 1} : p = Pass(c, scan)
  BY DEF Passes
<1> QED BY <1>1, PassOfContent DEF WindowDigest

\* The payload of a task that fetched none.
LEMMA NoPassIsAPayload == NoPass \in Payloads
BY DEF NoPass, Pass, Payloads

\* A ruling on a payload of the source keeps the server's state well formed.
LEMMA RuleKeeps ==
  ASSUME TypeOK, NEW p \in Passes, Rule(p)
  PROVE  /\ stored' \subseteq Rows /\ digest' \in Digests
         /\ proposed' \subseteq Rows /\ declined' \subseteq Rows
         /\ brake' \in {"off", "fired", "lifted"}
<1>1. p.rows \subseteq Rows /\ WindowDigest(p) \in Contents
  BY PassesAreContents DEF Payloads
<1>2. /\ stored \subseteq Rows /\ digest \in Digests
      /\ proposed \subseteq Rows /\ declined \subseteq Rows
      /\ brake \in {"off", "fired", "lifted"}
  BY DEF TypeOK
<1>3. CASE Admit(p)
  <2>1. stored' \subseteq Rows
    BY <1>1, <1>2, <1>3 DEF Admit, Added
  <2>2. proposed' \subseteq Rows /\ declined' \subseteq Rows
    BY <1>1, <1>2, <1>3 DEF Admit, Changed
  <2>3. digest' \in Digests
    BY <1>1, <1>2, <1>3 DEF Admit, Digests
  <2>4. brake' \in {"off", "fired", "lifted"}
    BY <1>2, <1>3 DEF Admit
  <2> QED BY <2>1, <2>2, <2>3, <2>4
<1>4. CASE Brake(p)
  BY <1>1, <1>2, <1>4 DEF Brake, Added
<1>5. CASE UNCHANGED rowVars
  BY <1>2, <1>5 DEF rowVars
<1> QED BY <1>3, <1>4, <1>5 DEF Rule

\* A ruling on rows the server agrees with, some of them declined perhaps, takes
\* none, withdraws none and proposes none.
LEMMA RuleOfTheSame ==
  ASSUME NEW p, Rule(p), KeysOf(stored) = KeysOf(p.rows),
         p.rows \subseteq stored \cup declined, proposed = {}
  PROVE  /\ stored' = stored /\ proposed' = {}
         /\ p.rows \subseteq stored' \cup declined'
<1>1. Added(p) = {} /\ Absent(p) = {}
  BY DEF Added, Absent, KeysOf
<1>2. Changed(p) \subseteq declined
  BY DEF Changed
<1>3. CASE Admit(p)
  <2>1. stored' = stored /\ proposed' = {}
    BY <1>1, <1>2, <1>3 DEF Admit
  <2>2. p.rows \cap declined \subseteq declined'
    BY <1>3 DEF Admit, KeysOf
  <2> QED BY <2>1, <2>2
<1>4. CASE Brake(p)
  BY <1>1, <1>4 DEF Brake
<1>5. CASE UNCHANGED rowVars
  BY <1>5 DEF rowVars
<1> QED BY <1>3, <1>4, <1>5 DEF Rule

-----------------------------------------------------------------------------
(* The inductive invariant. *)

LEMMA InitIInv == Init => IInv
<1> SUFFICES ASSUME Init PROVE IInv
  OBVIOUS
<1>1. TypeOK
  BY NoPassIsAPayload, ContentsAreRowsAndNotes, WindowBoundsAreNat
  DEF Init, TypeOK, Digests, NoDigest, Payloads
<1> QED BY <1>1 DEF Init, IInv, Carried, Fetched, Ignorant, NoDigest

\* The end of a pass, for one task.
LEMMA DoneKeeps ==
  ASSUME IInv, NEW t \in Tasks, Done(t)
  PROVE  /\ phase' \in [Tasks -> Phases] /\ full' \in [Tasks -> BOOLEAN]
         /\ known' \in [Tasks -> Digests] /\ pass' \in [Tasks -> Payloads]
         /\ applied' \in [Tasks -> BOOLEAN]
         /\ \A u \in Tasks : Fetched(u)' => Fetched(u) /\ pass'[u] = pass[u]
         /\ Ignorant'
         /\ \A u \in Tasks : Carries(u)' => Carries(u) /\ pass'[u] = pass[u]
<1>1. TypeOK /\ Ignorant
  BY DEF IInv
<1>2. /\ phase' \in [Tasks -> Phases] /\ full' \in [Tasks -> BOOLEAN]
      /\ known' \in [Tasks -> Digests] /\ pass' \in [Tasks -> Payloads]
      /\ applied' \in [Tasks -> BOOLEAN]
  BY <1>1, NoPassIsAPayload DEF TypeOK, Done, Phases, Digests, Payloads
<1>3. phase'[t] = "idle" /\ known'[t] = NoDigest
  BY <1>1 DEF TypeOK, Done
<1>4. \A u \in Tasks \ {t} : /\ phase'[u] = phase[u] /\ full'[u] = full[u]
                             /\ known'[u] = known[u] /\ pass'[u] = pass[u]
                             /\ applied'[u] = applied[u]
  BY <1>1 DEF TypeOK, Done
<1> QED BY <1>1, <1>2, <1>3, <1>4 DEF Fetched, Carries, Ignorant

\* What a crash leaves of the tasks.
LEMMA CrashKeeps ==
  ASSUME IInv, Crash
  PROVE  /\ phase' \in [Tasks -> Phases] /\ full' \in [Tasks -> BOOLEAN]
         /\ known' \in [Tasks -> Digests] /\ pass' \in [Tasks -> Payloads]
         /\ applied' \in [Tasks -> BOOLEAN]
         /\ \A u \in Tasks : phase'[u] = "idle" /\ known'[u] = NoDigest
BY NoPassIsAPayload DEF Crash, Phases, Digests

\* A request nobody waits for any more carries what its task had fetched.
LEMMA AbandonedIsCarried ==
  ASSUME IInv, NEW t \in Tasks, NEW p \in Abandoned(t)
  PROVE  p \in Passes /\ Carries(t) /\ p = pass[t]
BY DEF Abandoned, IInv, Carried, Fetched, Carries

\* The payloads on their way are payloads of the right shape.
LEMMA StrayShape ==
  ASSUME NEW S, S \subseteq Passes
  PROVE  S \subseteq Payloads
BY PassesAreContents

LEMMA NextIInv == IInv /\ [Next]_vars => IInv'
<1> SUFFICES ASSUME IInv, [Next]_vars PROVE IInv'
  OBVIOUS
<1> USE DEF vars, serverVars, rowVars, taskVars, bounds
<1>0. TypeOK /\ Carried /\ Ignorant
  BY DEF IInv
<1>1. ASSUME Edit PROVE IInv'
  <2>1. TypeOK'
    BY <1>0, <1>1, WindowBoundsAreNat DEF Edit, TypeOK
  <2> QED BY <1>0, <1>1, <2>1 DEF Edit, IInv, Carried, Fetched, Ignorant
<1>2. ASSUME Pair PROVE IInv'
  <2>1. TypeOK'
    BY <1>0, <1>2 DEF Pair, TypeOK, Digests
  <2> QED BY <1>0, <1>2, <2>1 DEF Pair, IInv, Carried, Fetched, Ignorant
<1>3. ASSUME NEW t \in Tasks, NEW isFull \in BOOLEAN, Start(t, isFull) PROVE IInv'
  <2>1. TypeOK'
    BY <1>0, <1>3 DEF Start, TypeOK
  <2>2. \A u \in Tasks : Fetched(u)' => Fetched(u)
    BY <1>0, <1>3 DEF Start, TypeOK, Fetched
  <2>3. Ignorant'
    BY <1>0, <1>3 DEF Start, TypeOK, Ignorant
  <2> QED BY <1>0, <1>3, <2>1, <2>2, <2>3 DEF Start, IInv, Carried
<1>4. ASSUME NEW t \in Tasks, ListOk(t) PROVE IInv'
  <2>1. HeldDigest(t) \in Digests
    BY <1>0 DEF HeldDigest, TypeOK, Digests
  <2>2. TypeOK'
    BY <1>0, <1>4, <2>1 DEF ListOk, TypeOK
  <2>3. \A u \in Tasks : Fetched(u)' => Fetched(u)
    BY <1>0, <1>4 DEF ListOk, TypeOK, Fetched
  <2>4. Ignorant'
    BY <1>0, <1>4 DEF ListOk, TypeOK, Ignorant, HeldDigest
  <2> QED BY <1>0, <1>4, <2>2, <2>3, <2>4 DEF ListOk, IInv, Carried
<1>5. ASSUME NEW t \in Tasks, FetchOk(t) PROVE IInv'
  <2>1. PICK scan \in {0, 1} : pass' = [pass EXCEPT ![t] = Pass(content, scan)]
    BY <1>5 DEF FetchOk, Scans
  <2>2. Pass(content, scan) \in Passes /\ Pass(content, scan) \in Payloads
    BY <1>0, PassOfContent DEF TypeOK
  <2>3. TypeOK'
    BY <1>0, <1>5, <2>1, <2>2 DEF FetchOk, TypeOK, Payloads
  <2>4. Carried'
    BY <1>0, <1>5, <2>1, <2>2 DEF FetchOk, TypeOK, Carried, Fetched
  <2>5. Ignorant'
    BY <1>0, <1>5 DEF FetchOk, TypeOK, Ignorant
  <2> QED BY <1>0, <1>5, <2>3, <2>4, <2>5 DEF FetchOk, IInv
<1>6. ASSUME NEW t \in Tasks, Skip(t) PROVE IInv'
  <2>1. Done(t) /\ UNCHANGED <<content, serverVars, stray, bounds>>
    BY <1>6 DEF Skip
  <2>2. TypeOK'
    BY <1>0, <2>1, DoneKeeps DEF TypeOK, Phases, Payloads
  <2> QED BY <1>0, <2>1, <2>2, DoneKeeps DEF IInv, Carried
<1>7. ASSUME NEW t \in Tasks, Send(t) PROVE IInv'
  <2>1. TypeOK'
    BY <1>0, <1>7 DEF Send, TypeOK
  <2>2. \A u \in Tasks : Fetched(u)' => Fetched(u)
    BY <1>0, <1>7 DEF Send, TypeOK, Fetched
  <2>3. Ignorant'
    BY <1>0, <1>7 DEF Send, TypeOK, Ignorant
  <2> QED BY <1>0, <1>7, <2>1, <2>2, <2>3 DEF Send, IInv, Carried
<1>8. ASSUME NEW t \in Tasks, Apply(t) PROVE IInv'
  <2>1. pass[t] \in Passes /\ Rule(pass[t])
    BY <1>0, <1>8 DEF Apply, Carried, Fetched
  <2>2. /\ stored' \subseteq Rows /\ digest' \in Digests
        /\ proposed' \subseteq Rows /\ declined' \subseteq Rows
        /\ brake' \in {"off", "fired", "lifted"}
    BY <1>0, <2>1, RuleKeeps
  <2>3. TypeOK'
    BY <1>0, <1>8, <2>2 DEF Apply, TypeOK
  <2> QED BY <1>0, <1>8, <2>2, <2>3 DEF Apply, IInv, Carried, Fetched, Ignorant
<1>9. ASSUME NEW p \in stray, ApplyStray(p) PROVE IInv'
  <2>1. p \in Passes /\ Rule(p)
    BY <1>0, <1>9 DEF ApplyStray, Carried
  <2>2. /\ stored' \subseteq Rows /\ digest' \in Digests
        /\ proposed' \subseteq Rows /\ declined' \subseteq Rows
        /\ brake' \in {"off", "fired", "lifted"}
    BY <1>0, <2>1, RuleKeeps
  <2>3. TypeOK'
    BY <1>0, <1>9, <2>2 DEF ApplyStray, TypeOK
  <2> QED BY <1>0, <1>9, <2>2, <2>3 DEF ApplyStray, IInv, Carried, Fetched, Ignorant
<1>10. ASSUME NEW p \in stray, LoseStray(p) PROVE IInv'
  <2>1. TypeOK'
    BY <1>0, <1>10 DEF LoseStray, TypeOK
  <2> QED BY <1>0, <1>10, <2>1 DEF LoseStray, IInv, Carried, Fetched, Ignorant
<1>11. ASSUME NEW t \in Tasks, ListOrFetchFails(t) PROVE IInv'
  <2>1. /\ UNCHANGED <<content, serverVars, stray, edits>>
        /\ faults' \in 0..MaxFaults
    BY <1>0, <1>11, WindowBoundsAreNat DEF ListOrFetchFails, Fault, TypeOK
  <2>2. CASE Done(t)
    <3>1. TypeOK'
      BY <1>0, <2>1, <2>2, DoneKeeps DEF TypeOK, Phases, Payloads
    <3> QED BY <1>0, <2>1, <2>2, <3>1, DoneKeeps DEF IInv, Carried
  <2>3. CASE /\ phase' = [phase EXCEPT ![t] = "list"]
             /\ known' = [known EXCEPT ![t] = NoDigest]
             /\ UNCHANGED <<full, pass, applied>>
    <3>1. TypeOK'
      BY <1>0, <2>1, <2>3 DEF TypeOK, Digests
    <3>2. \A u \in Tasks : Fetched(u)' => Fetched(u)
      BY <1>0, <2>3 DEF TypeOK, Fetched
    <3>3. Ignorant'
      BY <1>0, <2>3 DEF TypeOK, Ignorant
    <3> QED BY <1>0, <2>1, <2>3, <3>1, <3>2, <3>3 DEF IInv, Carried
  <2> QED BY <1>11, <2>2, <2>3 DEF ListOrFetchFails
<1>12. ASSUME NEW t \in Tasks, Annotating(t), stray' \subseteq Passes,
              UNCHANGED <<content, serverVars, edits>>, faults' \in 0..MaxFaults,
              phase[t] = "await"
       PROVE  IInv'
  <2>0. stray' \subseteq Payloads
    BY <1>12, StrayShape
  <2>1. CASE Done(t)
    <3>1. TypeOK'
      BY <1>0, <1>12, <2>0, <2>1, DoneKeeps DEF TypeOK, Phases, Payloads
    <3> QED BY <1>0, <1>12, <2>1, <3>1, DoneKeeps DEF IInv, Carried
  <2>2. CASE phase' = [phase EXCEPT ![t] = "annotate"] /\ UNCHANGED <<full, known, pass, applied>>
    <3>1. TypeOK'
      BY <1>0, <1>12, <2>0, <2>2 DEF TypeOK, Payloads
    <3>2. \A u \in Tasks : Fetched(u)' => Fetched(u)
      BY <1>0, <1>12, <2>2 DEF TypeOK, Fetched
    <3>3. Ignorant'
      BY <1>0, <2>2 DEF TypeOK, Ignorant
    <3> QED BY <1>0, <1>12, <2>2, <3>1, <3>2, <3>3 DEF IInv, Carried
  <2> QED BY <1>12, <2>1, <2>2 DEF Annotating
<1>13. ASSUME NEW t \in Tasks, Reply(t) PROVE IInv'
  BY <1>0, <1>12, <1>13 DEF Reply, TypeOK, Carried
<1>14. ASSUME NEW t \in Tasks, ReplyError(t) PROVE IInv'
  <2>1. stray' \subseteq Passes
    BY <1>0, <1>14, AbandonedIsCarried DEF ReplyError, Carried
  <2>2. faults' \in 0..MaxFaults
    BY <1>0, <1>14, WindowBoundsAreNat DEF ReplyError, Fault, TypeOK
  <2> QED BY <1>12, <1>14, <2>1, <2>2 DEF ReplyError
<1>15. ASSUME NEW t \in Tasks, phase[t] = "annotate", Done(t),
              registered' \in {registered,
                               IF paired THEN registered \cup pass[t].notes ELSE registered},
              UNCHANGED <<content, rowVars, paired, stray, edits>>,
              faults' \in 0..MaxFaults
       PROVE  IInv'
  <2>1. pass[t].notes \subseteq Notes
    BY <1>0 DEF TypeOK
  <2>2. registered' \subseteq Notes
    BY <1>0, <1>15, <2>1 DEF TypeOK
  <2>3. TypeOK'
    BY <1>0, <1>15, <2>2, DoneKeeps DEF TypeOK, Phases, Payloads
  <2> QED BY <1>0, <1>15, <2>3, DoneKeeps DEF IInv, Carried
<1>16. ASSUME NEW t \in Tasks, Annotate(t) PROVE IInv'
  BY <1>0, <1>15, <1>16 DEF Annotate, TypeOK
<1>17. ASSUME NEW t \in Tasks, AnnotateFails(t) PROVE IInv'
  <2>1. faults' \in 0..MaxFaults
    BY <1>0, <1>17, WindowBoundsAreNat DEF AnnotateFails, Fault, TypeOK
  <2> QED BY <1>15, <1>17, <2>1 DEF AnnotateFails
<1>18. ASSUME Crash PROVE IInv'
  <2>1. stray' \subseteq Passes
    BY <1>0, <1>18, AbandonedIsCarried DEF Crash, Carried
  <2>2. faults' \in 0..MaxFaults
    BY <1>0, <1>18, WindowBoundsAreNat DEF Crash, Fault, TypeOK
  <2>3. UNCHANGED <<content, serverVars, edits>>
    BY <1>18 DEF Crash
  <2>4. TypeOK'
    BY <1>0, <1>18, <2>1, <2>2, <2>3, StrayShape, CrashKeeps DEF TypeOK, Phases, Payloads
  <2> QED BY <1>0, <1>18, <2>1, <2>3, <2>4, CrashKeeps
          DEF IInv, Carried, Fetched, Ignorant
<1>19. ASSUME NEW row \in proposed, Accept(row) \/ Decline(row) PROVE IInv'
  <2>1. row \in Rows
    BY <1>0 DEF TypeOK
  <2>2. TypeOK'
    BY <1>0, <1>19, <2>1 DEF Accept, Decline, TypeOK
  <2> QED BY <1>0, <1>19, <2>2 DEF Accept, Decline, IInv, Carried, Fetched, Ignorant
<1>20. ASSUME LiftBrake PROVE IInv'
  <2>1. TypeOK'
    BY <1>0, <1>20 DEF LiftBrake, TypeOK
  <2> QED BY <1>0, <1>20, <2>1 DEF LiftBrake, IInv, Carried, Fetched, Ignorant
<1>21. ASSUME UNCHANGED vars PROVE IInv'
  BY <1>0, <1>21 DEF IInv, TypeOK, Carried, Fetched, Ignorant
<1> QED BY <1>1, <1>2, <1>3, <1>4, <1>5, <1>6, <1>7, <1>8, <1>9, <1>10, <1>11, <1>13,
           <1>14, <1>16, <1>17, <1>18, <1>19, <1>20, <1>21 DEF Next, TaskStep, Tasks

\* In every behaviour the invariant holds throughout.
LEMMA Inductive == Spec => []IInv
<1>1. Init => IInv
  BY InitIInv
<1>2. IInv /\ [Next]_vars => IInv'
  BY NextIInv
<1> QED BY <1>1, <1>2, PTL DEF Spec

\* The state is well formed in every reachable state.
THEOREM TypeCorrect == Spec => []TypeOK
<1>1. IInv => TypeOK
  BY DEF IInv
<1> QED BY <1>1, Inductive, PTL

\* A full sync and a resync leave no pass out (driver.rs:382-387).
THEOREM FullPassesAreSent == Spec => []FullIsSent
<1>1. IInv => FullIsSent
  BY DEF IInv, Ignorant, FullIsSent, NoDigest
<1> QED BY <1>1, Inductive, PTL

-----------------------------------------------------------------------------
(* Settled streams stay settled. *)

LEMMA NextSettled ==
  IInv /\ [Next]_vars => (Settled /\ content' = content => Settled')
<1> SUFFICES ASSUME IInv, [Next]_vars, Settled, content' = content PROVE Settled'
  OBVIOUS
<1> USE DEF vars, serverVars, rowVars, taskVars, bounds
<1>0. TypeOK
  BY DEF IInv
<1>00. /\ Agrees /\ proposed = {}
       /\ \A p \in stray : p.rows = content.rows
       /\ \A t \in Tasks : Carries(t) => pass[t].rows = content.rows
  BY DEF Settled
\* It is enough that the server still agrees and nothing new is on its way.
<1>S. ASSUME Agrees', proposed' = {},
             \A p \in stray' : p.rows = content.rows,
             \A u \in Tasks : Carries(u)' => pass'[u].rows = content.rows
      PROVE  Settled'
  BY <1>S DEF Settled
\* A step that leaves the server's rows alone, and the decisions on them.
<1>A. ASSUME UNCHANGED <<stored, proposed, declined>> PROVE Agrees' /\ proposed' = {}
  BY <1>00, <1>A DEF Agrees
\* So does a ruling on the source's rows.
<1>R. ASSUME NEW p, Rule(p), p.rows = content.rows PROVE Agrees' /\ proposed' = {}
  BY <1>00, <1>R, RuleOfTheSame DEF Agrees
<1>1. CASE Edit
  BY <1>1 DEF Edit
<1>2. CASE Pair
  BY <1>00, <1>A, <1>S, <1>2 DEF Pair, Carries
<1>3. ASSUME NEW t \in Tasks, NEW isFull \in BOOLEAN, Start(t, isFull) PROVE Settled'
  <2>1. \A u \in Tasks : Carries(u)' => Carries(u)
    BY <1>0, <1>3 DEF Start, TypeOK, Carries
  <2> QED BY <1>00, <1>A, <1>S, <1>3, <2>1 DEF Start
<1>4. ASSUME NEW t \in Tasks, ListOk(t) PROVE Settled'
  <2>1. \A u \in Tasks : Carries(u)' => Carries(u)
    BY <1>0, <1>4 DEF ListOk, TypeOK, Carries
  <2> QED BY <1>00, <1>A, <1>S, <1>4, <2>1 DEF ListOk
<1>5. ASSUME NEW t \in Tasks, FetchOk(t) PROVE Settled'
  <2>1. PICK scan \in {0, 1} : pass' = [pass EXCEPT ![t] = Pass(content, scan)]
    BY <1>5 DEF FetchOk, Scans
  <2>2. Pass(content, scan).rows = content.rows
    BY DEF Pass
  <2>3. pass'[t].rows = content.rows
    BY <1>0, <2>1, <2>2 DEF TypeOK
  <2>4. \A u \in Tasks \ {t} : Carries(u)' => Carries(u) /\ pass'[u] = pass[u]
    BY <1>0, <1>5, <2>1 DEF FetchOk, TypeOK, Carries
  <2>5. \A u \in Tasks : Carries(u)' => pass'[u].rows = content.rows
    BY <1>00, <2>3, <2>4
  <2> QED BY <1>00, <1>A, <1>S, <1>5, <2>5 DEF FetchOk
<1>6. ASSUME NEW t \in Tasks, Skip(t) PROVE Settled'
  <2>1. Done(t) /\ UNCHANGED <<stored, proposed, declined, stray>>
    BY <1>6 DEF Skip
  <2> QED BY <1>00, <1>A, <1>S, <2>1, DoneKeeps
<1>7. ASSUME NEW t \in Tasks, Send(t) PROVE Settled'
  <2>1. \A u \in Tasks : Carries(u)' => Carries(u)
    BY <1>0, <1>7 DEF Send, TypeOK, Carries
  <2> QED BY <1>00, <1>A, <1>S, <1>7, <2>1 DEF Send
<1>8. ASSUME NEW t \in Tasks, Apply(t) PROVE Settled'
  <2>1. Rule(pass[t]) /\ pass[t].rows = content.rows
    BY <1>00, <1>8 DEF Apply, Carries
  <2>2. \A u \in Tasks : Carries(u)' => Carries(u)
    BY <1>0, <1>8 DEF Apply, TypeOK, Carries
  <2> QED BY <1>00, <1>R, <1>S, <1>8, <2>1, <2>2 DEF Apply
<1>9. ASSUME NEW p \in stray, ApplyStray(p) PROVE Settled'
  <2>1. Rule(p) /\ p.rows = content.rows
    BY <1>00, <1>9 DEF ApplyStray
  <2> QED BY <1>00, <1>R, <1>S, <1>9, <2>1 DEF ApplyStray, Carries
<1>10. ASSUME NEW p \in stray, LoseStray(p) PROVE Settled'
  BY <1>00, <1>A, <1>S, <1>10 DEF LoseStray, Carries
<1>11. ASSUME NEW t \in Tasks, ListOrFetchFails(t) PROVE Settled'
  <2>1. UNCHANGED <<stored, proposed, declined, stray>>
    BY <1>11 DEF ListOrFetchFails
  <2>2. CASE Done(t)
    BY <1>00, <1>A, <1>S, <2>1, <2>2, DoneKeeps
  <2>3. CASE phase' = [phase EXCEPT ![t] = "list"] /\ UNCHANGED <<full, pass, applied>>
    <3>1. \A u \in Tasks : Carries(u)' => Carries(u)
      BY <1>0, <2>3 DEF TypeOK, Carries
    <3> QED BY <1>00, <1>A, <1>S, <2>1, <2>3, <3>1
  <2> QED BY <1>11, <2>2, <2>3 DEF ListOrFetchFails
<1>12. ASSUME NEW t \in Tasks, Annotating(t), UNCHANGED <<stored, proposed, declined>>,
              \A p \in stray' : p.rows = content.rows
       PROVE  Settled'
  <2>1. CASE Done(t)
    BY <1>00, <1>A, <1>S, <1>12, <2>1, DoneKeeps
  <2>2. CASE phase' = [phase EXCEPT ![t] = "annotate"] /\ UNCHANGED <<full, known, pass, applied>>
    <3>1. \A u \in Tasks : Carries(u)' => Carries(u)
      BY <1>0, <2>2 DEF TypeOK, Carries
    <3> QED BY <1>00, <1>A, <1>S, <1>12, <2>2, <3>1
  <2> QED BY <1>12, <2>1, <2>2 DEF Annotating
<1>13. ASSUME NEW t \in Tasks, Reply(t) PROVE Settled'
  BY <1>00, <1>12, <1>13 DEF Reply
<1>14. ASSUME NEW t \in Tasks, ReplyError(t) PROVE Settled'
  <2>1. \A p \in stray' : p.rows = content.rows
    BY <1>00, <1>14, AbandonedIsCarried DEF ReplyError
  <2> QED BY <1>12, <1>14, <2>1 DEF ReplyError
<1>15. ASSUME NEW t \in Tasks, Done(t),
              UNCHANGED <<stored, proposed, declined, stray>>
       PROVE  Settled'
  BY <1>00, <1>A, <1>S, <1>15, DoneKeeps
<1>16. ASSUME NEW t \in Tasks, Annotate(t) PROVE Settled'
  BY <1>15, <1>16 DEF Annotate
<1>17. ASSUME NEW t \in Tasks, AnnotateFails(t) PROVE Settled'
  BY <1>15, <1>17 DEF AnnotateFails
<1>18. CASE Crash
  <2>1. \A p \in stray' : p.rows = content.rows
    BY <1>00, <1>18, AbandonedIsCarried DEF Crash
  <2>2. \A u \in Tasks : ~Carries(u)'
    BY <1>18, CrashKeeps DEF Carries
  <2>3. UNCHANGED <<stored, proposed, declined>>
    BY <1>18 DEF Crash
  <2> QED BY <1>A, <1>S, <2>1, <2>2, <2>3
<1>19. ASSUME NEW row \in proposed PROVE FALSE
  BY <1>00, <1>19
<1>20. CASE LiftBrake
  BY <1>00, <1>A, <1>S, <1>20 DEF LiftBrake, Carries
<1>21. CASE UNCHANGED vars
  BY <1>00, <1>A, <1>S, <1>21 DEF Carries
<1> QED BY <1>1, <1>2, <1>3, <1>4, <1>5, <1>6, <1>7, <1>8, <1>9, <1>10, <1>11, <1>13,
           <1>14, <1>16, <1>17, <1>18, <1>19, <1>20, <1>21 DEF Next, TaskStep, Tasks

\* Once the server and everything on its way agree with the source, nothing but
\* an edit of the source tells them apart again (driver.rs:414-427).
THEOREM SettledRemains == Spec => SettledStays
<1>1. IInv /\ IInv' /\ [Next]_vars => [Settled /\ content' = content => Settled']_vars
  BY NextSettled
<1> QED BY <1>1, Inductive, PTL DEF Spec, SettledStays

-----------------------------------------------------------------------------
(* Quiet streams stay quiet. *)

\* A cycle over unchanged content knows the digest of what it fetched.
LEMMA QuietSkips ==
  ASSUME Quiet, phase["cycle"] = "ingest"
  PROVE  known["cycle"] = {WindowDigest(pass["cycle"])}
BY DEF Quiet

LEMMA NextQuiet ==
  IInv /\ [Next]_vars
    => (Quiet /\ content' = content /\ paired' = paired
          /\ phase'["resync"] = "idle" /\ ~full'["cycle"] => Quiet')
<1> SUFFICES ASSUME IInv, [Next]_vars, Quiet, content' = content, paired' = paired,
                    phase'["resync"] = "idle", ~full'["cycle"]
             PROVE  Quiet'
  OBVIOUS
<1> USE DEF vars, serverVars, rowVars, taskVars, bounds
<1>0. TypeOK
  BY DEF IInv
<1>00. /\ digest = {WindowDigest(content)} /\ stray = {}
       /\ phase["resync"] = "idle" /\ ~full["cycle"]
       /\ phase["cycle"] \in {"idle", "list", "fetch", "ingest"}
       /\ phase["cycle"] \in {"fetch", "ingest"} => known["cycle"] = digest
       /\ phase["cycle"] = "ingest" => WindowDigest(pass["cycle"]) = WindowDigest(content)
  BY DEF Quiet
<1>000. "cycle" \in Tasks /\ "resync" \in Tasks
  BY DEF Tasks
\* It is enough that the digest stays as it is and the cycle starts over.
<1>S. ASSUME digest' = digest, stray' = {},
             phase'["cycle"] \in {"idle", "list"}
      PROVE  Quiet'
  BY <1>00, <1>S DEF Quiet, WindowDigest
<1>T. ASSUME UNCHANGED <<digest, stray>>, phase'["cycle"] = phase["cycle"],
             known'["cycle"] = known["cycle"], pass'["cycle"] = pass["cycle"]
      PROVE  Quiet'
  BY <1>00, <1>T DEF Quiet, WindowDigest
<1>1. CASE Edit
  BY <1>1 DEF Edit
<1>2. CASE Pair
  BY <1>2 DEF Pair
<1>3. ASSUME NEW t \in Tasks, NEW isFull \in BOOLEAN, Start(t, isFull) PROVE Quiet'
  <2>1. t = "cycle"
    BY <1>0, <1>3 DEF Start, TypeOK, Tasks
  <2>2. phase'["cycle"] = "list"
    BY <1>0, <1>3, <2>1, <1>000 DEF Start, TypeOK
  <2> QED BY <1>00, <1>S, <1>3, <2>2 DEF Start
<1>4. ASSUME NEW t \in Tasks, ListOk(t) PROVE Quiet'
  <2>1. t = "cycle"
    BY <1>00, <1>4 DEF ListOk, Tasks
  <2>2. phase'["cycle"] = "fetch" /\ known'["cycle"] = digest
    BY <1>0, <1>00, <1>4, <2>1, <1>000 DEF ListOk, TypeOK, HeldDigest
  <2> QED BY <1>00, <1>4, <2>2 DEF ListOk, Quiet, WindowDigest
<1>5. ASSUME NEW t \in Tasks, FetchOk(t) PROVE Quiet'
  <2>1. t = "cycle" /\ phase[t] = "fetch"
    BY <1>00, <1>5 DEF FetchOk, Tasks
  <2>2. PICK scan \in {0, 1} : pass' = [pass EXCEPT ![t] = Pass(content, scan)]
    BY <1>5 DEF FetchOk, Scans
  <2>3. pass'["cycle"] = Pass(content, scan)
    BY <1>0, <2>1, <2>2, <1>000 DEF TypeOK
  <2>4. WindowDigest(Pass(content, scan)) = WindowDigest(content)
    BY DEF Pass, WindowDigest
  <2>5. phase'["cycle"] = "ingest"
    BY <1>0, <1>5, <2>1, <1>000 DEF FetchOk, TypeOK
  <2> QED BY <1>00, <1>5, <2>1, <2>3, <2>4, <2>5 DEF FetchOk, Quiet, WindowDigest
<1>6. ASSUME NEW t \in Tasks, Done(t), UNCHANGED <<digest, stray>>, t = "cycle"
      PROVE  Quiet'
  <2>1. phase'["cycle"] = "idle"
    BY <1>0, <1>6, <1>000 DEF Done, TypeOK
  <2> QED BY <1>00, <1>S, <1>6, <2>1
<1>7. ASSUME NEW t \in Tasks, Skip(t) PROVE Quiet'
  <2>1. t = "cycle"
    BY <1>00, <1>7 DEF Skip, Tasks
  <2> QED BY <1>6, <1>7, <2>1 DEF Skip
<1>8. ASSUME NEW t \in Tasks, Send(t) PROVE FALSE
  BY <1>00, <1>8, QuietSkips DEF Send, Tasks
<1>9. ASSUME NEW t \in Tasks, phase[t] \in {"await", "annotate"} PROVE FALSE
  BY <1>00, <1>9 DEF Tasks
<1>10. ASSUME NEW t \in Tasks, ListOrFetchFails(t) PROVE Quiet'
  <2>1. t = "cycle" /\ UNCHANGED <<digest, stray>>
    BY <1>00, <1>10 DEF ListOrFetchFails, Tasks
  <2>2. CASE Done(t)
    BY <1>6, <2>1, <2>2
  <2>3. CASE phase' = [phase EXCEPT ![t] = "list"]
    <3>1. phase'["cycle"] = "list"
      BY <1>0, <2>1, <2>3, <1>000 DEF TypeOK
    <3> QED BY <1>00, <1>S, <2>1, <3>1
  <2> QED BY <1>10, <2>2, <2>3 DEF ListOrFetchFails
<1>11. CASE Crash
  <2>1. \A t \in Tasks : Abandoned(t) = {}
    BY <1>00 DEF Abandoned, Tasks
  <2>2. stray' = {}
    BY <1>00, <1>11, <2>1 DEF Crash
  <2>3. phase'["cycle"] = "idle"
    BY <1>11, <1>000 DEF Crash
  <2> QED BY <1>S, <1>11, <2>2, <2>3 DEF Crash
<1>12. CASE UNCHANGED vars
  BY <1>T, <1>12
<1>13. ASSUME NEW p \in stray PROVE FALSE
  BY <1>00, <1>13
<1>14. ASSUME NEW t \in Tasks,
              Apply(t) \/ Reply(t) \/ ReplyError(t) \/ Annotate(t) \/ AnnotateFails(t)
       PROVE  FALSE
  BY <1>9, <1>14 DEF Apply, Reply, ReplyError, Annotate, AnnotateFails
<1>15. ASSUME NEW row \in proposed, Accept(row) \/ Decline(row) PROVE Quiet'
  BY <1>00, <1>T, <1>15 DEF Accept, Decline
<1>16. CASE LiftBrake
  BY <1>00, <1>T, <1>16 DEF LiftBrake
<1> QED BY <1>1, <1>2, <1>3, <1>4, <1>5, <1>7, <1>8, <1>10, <1>11, <1>12, <1>13, <1>14,
           <1>15, <1>16
        DEF Next, TaskStep, Tasks

\* Over content whose digest the server keeps, cycles send nothing, until the source is
\* edited, the stream paired or a full pass asked for (driver.rs:76-79).
THEOREM QuietRemains == Spec => QuietStays
<1>1. IInv /\ IInv' /\ [Next]_vars
        => [Quiet /\ content' = content /\ paired' = paired
              /\ phase'["resync"] = "idle" /\ ~full'["cycle"] => Quiet']_vars
  BY NextQuiet
<1> QED BY <1>1, Inductive, PTL DEF Spec, QuietStays
=============================================================================
