----------------------------- MODULE DiscoveryProofs -----------------------------
(***************************************************************************)
(* Proofs about stream discovery: what the driver remembers of its         *)
(* registrations is what the server holds, for any streams, descriptors,   *)
(* refusals and crashes, until an answer is lost.                          *)
(***************************************************************************)
EXTENDS Discovery, TLAPS

\* Only a registration that is being awaited, of a stream the server admits,
\* has been applied and not been answered.
LandedInv == landed => pc = "await" /\ key \notin Refused

\* As long as every answer was heard nothing is on its way, and what is
\* remembered of a stream is what the server holds, but for the one whose
\* answer is due: there the server holds what is about to be remembered.
TruthInv ==
  ~lost =>
    /\ stray = {}
    /\ landed => served[key] = todo[key]
    /\ \A k \in Keys : cache[k] # None => (cache[k] = served[k] \/ (landed /\ k = key))

IInv == TypeOK /\ LandedInv /\ TruthInv

-----------------------------------------------------------------------------
LEMMA InitIInv == Init => IInv
<1> SUFFICES ASSUME Init PROVE IInv
  OBVIOUS
<1>1. TypeOK
  <2>1. Nothing \in Descriptions
    BY DEF Descriptions, Nothing
  <2>2. 0 \in 0..MaxEdits /\ 0 \in 0..MaxFaults
    BY DiscoveryBoundsAreNat
  <2> QED BY <2>1, <2>2 DEF Init, TypeOK
<1>2. LandedInv /\ TruthInv
  BY DEF Init, LandedInv, TruthInv, Nothing
<1> QED BY <1>1, <1>2 DEF IInv

\* A fault is counted.
LEMMA FaultCounts == TypeOK /\ Fault => faults' \in 0..MaxFaults
BY DiscoveryBoundsAreNat DEF TypeOK, Fault

-----------------------------------------------------------------------------
(* The source and the server. *)

LEMMA EditIInv == IInv /\ Edit => IInv'
<1> SUFFICES ASSUME IInv, Edit PROVE IInv'
  OBVIOUS
<1>1. /\ edits' = edits + 1 /\ edits < MaxEdits
      /\ UNCHANGED <<rediscover, served, stray, clientVars, lost, faults>>
  BY DEF Edit
<1>2. described' \in Descriptions
  BY DEF Edit, IInv, TypeOK, Descriptions
<1>3. edits' \in 0..MaxEdits
  BY <1>1, DiscoveryBoundsAreNat DEF IInv, TypeOK
<1>4. TypeOK'
  BY <1>1, <1>2, <1>3 DEF IInv, TypeOK, clientVars
<1>5. LandedInv' /\ TruthInv'
  BY <1>1 DEF IInv, LandedInv, TruthInv, clientVars
<1> QED BY <1>4, <1>5 DEF IInv

\* The server applies what is awaited: for that one stream it now holds more
\* than is remembered.
LEMMA LandIInv == IInv /\ Land => IInv'
<1> SUFFICES ASSUME IInv, Land PROVE IInv'
  OBVIOUS
<1>1. /\ pc = "await" /\ ~landed /\ key \notin Refused
      /\ served' = [served EXCEPT ![key] = todo[key]] /\ landed' = TRUE
      /\ UNCHANGED <<rediscover, described, stray, cache, discovered, pc, full,
                     todo, key, missed, partial, lost, edits, faults>>
  BY DEF Land
<1>2. /\ key \in Keys /\ todo[key] \in Versions \cup {None}
      /\ served \in Descriptions /\ served' \in Descriptions
  BY <1>1 DEF IInv, TypeOK, Descriptions
<1>3. TypeOK'
  BY <1>1, <1>2 DEF IInv, TypeOK
<1>4. LandedInv'
  BY <1>1 DEF LandedInv
<1>5. TruthInv'
  BY <1>1, <1>2 DEF IInv, TruthInv, Descriptions
<1> QED BY <1>3, <1>4, <1>5 DEF IInv

\* What nobody waits for any more exists only once an answer was lost.
LEMMA StrayIInv ==
  ASSUME IInv, NEW m \in stray, LandStray(m) \/ LoseStray(m)
  PROVE  IInv'
<1>1. /\ stray' = stray \ {m}
      /\ served' = [served EXCEPT ![m.key] = m.version] \/ served' = served
      /\ UNCHANGED <<rediscover, described, clientVars, lost, edits, faults>>
  BY DEF LandStray, LoseStray
<1>2. served' \in Descriptions
  BY <1>1 DEF IInv, TypeOK, Descriptions
<1>3. TypeOK'
  BY <1>1, <1>2 DEF IInv, TypeOK, clientVars
<1>4. LandedInv'
  BY <1>1 DEF IInv, LandedInv, clientVars
<1>5. TruthInv'
  <2>1. lost
    BY DEF IInv, TruthInv
  <2> QED BY <1>1, <2>1 DEF TruthInv
<1> QED BY <1>3, <1>4, <1>5 DEF IInv

-----------------------------------------------------------------------------
(* The driver. *)

\* The steps between two calls of register_stream.
LEMMA PassIInv ==
  ASSUME IInv,
         (\E isFull \in BOOLEAN : Start(isFull)) \/ DiscoverOk \/ DiscoverFails \/ PassEnds
  PROVE  IInv'
<1>1. /\ ~landed /\ landed' = landed
      /\ UNCHANGED <<rediscover, described, served, stray, cache, key, lost, edits>>
  BY DEF IInv, LandedInv, Start, DiscoverOk, DiscoverFails, PassEnds
<1>2. /\ pc' \in {"idle", "discover", "register"} /\ todo' \in {todo, described}
      /\ full' \in BOOLEAN /\ missed' \subseteq Keys
      /\ discovered' \in BOOLEAN /\ partial' \in BOOLEAN
  BY Zenon DEF IInv, TypeOK, Start, DiscoverOk, DiscoverFails, PassEnds, Latched
<1>3. faults' \in 0..MaxFaults
  <2>1. CASE faults' = faults
    BY <2>1 DEF IInv, TypeOK
  <2>2. CASE Fault
    BY <2>2, FaultCounts DEF IInv
  <2> QED BY <2>1, <2>2 DEF Start, DiscoverOk, DiscoverFails, PassEnds
<1>4. TypeOK'
  BY <1>1, <1>2, <1>3 DEF IInv, TypeOK
<1>5. LandedInv' /\ TruthInv'
  BY <1>1 DEF IInv, LandedInv, TruthInv
<1> QED BY <1>4, <1>5 DEF IInv

LEMMA RegisterIInv == IInv /\ (\E k \in Keys : Register(k)) => IInv'
<1> SUFFICES ASSUME IInv, NEW k \in Keys, Register(k) PROVE IInv'
  OBVIOUS
<1>1. /\ pc = "register" /\ todo[k] # None /\ pc' = "await" /\ key' = k
      /\ UNCHANGED <<rediscover, described, served, stray, cache, discovered, full,
                     todo, landed, missed, partial, lost, edits, faults>>
  BY DEF Register, Due
<1>2. ~landed
  BY <1>1 DEF IInv, LandedInv
<1>3. TypeOK'
  BY <1>1 DEF IInv, TypeOK
<1>4. LandedInv' /\ TruthInv'
  BY <1>1, <1>2 DEF IInv, LandedInv, TruthInv
<1> QED BY <1>3, <1>4 DEF IInv

\* A stream that has been dealt with is done with in this pass.
LEMMA DealtSound ==
  ASSUME TypeOK, NEW k \in Keys, Dealt(k)
  PROVE  /\ todo' \in Descriptions /\ pc' = "register"
         /\ key' = None /\ landed' = FALSE
BY DEF TypeOK, Descriptions, Dealt

LEMMA UnchangedIInv == IInv /\ (\E k \in Keys : Unchanged(k)) => IInv'
<1> SUFFICES ASSUME IInv, NEW k \in Keys, Unchanged(k) PROVE IInv'
  OBVIOUS
<1>1. /\ pc = "register" /\ Dealt(k)
      /\ UNCHANGED <<rediscover, described, served, stray, cache, discovered, full,
                     missed, partial, lost, edits, faults>>
  BY DEF Unchanged
<1>2. todo' \in Descriptions /\ pc' = "register" /\ key' = None /\ landed' = FALSE
  BY <1>1, DealtSound DEF IInv
<1>3. ~landed
  BY <1>1 DEF IInv, LandedInv
<1>4. TypeOK'
  BY <1>1, <1>2 DEF IInv, TypeOK
<1>5. LandedInv' /\ TruthInv'
  BY <1>1, <1>2, <1>3 DEF IInv, LandedInv, TruthInv
<1> QED BY <1>4, <1>5 DEF IInv

\* The answer to what the server has applied: it is what is remembered now.
LEMMA RegisterOkIInv == IInv /\ RegisterOk => IInv'
<1> SUFFICES ASSUME IInv, RegisterOk PROVE IInv'
  OBVIOUS
<1>1. /\ pc = "await" /\ landed /\ Dealt(key)
      /\ cache' = [cache EXCEPT ![key] = todo[key]]
      /\ UNCHANGED <<rediscover, described, served, stray, discovered, full,
                     missed, partial, lost, edits, faults>>
  BY DEF RegisterOk
<1>2. key \in Keys /\ cache \in Descriptions /\ todo \in Descriptions
  BY <1>1 DEF IInv, TypeOK
<1>3. todo' \in Descriptions /\ pc' = "register" /\ key' = None /\ landed' = FALSE
  BY <1>1, <1>2, DealtSound DEF IInv
<1>4. /\ cache' \in Descriptions
      /\ \A k \in Keys : cache'[k] = IF k = key THEN todo[key] ELSE cache[k]
  BY <1>1, <1>2 DEF Descriptions
<1>5. TypeOK'
  BY <1>1, <1>3, <1>4 DEF IInv, TypeOK
<1>6. LandedInv' /\ TruthInv'
  BY <1>1, <1>3, <1>4 DEF IInv, LandedInv, TruthInv
<1> QED BY <1>5, <1>6 DEF IInv

\* A refusal comes of what has not been applied.
LEMMA RegisterRefusedIInv == IInv /\ RegisterRefused => IInv'
<1> SUFFICES ASSUME IInv, RegisterRefused PROVE IInv'
  OBVIOUS
<1>1. /\ pc = "await" /\ Refusal /\ Dealt(key)
      /\ missed' = missed \cup {key}
      /\ UNCHANGED <<rediscover, described, served, stray, cache, discovered, full,
                     partial, lost, edits>>
  BY DEF RegisterRefused, Missed
<1>2. key \in Keys
  BY <1>1 DEF IInv, TypeOK
<1>3. todo' \in Descriptions /\ pc' = "register" /\ key' = None /\ landed' = FALSE
  BY <1>1, <1>2, DealtSound DEF IInv
<1>4. ~landed
  BY <1>1 DEF Refusal, IInv, LandedInv
<1>5. faults' \in 0..MaxFaults
  BY <1>1, FaultCounts DEF IInv, TypeOK, Refusal
<1>6. TypeOK'
  BY <1>1, <1>2, <1>3, <1>5 DEF IInv, TypeOK
<1>7. LandedInv' /\ TruthInv'
  BY <1>1, <1>3, <1>4 DEF IInv, LandedInv, TruthInv
<1> QED BY <1>6, <1>7 DEF IInv

\* What is given up while it may still be applied.
LEMMA AbandonedSound ==
  ASSUME TypeOK
  PROVE  Abandoned \subseteq [key : Keys, version : Versions]
<1>1. CASE pc = "await"
  <2>1. key \in Keys /\ todo[key] \in Versions
    BY <1>1 DEF TypeOK, Descriptions
  <2> QED BY <2>1 DEF Abandoned
<1>2. CASE pc # "await"
  BY <1>2 DEF Abandoned
<1> QED BY <1>1, <1>2

LEMMA RegisterLostIInv == IInv /\ RegisterLost => IInv'
<1> SUFFICES ASSUME IInv, RegisterLost PROVE IInv'
  OBVIOUS
<1>1. /\ pc = "await" /\ Fault /\ Dealt(key) /\ lost' = TRUE
      /\ stray' = stray \cup Abandoned /\ missed' = missed \cup {key}
      /\ UNCHANGED <<rediscover, described, served, cache, discovered, full,
                     partial, edits>>
  BY DEF RegisterLost, Missed
<1>2. key \in Keys
  BY <1>1 DEF IInv, TypeOK
<1>3. todo' \in Descriptions /\ pc' = "register" /\ key' = None /\ landed' = FALSE
  BY <1>1, <1>2, DealtSound DEF IInv
<1>4. faults' \in 0..MaxFaults
  BY <1>1, FaultCounts DEF IInv
<1>5. stray' \subseteq [key : Keys, version : Versions]
  BY <1>1, AbandonedSound DEF IInv, TypeOK
<1>6. TypeOK'
  BY <1>1, <1>2, <1>3, <1>4, <1>5 DEF IInv, TypeOK
<1>7. LandedInv' /\ TruthInv'
  BY <1>1, <1>3 DEF LandedInv, TruthInv
<1> QED BY <1>6, <1>7 DEF IInv

\* A new process remembers nothing, so nothing it remembers is wrong.
LEMMA CrashIInv == IInv /\ Crash => IInv'
<1> SUFFICES ASSUME IInv, Crash PROVE IInv'
  OBVIOUS
<1>1. /\ Fault /\ stray' = stray \cup Abandoned /\ lost' = (lost \/ Abandoned # {})
      /\ cache' = Nothing /\ discovered' = FALSE /\ partial' = FALSE
      /\ pc' = "idle" /\ full' = FALSE /\ todo' = Nothing /\ key' = None
      /\ landed' = FALSE /\ missed' = {}
      /\ UNCHANGED <<rediscover, described, served, edits>>
  BY DEF Crash
<1>2. faults' \in 0..MaxFaults
  BY <1>1, FaultCounts DEF IInv
<1>3. stray' \subseteq [key : Keys, version : Versions]
  BY <1>1, AbandonedSound DEF IInv, TypeOK
<1>4. Nothing \in Descriptions /\ \A k \in Keys : Nothing[k] = None
  BY DEF Descriptions, Nothing
<1>5. TypeOK'
  BY <1>1, <1>2, <1>3, <1>4 DEF IInv, TypeOK
<1>6. LandedInv' /\ TruthInv'
  BY <1>1, <1>4 DEF IInv, LandedInv, TruthInv
<1> QED BY <1>5, <1>6 DEF IInv

-----------------------------------------------------------------------------
LEMMA NextIInv == IInv /\ [Next]_vars => IInv'
<1> SUFFICES ASSUME IInv, [Next]_vars PROVE IInv'
  OBVIOUS
<1>1. CASE Edit
  BY <1>1, EditIInv
<1>2. CASE Land
  BY <1>2, LandIInv
<1>3. CASE \E m \in stray : LandStray(m) \/ LoseStray(m)
  BY <1>3, StrayIInv
<1>4. CASE (\E isFull \in BOOLEAN : Start(isFull)) \/ DiscoverOk \/ DiscoverFails \/ PassEnds
  BY <1>4, PassIInv
<1>5. CASE \E k \in Keys : Unchanged(k) \/ Register(k)
  BY <1>5, UnchangedIInv, RegisterIInv
<1>6. CASE RegisterOk
  BY <1>6, RegisterOkIInv
<1>7. CASE RegisterRefused
  BY <1>7, RegisterRefusedIInv
<1>8. CASE RegisterLost
  BY <1>8, RegisterLostIInv
<1>9. CASE Crash
  BY <1>9, CrashIInv
<1>10. CASE UNCHANGED vars
  BY <1>10 DEF vars, clientVars, IInv, TypeOK, LandedInv, TruthInv
<1> QED
  BY <1>1, <1>2, <1>3, <1>4, <1>5, <1>6, <1>7, <1>8, <1>9, <1>10 DEF Next, PassStep

LEMMA AlwaysIInv == Spec => []IInv
BY InitIInv, NextIInv, PTL DEF Spec

\* What is awaited is a stream of the pass, and what is on its way is a
\* registration of a descriptor.
THEOREM TypeCorrect == Spec => []TypeOK
<1>1. IInv => TypeOK
  BY DEF IInv
<1> QED BY <1>1, AlwaysIInv, PTL

\* discover's cache of descriptors says what the server holds, whatever the
\* source changes, the server refuses or a restart forgets, until the answer to
\* a registration is lost.
THEOREM CacheHolds == Spec => []CacheIsTruthUnlessLost
<1>1. IInv => CacheIsTruthUnlessLost
  BY DEF IInv, TruthInv, CacheIsTruthUnlessLost, CacheIsTruth
<1> QED BY <1>1, AlwaysIInv, PTL

-----------------------------------------------------------------------------
(* The latch, over a source that stands still. *)

\* While the source is not edited every registration, late ones included, says
\* the same of its stream; what a pass has dealt with is remembered unless it
\* was missed; and what is remembered is at the server.
StillInv ==
  edits = 0 =>
    /\ \A m \in stray : m.version = described[m.key]
    /\ landed => served[key] = described[key]
    /\ \A k \in Keys :
         /\ todo[k] \in {None, described[k]}
         /\ served[k] \in {None, described[k]}
         /\ cache[k] # None => cache[k] = described[k] /\ served[k] = described[k]
         /\ pc \in {"register", "await"} /\ described[k] # None /\ todo[k] = None
              => k \in missed \/ cache[k] = described[k]
         /\ discovered /\ described[k] # None => cache[k] = described[k]

\* The safety half of StillSourceConverges: when the latch is closed the server
\* has every stream that the backend describes, as described.  Whatever was
\* refused, lost, late or forgotten, no stream is left out for good by a latch
\* that closed too soon (driver.rs:296-309).
LatchClosesLate ==
  edits = 0 /\ discovered => \A k \in Keys : described[k] \in {None, served[k]}

LEMMA StillInit == Init => StillInv
BY DEF Init, StillInv, Nothing

\* A stream dealt with, and the others.
LEMMA DealtOne ==
  ASSUME TypeOK, NEW k \in Keys, Dealt(k)
  PROVE  todo'[k] = None /\ \A j \in Keys \ {k} : todo'[j] = todo[j]
BY DEF TypeOK, Descriptions, Dealt

\* Every abandoned registration says what the source says.
LEMMA AbandonedStill ==
  ASSUME TypeOK, StillInv, edits = 0, NEW m \in Abandoned
  PROVE  m.version = described[m.key]
BY DEF TypeOK, StillInv, Abandoned

LEMMA NextStill == IInv /\ StillInv /\ [Next]_vars => StillInv'
<1> SUFFICES ASSUME IInv, StillInv, [Next]_vars PROVE StillInv'
  OBVIOUS
<1>0. TypeOK /\ LandedInv /\ edits \in Nat
  BY DiscoveryBoundsAreNat DEF IInv, TypeOK
<1>1. CASE Edit
  BY <1>0, <1>1 DEF Edit, StillInv
<1>2. CASE Land
  <2>1. /\ key \in Keys /\ todo[key] # None /\ served' = [served EXCEPT ![key] = todo[key]]
        /\ UNCHANGED <<described, stray, cache, discovered, pc, todo, key, missed, edits>>
    BY <1>0, <1>2 DEF Land, TypeOK
  <2>2. /\ served'[key] = todo[key]
        /\ \A k \in Keys \ {key} : served'[k] = served[k]
    BY <1>0, <2>1 DEF TypeOK, Descriptions
  <2> QED BY <1>0, <2>1, <2>2 DEF StillInv
<1>3. ASSUME NEW m \in stray, LandStray(m) PROVE StillInv'
  <2>1. /\ m.key \in Keys /\ served' = [served EXCEPT ![m.key] = m.version]
        /\ stray' \subseteq stray
        /\ UNCHANGED <<described, cache, discovered, pc, todo, key, landed, missed, edits>>
    BY <1>0, <1>3 DEF LandStray, clientVars, TypeOK
  <2>2. /\ served'[m.key] = m.version
        /\ \A k \in Keys \ {m.key} : served'[k] = served[k]
    BY <1>0, <2>1 DEF TypeOK, Descriptions
  <2>3. edits = 0 => m.version = described[m.key]
    BY DEF StillInv
  <2>4. landed => key \in Keys
    BY <1>0 DEF TypeOK, LandedInv
  <2> QED BY <2>1, <2>2, <2>3, <2>4 DEF StillInv
<1>4. ASSUME NEW m \in stray, LoseStray(m) PROVE StillInv'
  BY <1>4 DEF LoseStray, clientVars, StillInv
<1>5. ASSUME NEW isFull \in BOOLEAN, Start(isFull) PROVE StillInv'
  BY <1>5 DEF Start, StillInv
<1>6. CASE DiscoverOk
  <2>1. ~landed
    BY <1>0, <1>6 DEF DiscoverOk, LandedInv
  <2> QED BY <1>6, <2>1 DEF DiscoverOk, StillInv
<1>7. CASE DiscoverFails
  BY <1>7 DEF DiscoverFails, StillInv
<1>8. CASE PassEnds
  <2>1. /\ pc = "register" /\ \A k \in Keys : todo[k] = None
        /\ discovered' = Latched /\ pc' = "idle"
        /\ UNCHANGED <<described, served, stray, cache, todo, key, landed, edits>>
    BY <1>8 DEF PassEnds, Nothing
  <2>2. ASSUME edits = 0, discovered', NEW k \in Keys, described[k] # None
        PROVE  cache[k] = described[k]
    <3>1. discovered \/ missed = {}
      BY <2>1, <2>2 DEF Latched
    <3> QED BY <2>1, <2>2, <3>1 DEF StillInv
  <2> QED BY <2>1, <2>2 DEF StillInv
<1>9. ASSUME NEW k \in Keys, Unchanged(k) PROVE StillInv'
  <2>1. /\ pc = "register" /\ cache[k] = todo[k] /\ todo[k] # None /\ Dealt(k)
        /\ UNCHANGED <<described, served, stray, cache, discovered, missed, edits>>
    BY <1>9 DEF Unchanged, Known
  <2>2. todo'[k] = None /\ \A j \in Keys \ {k} : todo'[j] = todo[j]
    BY <1>0, <2>1, DealtOne
  <2>3. pc' = "register" /\ landed' = FALSE
    BY <2>1 DEF Dealt
  <2> QED BY <2>1, <2>2, <2>3 DEF StillInv
<1>10. ASSUME NEW k \in Keys, Register(k) PROVE StillInv'
  <2>1. /\ pc = "register" /\ pc' = "await"
        /\ UNCHANGED <<described, served, stray, cache, discovered, todo, landed, missed, edits>>
    BY <1>10 DEF Register
  <2>2. ~landed
    BY <1>0, <2>1 DEF LandedInv
  <2> QED BY <2>1, <2>2 DEF StillInv
<1>11. CASE RegisterOk
  <2>1. /\ pc = "await" /\ landed /\ Dealt(key) /\ key \in Keys /\ todo[key] # None
        /\ cache' = [cache EXCEPT ![key] = todo[key]]
        /\ UNCHANGED <<described, served, stray, discovered, missed, edits>>
    BY <1>0, <1>11 DEF RegisterOk, TypeOK
  <2>2. todo'[key] = None /\ \A j \in Keys \ {key} : todo'[j] = todo[j]
    BY <1>0, <2>1, DealtOne
  <2>3. cache'[key] = todo[key] /\ \A j \in Keys \ {key} : cache'[j] = cache[j]
    BY <1>0, <2>1 DEF TypeOK, Descriptions
  <2>4. pc' = "register" /\ landed' = FALSE
    BY <2>1 DEF Dealt
  <2> QED BY <2>1, <2>2, <2>3, <2>4 DEF StillInv
<1>12. ASSUME pc = "await", Missed, edits' = edits,
              edits = 0 => \A m \in stray' : m.version = described[m.key],
              UNCHANGED <<described, served, discovered>>
       PROVE  StillInv'
  <2>1. key \in Keys /\ Dealt(key) /\ missed' = missed \cup {key} /\ cache' = cache
    BY <1>0, <1>12 DEF Missed, TypeOK
  <2>2. todo'[key] = None /\ \A j \in Keys \ {key} : todo'[j] = todo[j]
    BY <1>0, <2>1, DealtOne
  <2>3. pc' = "register" /\ landed' = FALSE
    BY <2>1 DEF Dealt
  <2> QED BY <1>12, <2>1, <2>2, <2>3 DEF StillInv
<1>13. CASE RegisterRefused
  BY <1>12, <1>13 DEF RegisterRefused, StillInv
<1>14. CASE RegisterLost
  <2>1. edits = 0 => \A m \in stray' : m.version = described[m.key]
    BY <1>0, <1>14, AbandonedStill DEF RegisterLost, StillInv
  <2> QED BY <1>12, <1>14, <2>1 DEF RegisterLost
<1>15. CASE Crash
  <2>1. edits = 0 => \A m \in stray' : m.version = described[m.key]
    BY <1>0, <1>15, AbandonedStill DEF Crash, StillInv
  <2>2. \A k \in Keys : cache'[k] = None /\ todo'[k] = None
    BY <1>15 DEF Crash, Nothing
  <2>3. /\ pc' = "idle" /\ discovered' = FALSE /\ landed' = FALSE
        /\ UNCHANGED <<described, served, edits>>
    BY <1>15 DEF Crash
  <2> QED BY <2>1, <2>2, <2>3 DEF StillInv
<1>16. CASE UNCHANGED vars
  BY <1>16 DEF vars, clientVars, StillInv
<1> QED
  BY <1>1, <1>2, <1>3, <1>4, <1>5, <1>6, <1>7, <1>8, <1>9, <1>10, <1>11, <1>13, <1>14,
     <1>15, <1>16 DEF Next, PassStep

\* When the latch closes over a source that stands still, every stream the
\* backend describes is at the server as described (driver.rs:296-309).
THEOREM LatchIsSound == Spec => []LatchClosesLate
<1>1. IInv /\ StillInv => LatchClosesLate
  BY DEF StillInv, LatchClosesLate
<1> QED BY <1>1, StillInit, InitIInv, NextIInv, NextStill, PTL DEF Spec
=============================================================================
