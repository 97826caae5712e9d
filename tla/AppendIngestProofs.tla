-------------------------- MODULE AppendIngestProofs --------------------------
(***************************************************************************)
(* Proofs about the append path, for any streams, any number of instants,  *)
(* replicates, retries and faults, and any chunk size: no fault makes the  *)
(* cursor pass a row, and the server's copy stays a time prefix.           *)
(***************************************************************************)
EXTENDS AppendIngest, FiniteSetTheorems, TLAPS

\* `rows` can be applied to stream s at any time, by whoever holds them: all
\* the source has below them is in them or ruled on, and no instant is halved.
Closed(s, rows) ==
  \A q \in rows, r \in source[s] : r.time <= q.time => r \in rows \cup Settled(s)

Whole(s, rows) ==
  \A q \in rows, r \in source[s] : r.time = q.time => r \in rows

Sendable(s, rows) ==
  rows \subseteq source[s] /\ Closed(s, rows) /\ Whole(s, rows)

\* The cursor is no later than the newest row of the source.
CursorWithinSource ==
  \A s \in Streams : cursor[s] = 0 \/ \E q \in source[s] : cursor[s] <= q.time

\* The server: what it ruled on came from the source, as a time prefix.
ServerInv ==
  /\ CursorWithinSource
  /\ \A s \in Streams : Settled(s) \subseteq source[s] /\ Closed(s, Settled(s))
  /\ NoGap

\* A task: it starts no later than the cursor, what it fetched and what it
\* sends is sendable, and an applied request has been ruled on.
TaskInv(t) ==
  /\ \A s \in Streams : /\ since[t][s] <= cursor[s]
                        /\ Sendable(s, payload[t][s])
  /\ phase[t] \in {"list", "fetch"} /\ t = "cycle" => targets[t] = Streams
  /\ Awaiting(t) =>
       /\ phase[t] = "ingest" /\ current[t] \in Streams
       /\ Sendable(current[t], request[t].rows)
       /\ request[t].applied => request[t].rows \subseteq Settled(current[t])
       /\ \A q \in request[t].rows, r \in payload[t][current[t]] :
             r.time <= q.time => r \in request[t].rows

StrayInv == \A m \in stray : Sendable(m.stream, m.rows)

DeferredInv == \A s \in Streams : deferred[s] \subseteq source[s]

IInv ==
  /\ TypeOK
  /\ ServerInv
  /\ \A t \in Tasks : TaskInv(t)
  /\ StrayInv
  /\ DeferredInv

-----------------------------------------------------------------------------
(* Facts about rows. *)

LEMMA RowTimes == \A r \in Rows : r.time \in 1..MaxTime
BY BoundsAreNat DEF Rows

\* Of instants there are, one is the oldest and one the newest.
LEMMA OldestAndNewest ==
  ASSUME NEW S \in SUBSET (0..MaxTime), S # {}
  PROVE  /\ Min(S) \in S /\ Max(S) \in S
         /\ \A y \in S : y \in Int /\ y <= Max(S)
<1>1. MaxTime \in Nat /\ \A y \in S : y \in Nat /\ y <= MaxTime
  BY BoundsAreNat
<1> DEFINE R == {ss \in Nat \X Nat : ss[1] < ss[2]}
<1>2. IsWellFoundedOn(R, Nat)
  BY NatLessThanWellFounded DEF OpToRel
<1>3. \A x, y \in Nat : <<y, x>> \in R <=> y < x
  OBVIOUS
<1> HIDE DEF R
<1>4. ASSUME NEW T \in SUBSET Nat, T # {}
      PROVE  \E x \in T : \A y \in T : x <= y
  <2>1. PICK x \in T : \A y \in T : ~(<<y, x>> \in R)
    BY <1>2, <1>4, WFMin
  <2>2. \A y \in T : ~(y < x)
    BY <1>3, <2>1
  <2> QED BY <2>2
<1>5. PICK x \in S : \A y \in S : x <= y
  BY <1>1, <1>4
<1>6. PICK z \in S : \A y \in S : z >= y
  <2> DEFINE T == {MaxTime - y : y \in S}
  <2>1. T \in SUBSET Nat /\ T # {}
    BY <1>1
  <2>2. PICK m \in T : \A y \in T : m <= y
    <3> HIDE DEF T
    <3> QED BY <1>4, <2>1
  <2>3. PICK z \in S : m = MaxTime - z
    OBVIOUS
  <2>4. \A y \in S : MaxTime - z <= MaxTime - y
    BY <2>2, <2>3
  <2> QED BY <1>1, <2>4
<1>7. Min(S) \in S
  BY <1>5 DEF Min
<1>8. Max(S) \in S /\ \A y \in S : Max(S) >= y
  BY <1>6 DEF Max
<1> QED BY <1>1, <1>7, <1>8

\* The newest of a cursor and some rows is the cursor or the time of a row.
LEMMA NewestSound ==
  ASSUME NEW c \in 0..MaxTime, NEW rows \in SUBSET Rows
  PROVE  LET newest == Max({c} \cup Instants(rows))
         IN  /\ newest \in 0..MaxTime
             /\ c <= newest
             /\ newest = c \/ \E q \in rows : newest = q.time
             /\ \A q \in rows : q.time <= newest
<1> DEFINE S == {c} \cup Instants(rows)
<1>1. S \in SUBSET (0..MaxTime) /\ S # {}
  BY RowTimes, BoundsAreNat DEF Instants
<1>2. c \in S /\ \A q \in rows : q.time \in S
  BY DEF Instants
<1>3. Max(S) \in S /\ \A y \in S : y <= Max(S)
  <2> HIDE DEF S
  <2> QED BY <1>1, OldestAndNewest
<1>4. \A y \in S : y = c \/ \E q \in rows : y = q.time
  BY DEF Instants
<1> HIDE DEF S
<1>5. Max(S) \in 0..MaxTime
  BY <1>1, <1>3
<1> QED BY <1>2, <1>3, <1>4, <1>5 DEF S

\* A chunk is a part of its payload that leaves nothing older behind.
LEMMA FirstChunkSound ==
  ASSUME NEW rows \in SUBSET Rows, NEW size
  PROVE  /\ FirstChunk(rows, size) \subseteq rows
         /\ \A q \in FirstChunk(rows, size), r \in rows :
               r.time <= q.time => r \in FirstChunk(rows, size)
<1> DEFINE fitting == {t \in Instants(rows) :
                         Cardinality(UpTo(rows, t)) <= EffectiveSize(size)}
           last    == IF fitting # {} THEN Max(fitting) ELSE Min(Instants(rows))
<1>1. FirstChunk(rows, size) = {r \in rows : r.time <= last}
  BY DEF FirstChunk, UpTo
<1>2. \A r \in rows : r.time \in Int
  BY RowTimes, BoundsAreNat
<1>3. CASE rows = {}
  BY <1>1, <1>3
<1>4. CASE rows # {}
  <2>1. Instants(rows) \in SUBSET (0..MaxTime) /\ Instants(rows) # {}
    BY <1>4, RowTimes, BoundsAreNat DEF Instants
  <2>2. fitting \in SUBSET (0..MaxTime)
    BY <2>1
  <2> HIDE DEF fitting
  <2>3. fitting # {} => Max(fitting) \in Int
    BY <2>2, OldestAndNewest
  <2>4. Min(Instants(rows)) \in Int
    BY <2>1, OldestAndNewest
  <2>5. last \in Int
    BY <2>3, <2>4
  <2> HIDE DEF last
  <2> QED BY <1>1, <1>2, <2>5
<1> QED BY <1>3, <1>4

-----------------------------------------------------------------------------
(* What keeps rows sendable. *)

\* Sendability survives anything that leaves the source alone and does not
\* take back what the server ruled on.
LEMMA SendableStable ==
  ASSUME source' = source,
         \A s \in Streams : Settled(s) \subseteq Settled(s)',
         NEW s \in Streams, NEW rows, Sendable(s, rows)
  PROVE  Sendable(s, rows)'
BY DEF Sendable, Closed, Whole

\* What the server does with rows that are sendable keeps its own invariant.
LEMMA StoreSound ==
  ASSUME TypeOK, ServerInv, source' = source,
         NEW s \in Streams, NEW rows \in SUBSET Rows,
         Sendable(s, rows), Store(s, rows)
  PROVE  /\ stored'  \in [Streams -> SUBSET Rows]
         /\ refused' \in [Streams -> SUBSET Rows]
         /\ cursor'  \in [Streams -> 0..MaxTime]
         /\ \A r \in Streams : /\ Settled(r) \subseteq Settled(r)'
                               /\ cursor[r] <= cursor'[r]
         /\ rows \subseteq Settled(s)'
         /\ \A r \in Streams \ {s} : Settled(r)' = Settled(r)
         /\ Settled(s)' = Settled(s) \cup rows
         /\ ServerInv'
<1>1. PICK seen \in SUBSET rows :
        cursor' = [cursor EXCEPT ![s] = Max({cursor[s]} \cup Instants(seen))]
  BY DEF Store
<1> DEFINE newest == Max({cursor[s]} \cup Instants(seen))
<1>2. /\ newest \in 0..MaxTime
      /\ cursor[s] <= newest
      /\ newest = cursor[s] \/ \E q \in seen : newest = q.time
  <2>1. cursor[s] \in 0..MaxTime /\ seen \in SUBSET Rows
    BY DEF TypeOK
  <2> QED BY <2>1, NewestSound
<1>3. cursor' = [cursor EXCEPT ![s] = newest]
  BY <1>1
<1> HIDE DEF newest
<1>4. /\ stored'  \in [Streams -> SUBSET Rows]
      /\ refused' \in [Streams -> SUBSET Rows]
      /\ cursor'  \in [Streams -> 0..MaxTime]
  BY <1>2, <1>3 DEF Store, TypeOK
<1>5. /\ \A r \in Streams \ {s} : Settled(r)' = Settled(r)
      /\ Settled(s)' = Settled(s) \cup rows
  BY DEF Store, Settled, TypeOK
<1>6. /\ \A r \in Streams \ {s} : cursor'[r] = cursor[r]
      /\ cursor'[s] = newest
  BY <1>3 DEF TypeOK
<1>7. \A r \in Streams : cursor[r] \in Int
  BY BoundsAreNat DEF TypeOK
<1>8. \A r \in Streams : cursor[r] <= cursor'[r]
  BY <1>2, <1>6, <1>7
<1>9. Settled(s)' \subseteq source[s] /\ Closed(s, Settled(s))'
  BY <1>5 DEF Sendable, Closed, ServerInv
<1>10. \A r \in Streams \ {s} :
         Settled(r)' \subseteq source[r] /\ Closed(r, Settled(r))'
  BY <1>5 DEF Closed, ServerInv
<1>11. \A r \in source[s] : r.time <= newest => r \in Settled(s)'
  BY <1>2, <1>5 DEF Sendable, Closed, ServerInv, NoGap
<1>12. NoGap'
  BY <1>5, <1>6, <1>11 DEF ServerInv, NoGap
<1>13. CursorWithinSource'
  <2>1. \A q \in rows : q \in source[s] /\ q.time \in Int
    BY RowTimes, BoundsAreNat DEF Sendable
  <2>2. newest = 0 \/ \E q \in source[s] : newest <= q.time
    <3>1. CASE newest = cursor[s]
      BY <3>1 DEF ServerInv, CursorWithinSource
    <3>2. CASE \E q \in seen : newest = q.time
      BY <3>2, <2>1
    <3> QED BY <3>1, <3>2, <1>2
  <2> QED BY <1>6, <2>2 DEF ServerInv, CursorWithinSource
<1> QED BY <1>4, <1>5, <1>8, <1>9, <1>10, <1>12, <1>13 DEF ServerInv

-----------------------------------------------------------------------------
(* Each step keeps the invariant. *)

LEMMA InitIInv == Init => IInv
<1> SUFFICES ASSUME Init PROVE IInv
  OBVIOUS
<1>1. TypeOK
  BY BoundsAreNat DEF Init, TypeOK, NoRequest, NoStream, Tasks
<1>2. \A s \in Streams : Settled(s) = {}
  BY DEF Init, Settled
<1>3. ServerInv
  BY <1>2 DEF Init, ServerInv, CursorWithinSource, Closed, NoGap
<1>4. \A t \in Tasks : TaskInv(t)
  BY DEF Init, TaskInv, Sendable, Closed, Whole, Awaiting, NoRequest
<1> QED BY <1>1, <1>3, <1>4 DEF Init, IInv, StrayInv, DeferredInv

\* A new group leaves everything sendable: it is newer than all there was.
LEMMA MeasureIInv ==
  ASSUME IInv, NEW s \in Streams, Measure(s)
  PROVE  IInv'
<1> DEFINE now == Max({0} \cup Instants(source[s])) + 1
<1>1. TypeOK
  BY DEF IInv
<1>2. PICK n \in 1..MaxGroup :
        source' = [source EXCEPT ![s] = @ \cup [time : {now}, index : 1..n]]
  BY DEF Measure
<1>3. /\ now \in 1..MaxTime
      /\ \A q \in source[s] : q.time < now
  <2>1. source[s] \in SUBSET Rows
    BY <1>1 DEF TypeOK
  <2>2. 0 \in 0..MaxTime
    BY BoundsAreNat
  <2> DEFINE newest == Max({0} \cup Instants(source[s]))
  <2>3. newest \in 0..MaxTime /\ \A q \in source[s] : q.time <= newest
    BY <2>1, <2>2, NewestSound
  <2>4. newest + 1 <= MaxTime
    BY DEF Measure
  <2>5. \A q \in source[s] : q.time \in Int
    BY <2>1, RowTimes, BoundsAreNat
  <2> HIDE DEF newest
  <2>6. /\ newest + 1 \in 1..MaxTime
        /\ \A q \in source[s] : q.time < newest + 1
    BY <2>3, <2>4, <2>5, BoundsAreNat
  <2> QED BY <2>6 DEF newest
<1> HIDE DEF now
<1> DEFINE group == [time : {now}, index : 1..n]
<1>4. /\ source'[s] = source[s] \cup group
      /\ \A r \in Streams \ {s} : source'[r] = source[r]
      /\ \A r \in group : r.time = now
  BY <1>1, <1>2 DEF TypeOK
<1>5. source' \in [Streams -> SUBSET Rows]
  <2>1. group \in SUBSET Rows
    BY <1>3, BoundsAreNat DEF Rows
  <2> HIDE DEF group
  <2> QED BY <1>1, <1>2, <2>1 DEF TypeOK, group
<1>6. TypeOK'
  BY <1>1, <1>5 DEF Measure, TypeOK, serverVars, taskVars
<1> HIDE DEF group
<1>7. \A r \in Streams : Settled(r)' = Settled(r) /\ source[r] \subseteq source'[r]
  BY <1>4 DEF Measure, Settled, serverVars
<1>8. \A q \in source[s], r \in group : q.time < r.time
  BY <1>3, <1>4
<1>9. \A q \in source[s], r \in group : ~(r.time <= q.time) /\ r.time # q.time
  <2>1. \A q \in source[s] : q.time \in Int
    BY <1>1, RowTimes, BoundsAreNat DEF TypeOK
  <2> QED BY <1>3, <1>4, <2>1
<1>10. \A r \in Streams : \A rows : Sendable(r, rows) => Sendable(r, rows)'
  <2> SUFFICES ASSUME NEW r \in Streams, NEW rows, Sendable(r, rows)
               PROVE  Sendable(r, rows)'
    OBVIOUS
  <2>1. CASE r = s
    BY <2>1, <1>4, <1>7, <1>9 DEF Sendable, Closed, Whole
  <2>2. CASE r # s
    BY <2>2, <1>4, <1>7 DEF Sendable, Closed, Whole
  <2> QED BY <2>1, <2>2
<1>11. \A r \in group : ~(r.time <= cursor[s])
  <2>1. cursor[s] = 0 \/ \E q \in source[s] : cursor[s] <= q.time
    BY DEF IInv, ServerInv, CursorWithinSource
  <2>2. \A q \in source[s] : q.time \in Int
    BY <1>1, RowTimes, BoundsAreNat DEF TypeOK
  <2>3. now \in Int /\ cursor[s] \in Int /\ 0 < now
    BY <1>1, <1>3, BoundsAreNat DEF TypeOK
  <2>4. cursor[s] < now
    BY <1>3, <2>1, <2>2, <2>3
  <2> QED BY <1>4, <2>3, <2>4
<1>12. ServerInv'
  <2>1. \A r \in Streams : Settled(r)' \subseteq source'[r]
    BY <1>7 DEF IInv, ServerInv
  <2>2. \A r \in Streams : Closed(r, Settled(r))'
    <3>1. \A r \in Streams \ {s} : Closed(r, Settled(r))'
      BY <1>4, <1>7 DEF IInv, ServerInv, Closed
    <3>2. Closed(s, Settled(s))'
      BY <1>4, <1>7, <1>9 DEF IInv, ServerInv, Closed
    <3> QED BY <3>1, <3>2
  <2>3. cursor' = cursor
    BY DEF Measure, serverVars
  <2>4. NoGap'
    BY <1>4, <1>7, <1>11, <2>3 DEF IInv, ServerInv, NoGap
  <2>5. CursorWithinSource'
    BY <1>7, <2>3 DEF IInv, ServerInv, CursorWithinSource
  <2> QED BY <2>1, <2>2, <2>4, <2>5 DEF ServerInv
<1>13. \A t \in Tasks : TaskInv(t)'
  <2>1. UNCHANGED <<cursor, phase, targets, since, payload, current, request>>
    BY DEF Measure, serverVars, taskVars
  <2> SUFFICES ASSUME NEW t \in Tasks PROVE TaskInv(t)'
    OBVIOUS
  <2>2. TaskInv(t)
    BY DEF IInv
  <2>3. \A r \in Streams : since'[t][r] <= cursor'[r] /\ Sendable(r, payload[t][r])'
    BY <2>1, <2>2, <1>10 DEF TaskInv
  <2>4. Awaiting(t) => current[t] \in Streams /\ Sendable(current[t], request[t].rows)'
    BY <2>1, <2>2, <1>10 DEF TaskInv
  <2> QED BY <2>1, <2>2, <2>3, <2>4, <1>7 DEF TaskInv, Awaiting, Sendable, Closed, Whole
<1>14. StrayInv'
  <2>1. \A m \in stray : m.stream \in Streams
    BY <1>1 DEF TypeOK
  <2>2. stray' = stray
    BY DEF Measure
  <2>3. \A m \in stray : Sendable(m.stream, m.rows)'
    BY <1>10, <2>1 DEF IInv, StrayInv
  <2> QED BY <2>2, <2>3 DEF StrayInv, Sendable, Closed, Whole
<1>15. DeferredInv'
  BY <1>7 DEF Measure, IInv, DeferredInv
<1> QED BY <1>6, <1>12, <1>13, <1>14, <1>15 DEF IInv

-----------------------------------------------------------------------------
\* The source is left alone, and the server takes nothing back.
Advances ==
  /\ source' = source
  /\ \A s \in Streams : Settled(s) \subseteq Settled(s)' /\ cursor[s] <= cursor'[s]

\* Nothing of task t moves.
Untouched(t) ==
  /\ phase'[t] = phase[t]     /\ targets'[t] = targets[t]
  /\ since'[t] = since[t]     /\ payload'[t] = payload[t]
  /\ current'[t] = current[t] /\ request'[t] = request[t]

LEMMA QuietServer ==
  ASSUME IInv, UNCHANGED <<source, serverVars>>
  PROVE  ServerInv' /\ Advances
<1>1. \A s \in Streams : Settled(s)' = Settled(s)
  BY DEF serverVars, Settled
<1>2. \A s \in Streams : cursor[s] <= cursor[s]
  BY BoundsAreNat DEF IInv, TypeOK
<1> QED BY <1>1, <1>2 DEF Advances, IInv, ServerInv, serverVars, Closed, NoGap,
                          CursorWithinSource

LEMMA StrayStable ==
  ASSUME IInv, Advances, stray' \subseteq stray
  PROVE  StrayInv'
<1> SUFFICES ASSUME NEW m \in stray PROVE Sendable(m.stream, m.rows)'
  BY DEF StrayInv
<1>1. m.stream \in Streams /\ Sendable(m.stream, m.rows)
  BY DEF IInv, TypeOK, StrayInv
<1> QED BY <1>1 DEF Advances, Sendable, Closed, Whole

-----------------------------------------------------------------------------
\* A task whose fetch and request are as before, from wherever it starts.
LEMMA SameRows ==
  ASSUME IInv, TypeOK', Advances, NEW t \in Tasks,
         since'[t] = since[t] \/ since'[t] = [s \in Streams |-> 0],
         payload'[t] = payload[t], current'[t] = current[t],
         request'[t] = request[t],
         phase'[t] \in {"list", "fetch"} /\ t = "cycle" => targets'[t] = Streams,
         phase[t] = "ingest" => phase'[t] = "ingest"
  PROVE  TaskInv(t)'
<1>1. TaskInv(t)
  BY DEF IInv
<1>2. \A s \in Streams : since'[t][s] <= cursor'[s]
  <2> SUFFICES ASSUME NEW s \in Streams PROVE since'[t][s] <= cursor'[s]
    OBVIOUS
  <2>1. since[t][s] <= cursor[s] /\ cursor[s] <= cursor'[s]
    BY <1>1 DEF TaskInv, Advances
  <2>2. /\ since[t][s] \in Int /\ cursor[s] \in Int
        /\ cursor'[s] \in Int /\ 0 <= cursor'[s]
    BY BoundsAreNat DEF IInv, TypeOK
  <2> QED BY <2>1, <2>2
<1>3. \A s \in Streams : Sendable(s, payload[t][s])'
  BY <1>1 DEF TaskInv, Advances, Sendable, Closed, Whole
<1>4. ASSUME Awaiting(t)'
      PROVE  /\ current'[t] \in Streams
             /\ Sendable(current[t], request[t].rows)'
             /\ request'[t].applied => request'[t].rows \subseteq Settled(current[t])'
  <2>1. PICK c \in Streams : c = current[t] /\ c = current'[t]
    BY <1>1, <1>4 DEF TaskInv, Awaiting
  <2>2. Sendable(c, request[t].rows)
    BY <1>1, <1>4, <2>1 DEF TaskInv, Awaiting
  <2>3. Sendable(c, request[t].rows)'
    BY <2>2 DEF Advances, Sendable, Closed, Whole
  <2>4. request'[t].applied => request'[t].rows \subseteq Settled(c)
    BY <1>1, <1>4, <2>1 DEF TaskInv, Awaiting
  <2>5. Settled(c) \subseteq Settled(c)'
    BY DEF Advances
  <2>6. Settled(c)' = Settled(current[t])'
    BY <2>1 DEF Settled
  <2>7. Sendable(current[t], request[t].rows)'
    BY <2>1, <2>3 DEF Sendable, Closed, Whole, Settled
  <2> QED BY <2>1, <2>4, <2>5, <2>6, <2>7
<1> QED BY <1>1, <1>2, <1>3, <1>4 DEF TaskInv, Awaiting

LEMMA UntouchedTask ==
  ASSUME IInv, TypeOK', Advances, NEW t \in Tasks, Untouched(t)
  PROVE  TaskInv(t)'
<1>1. TaskInv(t)
  BY DEF IInv
<1>2. phase'[t] \in {"list", "fetch"} /\ t = "cycle" => targets'[t] = Streams
  BY <1>1 DEF TaskInv, Untouched
<1> QED BY <1>2, SameRows DEF Untouched

-----------------------------------------------------------------------------
LEMMA StartCycleIInv ==
  ASSUME IInv, NEW isFull \in BOOLEAN, StartCycle(isFull)
  PROVE  IInv'
<1>1. ServerInv' /\ Advances
  BY QuietServer DEF StartCycle
<1>2. TypeOK'
  BY DEF StartCycle, IInv, TypeOK, serverVars, Tasks
<1>3. TaskInv("cycle")'
  <2>1. "cycle" \in Tasks /\ targets'["cycle"] = Streams
    BY DEF StartCycle, IInv, TypeOK, Tasks
  <2> QED BY <1>1, <1>2, <2>1, SameRows DEF StartCycle
<1>4. TaskInv("resync")'
  <2>1. "resync" \in Tasks /\ Untouched("resync")
    BY DEF StartCycle, IInv, TypeOK, Tasks, Untouched
  <2> QED BY <1>1, <1>2, <2>1, UntouchedTask
<1>5. StrayInv'
  BY <1>1, StrayStable DEF StartCycle
<1> QED BY <1>1, <1>2, <1>3, <1>4, <1>5 DEF IInv, DeferredInv, StartCycle, Tasks

LEMMA StartResyncIInv ==
  ASSUME IInv, NEW keys \in SUBSET Streams, StartResync(keys)
  PROVE  IInv'
<1>1. ServerInv' /\ Advances
  BY QuietServer DEF StartResync
<1>2. TypeOK'
  BY DEF StartResync, IInv, TypeOK, serverVars, Tasks
<1>3. TaskInv("resync")'
  <2>1. "resync" \in Tasks
    BY DEF Tasks
  <2> QED BY <1>1, <1>2, <2>1, SameRows DEF StartResync
<1>4. TaskInv("cycle")'
  <2>1. "cycle" \in Tasks /\ Untouched("cycle")
    BY DEF StartResync, IInv, TypeOK, Tasks, Untouched
  <2> QED BY <1>1, <1>2, <2>1, UntouchedTask
<1>5. StrayInv'
  BY <1>1, StrayStable DEF StartResync
<1> QED BY <1>1, <1>2, <1>3, <1>4, <1>5 DEF IInv, DeferredInv, StartResync, Tasks

LEMMA ListOkIInv ==
  ASSUME IInv, NEW t \in Tasks, ListOk(t)
  PROVE  IInv'
<1>1. ServerInv' /\ Advances
  BY QuietServer DEF ListOk
<1>2. TypeOK'
  <2>1. [s \in Streams |-> IF full[t] THEN 0 ELSE cursor[s]] \in [Streams -> 0..MaxTime]
    BY BoundsAreNat DEF IInv, TypeOK
  <2> QED BY <2>1 DEF ListOk, IInv, TypeOK, serverVars
<1>3. \A u \in Tasks \ {t} : TaskInv(u)'
  <2>1. \A u \in Tasks \ {t} : Untouched(u)
    BY DEF ListOk, IInv, TypeOK, Untouched
  <2> QED BY <1>1, <1>2, <2>1, UntouchedTask
<1>4. TaskInv(t)'
  <2>1. TaskInv(t)
    BY DEF IInv
  <2>2. since'[t] = [s \in Streams |-> IF full[t] THEN 0 ELSE cursor[s]]
    BY DEF ListOk, IInv, TypeOK
  <2>3. \A s \in Streams : 0 <= cursor[s] /\ cursor[s] <= cursor[s]
    BY BoundsAreNat DEF IInv, TypeOK
  <2>4. \A s \in Streams : since'[t][s] <= cursor'[s]
    BY <2>2, <2>3 DEF ListOk, serverVars
  <2>5. phase[t] = "list"
    BY DEF ListOk
  <2> QED BY <2>1, <2>4, <2>5
          DEF ListOk, TaskInv, serverVars, Sendable, Closed, Whole, Settled, Awaiting
<1>5. StrayInv'
  BY <1>1, StrayStable DEF ListOk
<1> QED BY <1>1, <1>2, <1>3, <1>4, <1>5 DEF IInv, DeferredInv, ListOk

\* What a fetch returns is sendable: rows above `since`, and the cursor, which
\* `since` does not exceed, has passed no row the server has not ruled on.
LEMMA FetchOkIInv ==
  ASSUME IInv, NEW t \in Tasks, FetchOk(t)
  PROVE  IInv'
<1> DEFINE Fetched(s) == IF s \in targets[t]
                           THEN {r \in source[s] : r.time > since[t][s]}
                           ELSE {}
<1>1. ServerInv' /\ Advances
  BY QuietServer DEF FetchOk
<1>2. \A s \in Streams : Fetched(s) \subseteq source[s]
  OBVIOUS
<1>3. payload' = [payload EXCEPT ![t] = [s \in Streams |-> Fetched(s)]]
  BY DEF FetchOk
<1>4. \A s \in Streams : Sendable(s, Fetched(s))
  <2> SUFFICES ASSUME NEW s \in Streams,
                      NEW q \in Fetched(s), NEW r \in source[s], r.time <= q.time
               PROVE  /\ r \in Fetched(s) \cup Settled(s)
                      /\ r.time = q.time => r \in Fetched(s)
    BY <1>2 DEF Sendable, Closed, Whole
  <2>1. /\ r.time \in Int /\ q.time \in Int
        /\ since[t][s] \in Int /\ cursor[s] \in Int
    <3>1. r \in Rows /\ q \in Rows
      BY DEF IInv, TypeOK
    <3> QED BY <3>1, RowTimes, BoundsAreNat DEF IInv, TypeOK
  <2>2. s \in targets[t] /\ q.time > since[t][s]
    OBVIOUS
  <2>3. since[t][s] <= cursor[s]
    BY DEF IInv, TaskInv
  <2>4. CASE r.time > since[t][s]
    BY <2>2, <2>4
  <2>5. CASE ~(r.time > since[t][s])
    <3>1. r.time <= cursor[s] /\ r.time # q.time
      BY <2>1, <2>2, <2>3, <2>5
    <3> QED BY <3>1 DEF IInv, ServerInv, NoGap
  <2> QED BY <2>4, <2>5
<1> HIDE DEF Fetched
<1>5. TypeOK'
  <2>1. [s \in Streams |-> Fetched(s)] \in [Streams -> SUBSET Rows]
    BY <1>2 DEF IInv, TypeOK
  <2>2. payload' \in [Tasks -> [Streams -> SUBSET Rows]]
    BY <1>3, <2>1 DEF IInv, TypeOK
  <2>3. [s \in Streams |-> 0] \in [Streams -> 0..MaxTime] /\ 0 \in 0..RetryMax
    BY BoundsAreNat
  <2> QED BY <2>2, <2>3 DEF FetchOk, Forget, IInv, TypeOK, serverVars
<1>6. \A u \in Tasks \ {t} : TaskInv(u)'
  <2>1. \A u \in Tasks \ {t} : Untouched(u)
    BY <1>3 DEF FetchOk, Forget, IInv, TypeOK, Untouched
  <2> QED BY <1>1, <1>5, <2>1, UntouchedTask
<1>7. TaskInv(t)'
  <2>1. /\ payload'[t] = [s \in Streams |-> Fetched(s)]
        /\ since'[t] = [s \in Streams |-> 0]
        /\ phase'[t] = "ingest"
    BY <1>3 DEF FetchOk, Forget, IInv, TypeOK
  <2>2. \A s \in Streams : since'[t][s] <= cursor'[s]
    BY <1>5, <2>1, BoundsAreNat DEF TypeOK
  <2>3. \A s \in Streams : Sendable(s, payload[t][s])'
    BY <1>1, <1>4, <2>1 DEF Advances, Sendable, Closed, Whole
  <2>4. ~Awaiting(t)'
    BY DEF FetchOk, IInv, TaskInv, Awaiting
  <2> QED BY <2>1, <2>2, <2>3, <2>4 DEF TaskInv
<1>8. StrayInv'
  BY <1>1, StrayStable DEF FetchOk
<1>9. DeferredInv'
  BY DEF FetchOk, IInv, TypeOK, DeferredInv
<1> QED BY <1>1, <1>5, <1>6, <1>7, <1>8, <1>9 DEF IInv

LEMMA ListOrFetchFailsIInv ==
  ASSUME IInv, NEW t \in Tasks, ListOrFetchFails(t)
  PROVE  IInv'
<1>1. ServerInv' /\ Advances
  BY QuietServer DEF ListOrFetchFails
<1>2. TypeOK'
  <2>1. /\ [s \in Streams |-> 0] \in [Streams -> 0..MaxTime]
        /\ 0 \in 0..RetryMax
        /\ retries < RetryMax => retries + 1 \in 0..RetryMax
        /\ faults' \in 0..MaxFaults
    BY BoundsAreNat DEF ListOrFetchFails, Fault, IInv, TypeOK
  <2>2. since' \in [Tasks -> [Streams -> 0..MaxTime]]
    <3>1. since' = [since EXCEPT ![t] = [s \in Streams |-> 0]]
      BY DEF ListOrFetchFails, Forget
    <3> QED BY <2>1, <3>1 DEF IInv, TypeOK
  <2>3. /\ retries' \in 0..RetryMax
        /\ targets' \in [Tasks -> SUBSET Streams]
        /\ full' \in [Tasks -> BOOLEAN]
    <3>1. CASE retries < RetryMax /\ retries' = retries + 1 /\ UNCHANGED <<targets, full>>
      BY <2>1, <3>1 DEF IInv, TypeOK
    <3>2. CASE Forget(t)
      BY <2>1, <3>2 DEF Forget, IInv, TypeOK
    <3> QED BY <3>1, <3>2 DEF ListOrFetchFails
  <2>4. phase' \in [Tasks -> {"idle", "list", "fetch", "ingest"}]
    BY DEF ListOrFetchFails, IInv, TypeOK
  <2> QED BY <2>1, <2>2, <2>3, <2>4 DEF ListOrFetchFails, IInv, TypeOK, serverVars
<1>3. \A u \in Tasks \ {t} : TaskInv(u)'
  <2>1. \A u \in Tasks \ {t} : Untouched(u)
    BY DEF ListOrFetchFails, Forget, IInv, TypeOK, Untouched
  <2> QED BY <1>1, <1>2, <2>1, UntouchedTask
<1>4. TaskInv(t)'
  <2>1. since'[t] = [s \in Streams |-> 0]
    BY DEF ListOrFetchFails, Forget, IInv, TypeOK
  <2>2. phase'[t] \in {"list", "fetch"} /\ t = "cycle" => targets'[t] = Streams
    <3>1. TaskInv(t)
      BY DEF IInv
    <3> QED BY <3>1 DEF ListOrFetchFails, Forget, IInv, TypeOK, TaskInv
  <2> QED BY <1>1, <1>2, <2>1, <2>2, SameRows DEF ListOrFetchFails
<1>5. StrayInv'
  BY <1>1, StrayStable DEF ListOrFetchFails
<1> QED BY <1>1, <1>2, <1>3, <1>4, <1>5 DEF IInv, DeferredInv, ListOrFetchFails

\* The first chunk of what is left is sendable like the whole of it.
LEMMA SendChunkIInv ==
  ASSUME IInv, NEW t \in Tasks, NEW s \in Streams, SendChunk(t, s)
  PROVE  IInv'
<1> DEFINE chunk == FirstChunk(payload[t][s], BatchSize)
<1>1. ServerInv' /\ Advances
  BY QuietServer DEF SendChunk
<1>2. /\ chunk \subseteq payload[t][s]
      /\ \A q \in chunk, r \in payload[t][s] : r.time <= q.time => r \in chunk
  <2>1. payload[t][s] \in SUBSET Rows
    BY DEF IInv, TypeOK
  <2> QED BY <2>1, FirstChunkSound
<1>3. /\ current' = [current EXCEPT ![t] = s]
      /\ request' = [request EXCEPT ![t] = [rows |-> chunk, applied |-> FALSE]]
  BY DEF SendChunk
<1> HIDE DEF chunk
<1>4. chunk \in SUBSET Rows
  BY <1>2 DEF IInv, TypeOK
<1>5. TypeOK'
  BY <1>3, <1>4 DEF SendChunk, IInv, TypeOK, serverVars
<1>6. \A u \in Tasks \ {t} : TaskInv(u)'
  <2>1. \A u \in Tasks \ {t} : Untouched(u)
    BY <1>3 DEF SendChunk, IInv, TypeOK, Untouched
  <2> QED BY <1>1, <1>5, <2>1, UntouchedTask
<1>7. Sendable(s, chunk)
  <2>1. Sendable(s, payload[t][s])
    BY DEF IInv, TaskInv
  <2>2. \A q \in source[s] : q.time \in Int
    BY RowTimes, BoundsAreNat DEF IInv, TypeOK
  <2>3. Closed(s, chunk)
    BY <1>2, <2>1 DEF Sendable, Closed
  <2>4. Whole(s, chunk)
    <3> SUFFICES ASSUME NEW q \in chunk, NEW r \in source[s], r.time = q.time
                 PROVE  r \in chunk
      BY DEF Whole
    <3>1. r \in payload[t][s] /\ r.time <= q.time
      BY <1>2, <2>1, <2>2 DEF Sendable, Whole
    <3> QED BY <1>2, <3>1
  <2> QED BY <1>2, <2>1, <2>3, <2>4 DEF Sendable
<1>8. TaskInv(t)'
  <2>1. TaskInv(t) /\ phase[t] = "ingest" /\ ~Awaiting(t)
    BY DEF SendChunk, IInv
  <2>2. /\ current'[t] = s
        /\ request'[t].rows = chunk /\ request'[t].applied = FALSE
        /\ UNCHANGED <<phase, targets, since, payload, cursor, source, stored, refused>>
    BY <1>3 DEF SendChunk, serverVars, IInv, TypeOK
  <2> QED BY <1>2, <1>7, <2>1, <2>2
          DEF TaskInv, Sendable, Closed, Whole, Settled, Awaiting
<1>9. StrayInv'
  BY <1>1, StrayStable DEF SendChunk
<1> QED BY <1>1, <1>5, <1>6, <1>8, <1>9 DEF IInv, DeferredInv, SendChunk

LEMMA ApplyIInv ==
  ASSUME IInv, NEW t \in Tasks, Apply(t)
  PROVE  IInv'
<1>1. /\ current[t] \in Streams
      /\ request[t].rows \in SUBSET Rows
      /\ Sendable(current[t], request[t].rows)
      /\ Store(current[t], request[t].rows)
      /\ TypeOK /\ ServerInv /\ source' = source
  BY DEF Apply, IInv, TaskInv, TypeOK
<1>2. /\ stored'  \in [Streams -> SUBSET Rows]
      /\ refused' \in [Streams -> SUBSET Rows]
      /\ cursor'  \in [Streams -> 0..MaxTime]
      /\ request[t].rows \subseteq Settled(current[t])'
      /\ ServerInv'
      /\ \A s \in Streams : Settled(s) \subseteq Settled(s)' /\ cursor[s] <= cursor'[s]
  <2> DEFINE s == current[t]
             rows == request[t].rows
  <2>1. s \in Streams /\ rows \in SUBSET Rows /\ Sendable(s, rows) /\ Store(s, rows)
    BY <1>1
  <2> HIDE DEF rows
  <2>2. PICK c \in Streams : c = current[t]
    BY <2>1
  <2>3. Sendable(c, rows) /\ Store(c, rows)
    BY <2>1, <2>2
  <2>4. /\ rows \subseteq Settled(c)'
        /\ stored'  \in [Streams -> SUBSET Rows]
        /\ refused' \in [Streams -> SUBSET Rows]
        /\ cursor'  \in [Streams -> 0..MaxTime]
        /\ ServerInv'
        /\ \A r \in Streams : /\ Settled(r) \subseteq Settled(r)'
                             /\ cursor[r] <= cursor'[r]
    BY <1>1, <2>1, <2>3, StoreSound
  <2>5. current'[t] = current[t]
    BY DEF Apply
  <2> QED BY <2>2, <2>4, <2>5 DEF rows, Settled
<1>3. Advances
  BY <1>1, <1>2 DEF Advances
<1>4. TypeOK'
  BY <1>1, <1>2 DEF Apply, TypeOK
<1>5. \A u \in Tasks \ {t} : TaskInv(u)'
  <2>1. \A u \in Tasks \ {t} : Untouched(u)
    BY DEF Apply, IInv, TypeOK, Untouched
  <2> QED BY <1>3, <1>4, <2>1, UntouchedTask
<1>6. TaskInv(t)'
  <2>1. TaskInv(t)
    BY DEF IInv
  <2>2. /\ UNCHANGED <<phase, targets, since, payload, current>>
        /\ request'[t].rows = request[t].rows
    BY DEF Apply, IInv, TypeOK
  <2>3. \A s \in Streams : /\ since'[t][s] <= cursor'[s]
                          /\ Sendable(s, payload[t][s])'
    <3> SUFFICES ASSUME NEW s \in Streams
                 PROVE  since'[t][s] <= cursor'[s] /\ Sendable(s, payload[t][s])'
      OBVIOUS
    <3>1. since[t][s] <= cursor[s] /\ cursor[s] <= cursor'[s]
      BY <1>3, <2>1 DEF TaskInv, Advances
    <3>2. since[t][s] \in Int /\ cursor[s] \in Int /\ cursor'[s] \in Int
      BY <1>4, BoundsAreNat DEF IInv, TypeOK
    <3>3. Sendable(s, payload[t][s])'
      BY <1>3, <2>1, <2>2 DEF TaskInv, Advances, Sendable, Closed, Whole
    <3> QED BY <2>2, <3>1, <3>2, <3>3
  <2>4. Sendable(current[t], request[t].rows)'
    BY <1>1, <1>3, <2>2 DEF Advances, Sendable, Closed, Whole
  <2>5. Awaiting(t) /\ phase[t] = "ingest"
    BY <2>1 DEF Apply, TaskInv
  <2> QED BY <1>1, <1>2, <2>1, <2>2, <2>3, <2>4, <2>5 DEF TaskInv, Awaiting
<1>7. StrayInv'
  BY <1>3, StrayStable DEF Apply
<1> QED BY <1>2, <1>4, <1>5, <1>6, <1>7 DEF IInv, DeferredInv, Apply

LEMMA ApplyStrayIInv ==
  ASSUME IInv, NEW m \in stray, ApplyStray(m)
  PROVE  IInv'
<1>1. /\ m.stream \in Streams /\ m.rows \in SUBSET Rows
      /\ Sendable(m.stream, m.rows)
      /\ Store(m.stream, m.rows)
      /\ TypeOK /\ ServerInv /\ source' = source
  BY DEF ApplyStray, IInv, TypeOK, StrayInv
<1>2. /\ stored'  \in [Streams -> SUBSET Rows]
      /\ refused' \in [Streams -> SUBSET Rows]
      /\ cursor'  \in [Streams -> 0..MaxTime]
      /\ ServerInv'
      /\ \A s \in Streams : Settled(s) \subseteq Settled(s)' /\ cursor[s] <= cursor'[s]
  BY <1>1, StoreSound
<1>3. Advances
  BY <1>1, <1>2 DEF Advances
<1>4. TypeOK'
  BY <1>1, <1>2 DEF ApplyStray, TypeOK, taskVars
<1>5. \A t \in Tasks : TaskInv(t)'
  <2>1. \A t \in Tasks : Untouched(t)
    BY DEF ApplyStray, taskVars, Untouched
  <2> QED BY <1>3, <1>4, <2>1, UntouchedTask
<1>6. StrayInv'
  BY <1>3, StrayStable DEF ApplyStray
<1> QED BY <1>2, <1>4, <1>5, <1>6 DEF IInv, DeferredInv, ApplyStray

LEMMA LoseStrayIInv ==
  ASSUME IInv, NEW m \in stray, LoseStray(m)
  PROVE  IInv'
<1>1. ServerInv' /\ Advances
  BY QuietServer DEF LoseStray
<1>2. TypeOK'
  BY DEF LoseStray, IInv, TypeOK, serverVars, taskVars
<1>3. \A t \in Tasks : TaskInv(t)'
  <2>1. \A t \in Tasks : Untouched(t)
    BY DEF LoseStray, taskVars, Untouched
  <2> QED BY <1>1, <1>2, <2>1, UntouchedTask
<1>4. StrayInv'
  BY <1>1, StrayStable DEF LoseStray
<1> QED BY <1>1, <1>2, <1>3, <1>4 DEF IInv, DeferredInv, LoseStray

LEMMA FinishIInv ==
  ASSUME IInv, NEW t \in Tasks, Finish(t)
  PROVE  IInv'
<1>1. ServerInv' /\ Advances
  BY QuietServer DEF Finish
<1>2. TypeOK'
  BY DEF Finish, IInv, TypeOK, serverVars
<1>3. \A u \in Tasks \ {t} : TaskInv(u)'
  <2>1. \A u \in Tasks \ {t} : Untouched(u)
    BY DEF Finish, IInv, TypeOK, Untouched
  <2> QED BY <1>1, <1>2, <2>1, UntouchedTask
<1>4. TaskInv(t)'
  <2>1. TaskInv(t) /\ ~Awaiting(t)
    BY DEF Finish, IInv
  <2>2. phase'[t] = "idle"
    BY DEF Finish, IInv, TypeOK
  <2> QED BY <2>1, <2>2 DEF Finish, TaskInv, serverVars, Sendable, Closed, Whole,
                            Settled, Awaiting
<1>5. StrayInv'
  BY <1>1, StrayStable DEF Finish
<1> QED BY <1>1, <1>2, <1>3, <1>4, <1>5 DEF IInv, DeferredInv, Finish

\* Taking an acknowledged chunk off a payload leaves a sendable rest: the chunk
\* is ruled on, and it took its instants whole.
LEMMA ReplyOkIInv ==
  ASSUME IInv, NEW t \in Tasks, ReplyOk(t)
  PROVE  IInv'
<1>1. ServerInv' /\ Advances
  BY QuietServer DEF ReplyOk
<1>2. PICK s \in Streams : s = current[t]
  BY DEF ReplyOk, IInv, TaskInv
<1> DEFINE rest == payload[t][s] \ request[t].rows
<1>3. /\ payload' = [payload EXCEPT ![t][s] = rest]
      /\ request' = [request EXCEPT ![t] = NoRequest]
      /\ rest \in SUBSET Rows
  BY <1>2 DEF ReplyOk, IInv, TypeOK
<1>4. TypeOK'
  <2>1. payload' \in [Tasks -> [Streams -> SUBSET Rows]]
    BY <1>2, <1>3 DEF IInv, TypeOK
  <2>2. current' \in [Tasks -> Streams \cup {NoStream}]
    BY DEF ReplyOk, IInv, TypeOK
  <2>3. NoRequest \in [rows : SUBSET Rows, applied : BOOLEAN]
    BY DEF NoRequest
  <2> QED BY <1>3, <2>1, <2>2, <2>3 DEF ReplyOk, IInv, TypeOK, serverVars
<1>5. \A u \in Tasks \ {t} : TaskInv(u)'
  <2>1. \A u \in Tasks \ {t} : Untouched(u)
    BY <1>3 DEF ReplyOk, IInv, TypeOK, Untouched
  <2> QED BY <1>1, <1>4, <2>1, UntouchedTask
<1>6. Sendable(s, rest)
  <2>1. /\ Sendable(s, payload[t][s])
        /\ request[t].rows \subseteq Settled(s)
        /\ \A q \in request[t].rows, r \in payload[t][s] :
              r.time <= q.time => r \in request[t].rows
    BY <1>2 DEF ReplyOk, IInv, TaskInv
  <2>2. Closed(s, rest)
    BY <2>1 DEF Sendable, Closed
  <2>3. \A q \in payload[t][s], r \in request[t].rows :
          q.time = r.time => q \in request[t].rows
    <3>1. \A q \in payload[t][s] : q.time \in Int
      BY <1>2, RowTimes, BoundsAreNat DEF IInv, TypeOK
    <3> QED BY <2>1, <3>1
  <2>4. Whole(s, rest)
    BY <2>1, <2>3 DEF Sendable, Whole
  <2> QED BY <2>1, <2>2, <2>4 DEF Sendable
<1>7. TaskInv(t)'
  <2>1. TaskInv(t)
    BY DEF IInv
  <2>2. /\ payload'[t][s] = rest
        /\ \A r \in Streams \ {s} : payload'[t][r] = payload[t][r]
        /\ request'[t] = NoRequest
        /\ UNCHANGED <<phase, targets, since, cursor, source, stored, refused>>
    BY <1>2, <1>3 DEF ReplyOk, IInv, TypeOK, serverVars
  <2> HIDE DEF rest
  <2>3. \A r \in Streams : Sendable(r, payload[t][r])'
    BY <1>6, <2>1, <2>2 DEF TaskInv, Sendable, Closed, Whole, Settled
  <2>4. ~Awaiting(t)'
    BY <2>2 DEF Awaiting, NoRequest
  <2> QED BY <2>1, <2>2, <2>3, <2>4 DEF TaskInv
<1>8. StrayInv'
  BY <1>1, StrayStable DEF ReplyOk
<1> QED BY <1>1, <1>4, <1>5, <1>7, <1>8 DEF IInv, DeferredInv, ReplyOk

\* A request given up on is as sendable stray as it was awaited.
LEMMA AbandonedSound ==
  ASSUME IInv, NEW t \in Tasks, NEW m \in Abandoned(t)
  PROVE  m \in [stream : Streams, rows : SUBSET Rows] /\ Sendable(m.stream, m.rows)
BY DEF Abandoned, IInv, TaskInv, TypeOK

LEMMA ReplyErrorIInv ==
  ASSUME IInv, NEW t \in Tasks, ReplyError(t)
  PROVE  IInv'
<1>1. ServerInv' /\ Advances
  BY QuietServer DEF ReplyError
<1>2. PICK s \in Streams : s = current[t]
  BY DEF ReplyError, IInv, TaskInv
<1>3. /\ payload' = [payload EXCEPT ![t][s] = {}]
      /\ deferred' = [deferred EXCEPT ![s] = payload[t][s]]
      /\ request' = [request EXCEPT ![t] = NoRequest]
      /\ current' = [current EXCEPT ![t] = NoStream]
      /\ stray' = stray \cup Abandoned(t)
      /\ faults' \in 0..MaxFaults
  BY <1>2, BoundsAreNat DEF ReplyError, Fault, IInv, TypeOK
<1>4. TypeOK'
  <2>1. payload' \in [Tasks -> [Streams -> SUBSET Rows]]
    BY <1>2, <1>3 DEF IInv, TypeOK
  <2>2. deferred' \in [Streams -> SUBSET Rows]
    BY <1>2, <1>3 DEF IInv, TypeOK
  <2>3. NoRequest \in [rows : SUBSET Rows, applied : BOOLEAN]
    BY DEF NoRequest
  <2>4. stray' \subseteq [stream : Streams, rows : SUBSET Rows]
    BY <1>3, AbandonedSound DEF IInv, TypeOK
  <2> QED BY <1>3, <2>1, <2>2, <2>3, <2>4 DEF ReplyError, IInv, TypeOK, serverVars
<1>5. \A u \in Tasks \ {t} : TaskInv(u)'
  <2>1. \A u \in Tasks \ {t} : Untouched(u)
    BY <1>3 DEF ReplyError, IInv, TypeOK, Untouched
  <2> QED BY <1>1, <1>4, <2>1, UntouchedTask
<1>6. TaskInv(t)'
  <2>1. TaskInv(t)
    BY DEF IInv
  <2>2. /\ payload'[t][s] = {}
        /\ \A r \in Streams \ {s} : payload'[t][r] = payload[t][r]
        /\ request'[t] = NoRequest
        /\ UNCHANGED <<phase, targets, since, cursor, source, stored, refused>>
    BY <1>2, <1>3 DEF ReplyError, IInv, TypeOK, serverVars
  <2>3. \A r \in Streams : Sendable(r, payload[t][r])'
    BY <2>1, <2>2 DEF TaskInv, Sendable, Closed, Whole, Settled
  <2>4. ~Awaiting(t)'
    BY <2>2 DEF Awaiting, NoRequest
  <2> QED BY <2>1, <2>2, <2>3, <2>4 DEF TaskInv
<1>7. StrayInv'
  <2> SUFFICES ASSUME NEW m \in stray \cup Abandoned(t)
               PROVE  Sendable(m.stream, m.rows)'
    BY <1>3 DEF StrayInv
  <2>1. m.stream \in Streams /\ Sendable(m.stream, m.rows)
    BY AbandonedSound DEF IInv, TypeOK, StrayInv
  <2> QED BY <1>1, <2>1 DEF Advances, Sendable, Closed, Whole
<1>8. DeferredInv'
  <2>1. payload[t][s] \subseteq source[s]
    BY DEF IInv, TaskInv, Sendable
  <2> QED BY <1>1, <1>2, <1>3, <2>1 DEF Advances, IInv, TypeOK, DeferredInv
<1> QED BY <1>1, <1>4, <1>5, <1>6, <1>7, <1>8 DEF IInv

LEMMA CrashIInv ==
  ASSUME IInv, Crash
  PROVE  IInv'
<1>1. ServerInv' /\ Advances
  BY QuietServer DEF Crash
<1>2. TypeOK'
  <2>1. /\ 0 \in 0..RetryMax /\ 0 \in 0..MaxTime
        /\ faults' \in 0..MaxFaults
        /\ NoRequest \in [rows : SUBSET Rows, applied : BOOLEAN]
    BY BoundsAreNat DEF Crash, Fault, IInv, TypeOK, NoRequest
  <2>2. stray' \subseteq [stream : Streams, rows : SUBSET Rows]
    BY AbandonedSound DEF Crash, IInv, TypeOK
  <2> QED BY <2>1, <2>2 DEF Crash, IInv, TypeOK, serverVars
<1>3. \A t \in Tasks : TaskInv(t)'
  <2> SUFFICES ASSUME NEW t \in Tasks PROVE TaskInv(t)'
    OBVIOUS
  <2>1. /\ since'[t] = [s \in Streams |-> 0]
        /\ payload'[t] = [s \in Streams |-> {}]
        /\ request'[t] = NoRequest /\ phase'[t] = "idle"
    BY DEF Crash
  <2>2. \A s \in Streams : since'[t][s] <= cursor'[s]
    BY <1>2, <2>1, BoundsAreNat DEF TypeOK
  <2>3. \A s \in Streams : Sendable(s, payload[t][s])'
    BY <2>1 DEF Sendable, Closed, Whole
  <2> QED BY <2>1, <2>2, <2>3 DEF TaskInv, Awaiting, NoRequest
<1>4. StrayInv'
  <2> SUFFICES ASSUME NEW m \in stray \cup UNION {Abandoned(t) : t \in Tasks}
               PROVE  Sendable(m.stream, m.rows)'
    BY DEF StrayInv, Crash
  <2>1. m.stream \in Streams /\ Sendable(m.stream, m.rows)
    BY AbandonedSound DEF IInv, TypeOK, StrayInv
  <2> QED BY <1>1, <2>1 DEF Advances, Sendable, Closed, Whole
<1> QED BY <1>1, <1>2, <1>3, <1>4 DEF IInv, DeferredInv, Crash

-----------------------------------------------------------------------------
LEMMA NextIInv == IInv /\ [Next]_vars => IInv'
<1> SUFFICES ASSUME IInv, [Next]_vars PROVE IInv'
  OBVIOUS
<1>1. ASSUME NEW s \in Streams, Measure(s) PROVE IInv'
  BY <1>1, MeasureIInv
<1>2. ASSUME NEW isFull \in BOOLEAN, StartCycle(isFull) PROVE IInv'
  BY <1>2, StartCycleIInv
<1>3. ASSUME NEW keys \in SUBSET Streams, StartResync(keys) PROVE IInv'
  BY <1>3, StartResyncIInv
<1>4. ASSUME NEW t \in Tasks, TaskStep(t) PROVE IInv'
  BY <1>4, ListOkIInv, FetchOkIInv, SendChunkIInv, ApplyIInv, ReplyOkIInv,
     FinishIInv DEF TaskStep
<1>5. ASSUME NEW t \in Tasks, ListOrFetchFails(t) PROVE IInv'
  BY <1>5, ListOrFetchFailsIInv
<1>6. ASSUME NEW t \in Tasks, ReplyError(t) PROVE IInv'
  BY <1>6, ReplyErrorIInv
<1>7. ASSUME NEW m \in stray, ApplyStray(m) \/ LoseStray(m) PROVE IInv'
  BY <1>7, ApplyStrayIInv, LoseStrayIInv
<1>8. CASE Crash
  BY <1>8, CrashIInv
<1>9. CASE UNCHANGED vars
  <2>1. UNCHANGED <<source, serverVars>>
    BY <1>9 DEF vars
  <2>2. ServerInv' /\ Advances
    BY <2>1, QuietServer
  <2>3. TypeOK'
    BY <1>9 DEF vars, serverVars, taskVars, IInv, TypeOK
  <2>4. \A t \in Tasks : Untouched(t)
    BY <1>9 DEF vars, taskVars, Untouched
  <2>5. \A t \in Tasks : TaskInv(t)'
    BY <2>2, <2>3, <2>4, UntouchedTask
  <2>6. StrayInv'
    BY <1>9, <2>2, StrayStable DEF vars
  <2> QED BY <1>9, <2>2, <2>3, <2>5, <2>6 DEF IInv, DeferredInv, vars
<1> QED BY <1>1, <1>2, <1>3, <1>4, <1>5, <1>6, <1>7, <1>8, <1>9 DEF Next

LEMMA AlwaysIInv == Spec => []IInv
BY InitIInv, NextIInv, PTL DEF Spec

\* Every variable of the data path keeps its type, whatever fails.
THEOREM TypeCorrect == Spec => []TypeOK
<1>1. IInv => TypeOK
  BY DEF IInv
<1> QED BY AlwaysIInv, <1>1, PTL

\* For any number of streams, instants, replicates, retries and faults, and any
\* chunk size, the server's cursor never passes a row it has not ruled on.
THEOREM CursorLeavesNoGap == Spec => []NoGap
<1>1. IInv => NoGap
  BY DEF IInv, ServerInv
<1> QED BY AlwaysIInv, <1>1, PTL

\* No request, awaited or stray, ever carries half a replicate group.
THEOREM GroupsTravelWhole == Spec => []RequestsHoldWholeGroups
<1>1. IInv => RequestsHoldWholeGroups
  BY DEF IInv, TaskInv, StrayInv, Sendable, Whole, RequestsHoldWholeGroups
<1> QED BY AlwaysIInv, <1>1, PTL

\* What a failed ingest deferred is ruled on or fetched by the next cycle.
THEOREM DeferredIsRefetched == Spec => DeferredRefetched
<1>1. IInv /\ [Next]_vars
        => [\A s \in Streams :
              phase["cycle"] = "fetch" /\ phase'["cycle"] = "ingest"
                => deferred[s] \subseteq payload'["cycle"][s] \cup Settled(s)]_vars
  <2> SUFFICES ASSUME IInv, Next, NEW s \in Streams,
                      phase["cycle"] = "fetch", phase'["cycle"] = "ingest"
               PROVE  deferred[s] \subseteq payload'["cycle"][s] \cup Settled(s)
    OBVIOUS
  <2>1. "cycle" \in Tasks
    BY DEF Tasks
  <2>2. FetchOk("cycle")
    <3>1. phase' # phase /\ phase["cycle"] # "idle" /\ phase' # [t \in Tasks |-> "idle"]
      BY <2>1
    <3>2. \A keys : ~StartResync(keys)
      BY <2>1 DEF StartResync, IInv, TypeOK, Tasks
    <3>3. PICK t \in Tasks : \/ ListOk(t) \/ FetchOk(t)
                             \/ Finish(t) \/ ListOrFetchFails(t)
      BY <3>1, <3>2 DEF Next, Measure, StartCycle, TaskStep, SendChunk, Apply,
                        ReplyOk, ReplyError, ApplyStray, LoseStray, Crash, taskVars
    <3>4. ~ListOk(t) /\ ~Finish(t) /\ ~ListOrFetchFails(t)
      BY <2>1 DEF ListOk, Finish, ListOrFetchFails, IInv, TypeOK
    <3>5. FetchOk(t)
      BY <3>3, <3>4
    <3>6. t = "cycle"
      BY <2>1, <3>5 DEF FetchOk, IInv, TypeOK
    <3> QED BY <3>5, <3>6
  <2>3. payload'["cycle"][s] = {r \in source[s] : r.time > since["cycle"][s]}
    <3>1. s \in targets["cycle"]
      BY <2>1 DEF IInv, TaskInv
    <3> QED BY <2>1, <2>2, <3>1 DEF FetchOk, IInv, TypeOK
  <2>4. since["cycle"][s] <= cursor[s]
    BY <2>1 DEF IInv, TaskInv
  <2>5. /\ \A r \in source[s] : r.time \in Int
        /\ since["cycle"][s] \in Int /\ cursor[s] \in Int
    BY <2>1, RowTimes, BoundsAreNat DEF IInv, TypeOK
  <2>6. \A r \in source[s] : r.time <= since["cycle"][s] => r \in Settled(s)
    BY <2>4, <2>5 DEF IInv, ServerInv, NoGap
  <2> QED BY <2>3, <2>5, <2>6 DEF IInv, DeferredInv
<1> QED BY AlwaysIInv, <1>1, PTL DEF Spec, DeferredRefetched

-----------------------------------------------------------------------------
(* The detailed path implements the replica. *)

\* Sending sendable rows to the server is one copying step of the replica.
LEMMA StoreCopies ==
  ASSUME IInv, source' = source,
         NEW s \in Streams, NEW rows \in SUBSET Rows,
         Sendable(s, rows), Store(s, rows)
  PROVE  Replica!CopyMore(s)
<1>1. /\ \A r \in Streams \ {s} : Settled(r)' = Settled(r)
      /\ Settled(s)' = Settled(s) \cup rows
      /\ ServerInv'
  BY StoreSound DEF IInv
<1>2. rows \in SUBSET source[s]
  BY DEF Sendable
<1>3. Replica!IsTimePrefix(Settled(s) \cup rows, source[s])
  BY <1>1 DEF Replica!IsTimePrefix, ServerInv, Closed
<1>4. [r \in Streams |-> Settled(r)]'
        = [[r \in Streams |-> Settled(r)] EXCEPT ![s] = @ \cup rows]
  BY <1>1
<1> QED BY <1>2, <1>3, <1>4 DEF Replica!CopyMore

\* The server's rulings on a stream are, at all times, the source's history of
\* it up to some instant: every step of the data path is a step of the replica
\* or leaves it alone.
THEOREM ImplementsPrefixReplica == Spec => ImplementsReplica
<1>1. Init => Replica!Init
  BY DEF Init, Replica!Init, Settled
<1>2. IInv /\ [Next]_vars => [Replica!Next]_(Replica!vars)
  <2> SUFFICES ASSUME IInv, [Next]_vars PROVE [Replica!Next]_(Replica!vars)
    OBVIOUS
  <2>1. ASSUME NEW s \in Streams, Measure(s) PROVE Replica!Grow(s)
    <3>1. PICK n \in 1..MaxGroup :
            source' = [source EXCEPT ![s] = @ \cup
                         [time : {Max({0} \cup Instants(source[s])) + 1}, index : 1..n]]
      BY <2>1 DEF Measure
    <3> DEFINE newest == Max({0} \cup Instants(source[s]))
               more   == [time : {newest + 1}, index : 1..n]
    <3>2. source[s] \in SUBSET Rows /\ 0 \in 0..MaxTime
      BY BoundsAreNat DEF IInv, TypeOK
    <3>3. newest \in 0..MaxTime /\ \A q \in source[s] : q.time <= newest
      BY <3>2, NewestSound
    <3>4. newest + 1 <= MaxTime /\ source' = [source EXCEPT ![s] = @ \cup more]
      BY <2>1, <3>1 DEF Measure
    <3> HIDE DEF newest
    <3>5. \A q \in source[s] : q.time \in Int
      BY <3>2, RowTimes, BoundsAreNat
    <3>6. \A q \in more, r \in source[s] : r.time < q.time
      BY <3>3, <3>5, BoundsAreNat
    <3>7. more \in SUBSET Rows
      BY <3>3, <3>4, BoundsAreNat DEF Rows
    <3>8. [time |-> newest + 1, index |-> 1] \in more
      BY BoundsAreNat
    <3> HIDE DEF more
    <3>9. UNCHANGED [r \in Streams |-> Settled(r)]
      BY <2>1 DEF Measure, serverVars, Settled
    <3> QED BY <3>4, <3>6, <3>7, <3>8, <3>9 DEF Replica!Grow
  <2>2. ASSUME NEW t \in Tasks, Apply(t) PROVE \E s \in Streams : Replica!CopyMore(s)
    <3>1. PICK s \in Streams : s = current[t]
      BY <2>2 DEF Apply, IInv, TaskInv
    <3>2. /\ request[t].rows \in SUBSET Rows /\ source' = source
          /\ Sendable(s, request[t].rows) /\ Store(s, request[t].rows)
      BY <2>2, <3>1 DEF Apply, IInv, TaskInv, TypeOK
    <3> QED BY <3>2, StoreCopies
  <2>3. ASSUME NEW m \in stray, ApplyStray(m) PROVE \E s \in Streams : Replica!CopyMore(s)
    <3>1. /\ m.stream \in Streams /\ m.rows \in SUBSET Rows /\ source' = source
          /\ Sendable(m.stream, m.rows) /\ Store(m.stream, m.rows)
      BY <2>3 DEF ApplyStray, IInv, StrayInv, TypeOK
    <3> QED BY <3>1, StoreCopies
  <2>4. ASSUME UNCHANGED <<source, serverVars>> PROVE UNCHANGED Replica!vars
    BY <2>4 DEF Replica!vars, serverVars, Settled
  <2>5. \/ UNCHANGED <<source, serverVars>>
        \/ \E s \in Streams : Measure(s)
        \/ \E t \in Tasks : Apply(t)
        \/ \E m \in stray : ApplyStray(m)
    BY DEF Next, StartCycle, StartResync, TaskStep, ListOk, FetchOk, SendChunk,
           ReplyOk, Finish, ListOrFetchFails, ReplyError, LoseStray, Crash, vars
  <2> QED BY <2>1, <2>2, <2>3, <2>4, <2>5 DEF Replica!Next
<1> QED BY AlwaysIInv, <1>1, <1>2, PTL DEF Spec, ImplementsReplica, Replica!Spec

\* What the replica promises at every moment: whatever the server has ruled on
\* of a stream, it has ruled on all that is older, and on whole instants.
THEOREM ServerHoldsPrefix == Spec => []Replica!CopyIsPrefix
<1>1. IInv => Replica!CopyIsPrefix
  BY DEF IInv, ServerInv, Closed, Replica!CopyIsPrefix, Replica!IsTimePrefix
<1> QED BY AlwaysIInv, <1>1, PTL
=============================================================================
