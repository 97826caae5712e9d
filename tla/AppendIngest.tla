---------------------------- MODULE AppendIngest ----------------------------
(***************************************************************************)
(* The append data path of the driver (src/client/driver.rs): list the     *)
(* streams, fetch what the source holds past each stream's server cursor,  *)
(* and send it in time order, chunk by chunk, until a chunk fails.  Two    *)
(* tasks of one process run it at once: the sync cycle of the sync loop,   *)
(* and the resync command, which the heartbeat loop handles inline.        *)
(*                                                                         *)
(* The source is append-only: each new replicate group is newer than all   *)
(* before it.  The server is external: it upserts what a request carries,  *)
(* refuses inadmissible rows for good, and moves the stream's cursor       *)
(* forward only.  A request the client has given up on (a timeout, a lost  *)
(* reply, a crash of the process) may still reach the server, at any later *)
(* time, or never.                                                         *)
(***************************************************************************)
EXTENDS Chunks

CONSTANTS Streams,
          MaxTime,       \* instants are 1..MaxTime; 0 is "no cursor yet"
          MaxGroup,      \* replicates of one instant
          BatchSize,     \* INGEST_BATCH_SIZE
          RetryMax,      \* config.retry_max
          MaxFaults,     \* failures of the network, of the source, of the process
          Inadmissible   \* the rows the server refuses

Rows  == [time : 1..MaxTime, index : 1..MaxGroup]
Tasks == {"cycle", "resync"}

ASSUME BoundsAreNat ==
  /\ MaxTime \in Nat /\ MaxGroup \in Nat /\ BatchSize \in Nat
  /\ RetryMax \in Nat /\ MaxFaults \in Nat

ASSUME InadmissibleAreRows == Inadmissible \subseteq Rows

VARIABLES
  source,    \* source[s]: the rows the source holds
  stored,    \* stored[s]: the rows the server stored
  refused,   \* refused[s]: the rows the server refused
  cursor,    \* cursor[s]: the server's last_data_time
  stray,     \* requests nobody waits for any more
  phase,     \* phase[t]: "idle", "list", "fetch" or "ingest"
  targets,   \* targets[t]: the streams the task was asked for
  full,      \* full[t]: fetch from the start of history
  since,     \* since[t][s]: where the fetch starts
  payload,   \* payload[t][s]: fetched rows not acknowledged yet
  current,   \* current[t]: the stream being ingested, or NoStream
  request,   \* request[t]: the rows awaiting an answer, and whether applied
  retries,   \* retries of the cycle
  deferred,  \* deferred[s]: rows the last failed ingest left to a later cycle
  faults     \* faults so far

serverVars == <<stored, refused, cursor>>
taskVars   == <<phase, targets, full, since, payload, current, request,
                retries>>
vars       == <<source, serverVars, stray, taskVars, deferred, faults>>

NoStream  == "none"
NoRequest == [rows |-> {}, applied |-> FALSE]

Awaiting(t) == request[t].rows # {}

Settled(s) == stored[s] \cup refused[s]

Init ==
  /\ source   = [s \in Streams |-> {}]
  /\ stored   = [s \in Streams |-> {}]
  /\ refused  = [s \in Streams |-> {}]
  /\ cursor   = [s \in Streams |-> 0]
  /\ stray    = {}
  /\ phase    = [t \in Tasks |-> "idle"]
  /\ targets  = [t \in Tasks |-> {}]
  /\ full     = [t \in Tasks |-> FALSE]
  /\ since    = [t \in Tasks |-> [s \in Streams |-> 0]]
  /\ payload  = [t \in Tasks |-> [s \in Streams |-> {}]]
  /\ current  = [t \in Tasks |-> NoStream]
  /\ request  = [t \in Tasks |-> NoRequest]
  /\ retries  = 0
  /\ deferred = [s \in Streams |-> {}]
  /\ faults   = 0

Fault == faults < MaxFaults /\ faults' = faults + 1

-----------------------------------------------------------------------------
(* The source and the server. *)

\* A replicate group arrives at the source, whole, after all before it.
Measure(s) ==
  /\ LET now == Max({0} \cup Instants(source[s])) + 1
     IN  /\ now <= MaxTime
         /\ \E n \in 1..MaxGroup :
              source' = [source EXCEPT ![s] = @ \cup [time : {now}, index : 1..n]]
  /\ UNCHANGED <<serverVars, stray, taskVars, deferred, faults>>

\* The server applies a request.  Its cursor goes to the newest row it was
\* sent, or only to the newest it accepted.
Store(s, rows) ==
  /\ stored'  = [stored  EXCEPT ![s] = @ \cup (rows \ Inadmissible)]
  /\ refused' = [refused EXCEPT ![s] = @ \cup (rows \cap Inadmissible)]
  /\ \E seen \in {rows, rows \ Inadmissible} :
       cursor' = [cursor EXCEPT ![s] = Max({@} \cup Instants(seen))]

Apply(t) ==
  /\ Awaiting(t) /\ ~request[t].applied
  /\ Store(current[t], request[t].rows)
  /\ request' = [request EXCEPT ![t].applied = TRUE]
  /\ UNCHANGED <<source, stray, phase, targets, full, since, payload, current,
                 retries, deferred, faults>>

ApplyStray(m) ==
  /\ Store(m.stream, m.rows)
  /\ stray' = stray \ {m}
  /\ UNCHANGED <<source, taskVars, deferred, faults>>

LoseStray(m) ==
  /\ stray' = stray \ {m}
  /\ UNCHANGED <<source, serverVars, taskVars, deferred, faults>>

-----------------------------------------------------------------------------
(* The two tasks. *)

StartCycle(isFull) ==
  /\ phase["cycle"] = "idle"
  /\ phase'   = [phase EXCEPT !["cycle"] = "list"]
  /\ targets' = [targets EXCEPT !["cycle"] = Streams]
  /\ full'    = [full EXCEPT !["cycle"] = isFull]
  /\ UNCHANGED <<source, serverVars, stray, since, payload, current, request,
                 retries, deferred, faults>>

\* resync_streams: the named streams, always from the start of history.
StartResync(keys) ==
  /\ phase["resync"] = "idle"
  /\ phase'   = [phase EXCEPT !["resync"] = "list"]
  /\ targets' = [targets EXCEPT !["resync"] = keys]
  /\ full'    = [full EXCEPT !["resync"] = TRUE]
  /\ UNCHANGED <<source, serverVars, stray, since, payload, current, request,
                 retries, deferred, faults>>

\* fetch_since: an incremental fetch starts at the cursor the list carried.
ListOk(t) ==
  /\ phase[t] = "list"
  /\ since' = [since EXCEPT ![t] =
                 [s \in Streams |-> IF full[t] THEN 0 ELSE cursor[s]]]
  /\ phase' = [phase EXCEPT ![t] = "fetch"]
  /\ UNCHANGED <<source, serverVars, stray, targets, full, payload, current,
                 request, retries, deferred, faults>>

\* The stream list and the retry count are the call's own: forgotten with it.
Forget(t) ==
  /\ targets' = [targets EXCEPT ![t] = {}]
  /\ full'    = [full EXCEPT ![t] = FALSE]
  /\ since'   = [since EXCEPT ![t] = [s \in Streams |-> 0]]
  /\ retries' = IF t = "cycle" THEN 0 ELSE retries

\* Mistake: a fetch past a cursor starts one instant late.
FetchOkOneLate(t) ==
  /\ phase[t] = "fetch"
  /\ payload' = [payload EXCEPT ![t] =
                   [s \in Streams |->
                      IF s \in targets[t]
                        THEN {r \in source[s] : since[t][s] = 0 \/ r.time > since[t][s] + 1}
                        ELSE {}]]
  /\ deferred' = IF t = "cycle" THEN [s \in Streams |-> {}] ELSE deferred
  /\ phase' = [phase EXCEPT ![t] = "ingest"]
  /\ Forget(t)
  /\ UNCHANGED <<source, serverVars, stray, current, request, faults>>

\* `deferred` is a history variable: the rows the log line left to the next
\* cycle, which is then held to them when it fetches.
FetchOk(t) ==
  /\ phase[t] = "fetch"
  /\ payload' = [payload EXCEPT ![t] =
                   [s \in Streams |->
                      IF s \in targets[t]
                        THEN {r \in source[s] : r.time > since[t][s]}
                        ELSE {}]]
  /\ deferred' = IF t = "cycle" THEN [s \in Streams |-> {}] ELSE deferred
  /\ phase' = [phase EXCEPT ![t] = "ingest"]
  /\ Forget(t)
  /\ UNCHANGED <<source, serverVars, stray, current, request, faults>>

\* Mistake: one retry too many.
ListOrFetchFailsOnceMore(t) ==
  /\ phase[t] \in {"list", "fetch"}
  /\ Fault
  /\ t = "cycle" /\ retries <= RetryMax
  /\ retries' = retries + 1
  /\ phase' = [phase EXCEPT ![t] = "list"]
  /\ since' = [since EXCEPT ![t] = [s \in Streams |-> 0]]
  /\ UNCHANGED <<source, serverVars, stray, targets, full, payload, current,
                 request, deferred>>

\* A cycle starts over from the list, up to RetryMax times; a resync gives up.
ListOrFetchFails(t) ==
  /\ phase[t] \in {"list", "fetch"}
  /\ Fault
  /\ \/ /\ t = "cycle" /\ retries < RetryMax
        /\ retries' = retries + 1
        /\ phase' = [phase EXCEPT ![t] = "list"]
        /\ since' = [since EXCEPT ![t] = [s \in Streams |-> 0]]
        /\ UNCHANGED <<targets, full>>
     \/ /\ t = "cycle" => retries >= RetryMax
        /\ phase' = [phase EXCEPT ![t] = "idle"]
        /\ Forget(t)
  /\ UNCHANGED <<source, serverVars, stray, payload, current, request, deferred>>

\* Streams are ingested one after the other, in the order they were fetched.
SendChunk(t, s) ==
  /\ phase[t] = "ingest" /\ ~Awaiting(t)
  /\ payload[t][s] # {}
  /\ current[t] \in {s, NoStream}
  /\ current' = [current EXCEPT ![t] = s]
  /\ request' = [request EXCEPT ![t] =
                   [rows    |-> FirstChunk(payload[t][s], BatchSize),
                    applied |-> FALSE]]
  /\ UNCHANGED <<source, serverVars, stray, phase, targets, full, since, payload,
                 retries, deferred, faults>>

ReplyOk(t) ==
  /\ Awaiting(t) /\ request[t].applied
  /\ LET rest == payload[t][current[t]] \ request[t].rows
     IN  /\ payload' = [payload EXCEPT ![t][current[t]] = rest]
         /\ current' = [current EXCEPT ![t] = IF rest = {} THEN NoStream ELSE @]
  /\ request' = [request EXCEPT ![t] = NoRequest]
  /\ UNCHANGED <<source, serverVars, stray, phase, targets, full, since, retries,
                 deferred, faults>>

\* What is left when the client stops waiting for a request.
Abandoned(t) ==
  IF Awaiting(t) /\ ~request[t].applied
    THEN {[stream |-> current[t], rows |-> request[t].rows]}
    ELSE {}

\* Mistake: only the failed chunk is given up, the later ones are still sent.
ReplyErrorGoesOn(t) ==
  /\ Awaiting(t)
  /\ Fault
  /\ LET rest == payload[t][current[t]] \ request[t].rows
     IN  /\ payload' = [payload EXCEPT ![t][current[t]] = rest]
         /\ current' = [current EXCEPT ![t] = IF rest = {} THEN NoStream ELSE @]
  /\ deferred' = [deferred EXCEPT ![current[t]] = request[t].rows]
  /\ stray'    = stray \cup Abandoned(t)
  /\ request'  = [request EXCEPT ![t] = NoRequest]
  /\ UNCHANGED <<source, serverVars, phase, targets, full, since, retries>>

\* The chunk failed as far as the client can tell: the rest of the stream is
\* left to a later cycle, and the loop goes on with the next stream.
ReplyError(t) ==
  /\ Awaiting(t)
  /\ Fault
  /\ deferred' = [deferred EXCEPT ![current[t]] = payload[t][current[t]]]
  /\ payload'  = [payload EXCEPT ![t][current[t]] = {}]
  /\ stray'    = stray \cup Abandoned(t)
  /\ current'  = [current EXCEPT ![t] = NoStream]
  /\ request'  = [request EXCEPT ![t] = NoRequest]
  /\ UNCHANGED <<source, serverVars, phase, targets, full, since, retries>>

Finish(t) ==
  /\ phase[t] = "ingest" /\ ~Awaiting(t)
  /\ \A s \in Streams : payload[t][s] = {}
  /\ phase' = [phase EXCEPT ![t] = "idle"]
  /\ UNCHANGED <<source, serverVars, stray, targets, full, since, payload,
                 current, request, retries, deferred, faults>>

\* The process dies and is restarted; only the server and the source remember.
Crash ==
  /\ Fault
  /\ stray'   = stray \cup UNION {Abandoned(t) : t \in Tasks}
  /\ phase'   = [t \in Tasks |-> "idle"]
  /\ payload' = [t \in Tasks |-> [s \in Streams |-> {}]]
  /\ current' = [t \in Tasks |-> NoStream]
  /\ request' = [t \in Tasks |-> NoRequest]
  /\ targets' = [t \in Tasks |-> {}]
  /\ full'    = [t \in Tasks |-> FALSE]
  /\ since'   = [t \in Tasks |-> [s \in Streams |-> 0]]
  /\ retries' = 0
  /\ UNCHANGED <<source, serverVars, deferred>>

TaskStep(t) ==
  \/ ListOk(t)
  \/ FetchOk(t)
  \/ \E s \in Streams : SendChunk(t, s)
  \/ Apply(t)
  \/ ReplyOk(t)
  \/ Finish(t)

Next ==
  \/ \E s \in Streams : Measure(s)
  \/ \E isFull \in BOOLEAN : StartCycle(isFull)
  \/ \E keys \in SUBSET Streams \ {{}} : StartResync(keys)
  \/ \E t \in Tasks : \/ TaskStep(t)
                      \/ ListOrFetchFails(t)
                      \/ ReplyError(t)
  \/ \E m \in stray : ApplyStray(m) \/ LoseStray(m)
  \/ Crash

\* The interval keeps starting cycles, and a cycle that meets no fault keeps
\* going: its calls return, and the server answers them.
Fairness ==
  /\ WF_vars(\E isFull \in BOOLEAN : StartCycle(isFull))
  /\ WF_vars(TaskStep("cycle"))

Spec == Init /\ [][Next]_vars /\ Fairness

-----------------------------------------------------------------------------
TypeOK ==
  /\ source  \in [Streams -> SUBSET Rows]
  /\ stored  \in [Streams -> SUBSET Rows]
  /\ refused \in [Streams -> SUBSET Rows]
  /\ cursor  \in [Streams -> 0..MaxTime]
  /\ stray   \subseteq [stream : Streams, rows : SUBSET Rows]
  /\ phase   \in [Tasks -> {"idle", "list", "fetch", "ingest"}]
  /\ targets \in [Tasks -> SUBSET Streams]
  /\ full    \in [Tasks -> BOOLEAN]
  /\ since   \in [Tasks -> [Streams -> 0..MaxTime]]
  /\ payload \in [Tasks -> [Streams -> SUBSET Rows]]
  /\ current \in [Tasks -> Streams \cup {NoStream}]
  /\ request \in [Tasks -> [rows : SUBSET Rows, applied : BOOLEAN]]
  /\ retries \in 0..RetryMax
  /\ deferred \in [Streams -> SUBSET Rows]
  /\ faults  \in 0..MaxFaults

\* The cursor never passes a row the server has not ruled on, whatever failed,
\* was retried, resynced or arrived late: an incremental fetch, which starts
\* at the cursor, can miss nothing (river_data_client.rs:353-357, 375-380).
NoGap ==
  \A s \in Streams : \A r \in source[s] : r.time <= cursor[s] => r \in Settled(s)

\* Whatever a failed ingest deferred is either ruled on by then or in what the
\* very next cycle fetches (river_data_client.rs:356-357, driver.rs:460).
DeferredRefetched ==
  [][\A s \in Streams :
       phase["cycle"] = "fetch" /\ phase'["cycle"] = "ingest"
         => deferred[s] \subseteq payload'["cycle"][s] \cup Settled(s)]_vars

\* The server is never asked to rule on half a replicate group: every request,
\* awaited or stray, holds all the source has of each of its instants.
RequestsHoldWholeGroups ==
  /\ \A t \in Tasks : Awaiting(t) =>
       \A q \in request[t].rows, r \in source[current[t]] :
          r.time = q.time => r \in request[t].rows
  /\ \A m \in stray : \A q \in m.rows, r \in source[m.stream] :
          r.time = q.time => r \in m.rows

\* The server's copy is always a time prefix of the source, whatever is still
\* in flight: the detailed path implements the replica.
Replica == INSTANCE PrefixReplica
             WITH copy <- [s \in Streams |-> Settled(s)]

ImplementsReplica == Replica!Spec

\* Once failures stop, every row the source holds is stored or refused.
EveryRowArrives ==
  \A s \in Streams, r \in Rows : r \in source[s] ~> r \in Settled(s)
=============================================================================
