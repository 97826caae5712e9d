---------------------------- MODULE BatchedIngest ----------------------------
(***************************************************************************)
(* One call of RiverDataClient::ingest_readings_batched_with: sort the     *)
(* payload, send it whole if it claims a window, else send it chunk by     *)
(* chunk in time order and stop at the first request that fails.           *)
(*                                                                         *)
(* A reading is its time and replicate index, an audit is the time of its  *)
(* group.  The server's answer is a choice: it accepts, it fails, or, for  *)
(* a windowed request, it accepts without echoing the window.              *)
(***************************************************************************)
EXTENDS Chunks, Functions

CONSTANTS Payloads,     \* the sequences of readings a call may be given
          BatchSizes,   \* the batch sizes it may be given
          AuditSets     \* the sets of audited times it may be given

ASSUME PayloadsAreReadings ==
  \A p \in Payloads : p \in Seq([time : Int, index : Int])

ASSUME BatchSizesAreNat == BatchSizes \subseteq Nat

ASSUME AuditSetsAreTimes == \A a \in AuditSets : a \subseteq Int

VARIABLES
  readings,    \* the payload as the backend returned it
  batchSize,   \* batch_size
  audits,      \* opts.audits
  windowed,    \* opts.window.is_some()
  ordered,     \* the payload after the sort
  sent,        \* rows acknowledged so far: `sent`, and the next chunk's start
  requests,    \* the requests made, each with the positions and audits it held
  deferred,    \* result.deferred
  pc           \* "sort", "send", "await" or "done"

vars == <<readings, batchSize, audits, windowed, ordered, sent, requests,
          deferred, pc>>

params == <<readings, batchSize, audits, windowed>>

-----------------------------------------------------------------------------
\* The sort key: the time, then the replicate index.
Before(r, q) == r.time < q.time \/ (r.time = q.time /\ r.index <= q.index)

InOrder(s) == \A i, j \in 1..Len(s) : i < j => Before(s[i], s[j])

\* ordered.sort_by_key: a rearrangement of the payload that is in order.
Sortings(s) ==
  {o \in {[i \in 1..Len(s) |-> s[p[i]]] : p \in Bijection(1..Len(s), 1..Len(s))} :
      InOrder(o)}

\* Mistake: the last group's audit is left out.
ChunkAuditsHalfOpen(first, last) ==
  {a \in audits : ordered[first].time <= a /\ a < ordered[last].time}

\* The audits of a chunk: those between its first and its last time.
ChunkAudits(first, last) ==
  {a \in audits : ordered[first].time <= a /\ a <= ordered[last].time}

Request(first, last, carried) ==
  [first |-> first, last |-> last, audits |-> carried]

Init ==
  /\ readings \in Payloads
  /\ batchSize \in BatchSizes
  /\ audits \in AuditSets
  /\ windowed \in BOOLEAN
  /\ ordered = <<>>
  /\ sent = 0
  /\ requests = <<>>
  /\ deferred = 0
  /\ pc = "sort"

Sort ==
  /\ pc = "sort"
  /\ ordered' \in Sortings(readings)
  /\ pc' = "send"
  /\ UNCHANGED <<params, sent, requests, deferred>>

\* A completeness claim goes out as one request, however long, even empty.
SendWindow ==
  /\ pc = "send" /\ windowed
  /\ requests' = Append(requests, Request(1, Len(ordered), audits))
  /\ pc' = "await"
  /\ UNCHANGED <<params, ordered, sent, deferred>>

SendChunk ==
  /\ pc = "send" /\ ~windowed
  /\ sent < Len(ordered)
  /\ LET last == ChunkEnd(ordered, sent, batchSize)
     IN  requests' = Append(requests,
                       Request(sent + 1, last, ChunkAudits(sent + 1, last)))
  /\ pc' = "await"
  /\ UNCHANGED <<params, ordered, sent, deferred>>

\* Mistake: the next chunk starts one row late.
ReplyOkSkippingARow ==
  /\ pc = "await"
  /\ sent' = Min({requests[Len(requests)].last + 1, Len(ordered)})
  /\ pc' = IF windowed THEN "done" ELSE "send"
  /\ UNCHANGED <<params, ordered, requests, deferred>>

ReplyOk ==
  /\ pc = "await"
  /\ sent' = requests[Len(requests)].last
  /\ pc' = IF windowed THEN "done" ELSE "send"
  /\ UNCHANGED <<params, ordered, requests, deferred>>

\* Mistake: the subtraction the wrong way round.
ReplyErrorUnderflowing ==
  /\ pc = "await"
  /\ deferred' = sent - Len(readings)
  /\ pc' = "done"
  /\ UNCHANGED <<params, ordered, sent, requests>>

\* A transport failure, an error status, or a window that is not echoed back:
\* the rest of the stream waits for another cycle.
ReplyError ==
  /\ pc = "await"
  /\ deferred' = Len(readings) - sent
  /\ pc' = "done"
  /\ UNCHANGED <<params, ordered, sent, requests>>

ChunksExhausted ==
  /\ pc = "send" /\ ~windowed
  /\ sent = Len(ordered)
  /\ pc' = "done"
  /\ UNCHANGED <<params, ordered, sent, requests, deferred>>

Next ==
  \/ Sort
  \/ SendWindow
  \/ SendChunk
  \/ ReplyOk
  \/ ReplyError
  \/ ChunksExhausted

Spec == Init /\ [][Next]_vars

-----------------------------------------------------------------------------
TypeOK ==
  /\ readings \in Payloads
  /\ batchSize \in BatchSizes
  /\ audits \in AuditSets
  /\ windowed \in BOOLEAN
  /\ ordered \in Seq([time : Int, index : Int])
  /\ sent \in 0..Len(ordered)
  /\ requests \in Seq([first : Nat, last : Nat, audits : SUBSET Int])
  /\ deferred \in Nat
  /\ pc \in {"sort", "send", "await", "done"}

\* The rows on one side of a cut are all older than those on the other.
CleanCut(k) ==
  \A i \in 1..k, j \in (k + 1)..Len(ordered) : ordered[i].time < ordered[j].time

\* A replicate group is never split across two requests: whatever the order
\* the backend returned its rows in, whatever the batch size, every request
\* ends strictly before the next instant begins (river_data_client.rs:81-85).
GroupsWhole == \A k \in 1..Len(requests) : CleanCut(requests[k].last)

\* Requests leave in time order, without a gap and none of them empty: each
\* starts where the one before ended, so the loop ends, and a server that
\* applied a prefix of them holds a prefix of the payload (the contract of the
\* forward-only cursor, 375-380).
Contiguous ==
  \A k \in 1..Len(requests) :
    /\ requests[k].first = IF k = 1 THEN 1 ELSE requests[k - 1].last + 1
    /\ windowed \/ requests[k].first <= requests[k].last

\* An audit travels with its group: a request carries the audit of an instant
\* the payload holds if and only if it carries that instant's rows (411-419).
AuditsTravelWithGroup ==
  \A k \in 1..Len(requests), i \in 1..Len(ordered) :
    LET r == requests[k]
    IN  ordered[i].time \in audits =>
          (ordered[i].time \in r.audits <=> i \in r.first..r.last)

\* The index arithmetic cuts off the longest whole-instant prefix that fits, or
\* a single instant that does not fit: the set operator that the models of the
\* data path use (86-113).
MatchesFirstChunk ==
  ~windowed => \A k \in 1..Len(requests) :
    LET r == requests[k]
    IN  {ordered[i] : i \in r.first..r.last} =
          FirstChunk({ordered[i] : i \in r.first..Len(ordered)}, batchSize)
=============================================================================
