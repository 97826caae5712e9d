------------------------------- MODULE Chunks -------------------------------
(***************************************************************************)
(* How a sorted payload of readings is cut into requests                   *)
(* (src/client/river_data_client.rs, group_safe_chunks), twice over: as    *)
(* the index arithmetic of the code, and as what that arithmetic means on  *)
(* a set of rows.  A row carries a `time` and the replicate `index` that   *)
(* tells the members of one replicate group apart.                         *)
(***************************************************************************)
EXTENDS Integers, Sequences, FiniteSets, FiniteSetsExt

\* batch_size.max(1)
EffectiveSize(batchSize) == IF batchSize < 1 THEN 1 ELSE batchSize

\* The inner growing loop: from `cut`, the first position that ends the run
\* of rows carrying the time at `cut`, or the end of the payload.
RunEnd(rows, cut) ==
  Min({e \in cut..Len(rows) :
          e = Len(rows) \/ rows[e + 1].time # rows[cut].time})

\* The inner shrinking loop: the last position before that run, not below
\* `start`.
RunStart(rows, start, cut) ==
  Max({b \in start..cut : b = start \/ rows[b].time # rows[cut].time})

\* Mistakes a run is told to notice: the cut ignores runs, and a run that
\* spans the cut is never left to the next chunk.
ChunkEndIgnoringRuns(rows, start, batchSize) ==
  Min({start + EffectiveSize(batchSize), Len(rows)})

ChunkEndGrowing(rows, start, batchSize) ==
  RunEnd(rows, Min({start + EffectiveSize(batchSize), Len(rows)}))

\* Where the chunk that begins after position `start` ends.  A run that spans
\* the cut is left whole to the next chunk, unless it is all this chunk holds.
ChunkEnd(rows, start, batchSize) ==
  LET size   == EffectiveSize(batchSize)
      cut    == Min({start + size, Len(rows)})
      end    == RunEnd(rows, cut)
      before == RunStart(rows, start, cut)
  IN  IF before > start /\ end - start > size THEN before ELSE end

-----------------------------------------------------------------------------
(* The same cut, on a set of rows. *)

Instants(rows) == {r.time : r \in rows}

UpTo(rows, t) == {r \in rows : r.time <= t}

\* Mistakes a run is told to notice: whole rows instead of whole instants, and
\* the newest instant first.
FirstRows(rows, batchSize) ==
  LET ahead(r) == {q \in rows : \/ q.time < r.time
                                \/ q.time = r.time /\ q.index < r.index}
  IN  {r \in rows : Cardinality(ahead(r)) < EffectiveSize(batchSize)}

NewestInstant(rows, batchSize) == {r \in rows : r.time = Max(Instants(rows))}

\* The longest initial part of `rows` that fits, whole instants only; the
\* first instant alone when not even that fits.
FirstChunk(rows, batchSize) ==
  LET fitting == {t \in Instants(rows) :
                    Cardinality(UpTo(rows, t)) <= EffectiveSize(batchSize)}
  IN  UpTo(rows, IF fitting # {} THEN Max(fitting) ELSE Min(Instants(rows)))
=============================================================================
