------------------------- MODULE BatchedIngestProofs -------------------------
(***************************************************************************)
(* Proofs about the chunked ingest: the index arithmetic never cuts inside *)
(* a run of equal times, so no replicate group is ever split.              *)
(***************************************************************************)
EXTENDS BatchedIngest, FiniteSetTheorems, SequenceTheorems, TLAPS

\* A sequence that repeats nothing.
Once(s) == \A i, j \in 1..Len(s) : i # j => s[i] # s[j]

-----------------------------------------------------------------------------
(* Least and greatest numbers: the library defines Min and Max by CHOOSE, and *)
(* says nothing of them.                                                      *)

\* A set of naturals that is not empty has a least element.
LEMMA LeastExists ==
  ASSUME NEW S \in SUBSET Nat, S # {}
  PROVE  \E x \in S : \A y \in S : x <= y
<1> DEFINE R == {ss \in Nat \X Nat : ss[1] < ss[2]}
<1>1. IsWellFoundedOn(R, Nat)
  BY NatLessThanWellFounded DEF OpToRel
<1>2. \A x, y \in S : y < x => <<y, x>> \in R
  OBVIOUS
<1> HIDE DEF R
<1>3. \E x \in S : \A y \in S : ~(<<y, x>> \in R)
  BY <1>1, WFMin
<1>4. \A x, y \in S : x <= y \/ y < x
  OBVIOUS
<1> QED BY <1>2, <1>3, <1>4

\* A set of naturals with an upper bound has a greatest element.
LEMMA GreatestExists ==
  ASSUME NEW n \in Nat, NEW S \in SUBSET (0..n), S # {}
  PROVE  \E x \in S : \A y \in S : y <= x
<1> DEFINE R == {n - y : y \in S}
<1>1. R \in SUBSET Nat /\ R # {}
  <2>1. PICK y \in S : TRUE
    OBVIOUS
  <2>2. n - y \in R /\ \A z \in S : n - z \in Nat
    OBVIOUS
  <2> QED BY <2>2
<1>2. PICK m \in R : \A y \in R : m <= y
  <2> HIDE DEF R
  <2> QED BY <1>1, LeastExists
<1>3. PICK x \in S : m = n - x
  OBVIOUS
<1>4. \A y \in S : n - x <= n - y
  BY <1>2, <1>3
<1> QED BY <1>4

\* The library's Min and Max are what their names say on such sets.
LEMMA MinIsLeast ==
  ASSUME NEW S \in SUBSET Nat, S # {}
  PROVE  Min(S) \in S /\ \A y \in S : Min(S) <= y
BY LeastExists DEF Min

LEMMA MaxIsGreatest ==
  ASSUME NEW n \in Nat, NEW S \in SUBSET (0..n), S # {}
  PROVE  Max(S) \in S /\ \A y \in S : y <= Max(S)
<1>1. PICK x \in S : \A y \in S : x >= y
  BY GreatestExists
<1> QED BY <1>1 DEF Max

\* So is what has been found to be the least, or the greatest, of integers.
LEMMA MinIs ==
  ASSUME NEW S, \A y \in S : y \in Int, NEW x \in S, \A y \in S : x <= y
  PROVE  Min(S) = x
<1>1. \A y \in S : (\A z \in S : y <= z) => y = x
  OBVIOUS
<1> QED BY <1>1, Zenon DEF Min

LEMMA MaxIs ==
  ASSUME NEW S, \A y \in S : y \in Int, NEW x \in S, \A y \in S : y <= x
  PROVE  Max(S) = x
<1>1. \A y \in S : x >= y
  OBVIOUS
<1>2. \A y \in S : (\A z \in S : y >= z) => y = x
  OBVIOUS
<1> QED BY <1>1, <1>2, Zenon DEF Max

-----------------------------------------------------------------------------
(* Where a chunk ends. *)

\* What the two loops of group_safe_chunks find: from the cut on, the end of the
\* run of equal times the cut is in, and, going back, what precedes that run.
Loops(rows, start, size, cut, end, before) ==
  LET SameRun(i) == rows[i].time = rows[cut].time
      n          == Len(rows)
  IN  /\ cut \in (start + 1)..n /\ cut <= start + size
      /\ cut = n \/ cut = start + size
      /\ end \in cut..n
      /\ end = n \/ ~SameRun(end + 1)
      /\ \A e \in cut..n : e = n \/ ~SameRun(e + 1) => end <= e
      /\ before \in start..cut
      /\ before = start \/ ~SameRun(before)
      /\ \A b \in start..cut : ~SameRun(b) => b <= before

LEMMA LoopsSound ==
  ASSUME NEW R, NEW rows \in Seq(R), NEW batch \in Nat,
         NEW start \in 0..(Len(rows) - 1)
  PROVE  LET size == EffectiveSize(batch)
         IN  /\ size \in Nat /\ size >= 1
             /\ \E cut, end, before \in Nat :
                  /\ Loops(rows, start, size, cut, end, before)
                  /\ ChunkEnd(rows, start, batch)
                       = IF before > start /\ end - start > size THEN before ELSE end
<1> DEFINE n      == Len(rows)
           size   == EffectiveSize(batch)
           cut    == Min({start + size, n})
           Ends   == {e \in cut..n : e = n \/ rows[e + 1].time # rows[cut].time}
           Starts == {b \in start..cut : b = start \/ rows[b].time # rows[cut].time}
           end    == RunEnd(rows, cut)
           before == RunStart(rows, start, cut)
<1>1. n \in Nat /\ start \in Nat /\ start < n
  OBVIOUS
<1>2. size \in Nat /\ size >= 1
  BY DEF EffectiveSize
<1>3. cut \in (start + 1)..n /\ cut <= start + size /\ (cut = n \/ cut = start + size)
  <2>1. {start + size, n} \in SUBSET Nat /\ {start + size, n} # {}
    BY <1>1, <1>2
  <2>2. cut \in {start + size, n} /\ cut <= n /\ cut <= start + size
    BY <2>1, MinIsLeast
  <2> QED BY <1>1, <1>2, <2>2
<1>4. /\ end \in cut..n
      /\ end = n \/ rows[end + 1].time # rows[cut].time
      /\ \A e \in cut..n : e = n \/ rows[e + 1].time # rows[cut].time => end <= e
  <2>1. Ends \in SUBSET Nat /\ n \in Ends
    BY <1>1, <1>3
  <2>2. end = Min(Ends)
    BY DEF RunEnd
  <2> HIDE DEF cut, end
  <2>3. Min(Ends) \in Ends /\ \A y \in Ends : Min(Ends) <= y
    <3> HIDE DEF Ends
    <3> QED BY <2>1, MinIsLeast
  <2> QED BY <2>2, <2>3
<1>5. /\ before \in start..cut
      /\ before = start \/ rows[before].time # rows[cut].time
      /\ \A b \in start..cut : rows[b].time # rows[cut].time => b <= before
  <2>1. Starts \in SUBSET (0..n) /\ start \in Starts
    BY <1>1, <1>3
  <2>2. before = Max(Starts)
    BY DEF RunStart
  <2> HIDE DEF cut, before
  <2>3. Max(Starts) \in Starts /\ \A y \in Starts : y <= Max(Starts)
    <3> HIDE DEF Starts
    <3> QED BY <1>1, <2>1, MaxIsGreatest
  <2> QED BY <2>2, <2>3
<1>6. ChunkEnd(rows, start, batch)
        = IF before > start /\ end - start > size THEN before ELSE end
  BY DEF ChunkEnd
<1>7. cut \in Nat /\ end \in Nat /\ before \in Nat
  <2> HIDE DEF n, cut, end, before
  <2> QED BY <1>1, <1>3, <1>4, <1>5
<1> HIDE DEF size, cut, end, before
<1>8. Loops(rows, start, size, cut, end, before)
  BY <1>3, <1>4, <1>5 DEF Loops
<1> QED BY <1>2, <1>6, <1>7, <1>8 DEF size

\* So the run of the cut reaches from behind `before` to the end.
LEMMA RunFound ==
  ASSUME NEW R, NEW rows \in Seq(R), NEW start \in 0..(Len(rows) - 1),
         NEW size \in Nat, NEW cut \in Nat, NEW end \in Nat, NEW before \in Nat,
         Loops(rows, start, size, cut, end, before)
  PROVE  /\ end = Len(rows) \/ rows[end + 1].time # rows[end].time
         /\ \A i \in (before + 1)..end : rows[i].time = rows[cut].time
         /\ before = start \/ rows[before + 1].time # rows[before].time
<1> USE DEF Loops
<1>1. \A i \in cut..end : rows[i].time = rows[cut].time
  <2> SUFFICES ASSUME NEW i \in cut..end, i # cut, rows[i].time # rows[cut].time
               PROVE  FALSE
    OBVIOUS
  <2>1. i - 1 \in cut..Len(rows) /\ (i - 1) + 1 = i /\ i <= end
    OBVIOUS
  <2>2. end <= i - 1
    BY <2>1
  <2> QED BY <2>1, <2>2
<1>2. \A i \in (before + 1)..cut : rows[i].time = rows[cut].time
  <2> SUFFICES ASSUME NEW i \in (before + 1)..cut, rows[i].time # rows[cut].time
               PROVE  FALSE
    OBVIOUS
  <2>1. i \in start..cut
    OBVIOUS
  <2> QED BY <2>1
<1>3. \A i \in (before + 1)..end : i \in (before + 1)..cut \/ i \in cut..end
  OBVIOUS
<1>4. before # start => before < cut
  OBVIOUS
<1>5. before # start => before + 1 \in (before + 1)..cut
  BY <1>4
<1>6. end \in cut..end
  OBVIOUS
<1> QED BY <1>1, <1>2, <1>3, <1>5, <1>6

\* group_safe_chunks makes progress, stays inside the payload, and never cuts
\* between two rows of one time.
LEMMA ChunkEndSound ==
  ASSUME NEW R, NEW rows \in Seq(R), NEW batch \in Nat,
         NEW start \in 0..(Len(rows) - 1)
  PROVE  LET end == ChunkEnd(rows, start, batch)
         IN  /\ end \in (start + 1)..Len(rows)
             /\ end < Len(rows) => rows[end].time # rows[end + 1].time
<1> DEFINE n    == Len(rows)
           size == EffectiveSize(batch)
<1>1. n \in Nat /\ start \in Nat /\ start < n
  OBVIOUS
<1>2. PICK cut \in Nat, end \in Nat, before \in Nat :
        /\ size \in Nat /\ Loops(rows, start, size, cut, end, before)
        /\ ChunkEnd(rows, start, batch)
             = IF before > start /\ end - start > size THEN before ELSE end
  BY LoopsSound
<1> HIDE DEF size
<1>3. /\ end = n \/ rows[end + 1].time # rows[end].time
      /\ before = start \/ rows[before + 1].time # rows[before].time
  BY <1>2, RunFound
<1> QED BY <1>1, <1>2, <1>3 DEF Loops

-----------------------------------------------------------------------------
\* What a call keeps true between steps: the payload is in order once sorted,
\* `sent` is where the last acknowledged request ended, and every request so
\* far ended on a clean cut.
IInv ==
  /\ TypeOK
  /\ pc = "sort" => ordered = <<>> /\ requests = <<>> /\ sent = 0
  /\ pc # "sort" => InOrder(ordered) /\ Len(ordered) = Len(readings)
  /\ \A k \in 1..Len(requests) : requests[k].last \in 0..Len(ordered)
  /\ pc = "send" => sent = IF requests = <<>> THEN 0
                                             ELSE requests[Len(requests)].last
  /\ pc = "send" /\ windowed => requests = <<>>
  /\ pc = "await" => /\ requests # <<>>
                     /\ sent = requests[Len(requests)].first - 1
  /\ GroupsWhole
  /\ Contiguous

LEMMA SortingSound ==
  ASSUME NEW s \in Seq([time : Int, index : Int]), NEW o \in Sortings(s)
  PROVE  /\ o \in Seq([time : Int, index : Int])
         /\ Len(o) = Len(s)
         /\ InOrder(o)
<1>1. PICK p \in Bijection(1..Len(s), 1..Len(s)) : o = [i \in 1..Len(s) |-> s[p[i]]]
  BY DEF Sortings
<1>2. p \in [1..Len(s) -> 1..Len(s)]
  BY DEF Bijection, Injection
<1>3. \A i \in 1..Len(s) : s[p[i]] \in [time : Int, index : Int]
  BY <1>2, ElementOfSeq
<1>4. InOrder(o)
  BY DEF Sortings
<1> QED BY <1>1, <1>3, <1>4

\* The rows of a sorted payload are in the order of their times.
LEMMA TimesAscend ==
  ASSUME NEW rows \in Seq([time : Int, index : Int]), InOrder(rows)
  PROVE  /\ \A m \in 1..Len(rows) : rows[m].time \in Int
         /\ \A a, b \in 1..Len(rows) : a <= b => rows[a].time <= rows[b].time
<1>1. \A m \in 1..Len(rows) : rows[m].time \in Int
  <2> SUFFICES ASSUME NEW m \in 1..Len(rows)
               PROVE  rows[m] \in [time : Int, index : Int]
    OBVIOUS
  <2> QED BY ElementOfSeq
<1>2. ASSUME NEW a \in 1..Len(rows), NEW b \in 1..Len(rows), a <= b
      PROVE  rows[a].time <= rows[b].time
  <2>1. CASE a = b
    BY <1>1, <2>1
  <2>2. CASE a < b
    BY <1>1, <1>2, <2>2 DEF InOrder, Before
  <2> QED BY <1>2, <2>1, <2>2
<1> QED BY <1>1, <1>2

\* In a sorted payload a boundary between two different times is a clean cut.
LEMMA BoundaryIsCleanCut ==
  ASSUME TypeOK, InOrder(ordered), NEW k \in 0..Len(ordered),
         k = 0 \/ k = Len(ordered) \/ ordered[k].time # ordered[k + 1].time
  PROVE  CleanCut(k)
<1> SUFFICES ASSUME NEW i \in 1..k, NEW j \in (k + 1)..Len(ordered)
             PROVE  ordered[i].time < ordered[j].time
  BY DEF CleanCut
<1>1. \A m \in 1..Len(ordered) : ordered[m].time \in Int
  BY TimesAscend DEF TypeOK
<1>2. \A a, b \in 1..Len(ordered) : a <= b => ordered[a].time <= ordered[b].time
  BY TimesAscend DEF TypeOK
<1>3. /\ i \in 1..Len(ordered) /\ j \in 1..Len(ordered)
      /\ k \in 1..Len(ordered) /\ k + 1 \in 1..Len(ordered)
      /\ i <= k /\ k + 1 <= j /\ k < k + 1
  OBVIOUS
<1>4. ordered[k].time < ordered[k + 1].time
  BY <1>1, <1>2, <1>3
<1> QED BY <1>1, <1>2, <1>3, <1>4

\* The initial state satisfies the invariant.
LEMMA InitIInv == Init => IInv
<1> SUFFICES ASSUME Init PROVE IInv
  OBVIOUS
<1>1. Len(requests) = 0
  BY DEF Init
<1>2. TypeOK
  BY <1>1 DEF Init, TypeOK
<1> QED BY <1>1, <1>2 DEF Init, IInv, GroupsWhole, Contiguous

\* What appending one request preserves.
LEMMA AppendRequest ==
  ASSUME IInv, pc = "send",
         NEW last \in sent..Len(ordered), NEW carried \in SUBSET Int,
         windowed \/ sent < last,
         CleanCut(last),
         requests' = Append(requests, Request(sent + 1, last, carried)),
         pc' = "await",
         UNCHANGED <<params, ordered, sent, deferred>>
  PROVE  IInv'
<1> DEFINE r == Request(sent + 1, last, carried)
<1>1. /\ sent \in Nat /\ Len(ordered) \in Nat /\ last \in Nat
      /\ requests \in Seq([first : Nat, last : Nat, audits : SUBSET Int])
  BY DEF IInv, TypeOK
<1>2. r \in [first : Nat, last : Nat, audits : SUBSET Int]
  BY <1>1 DEF Request
<1>3. r.first = sent + 1 /\ r.last = last
  BY DEF Request
<1> HIDE DEF r
<1>4. /\ requests' \in Seq([first : Nat, last : Nat, audits : SUBSET Int])
      /\ Len(requests') = Len(requests) + 1
      /\ \A k \in 1..Len(requests) : requests'[k] = requests[k]
      /\ requests'[Len(requests')] = r
      /\ requests' # <<>>
  BY <1>1, <1>2 DEF r
<1>4a. \A k \in 1..Len(requests') : k \in 1..Len(requests) \/ k = Len(requests')
  <2>1. Len(requests) \in Nat
    BY <1>1
  <2> QED BY <2>1, <1>4
<1>5. TypeOK'
  BY <1>4 DEF IInv, TypeOK, params
<1>6. \A k : CleanCut(k) => \A i \in 1..k, j \in (k + 1)..Len(ordered') :
                               ordered'[i].time < ordered'[j].time
  BY DEF CleanCut
<1>7. GroupsWhole'
  <2> SUFFICES ASSUME NEW k \in 1..Len(requests')
               PROVE  \A i \in 1..requests'[k].last,
                         j \in (requests'[k].last + 1)..Len(ordered') :
                           ordered'[i].time < ordered'[j].time
    BY DEF GroupsWhole, CleanCut
  <2>1. CASE k \in 1..Len(requests)
    <3>1. CleanCut(requests[k].last)
      BY <2>1 DEF IInv, GroupsWhole
    <3> QED BY <2>1, <3>1, <1>4, <1>6
  <2>2. CASE k = Len(requests')
    <3>1. requests'[k].last = last
      BY <2>2, <1>3, <1>4
    <3> QED BY <3>1, <1>6
  <2> QED BY <1>4a, <2>1, <2>2
<1>8. Contiguous'
  <2> SUFFICES ASSUME NEW k \in 1..Len(requests')
               PROVE  /\ requests'[k].first
                             = IF k = 1 THEN 1 ELSE requests'[k - 1].last + 1
                      /\ windowed' \/ requests'[k].first <= requests'[k].last
    BY DEF Contiguous
  <2>1. CASE k \in 1..Len(requests)
    <3>1. k = 1 \/ k - 1 \in 1..Len(requests)
      BY <1>1
    <3> QED BY <2>1, <3>1, <1>4 DEF IInv, Contiguous, params
  <2>2. CASE k = Len(requests')
    <3>1. requests'[k].first = sent + 1 /\ requests'[k].last = last
      BY <2>2, <1>3, <1>4
    <3>2. CASE k = 1
      <4>1. requests = <<>>
        BY <2>2, <3>2, <1>1, <1>4
      <4> QED BY <3>1, <3>2, <4>1, <1>1 DEF IInv, params
    <3>3. CASE k # 1
      <4>1. requests # <<>> /\ k - 1 = Len(requests) /\ k - 1 \in 1..Len(requests)
        BY <2>2, <3>3, <1>1, <1>4
      <4>2. sent = requests[k - 1].last
        BY <4>1 DEF IInv
      <4>3. requests'[k - 1].last = requests[k - 1].last
        BY <4>1, <1>4
      <4>4. windowed' \/ requests'[k].first <= requests'[k].last
        BY <1>1, <3>1 DEF params
      <4> QED BY <3>1, <3>3, <4>2, <4>3, <4>4
    <3> QED BY <3>2, <3>3
  <2> QED BY <1>4a, <2>1, <2>2
<1>9. \A k \in 1..Len(requests') : requests'[k].last \in 0..Len(ordered)'
  <2> SUFFICES ASSUME NEW k \in 1..Len(requests')
               PROVE  requests'[k].last \in 0..Len(ordered)'
    OBVIOUS
  <2>1. CASE k \in 1..Len(requests)
    BY <2>1, <1>4 DEF IInv
  <2>2. CASE k = Len(requests')
    BY <2>2, <1>1, <1>3, <1>4
  <2> QED BY <1>4a, <2>1, <2>2
<1>10. sent' = requests'[Len(requests')].first - 1
  BY <1>1, <1>3, <1>4
<1>11. InOrder(ordered)' /\ Len(ordered)' = Len(readings)'
  BY DEF IInv, InOrder, params
<1> QED BY <1>4, <1>5, <1>7, <1>8, <1>9, <1>10, <1>11 DEF IInv

-----------------------------------------------------------------------------
\* Every step preserves the invariant.
LEMMA NextIInv == IInv /\ [Next]_vars => IInv'
<1> SUFFICES ASSUME IInv, [Next]_vars PROVE IInv'
  OBVIOUS
<1>1. CASE Sort
  <2>1. readings \in Seq([time : Int, index : Int])
    BY PayloadsAreReadings DEF IInv, TypeOK
  <2>2. /\ ordered' \in Seq([time : Int, index : Int])
        /\ Len(ordered') = Len(readings)
        /\ InOrder(ordered)'
    <3>1. ordered' \in Sortings(readings)
      BY <1>1 DEF Sort
    <3>2. InOrder(ordered') <=> InOrder(ordered)'
      BY DEF InOrder
    <3> QED BY <2>1, <3>1, <3>2, SortingSound
  <2>3. requests = <<>> /\ sent = 0 /\ Len(requests) = 0
    BY <1>1 DEF Sort, IInv
  <2>4. Len(ordered') \in Nat
    BY <2>2
  <2>5. TypeOK'
    BY <1>1, <2>2, <2>3, <2>4 DEF Sort, IInv, TypeOK, params
  <2> QED BY <1>1, <2>2, <2>3, <2>5
          DEF Sort, IInv, params, GroupsWhole, Contiguous
<1>2. CASE SendWindow
  <2>1. sent = 0 /\ requests = <<>>
    BY <1>2 DEF SendWindow, IInv
  <2>2. /\ Len(ordered) \in sent..Len(ordered)
        /\ sent + 1 = 1
        /\ Len(ordered) \in 0..Len(ordered)
    BY <2>1 DEF IInv, TypeOK
  <2>3. audits \in SUBSET Int
    BY AuditSetsAreTimes DEF IInv, TypeOK
  <2>4. CleanCut(Len(ordered))
    BY <2>2 DEF CleanCut
  <2>5. requests' = Append(requests, Request(sent + 1, Len(ordered), audits))
    BY <1>2, <2>2 DEF SendWindow
  <2> QED BY <1>2, <2>2, <2>3, <2>4, <2>5, AppendRequest DEF SendWindow
<1>3. CASE SendChunk
  <2> DEFINE last == ChunkEnd(ordered, sent, batchSize)
  <2>1. /\ ordered \in Seq([time : Int, index : Int])
        /\ batchSize \in Nat
        /\ sent \in 0..(Len(ordered) - 1)
    BY <1>3, BatchSizesAreNat DEF SendChunk, IInv, TypeOK
  <2>2. /\ last \in (sent + 1)..Len(ordered)
        /\ last < Len(ordered) => ordered[last].time # ordered[last + 1].time
    BY <2>1, ChunkEndSound
  <2>3. ChunkAudits(sent + 1, last) \in SUBSET Int
    BY AuditSetsAreTimes DEF IInv, TypeOK, ChunkAudits
  <2>4. requests' = Append(requests,
                      Request(sent + 1, last, ChunkAudits(sent + 1, last)))
    BY <1>3 DEF SendChunk
  <2> HIDE DEF last
  <2>5. InOrder(ordered) /\ TypeOK
    BY <1>3 DEF SendChunk, IInv
  <2>6. /\ last \in sent..Len(ordered) /\ sent < last
        /\ last \in 0..Len(ordered)
        /\ last = Len(ordered) \/ ordered[last].time # ordered[last + 1].time
    BY <2>1, <2>2
  <2>7. CleanCut(last)
    BY <2>5, <2>6, BoundaryIsCleanCut
  <2> QED BY <1>3, <2>3, <2>4, <2>6, <2>7, AppendRequest DEF SendChunk
<1>4. CASE ReplyOk
  <2>1. /\ Len(requests) \in 1..Len(requests)
        /\ requests[Len(requests)].last \in 0..Len(ordered)
    BY <1>4 DEF ReplyOk, IInv, TypeOK
  <2>2. TypeOK'
    BY <1>4, <2>1 DEF ReplyOk, IInv, TypeOK, params
  <2>3. requests # <<>>
    BY <1>4 DEF ReplyOk, IInv
  <2> QED BY <1>4, <2>1, <2>2, <2>3
          DEF ReplyOk, IInv, params, GroupsWhole, CleanCut, Contiguous, InOrder
<1>5. CASE ReplyError
  <2>1. TypeOK'
    BY <1>5 DEF ReplyError, IInv, TypeOK, params
  <2> QED BY <1>5, <2>1
          DEF ReplyError, IInv, params, GroupsWhole, CleanCut, Contiguous, InOrder
<1>6. CASE ChunksExhausted
  <2>1. TypeOK'
    BY <1>6 DEF ChunksExhausted, IInv, TypeOK, params
  <2> QED BY <1>6, <2>1
          DEF ChunksExhausted, IInv, params, GroupsWhole, CleanCut, Contiguous,
              InOrder
<1>7. CASE UNCHANGED vars
  BY <1>7 DEF vars, params, IInv, TypeOK, GroupsWhole, CleanCut, Contiguous,
              InOrder
<1> QED BY <1>1, <1>2, <1>3, <1>4, <1>5, <1>6, <1>7 DEF Next

LEMMA AlwaysIInv == Spec => []IInv
BY InitIInv, NextIInv, PTL DEF Spec

\* The state of a call is always well formed; above all `sent` never leaves
\* the payload, so no slice the loop takes is out of bounds.
THEOREM TypeCorrect == Spec => []TypeOK
<1>1. IInv => TypeOK
  BY DEF IInv
<1> QED BY AlwaysIInv, <1>1, PTL

\* For every payload, in whatever order, and every batch size, 0 included, no
\* replicate group is split across two requests.
THEOREM GroupsNeverSplit == Spec => []GroupsWhole
<1>1. IInv => GroupsWhole
  BY DEF IInv
<1> QED BY AlwaysIInv, <1>1, PTL

\* For every payload and batch size the requests cover the sorted payload from
\* its start, without gap or overlap, each one carrying at least one row.
THEOREM RequestsContiguous == Spec => []Contiguous
<1>1. IInv => Contiguous
  BY DEF IInv
<1> QED BY AlwaysIInv, <1>1, PTL

-----------------------------------------------------------------------------
(* What each request was made of. *)

\* A windowed request is the whole payload with all its audits, a chunk is what
\* group_safe_chunks cuts off what is left, with the audits of its times; and
\* sorting repeats no row.
Made(r) ==
  IF windowed
    THEN r.first = 1 /\ r.last = Len(ordered) /\ r.audits = audits
    ELSE /\ r.first \in 1..Len(ordered)
         /\ r.last = ChunkEnd(ordered, r.first - 1, batchSize)
         /\ r.audits = ChunkAudits(r.first, r.last)

MadeInv ==
  /\ \A k \in 1..Len(requests) : Made(requests[k])
  /\ pc # "sort" => (Once(readings) => Once(ordered))

LEMMA SortingRepeatsNothing ==
  ASSUME NEW s \in Seq([time : Int, index : Int]), NEW o \in Sortings(s), Once(s)
  PROVE  Once(o)
<1>1. PICK p \in Bijection(1..Len(s), 1..Len(s)) : o = [i \in 1..Len(s) |-> s[p[i]]]
  BY DEF Sortings
<1>2. /\ p \in [1..Len(s) -> 1..Len(s)]
      /\ \A i, j \in 1..Len(s) : i # j => p[i] # p[j]
  BY DEF Bijection, Injection, IsInjective
<1>3. Len(o) = Len(s)
  BY SortingSound
<1>4. \A i \in 1..Len(s) : p[i] \in 1..Len(s) /\ o[i] = s[p[i]]
  BY <1>1, <1>2
<1>5. ASSUME NEW i \in 1..Len(s), NEW j \in 1..Len(s), i # j PROVE o[i] # o[j]
  <2>1. p[i] \in 1..Len(s) /\ p[j] \in 1..Len(s) /\ p[i] # p[j]
    BY <1>2, <1>5
  <2>2. s[p[i]] # s[p[j]]
    BY <2>1 DEF Once
  <2> QED BY <1>4, <2>2, Zenon
<1> QED BY <1>3, <1>5 DEF Once

LEMMA NextMadeInv == IInv /\ MadeInv /\ [Next]_vars => MadeInv'
<1> SUFFICES ASSUME IInv, MadeInv, [Next]_vars PROVE MadeInv'
  OBVIOUS
<1>1. CASE Sort
  <2>1. requests' = <<>> /\ Len(requests') = 0
    BY <1>1 DEF Sort, IInv
  <2>2. readings \in Seq([time : Int, index : Int]) /\ readings' = readings
    BY <1>1, PayloadsAreReadings DEF Sort, params, IInv, TypeOK
  <2>3. Once(readings) => Once(ordered')
    BY <1>1, <2>2, SortingRepeatsNothing DEF Sort
  <2> QED BY <2>1, <2>2, <2>3 DEF MadeInv, Once
<1>2. ASSUME NEW r, requests' = Append(requests, r), Made(r),
             pc # "sort", UNCHANGED <<params, ordered>>
      PROVE  MadeInv'
  <2>1. requests \in Seq([first : Nat, last : Nat, audits : SUBSET Int])
    BY DEF IInv, TypeOK
  <2>2. \A k \in 1..Len(requests') :
          requests'[k] = r \/ (k \in 1..Len(requests) /\ requests'[k] = requests[k])
    BY <1>2, <2>1
  <2>3. \A q : Made(q) => Made(q)'
    BY <1>2 DEF Made, ChunkAudits, params
  <2>4. \A k \in 1..Len(requests') : Made(requests'[k])
    BY <1>2, <2>2 DEF MadeInv
  <2>5. \A k \in 1..Len(requests') : Made(requests[k])'
    BY <2>4, <1>2 DEF Made, ChunkAudits, params
  <2> QED BY <1>2, <2>5 DEF MadeInv, Once, params
<1>3. CASE SendWindow
  <2> DEFINE r == Request(1, Len(ordered), audits)
  <2>1. Made(r)
    BY <1>3 DEF SendWindow, Made, Request
  <2> HIDE DEF r
  <2> QED BY <1>2, <1>3, <2>1 DEF SendWindow, r
<1>4. CASE SendChunk
  <2> DEFINE last == ChunkEnd(ordered, sent, batchSize)
             r    == Request(sent + 1, last, ChunkAudits(sent + 1, last))
  <2>1. requests' = Append(requests, r)
    BY <1>4 DEF SendChunk
  <2>2. (sent + 1) - 1 = sent /\ sent + 1 \in 1..Len(ordered)
    BY <1>4 DEF SendChunk, IInv, TypeOK
  <2> HIDE DEF last
  <2>3. r.first = sent + 1 /\ r.last = last /\ r.audits = ChunkAudits(sent + 1, last)
    BY DEF Request
  <2> HIDE DEF r
  <2>4. Made(r)
    BY <1>4, <2>2, <2>3 DEF SendChunk, Made, last
  <2> QED BY <1>2, <1>4, <2>1, <2>4 DEF SendChunk
<1>5. CASE ReplyOk \/ ReplyError \/ ChunksExhausted
  <2>1. UNCHANGED <<params, ordered, requests>> /\ pc # "sort"
    BY <1>5 DEF ReplyOk, ReplyError, ChunksExhausted
  <2> QED BY <2>1 DEF MadeInv, Made, ChunkAudits, Once, params
<1>6. CASE UNCHANGED vars
  BY <1>6 DEF vars, params, MadeInv, Made, ChunkAudits, Once
<1> QED BY <1>1, <1>3, <1>4, <1>5, <1>6 DEF Next

LEMMA AlwaysMadeInv == Spec => [](IInv /\ MadeInv)
<1>1. Init => MadeInv
  <2>1. Init => Len(requests) = 0
    BY DEF Init
  <2> QED BY <2>1 DEF Init, MadeInv
<1> QED BY <1>1, NextMadeInv, AlwaysIInv, PTL DEF Spec

-----------------------------------------------------------------------------
(* The audits. *)

\* An audited instant lies within a request's times exactly if its rows lie
\* within the request: both ends of a request are clean cuts.
THEOREM AuditsStay == Spec => []AuditsTravelWithGroup
<1>1. IInv /\ MadeInv => AuditsTravelWithGroup
  <2> SUFFICES ASSUME IInv, MadeInv,
                      NEW k \in 1..Len(requests), NEW i \in 1..Len(ordered),
                      ordered[i].time \in audits
               PROVE  ordered[i].time \in requests[k].audits
                        <=> i \in requests[k].first..requests[k].last
    BY DEF AuditsTravelWithGroup
  <2> DEFINE r     == requests[k]
             n     == Len(ordered)
             first == r.first
             last  == r.last
  <2>1. Made(r)
    BY DEF MadeInv
  <2>2. CASE windowed
    BY <2>1, <2>2 DEF Made
  <2>3. CASE ~windowed
    <3>1. /\ k \in Nat /\ n \in Nat /\ first \in 1..n /\ last \in 1..n /\ first <= last
          /\ r.audits = ChunkAudits(first, last)
      <4>1. r.last \in 0..n /\ n \in Nat /\ (windowed \/ r.first <= r.last)
        <5>1. r.last \in 0..n /\ n \in Nat
          BY DEF IInv, TypeOK
        <5>2. windowed \/ r.first <= r.last
          BY DEF IInv, Contiguous
        <5> QED BY <5>1, <5>2
      <4>2. r.first \in 1..n /\ r.audits = ChunkAudits(r.first, r.last)
        BY <2>1, <2>3 DEF Made
      <4> QED BY <2>3, <4>1, <4>2
    <3>2. /\ \A m \in 1..n : ordered[m].time \in Int
          /\ \A a, b \in 1..n : a <= b => ordered[a].time <= ordered[b].time
      <4>1. InOrder(ordered)
        <5>1. Len(requests) # 0
          BY <3>1
        <5> QED BY <5>1 DEF IInv
      <4> QED BY <4>1, TimesAscend DEF IInv, TypeOK
    <3>3. CleanCut(last) /\ CleanCut(first - 1)
      <4>1. CleanCut(last)
        BY DEF IInv, GroupsWhole
      <4>2. CASE k = 1
        <5>1. first - 1 = 0
          BY <4>2 DEF IInv, Contiguous
        <5> QED BY <4>1, <5>1 DEF CleanCut
      <4>3. CASE k # 1
        <5>1. k - 1 \in 1..Len(requests) /\ first = requests[k - 1].last + 1
          BY <3>1, <4>3 DEF IInv, Contiguous
        <5>2. CleanCut(requests[k - 1].last) /\ requests[k - 1].last \in Nat
          BY <5>1 DEF IInv, GroupsWhole
        <5>3. first - 1 = requests[k - 1].last
          BY <5>1, <5>2
        <5> QED BY <4>1, <5>2, <5>3
      <4> QED BY <4>2, <4>3
    <3> HIDE DEF first, last, n
    <3>4. first <= i /\ i <= last
            => ordered[first].time <= ordered[i].time /\ ordered[i].time <= ordered[last].time
      BY <3>1, <3>2 DEF n
    <3>5. i < first => ordered[i].time < ordered[first].time
      <4> SUFFICES ASSUME i < first PROVE ordered[i].time < ordered[first].time
        OBVIOUS
      <4>1. i \in 1..(first - 1) /\ first \in ((first - 1) + 1)..Len(ordered)
        BY <3>1 DEF n
      <4> QED BY <3>3, <4>1 DEF CleanCut
    <3>6. last < i => ordered[last].time < ordered[i].time
      <4> SUFFICES ASSUME last < i PROVE ordered[last].time < ordered[i].time
        OBVIOUS
      <4>1. last \in 1..last /\ i \in (last + 1)..Len(ordered)
        BY <3>1 DEF n
      <4> QED BY <3>3, <4>1 DEF CleanCut
    <3>7. ordered[i].time \in r.audits
            <=> ordered[first].time <= ordered[i].time /\ ordered[i].time <= ordered[last].time
      BY <3>1 DEF ChunkAudits
    <3>8. i \in first..last <=> first <= i /\ i <= last
      BY <3>1 DEF n
    <3>9. /\ ordered[i].time \in Int /\ ordered[first].time \in Int /\ ordered[last].time \in Int
          /\ i \in Nat /\ first \in Nat /\ last \in Nat
      BY <3>1, <3>2 DEF n
    <3>10. i \in first..last <=> ordered[i].time \in r.audits
      BY <3>4, <3>5, <3>6, <3>7, <3>8, <3>9
    <3> QED BY <3>10 DEF first, last
  <2> QED BY <2>2, <2>3
<1> QED BY <1>1, AlwaysMadeInv, PTL

-----------------------------------------------------------------------------
(* The index arithmetic and the set operator. *)

\* Rows that are in order and repeat nothing: what group_safe_chunks cuts off
\* after `start` is the longest run of whole instants that fits, or one instant.
LEMMA CutIsFirstChunk ==
  ASSUME NEW rows \in Seq([time : Int, index : Int]), InOrder(rows), Once(rows),
         NEW batch \in Nat, NEW start \in 0..(Len(rows) - 1)
  PROVE  {rows[i] : i \in (start + 1)..ChunkEnd(rows, start, batch)}
           = FirstChunk({rows[i] : i \in (start + 1)..Len(rows)}, batch)
<1> DEFINE n        == Len(rows)
           size     == EffectiveSize(batch)
           T(i)     == rows[i].time
           Slice(e) == {rows[i] : i \in (start + 1)..e}
           S        == Slice(n)
           fitting  == {t \in Instants(S) : Cardinality(UpTo(S, t)) <= size}
<1>1. n \in Nat /\ start \in Nat /\ start < n
  OBVIOUS
<1>2. PICK cut \in Nat, end \in Nat, before \in Nat :
        /\ size \in Nat /\ Loops(rows, start, size, cut, end, before)
        /\ ChunkEnd(rows, start, batch)
             = IF before > start /\ end - start > size THEN before ELSE end
  BY LoopsSound
<1>3. /\ \A i \in 1..n : T(i) \in Int
      /\ \A i, j \in 1..n : i <= j => T(i) <= T(j)
  BY TimesAscend
<1>4. /\ cut \in (start + 1)..n /\ cut <= start + size /\ (cut = n \/ cut = start + size)
      /\ end \in cut..n /\ before \in start..cut
      /\ before = start \/ before # cut
  BY <1>2 DEF Loops
<1>5. /\ end = n \/ T(end + 1) # T(end)
      /\ \A i \in (before + 1)..end : T(i) = T(cut)
      /\ before = start \/ T(before + 1) # T(before)
  <2> HIDE DEF size
  <2>1. size \in Nat /\ Loops(rows, start, size, cut, end, before)
    BY <1>2
  <2> HIDE <1>2
  <2>2. /\ end = Len(rows) \/ rows[end + 1].time # rows[end].time
        /\ \A i \in (before + 1)..end : rows[i].time = rows[cut].time
        /\ before = start \/ rows[before + 1].time # rows[before].time
    BY <2>1, RunFound
  <2> QED BY <2>2
<1>6. \A i, j \in 1..n : rows[i] = rows[j] => i = j
  BY DEF Once
<1>7. /\ \A t : t \in Instants(S) <=> \E i \in (start + 1)..n : t = T(i)
      /\ \A t, r : r \in UpTo(S, t) <=> \E i \in (start + 1)..n : r = rows[i] /\ T(i) <= t
      /\ \A e, r : r \in Slice(e) <=> \E i \in (start + 1)..e : r = rows[i]
  BY DEF Instants, UpTo
<1>8. FirstChunk(S, batch) = UpTo(S, IF fitting # {} THEN Max(fitting) ELSE Min(Instants(S)))
  BY DEF FirstChunk
<1> HIDE DEF n, size, T, Slice
<1>9. \A i : i \in (start + 1)..n <=> i \in 1..n /\ start < i
  BY <1>1
<1>10. ASSUME NEW e \in start..n
       PROVE  IsFiniteSet(Slice(e)) /\ Cardinality(Slice(e)) = e - start
  <2> DEFINE D == (start + 1)..e
             f == [i \in D |-> rows[i]]
  <2>1. IsFiniteSet(D) /\ Cardinality(D) = e - start
    <3>1. start + 1 \in Int /\ e \in Int /\ start \in Int /\ start <= e
      BY <1>1
    <3>2. IsFiniteSet(D) /\ Cardinality(D) = IF start + 1 > e THEN 0 ELSE e - (start + 1) + 1
      BY <3>1, FS_Interval
    <3> HIDE DEF D
    <3> QED BY <3>1, <3>2
  <2>2. \A i, j \in D : rows[i] = rows[j] => i = j
    BY <1>1, <1>6
  <2> HIDE DEF D
  <2>3. f \in Bijection(D, Slice(e))
    BY <1>7, <2>2 DEF Bijection, Injection, Surjection, IsInjective, D
  <2>4. ExistsBijection(D, Slice(e))
    BY <2>3 DEF ExistsBijection
  <2> QED BY <2>1, <2>4, FS_Bijection
<1>11. ASSUME NEW e \in (start + 1)..n, e = n \/ T(e + 1) # T(e)
       PROVE  UpTo(S, T(e)) = Slice(e)
  <2>1. \A i \in (start + 1)..n : T(i) <= T(e) <=> i <= e
    <3> TAKE i \in (start + 1)..n
    <3>1. e \in 1..n /\ i \in 1..n
      BY <1>1
    <3>2. CASE i <= e
      BY <1>3, <3>1, <3>2
    <3>3. CASE e < i
      <4>1. e + 1 \in 1..n /\ e <= e + 1 /\ e + 1 <= i /\ e # n
        BY <1>1, <3>1, <3>3
      <4>2. T(e) <= T(e + 1) /\ T(e + 1) <= T(i) /\ T(e) # T(e + 1)
        BY <1>3, <1>11, <3>1, <4>1
      <4>3. T(e) \in Int /\ T(e + 1) \in Int /\ T(i) \in Int
        BY <1>3, <3>1, <4>1
      <4> QED BY <3>1, <3>3, <4>2, <4>3
    <3> QED BY <3>1, <3>2, <3>3
  <2>2. \A i : i \in (start + 1)..e <=> i \in (start + 1)..n /\ i <= e
    BY <1>1
  <2>3. \A r : r \in UpTo(S, T(e)) <=> r \in Slice(e)
    <3>1. \A r : r \in UpTo(S, T(e)) <=> \E i \in (start + 1)..n : r = rows[i] /\ T(i) <= T(e)
      BY <1>7, Zenon
    <3>2. \A r : r \in Slice(e) <=> \E i \in (start + 1)..e : r = rows[i]
      BY <1>7, Zenon
    <3> QED BY <2>1, <2>2, <3>1, <3>2, Zenon
  <2> QED BY <2>3
<1>12. ASSUME NEW t \in Int, NEW j \in (start + 1)..n, T(j) <= t
       PROVE  Cardinality(UpTo(S, t)) \in Nat /\ j - start <= Cardinality(UpTo(S, t))
  <2>1. Slice(j) \subseteq UpTo(S, t)
    <3>1. ASSUME NEW i \in (start + 1)..j PROVE i \in (start + 1)..n /\ T(i) <= t
      <4>1. i \in 1..n /\ j \in 1..n /\ i <= j
        BY <1>1
      <4>2. T(i) <= T(j) /\ T(i) \in Int /\ T(j) \in Int
        BY <1>3, <4>1
      <4> QED BY <1>9, <1>12, <4>1, <4>2
    <3> QED BY <1>7, <3>1, Zenon
  <2>2. IsFiniteSet(S)
    BY <1>1, <1>10
  <2>3. UpTo(S, t) \in SUBSET S
    BY DEF UpTo
  <2>4. j \in start..n
    BY <1>1
  <2>5. Cardinality(Slice(j)) = j - start
    BY <1>10, <2>4
  <2>6. IsFiniteSet(UpTo(S, t))
    BY <2>2, <2>3, FS_Subset
  <2> QED BY <2>1, <2>5, <2>6, FS_Subset, FS_CardinalityType
<1>13. \A t \in Instants(S) : t \in Int
  BY <1>3, <1>7, <1>9
\* A cut that fits, when nothing that reaches beyond it does.
<1>14. ASSUME NEW e \in (start + 1)..n, e = n \/ T(e + 1) # T(e), e - start <= size,
              \A j \in (e + 1)..n : size < Cardinality(UpTo(S, T(j)))
       PROVE  FirstChunk(S, batch) = Slice(e)
  <2>1. UpTo(S, T(e)) = Slice(e)
    BY <1>11, <1>14
  <2>2. Cardinality(Slice(e)) = e - start
    <3>1. e \in start..n
      BY <1>1
    <3> QED BY <1>10, <3>1
  <2>3. T(e) \in fitting
    BY <1>7, <1>14, <2>1, <2>2
  <2>4. \A t \in fitting : t \in Int /\ t <= T(e)
    <3> TAKE t \in fitting
    <3>1. PICK j \in (start + 1)..n : t = T(j)
      BY <1>7
    <3>2. j \in 1..n /\ e \in 1..n /\ (j <= e \/ j \in (e + 1)..n)
      BY <1>1
    <3>3. T(j) \in Int /\ T(j) <= T(j)
      BY <1>3, <3>2
    <3>4. Cardinality(UpTo(S, T(j))) \in Nat
      BY <1>12, <3>3
    <3>5. Cardinality(UpTo(S, T(j))) <= size
      BY <3>1
    <3>6. j <= e
      BY <1>2, <1>14, <3>2, <3>4, <3>5
    <3> QED BY <1>3, <3>1, <3>2, <3>3, <3>6
  <2> HIDE DEF fitting
  <2>5. Max(fitting) = T(e)
    BY <2>3, <2>4, MaxIs
  <2> QED BY <1>8, <2>1, <2>3, <2>5
<1>15. CASE before > start /\ end - start > size
  <2>1. /\ before \in (start + 1)..n /\ before - start <= size
        /\ T(before + 1) # T(before) /\ cut \in 1..n /\ end \in 1..n /\ end \in (start + 1)..n
        /\ cut \in (before + 1)..end /\ end \in (before + 1)..end
    BY <1>1, <1>2, <1>4, <1>5, <1>15
  <2>2. \A j \in (before + 1)..n : size < Cardinality(UpTo(S, T(j)))
    <3> TAKE j \in (before + 1)..n
    <3>1. j \in 1..n /\ (j \in (before + 1)..end \/ end <= j)
      BY <1>1, <2>1
    <3>2. T(j) \in Int /\ T(end) \in Int /\ T(end) <= T(j)
      BY <1>3, <1>5, <2>1, <3>1
    <3>3. Cardinality(UpTo(S, T(j))) \in Nat /\ end - start <= Cardinality(UpTo(S, T(j)))
      BY <1>12, <2>1, <3>2
    <3> QED BY <1>1, <1>2, <1>15, <2>1, <3>3
  <2>3. FirstChunk(S, batch) = Slice(before)
    BY <1>14, <2>1, <2>2
  <2> QED BY <1>2, <1>15, <2>3 DEF Slice, n
<1>16. CASE end - start <= size
  <2>1. end \in (start + 1)..n /\ (end = n \/ end = start + size)
    BY <1>1, <1>2, <1>4, <1>16
  <2>2. \A j \in (end + 1)..n : size < Cardinality(UpTo(S, T(j)))
    <3> TAKE j \in (end + 1)..n
    <3>1. j \in 1..n /\ j \in (start + 1)..n /\ size < j - start
      BY <1>1, <1>2, <2>1
    <3>2. T(j) \in Int /\ T(j) <= T(j)
      BY <1>3, <3>1
    <3>3. Cardinality(UpTo(S, T(j))) \in Nat /\ j - start <= Cardinality(UpTo(S, T(j)))
      BY <1>12, <3>1, <3>2
    <3> QED BY <1>1, <1>2, <3>1, <3>3
  <2>3. FirstChunk(S, batch) = Slice(end)
    BY <1>5, <1>14, <1>16, <2>1, <2>2
  <2>4. ChunkEnd(rows, start, batch) = end
    BY <1>1, <1>2, <1>16
  <2> QED BY <2>3, <2>4 DEF Slice, n
<1>17. CASE before = start /\ end - start > size
  <2>1. /\ end \in (start + 1)..n /\ end \in 1..n /\ start + 1 \in 1..n
        /\ start + 1 \in (before + 1)..end /\ end \in (before + 1)..end
    BY <1>1, <1>4, <1>17
  <2>2. T(start + 1) = T(end) /\ T(end) \in Int
    BY <1>3, <1>5, <2>1
  <2>3. \A t \in Instants(S) : T(end) <= t
    <3> TAKE t \in Instants(S)
    <3>1. PICK j \in (start + 1)..n : t = T(j)
      BY <1>7
    <3>2. j \in 1..n /\ start + 1 <= j
      BY <1>1
    <3> QED BY <1>3, <2>1, <2>2, <3>1, <3>2
  <2>4. fitting = {}
    <3> SUFFICES ASSUME NEW t \in Instants(S) PROVE ~(Cardinality(UpTo(S, t)) <= size)
      OBVIOUS
    <3>1. t \in Int /\ T(end) <= t
      BY <1>13, <2>3
    <3>2. Cardinality(UpTo(S, t)) \in Nat /\ end - start <= Cardinality(UpTo(S, t))
      BY <1>12, <2>1, <3>1
    <3> QED BY <1>1, <1>2, <1>17, <2>1, <3>2
  <2>5. Min(Instants(S)) = T(end)
    <3>1. T(end) \in Instants(S)
      BY <1>7, <2>1
    <3> HIDE DEF S
    <3> QED BY <1>13, <2>3, <3>1, MinIs
  <2>6. UpTo(S, T(end)) = Slice(end)
    BY <1>5, <1>11, <2>1
  <2> HIDE DEF fitting
  <2>7. FirstChunk(S, batch) = Slice(end)
    BY <1>8, <2>4, <2>5, <2>6
  <2>8. ChunkEnd(rows, start, batch) = end
    BY <1>1, <1>2, <1>17
  <2> QED BY <2>7, <2>8 DEF Slice, n
<1>18. (before > start \/ before = start) /\ (end - start > size \/ end - start <= size)
  BY <1>1, <1>2, <1>4
<1> QED BY <1>15, <1>16, <1>17, <1>18

\* Every chunk of a call is the first chunk, in the sense of the set operator,
\* of the rows that were left: for every payload that names no row twice.
THEOREM ChunksAreFirstChunks == Spec => [](Once(readings) => MatchesFirstChunk)
<1>1. IInv /\ MadeInv => (Once(readings) => MatchesFirstChunk)
  <2> SUFFICES ASSUME IInv, MadeInv, Once(readings), ~windowed,
                      NEW k \in 1..Len(requests)
               PROVE  {ordered[i] : i \in requests[k].first..requests[k].last}
                        = FirstChunk({ordered[i] : i \in requests[k].first..Len(ordered)},
                                     batchSize)
    BY DEF MatchesFirstChunk
  <2> DEFINE r == requests[k]
  <2>1. r.first \in 1..Len(ordered) /\ r.last = ChunkEnd(ordered, r.first - 1, batchSize)
    BY DEF MadeInv, Made
  <2>2. ordered \in Seq([time : Int, index : Int]) /\ batchSize \in Nat
    BY BatchSizesAreNat DEF IInv, TypeOK
  <2>3. InOrder(ordered) /\ Once(ordered)
    <3>1. Len(requests) # 0
      <4>1. Len(requests) \in Nat
        BY DEF IInv, TypeOK
      <4> QED BY <4>1
    <3>2. pc # "sort"
      BY <3>1 DEF IInv
    <3> QED BY <3>2 DEF IInv, MadeInv
  <2>4. r.first - 1 \in 0..(Len(ordered) - 1) /\ (r.first - 1) + 1 = r.first
    BY <2>1, <2>2
  <2> HIDE DEF r
  <2>5. {ordered[i] : i \in ((r.first - 1) + 1)..ChunkEnd(ordered, r.first - 1, batchSize)}
          = FirstChunk({ordered[i] : i \in ((r.first - 1) + 1)..Len(ordered)}, batchSize)
    BY <2>2, <2>3, <2>4, CutIsFirstChunk
  <2> QED BY <2>1, <2>4, <2>5 DEF r
<1> QED BY <1>1, AlwaysMadeInv, PTL
=============================================================================
