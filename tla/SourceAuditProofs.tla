--------------------------- MODULE SourceAuditProofs ---------------------------
(***************************************************************************)
(* Proofs about the source audit: paging through a list that changes       *)
(* meanwhile misses nothing that was there all along, for any streams, any *)
(* size of page and any number of changes.                                 *)
(***************************************************************************)
EXTENDS SourceAudit, FiniteSetTheorems, TLAPS

\* A sequence that repeats nothing.
Once(s) == \A i, j \in 1..Len(s) : i # j => s[i] # s[j]

\* The pages so far hold what comes before the next one, of what was there all
\* along, as long as nothing was removed; and nothing else than was there.
PagesInv ==
  /\ phase = "inventory" => items = <<>> /\ offset = 0
  /\ Found \subseteq ever
  /\ counted /\ ~removed /\ phase = "streams" =>
       \A k \in always \cap StreamKeys : k \in Found \/ offset <= Rank(k, Streams)
  /\ ListedUnlessRemoved

\* When nothing changes, they hold exactly that, each stream once.
StillInv ==
  changes = 0 =>
    /\ Once(items)
    /\ phase = "streams" => Found = {k \in Streams : Rank(k, Streams) < offset}
    /\ counted /\ phase \notin {"inventory", "streams"} => Found = Streams

\* The answer about curves, if there is one, names curves that were there, and
\* all that were there throughout if they fit the page.
CurvesInv ==
  \A keys \in listed :
    /\ keys \subseteq ever
    /\ Cardinality(ever \cap CurveKeys) <= CurvePage => always \cap CurveKeys \subseteq keys

IInv == TypeOK /\ PagesInv /\ StillInv /\ CurvesInv

-----------------------------------------------------------------------------
(* A set of numbers in order. *)

\* The more there are, the later an element comes.
LEMMA RankGrows ==
  ASSUME NEW T, IsFiniteSet(T), NEW S \in SUBSET T, NEW k
  PROVE  Rank(k, S) \in Nat /\ Rank(k, T) \in Nat /\ Rank(k, S) <= Rank(k, T)
<1> DEFINE A == {j \in S : j < k}
           B == {j \in T : j < k}
<1>1. A \in SUBSET B /\ B \in SUBSET T
  OBVIOUS
<1>2. IsFiniteSet(B)
  BY <1>1, FS_Subset
<1>3. IsFiniteSet(A) /\ Cardinality(A) <= Cardinality(B)
  BY <1>1, <1>2, FS_Subset
<1>4. Cardinality(A) \in Nat /\ Cardinality(B) \in Nat
  BY <1>2, <1>3, FS_CardinalityType
<1> QED BY <1>3, <1>4 DEF Rank

\* Each place is taken, by one element.
LEMMA RanksApart ==
  ASSUME NEW S, \A k \in S : k \in Int, IsFiniteSet(S)
  PROVE  /\ Cardinality(S) \in Nat
         /\ [k \in S |-> Rank(k, S)] \in Bijection(S, 0..(Cardinality(S) - 1))
         /\ \A j, k \in S : j < k => Rank(j, S) < Rank(k, S)
<1> DEFINE n == Cardinality(S)
           Below(k) == {j \in S : j < k}
           f == [k \in S |-> Rank(k, S)]
<1>1. n \in Nat /\ \A k \in S : k \in Int
  BY FS_CardinalityType
<1>2. \A k \in S : IsFiniteSet(Below(k)) /\ Rank(k, S) \in Nat
  <2> TAKE k \in S
  <2>1. Below(k) \in SUBSET S
    OBVIOUS
  <2>2. IsFiniteSet(Below(k))
    BY <2>1, FS_Subset
  <2> QED BY <2>2, FS_CardinalityType DEF Rank
<1>3. ASSUME NEW k \in S PROVE Rank(k, S) < n
  <2>1. Below(k) \in SUBSET S /\ Below(k) # S
    OBVIOUS
  <2>2. Cardinality(Below(k)) <= n /\ Cardinality(Below(k)) # n
    BY <2>1, FS_Subset
  <2> QED BY <1>1, <1>2, <2>2 DEF Rank
<1>4. ASSUME NEW j \in S, NEW k \in S, j < k PROVE Rank(j, S) < Rank(k, S)
  <2>1. Below(j) \in SUBSET Below(k) /\ j \in Below(k) /\ j \notin Below(j)
    BY <1>1, <1>4
  <2>2. Cardinality(Below(j)) <= Cardinality(Below(k))
        /\ Cardinality(Below(j)) # Cardinality(Below(k))
    BY <1>2, <2>1, FS_Subset
  <2> QED BY <1>2, <2>2 DEF Rank
<1> HIDE DEF n, Below
<1>5. f \in Injection(S, 0..(n - 1))
  <2>1. \A k \in S : Rank(k, S) \in 0..(n - 1)
    BY <1>1, <1>2, <1>3
  <2>2. \A j, k \in S : Rank(j, S) = Rank(k, S) => j = k
    <3> TAKE j \in S, k \in S
    <3>1. j < k \/ k < j \/ j = k
      BY <1>1
    <3> QED BY <1>2, <1>4, <3>1
  <2> QED BY <2>1, <2>2 DEF Injection, IsInjective
<1>6. IsFiniteSet(0..(n - 1)) /\ Cardinality(0..(n - 1)) = n
  BY <1>1, FS_Interval
<1>7. f \in Surjection(S, 0..(n - 1))
  <2> HIDE DEF f
  <2> QED BY <1>5, <1>6, FS_Injection DEF n
<1> QED BY <1>1, <1>4, <1>5, <1>7 DEF Bijection, n

\* A finite set of numbers can be put in order.
LEMMA AscendingSound ==
  ASSUME NEW S, \A k \in S : k \in Int, IsFiniteSet(S)
  PROVE  /\ Ascending(S) \in Seq(S) /\ Len(Ascending(S)) = Cardinality(S)
         /\ ToSet(Ascending(S)) = S
         /\ \A i, j \in 1..Len(Ascending(S)) :
              /\ i < j => Ascending(S)[i] < Ascending(S)[j]
              /\ i # j => Ascending(S)[i] # Ascending(S)[j]
<1> DEFINE n == Cardinality(S)
           f == [k \in S |-> Rank(k, S)]
           s == [i \in 1..n |-> CHOOSE k \in S : Rank(k, S) = i - 1]
           Sorted(t) == \A i, j \in DOMAIN t : i < j => t[i] < t[j]
<1>1. /\ n \in Nat /\ \A k \in S : k \in Int
      /\ \A j, k \in S : j < k => Rank(j, S) < Rank(k, S)
  BY RanksApart
<1>2. \A k \in S : Rank(k, S) \in 0..(n - 1)
  BY RanksApart DEF Bijection, Injection
<1>3. \A i \in 0..(n - 1) : \E k \in S : Rank(k, S) = i
  BY RanksApart DEF Bijection, Surjection
<1>4. \A i \in 1..n : s[i] \in S /\ Rank(s[i], S) = i - 1
  <2> TAKE i \in 1..n
  <2>1. i - 1 \in 0..(n - 1)
    BY <1>1
  <2>2. PICK k \in S : Rank(k, S) = i - 1
    BY <1>3, <2>1
  <2> QED BY <2>2
<1>5. s \in [1..n -> S] /\ DOMAIN s = 1..n
  BY <1>4
<1> HIDE DEF s
<1>6. \A i, j \in 1..n : i < j => s[i] < s[j]
  <2> SUFFICES ASSUME NEW i \in 1..n, NEW j \in 1..n, i < j, ~(s[i] < s[j])
               PROVE  FALSE
    OBVIOUS
  <2>1. s[i] \in S /\ s[j] \in S /\ Rank(s[i], S) = i - 1 /\ Rank(s[j], S) = j - 1
    BY <1>4
  <2>2. s[j] < s[i] \/ s[j] = s[i]
    BY <1>1, <2>1
  <2>3. i - 1 < j - 1
    BY <1>1
  <2>4. Rank(s[j], S) < Rank(s[i], S) \/ s[j] = s[i]
    BY <1>1, <2>1, <2>2
  <2> QED BY <1>1, <2>1, <2>3, <2>4
<1>7. \A i, j \in 1..n : i # j => s[i] # s[j]
  <2> TAKE i \in 1..n, j \in 1..n
  <2>1. i < j \/ j < i \/ i = j
    BY <1>1
  <2> QED BY <1>4, <1>5, <1>6, <2>1
<1>8. s \in SetToSeqs(S) /\ Sorted(s)
  BY <1>5, <1>6, <1>7 DEF SetToSeqs
<1>9. Ascending(S) \in SetToSeqs(S) /\ Sorted(Ascending(S))
  <2> HIDE DEF Sorted
  <2>1. Ascending(S) = CHOOSE t \in SetToSeqs(S) : Sorted(t)
    BY DEF Ascending, Sorted
  <2> QED BY <1>8, <2>1
<1> DEFINE a == Ascending(S)
<1>10. /\ a \in [1..n -> S] /\ \A i, j \in 1..n : i # j => a[i] # a[j]
       /\ \A i, j \in 1..n : i < j => a[i] < a[j]
  BY <1>9 DEF SetToSeqs
<1> HIDE DEF a
<1>11. ToSet(a) = S
  <2>1. a \in Injection(1..n, S)
    BY <1>10 DEF Injection, IsInjective
  <2>2. IsFiniteSet(1..n) /\ Cardinality(1..n) = n
    BY <1>1, FS_Interval
  <2>3. a \in Surjection(1..n, S)
    BY <2>1, <2>2, FS_Injection
  <2> QED BY <1>10, <2>3 DEF Surjection, ToSet
<1>12. a \in Seq(S) /\ Len(a) = n
  BY <1>1, <1>10
<1> QED BY <1>10, <1>11, <1>12 DEF a

-----------------------------------------------------------------------------
(* Sets of keys, and pages of them. *)

LEMMA KeySets ==
  ASSUME NEW S, S \subseteq StreamKeys \/ S \subseteq CurveKeys \/ S \subseteq Keys
  PROVE  /\ IsFiniteSet(S) /\ Cardinality(S) \in Nat
         /\ \A k \in S : k \in Int
<1>1. IsFiniteSet(Keys) /\ \A k \in Keys : k \in Int
  BY KeysAreNumbers, FS_Union DEF Keys
<1>2. S \in SUBSET Keys
  BY DEF Keys
<1> QED BY <1>1, <1>2, FS_Subset, FS_CardinalityType

\* A page holds as many as there is room for, unless the list ends on it.
LEMMA PageSound ==
  ASSUME NEW S, \A k \in S : k \in Int, IsFiniteSet(S),
         NEW from \in Nat, NEW size \in Nat
  PROVE  LET page == PageOf(S, from, size)
         IN  /\ page \subseteq S /\ IsFiniteSet(page)
             /\ Cardinality(page) \in Nat /\ Cardinality(page) <= size
             /\ \A k \in S : from + size <= Rank(k, S)
                  => Cardinality(page) = size /\ from + size < Cardinality(S)
<1> DEFINE page  == PageOf(S, from, size)
           place == [k \in page |-> Rank(k, S)]
           n     == Cardinality(S)
<1>1. /\ n \in Nat
      /\ \A k \in S : Rank(k, S) \in 0..(n - 1)
      /\ \A i \in 0..(n - 1) : \E k \in S : Rank(k, S) = i
      /\ \A j, k \in S : j < k => Rank(j, S) < Rank(k, S)
  BY RanksApart DEF Bijection, Injection, Surjection
<1>2. /\ page \in SUBSET S
      /\ \A k : k \in page <=> k \in S /\ Rank(k, S) \in from..(from + size - 1)
  BY DEF PageOf
<1>3. IsFiniteSet(page) /\ Cardinality(page) \in Nat
  BY <1>2, FS_Subset, FS_CardinalityType
<1> DEFINE Places == from..(from + size - 1)
<1>4. IsFiniteSet(Places) /\ Cardinality(Places) = size
  BY FS_Interval
<1>5. \A j, k \in page : Rank(j, S) = Rank(k, S) => j = k
  <2> TAKE j \in page, k \in page
  <2>1. j \in S /\ k \in S /\ (j < k \/ k < j \/ j = k)
    BY <1>2
  <2>2. Rank(j, S) \in Nat /\ Rank(k, S) \in Nat
    BY <1>1, <2>1
  <2> QED BY <1>1, <2>1, <2>2
<1> HIDE DEF page, n, Places
<1>6. place \in Injection(page, Places)
  <2>1. \A k \in page : Rank(k, S) \in Places
    BY <1>2 DEF Places
  <2> QED BY <1>5, <2>1 DEF Injection, IsInjective
<1>7. Cardinality(page) <= size
  <2> HIDE DEF place
  <2> QED BY <1>4, <1>6, FS_Injection
<1>8. ASSUME NEW k \in S, from + size <= Rank(k, S)
      PROVE  Cardinality(page) = size /\ from + size < n
  <2>1. Rank(k, S) \in Nat /\ Rank(k, S) < n
    BY <1>1
  <2>2. from + size < n
    BY <1>1, <1>8, <2>1
  <2>3. \A i \in Places : \E j \in page : Rank(j, S) = i
    <3> TAKE i \in Places
    <3>1. i \in 0..(n - 1)
      BY <1>1, <2>2 DEF Places
    <3>2. PICK j \in S : Rank(j, S) = i
      BY <1>1, <3>1
    <3>3. j \in page
      BY <1>2, <3>2 DEF Places
    <3> QED BY <3>2, <3>3
  <2>4. place \in Surjection(page, Places)
    BY <1>6, <2>3 DEF Surjection, Injection
  <2> HIDE DEF place
  <2>5. Cardinality(page) = size
    BY <1>4, <1>6, <2>4, FS_Injection
  <2> QED BY <2>2, <2>5
<1> QED BY <1>2, <1>3, <1>7, <1>8 DEF page, n

\* A list that all fits the page is on it.
LEMMA PageHoldsAll ==
  ASSUME NEW S, \A k \in S : k \in Int, IsFiniteSet(S),
         NEW size \in Nat, Cardinality(S) <= size
  PROVE  PageOf(S, 0, size) = S
<1>1. Cardinality(S) \in Nat /\ \A k \in S : Rank(k, S) \in 0..(Cardinality(S) - 1)
  BY RanksApart DEF Bijection, Injection
<1>2. \A k \in S : Rank(k, S) \in 0..(0 + size - 1)
  BY <1>1
<1> QED BY <1>2 DEF PageOf

\* What is appended to a list of streams.
LEMMA Appended ==
  ASSUME NEW T, NEW s \in Seq(T), NEW p \in Seq(T)
  PROVE  /\ s \o p \in Seq(T) /\ Len(s \o p) = Len(s) + Len(p)
         /\ ToSet(s \o p) = ToSet(s) \cup ToSet(p)
         /\ Once(s) /\ Once(p) /\ ToSet(s) \cap ToSet(p) = {} => Once(s \o p)
<1> DEFINE c == s \o p
           m == Len(s)
           n == Len(p)
<1>1. /\ m \in Nat /\ n \in Nat
      /\ c \in Seq(T) /\ Len(c) = m + n
      /\ \A i \in 1..(m + n) : c[i] = IF i <= m THEN s[i] ELSE p[i - m]
      /\ DOMAIN s = 1..m /\ DOMAIN p = 1..n /\ DOMAIN c = 1..(m + n)
  OBVIOUS
<1> HIDE DEF c, m, n
<1>2. \A i \in 1..m : i \in 1..(m + n) /\ c[i] = s[i]
  BY <1>1
<1>3. \A i \in 1..n : m + i \in 1..(m + n) /\ c[m + i] = p[i]
  BY <1>1
<1>4. \A i \in 1..(m + n) : i \in 1..m \/ \E j \in 1..n : i = m + j
  <2> TAKE i \in 1..(m + n)
  <2>1. CASE i <= m
    BY <1>1, <2>1
  <2>2. CASE ~(i <= m)
    <3>1. i - m \in 1..n /\ i = m + (i - m)
      BY <1>1, <2>2
    <3> QED BY <3>1
  <2> QED BY <2>1, <2>2
<1>5. ToSet(c) = ToSet(s) \cup ToSet(p)
  <2>1. /\ \A x : x \in ToSet(c) <=> \E i \in 1..(m + n) : x = c[i]
        /\ \A x : x \in ToSet(s) <=> \E i \in 1..m : x = s[i]
        /\ \A x : x \in ToSet(p) <=> \E i \in 1..n : x = p[i]
    BY <1>1, Zenon DEF ToSet
  <2>2. ASSUME NEW x \in ToSet(c) PROVE x \in ToSet(s) \cup ToSet(p)
    <3>1. PICK i \in 1..(m + n) : x = c[i]
      BY <2>1
    <3>2. CASE i \in 1..m
      BY <1>2, <2>1, <3>1, <3>2, Zenon
    <3>3. ASSUME NEW j \in 1..n, i = m + j PROVE x \in ToSet(p)
      <4>1. x = p[j]
        BY <1>3, <3>1, <3>3, Zenon
      <4> QED BY <2>1, <4>1, Zenon
    <3> QED BY <1>4, <3>1, <3>2, <3>3, Zenon
  <2>3. ASSUME NEW x \in ToSet(s) \cup ToSet(p) PROVE x \in ToSet(c)
    <3>1. CASE \E i \in 1..m : x = s[i]
      BY <1>2, <2>1, <3>1, Zenon
    <3>2. CASE \E i \in 1..n : x = p[i]
      BY <1>3, <2>1, <3>2, Zenon
    <3> QED BY <2>1, <3>1, <3>2
  <2> QED BY <2>2, <2>3
<1>6. ASSUME Once(s), Once(p), ToSet(s) \cap ToSet(p) = {}, NEW i \in 1..(m + n),
             NEW j \in 1..(m + n), i # j
      PROVE  c[i] # c[j]
  <2>1. \A a \in 1..m, b \in 1..n : s[a] # p[b]
    BY <1>1, <1>6 DEF ToSet
  <2>2. CASE i \in 1..m /\ j \in 1..m
    BY <1>2, <1>6, <2>2 DEF Once, m
  <2>3. CASE i \in 1..m /\ \E b \in 1..n : j = m + b
    BY <1>2, <1>3, <2>1, <2>3
  <2>4. CASE j \in 1..m /\ \E b \in 1..n : i = m + b
    BY <1>2, <1>3, <2>1, <2>4
  <2>5. ASSUME NEW a \in 1..n, i = m + a, NEW b \in 1..n, j = m + b
        PROVE  c[i] # c[j]
    BY <1>1, <1>3, <1>6, <2>5 DEF Once, n
  <2> QED BY <1>4, <2>2, <2>3, <2>4, <2>5
<1> QED BY <1>1, <1>5, <1>6 DEF Once, c, m, n

-----------------------------------------------------------------------------
(* The invariant. *)

LEMMA NothingFound == ToSet(<<>>) = {} /\ <<>> \in Seq(StreamKeys) /\ Len(<<>>) = 0
BY DEF ToSet

LEMMA InitIInv == Init => IInv
<1> SUFFICES ASSUME Init PROVE IInv
  OBVIOUS
<1>1. Cardinality({}) = 0
  BY FS_EmptySet
<1>2. TypeOK
  BY <1>1, NothingFound, AuditBoundsAreNat DEF Init, TypeOK
<1>3. PagesInv /\ CurvesInv
  BY NothingFound DEF Init, PagesInv, CurvesInv, ListedUnlessRemoved, Found
<1>4. StillInv
  BY NothingFound DEF Init, StillInv, Found, Once
<1> QED BY <1>2, <1>3, <1>4 DEF IInv

LEMMA BeginIInv == IInv /\ Begin => IInv'
<1> SUFFICES ASSUME IInv, Begin PROVE IInv'
  OBVIOUS
<1>1. Cardinality({}) = 0
  BY FS_EmptySet
<1>2. TypeOK'
  <2>1. counted' \in BOOLEAN /\ stored' \subseteq Keys
    BY Zenon DEF IInv, Begin, TypeOK
  <2> QED BY <1>1, <2>1, NothingFound, AuditBoundsAreNat DEF Begin, TypeOK
<1>3. PagesInv' /\ CurvesInv'
  BY NothingFound DEF Begin, PagesInv, CurvesInv, ListedUnlessRemoved, Found
<1>4. StillInv'
  BY NothingFound DEF Begin, StillInv, Found, Once
<1> QED BY <1>2, <1>3, <1>4 DEF IInv

\* A registration puts nothing before its place.
LEMMA RegisterIInv ==
  ASSUME IInv, NEW k \in Keys, Register(k)
  PROVE  IInv'
<1> USE DEF IInv
<1>1. /\ stored' = stored \cup {k} /\ ever' = ever \cup {k} /\ changes' = changes + 1
      /\ UNCHANGED <<counted, phase, offered, items, offset, listed, always, removed>>
  BY DEF Register, Changes, audit
<1>2. /\ stored \subseteq Keys /\ ever \subseteq Keys /\ ever' \subseteq Keys
      /\ changes \in Nat /\ changes' \in 0..MaxChanges
  <2>1. /\ stored \subseteq Keys /\ ever \subseteq Keys
        /\ changes \in 0..MaxChanges /\ changes < MaxChanges
    BY Zenon DEF TypeOK, Register, Changes
  <2> QED BY <1>1, <2>1, AuditBoundsAreNat
<1>3. Cardinality(ever) \in Nat /\ Cardinality(ever') \in Nat
      /\ Cardinality(ever) <= Cardinality(ever')
  <2>1. IsFiniteSet(ever') /\ ever \in SUBSET ever'
    BY <1>1, <1>2, KeySets
  <2> QED BY <1>2, <2>1, KeySets, FS_Subset
<1>4. TypeOK'
  <2>1. offset' = 0 \/ offset' < Cardinality(ever')
    <3>1. offset \in Nat /\ (offset = 0 \/ offset < Cardinality(ever))
      BY Zenon DEF TypeOK
    <3> QED BY <1>1, <1>3, <3>1
  <2> QED BY <1>1, <1>2, <2>1 DEF TypeOK
<1>5. PagesInv'
  <2>1. Streams \in SUBSET Streams' /\ IsFiniteSet(Streams')
    <3>1. Streams' \subseteq StreamKeys /\ Streams \subseteq Streams'
      BY <1>1 DEF Streams
    <3> QED BY <3>1, KeySets
  <2>2. \A j : Rank(j, Streams) \in Nat /\ Rank(j, Streams') \in Nat
               /\ Rank(j, Streams) <= Rank(j, Streams')
    BY <2>1, RankGrows
  <2>3. offset \in Nat
    BY DEF TypeOK
  <2>4. counted /\ ~removed /\ phase = "streams" =>
          \A j \in always \cap StreamKeys : j \in Found \/ offset <= Rank(j, Streams')
    BY <2>2, <2>3 DEF PagesInv
  <2> QED BY <1>1, <2>4 DEF PagesInv, Found, ListedUnlessRemoved
<1>6. StillInv'
  BY <1>1, <1>2 DEF StillInv
<1>7. CurvesInv'
  <2>1. /\ IsFiniteSet(ever' \cap CurveKeys) /\ ever \cap CurveKeys \in SUBSET (ever' \cap CurveKeys)
        /\ Cardinality(ever' \cap CurveKeys) \in Nat /\ Cardinality(ever \cap CurveKeys) \in Nat
    BY <1>1, KeySets
  <2>2. Cardinality(ever \cap CurveKeys) <= Cardinality(ever' \cap CurveKeys)
    BY <2>1, FS_Subset
  <2>3. Cardinality(ever' \cap CurveKeys) <= CurvePage => Cardinality(ever \cap CurveKeys) <= CurvePage
    BY <2>1, <2>2, AuditBoundsAreNat
  <2> QED BY <1>1, <2>3 DEF CurvesInv
<1> QED BY <1>4, <1>5, <1>6, <1>7

LEMMA DeregisterIInv ==
  ASSUME IInv, NEW k \in Keys, Deregister(k)
  PROVE  IInv'
<1> USE DEF IInv
<1>1. /\ stored' = stored \ {k} /\ always' = always \ {k} /\ changes' = changes + 1
      /\ removed' = (removed \/ k \in StreamKeys)
      /\ UNCHANGED <<counted, phase, offered, items, offset, listed, ever>>
  BY DEF Deregister, Changes, audit
<1>2. changes \in Nat /\ changes' \in 0..MaxChanges
  <2>1. changes \in 0..MaxChanges /\ changes < MaxChanges
    BY Zenon DEF TypeOK, Deregister, Changes
  <2> QED BY <1>1, <2>1, AuditBoundsAreNat
<1>3. TypeOK'
  BY <1>1, <1>2 DEF TypeOK
<1>4. PagesInv'
  <2>1. CASE k \in StreamKeys
    BY <1>1, <2>1 DEF PagesInv, ListedUnlessRemoved, Found
  <2>2. CASE k \notin StreamKeys
    <3>1. Streams' = Streams
      BY <1>1, <2>2 DEF Streams
    <3> QED BY <1>1, <2>2, <3>1 DEF PagesInv, ListedUnlessRemoved, Found
  <2> QED BY <2>1, <2>2
<1>5. StillInv'
  BY <1>1, <1>2 DEF StillInv
<1>6. CurvesInv'
  BY <1>1 DEF CurvesInv
<1> QED BY <1>3, <1>4, <1>5, <1>6

\* One more page.  The list ends there only if nothing is left of it.
LEMMA ListPageIInv == IInv /\ ListPage => IInv'
<1> SUFFICES ASSUME IInv, ListPage PROVE IInv'
  OBVIOUS
<1> USE DEF IInv
<1> DEFINE onPage == PageOf(Streams, offset, PageSize)
           page   == Ascending(onPage)
           done   == ~counted \/ AllOf(Len(items \o page)) \/ Len(page) < PageSize
           rank(k) == Rank(k, Streams)
<1>1. /\ phase = "streams" /\ items' = items \o page
      /\ phase' = IF done THEN "source curves" ELSE phase
      /\ offset' = IF done THEN offset ELSE offset + PageSize
      /\ UNCHANGED <<stored, counted, offered, listed, changes, always, ever, removed>>
  BY DEF ListPage
<1>2. /\ offset \in Nat /\ PageSize \in Nat \ {0} /\ offset = Len(items)
      /\ items \in Seq(StreamKeys) /\ Streams \subseteq StreamKeys /\ Streams' = Streams
      /\ always \cap StreamKeys \subseteq Streams /\ Streams \subseteq ever
  BY <1>1, AuditBoundsAreNat DEF TypeOK, Streams
<1>3. /\ IsFiniteSet(Streams) /\ Cardinality(Streams) \in Nat
      /\ \A k \in Streams : k \in Int /\ rank(k) \in Nat
  BY <1>2, KeySets, RankGrows
<1>4. /\ onPage \subseteq Streams /\ IsFiniteSet(onPage)
      /\ Cardinality(onPage) \in Nat /\ Cardinality(onPage) <= PageSize
      /\ \A k \in Streams : offset + PageSize <= rank(k)
           => Cardinality(onPage) = PageSize /\ offset + PageSize < Cardinality(Streams)
  BY <1>2, <1>3, PageSound
<1>5. \A k : k \in onPage <=> k \in Streams /\ rank(k) \in offset..(offset + PageSize - 1)
  BY DEF PageOf
<1> HIDE DEF onPage, rank
<1>6. /\ page \in Seq(StreamKeys) /\ Len(page) = Cardinality(onPage)
      /\ ToSet(page) = onPage /\ Once(page)
  <2>1. \A k \in onPage : k \in Int
    BY <1>3, <1>4
  <2>2. page \in Seq(onPage) /\ onPage \subseteq StreamKeys
    BY <1>2, <1>4, <2>1, AscendingSound
  <2> QED BY <1>4, <2>1, <2>2, AscendingSound DEF Once
<1> HIDE DEF page
<1>7. /\ items' \in Seq(StreamKeys) /\ Len(items') = offset + Cardinality(onPage)
      /\ Found' = Found \cup onPage
      /\ Once(items) /\ Found \cap onPage = {} => Once(items')
  <2>1. /\ items \o page \in Seq(StreamKeys) /\ Len(items \o page) = offset + Len(page)
        /\ ToSet(items \o page) = ToSet(items) \cup ToSet(page)
        /\ Once(items) /\ Once(page) /\ ToSet(items) \cap ToSet(page) = {} => Once(items \o page)
    BY <1>2, <1>6, Appended
  <2> QED BY <1>1, <1>6, <2>1, Zenon DEF Found
<1>8. /\ ~done => Cardinality(onPage) = PageSize /\ Len(items') < Cardinality(Streams)
      /\ done /\ counted => \A k \in Streams : rank(k) < offset + PageSize
  <2>1. done <=> ~counted \/ offset + Cardinality(onPage) >= Cardinality(Streams)
                          \/ Cardinality(onPage) < PageSize
    BY <1>1, <1>6, <1>7 DEF AllOf
  <2> HIDE DEF done
  <2> QED BY <1>2, <1>3, <1>4, <1>7, <2>1
<1> HIDE DEF done
<1>9. TypeOK'
  <2>1. IsFiniteSet(ever) /\ Streams \in SUBSET ever
    BY <1>2, KeySets DEF TypeOK
  <2>2. Cardinality(Streams) <= Cardinality(ever) /\ Cardinality(ever) \in Nat
    BY <2>1, FS_Subset, FS_CardinalityType
  <2>3. /\ offset' \in Nat /\ (offset' = 0 \/ offset' < Cardinality(ever'))
        /\ phase' = "streams" => offset' = Len(items')
    <3>1. offset = 0 \/ offset < Cardinality(ever)
      BY Zenon DEF TypeOK
    <3>2. CASE done
      BY <1>1, <1>2, <3>1, <3>2
    <3>3. CASE ~done
      <4>1. offset' = offset + PageSize /\ ever' = ever
        BY <1>1, <3>3
      <4> QED BY <1>2, <1>3, <1>7, <1>8, <2>2, <3>3, <4>1
    <3> QED BY <3>2, <3>3
  <2> QED BY <1>1, <1>7, <2>3 DEF TypeOK
<1>10. \A k \in Streams : offset <= rank(k) /\ rank(k) < offset + PageSize => k \in onPage
  BY <1>2, <1>3, <1>5
<1>11. PagesInv'
  <2>1. Found' \subseteq ever'
    BY <1>1, <1>2, <1>4, <1>7 DEF PagesInv
  <2>2. ASSUME counted, ~removed, NEW k \in always \cap StreamKeys
        PROVE  k \in Found' \/ (~done /\ offset' <= rank(k))
    <3>1. k \in Streams /\ (k \in Found \/ offset <= rank(k))
      BY <1>1, <1>2, <2>2 DEF PagesInv, rank
    <3>2. CASE rank(k) < offset + PageSize
      BY <1>7, <1>10, <3>1, <3>2
    <3>3. CASE ~(rank(k) < offset + PageSize)
      <4>1. ~done
        BY <1>8, <2>2, <3>1, <3>3
      <4>2. offset' = offset + PageSize
        BY <1>1, <4>1
      <4>3. rank(k) \in Nat
        BY <1>3, <3>1
      <4> QED BY <1>2, <3>3, <4>1, <4>2, <4>3
    <3> QED BY <3>2, <3>3
  <2> QED BY <1>1, <1>2, <2>1, <2>2 DEF PagesInv, ListedUnlessRemoved, rank
<1>12. StillInv'
  <2> SUFFICES ASSUME changes = 0
               PROVE  /\ Once(items')
                      /\ phase' = "streams" =>
                           Found' = {k \in Streams : rank(k) < offset'}
                      /\ counted /\ phase' # "streams" => Found' = Streams
    BY <1>1, <1>2 DEF StillInv, rank
  <2>1. Once(items) /\ Found = {k \in Streams : rank(k) < offset}
    BY <1>1 DEF StillInv, rank
  <2>2. Found \cap onPage = {}
    BY <1>2, <1>3, <1>5, <2>1
  <2>3. Found' = {k \in Streams : rank(k) < offset + PageSize}
    <3>1. \A k \in Streams : rank(k) < offset \/ rank(k) \in offset..(offset + PageSize - 1)
                               <=> rank(k) < offset + PageSize
      BY <1>2, <1>3
    <3> QED BY <1>5, <1>7, <2>1, <3>1
  <2> QED BY <1>1, <1>7, <1>8, <2>1, <2>2, <2>3
<1>13. CurvesInv'
  BY <1>1 DEF CurvesInv
<1> QED BY <1>9, <1>11, <1>12, <1>13
\* The inventory is in, and nothing has been listed.
LEMMA TakeInventoryIInv == IInv /\ TakeInventory => IInv'
<1> SUFFICES ASSUME IInv, TakeInventory PROVE IInv'
  OBVIOUS
<1> USE DEF IInv
<1>1. /\ phase = "inventory" /\ phase' = "streams" /\ offered' \subseteq StreamKeys
      /\ UNCHANGED <<stored, counted, items, offset, listed, changes, always, ever, removed>>
  BY DEF TakeInventory
<1>2. items = <<>> /\ offset = 0 /\ Found = {} /\ Found' = {}
  BY <1>1, NothingFound DEF PagesInv, Found
<1>3. /\ Streams' = Streams
      /\ \A k \in Streams : Rank(k, Streams) \in Nat
  <2>1. IsFiniteSet(Streams)
    BY KeySets DEF Streams
  <2> QED BY <1>1, <2>1, RankGrows DEF Streams
<1>4. TypeOK'
  BY <1>1, <1>2, NothingFound DEF TypeOK, Keys
<1>5. PagesInv'
  <2>1. \A k \in always \cap StreamKeys : 0 <= Rank(k, Streams)
    <3>1. always \cap StreamKeys \subseteq Streams
      BY DEF TypeOK, Streams
    <3> HIDE DEF IInv
    <3> QED BY <1>3, <3>1
  <2> QED BY <1>1, <1>2, <1>3, <2>1 DEF PagesInv, ListedUnlessRemoved
<1>6. StillInv'
  <2>1. {k \in Streams : Rank(k, Streams) < 0} = {}
    BY <1>3
  <2> QED BY <1>1, <1>2, <1>3, <2>1 DEF StillInv
<1>7. CurvesInv'
  BY <1>1 DEF CurvesInv
<1> QED BY <1>4, <1>5, <1>6, <1>7

LEMMA TakeCurvesIInv == IInv /\ TakeCurves => IInv'
<1> SUFFICES ASSUME IInv, TakeCurves PROVE IInv'
  OBVIOUS
<1> USE DEF IInv
<1>1. /\ phase = "source curves" /\ phase' = "curves"
      /\ \E keys \in SUBSET CurveKeys : offered' = offered \cup keys
      /\ UNCHANGED <<stored, counted, items, offset, listed, changes, always, ever, removed>>
  BY DEF TakeCurves
<1>2. TypeOK'
  BY <1>1 DEF TypeOK, Keys
<1>3. PagesInv'
  BY <1>1 DEF PagesInv, ListedUnlessRemoved, Found
<1>4. StillInv'
  BY <1>1 DEF StillInv, Found, Streams
<1>5. CurvesInv'
  BY <1>1 DEF CurvesInv
<1> QED BY <1>2, <1>3, <1>4, <1>5

\* The curves are asked for once, and a page may not hold them all.
LEMMA ListCurvesIInv == IInv /\ ListCurves => IInv'
<1> SUFFICES ASSUME IInv, ListCurves PROVE IInv'
  OBVIOUS
<1> USE DEF IInv
<1> DEFINE curves == stored \cap CurveKeys
           page   == PageOf(curves, 0, CurvePage)
<1>1. /\ phase = "curves" /\ phase' = "reported"
      /\ listed' = {page} \/ listed' = {}
      /\ UNCHANGED <<stored, counted, offered, items, offset, changes, always, ever, removed>>
  BY DEF ListCurves, Without
<1>2. /\ IsFiniteSet(curves) /\ IsFiniteSet(ever \cap CurveKeys)
      /\ \A k \in curves : k \in Int
      /\ Cardinality(curves) \in Nat /\ Cardinality(ever \cap CurveKeys) \in Nat
  BY KeySets
<1>3. always \subseteq stored /\ curves \in SUBSET (ever \cap CurveKeys)
  BY DEF TypeOK
<1>4. page \subseteq curves
  BY DEF PageOf
<1>5. Cardinality(ever \cap CurveKeys) <= CurvePage => page = curves
  <2>1. Cardinality(curves) <= Cardinality(ever \cap CurveKeys)
    BY <1>2, <1>3, FS_Subset
  <2>2. CurvePage \in Nat
    BY AuditBoundsAreNat
  <2> HIDE DEF curves
  <2>3. Cardinality(curves) <= CurvePage => PageOf(curves, 0, CurvePage) = curves
    BY <1>2, <2>2, PageHoldsAll
  <2> QED BY <1>2, <2>1, <2>2, <2>3
<1> HIDE DEF page
<1>6. TypeOK'
  <2>1. Cardinality({page}) = 1 /\ Cardinality({}) = 0
    BY FS_Singleton, FS_EmptySet
  <2>2. listed' \subseteq SUBSET CurveKeys /\ Cardinality(listed') <= 1
    BY <1>1, <1>4, <2>1
  <2> QED BY <1>1, <2>2 DEF TypeOK
<1>7. PagesInv'
  BY <1>1 DEF PagesInv, ListedUnlessRemoved, Found
<1>8. StillInv'
  BY <1>1 DEF StillInv, Found, Streams
<1>9. CurvesInv'
  BY <1>1, <1>3, <1>4, <1>5 DEF CurvesInv
<1> QED BY <1>6, <1>7, <1>8, <1>9

LEMMA NextIInv == IInv /\ [Next]_vars => IInv'
<1> SUFFICES ASSUME IInv, [Next]_vars PROVE IInv'
  OBVIOUS
<1>1. ASSUME NEW k \in Keys, Register(k) PROVE IInv'
  BY <1>1, RegisterIInv
<1>2. ASSUME NEW k \in Keys, Deregister(k) PROVE IInv'
  BY <1>2, DeregisterIInv
<1>3. CASE TakeInventory
  BY <1>3, TakeInventoryIInv
<1>4. CASE ListPage
  BY <1>4, ListPageIInv
<1>5. CASE TakeCurves
  BY <1>5, TakeCurvesIInv
<1>6. CASE ListCurves
  BY <1>6, ListCurvesIInv
<1>7. CASE Fail \/ Again
  BY <1>7, BeginIInv DEF Fail, Again
<1>8. CASE UNCHANGED vars
  BY <1>8 DEF vars, audit, IInv, TypeOK, PagesInv, ListedUnlessRemoved, StillInv, CurvesInv,
              Found, Streams
<1> QED BY <1>1, <1>2, <1>3, <1>4, <1>5, <1>6, <1>7, <1>8 DEF Next

LEMMA AlwaysIInv == Spec => []IInv
BY InitIInv, NextIInv, PTL DEF Spec

-----------------------------------------------------------------------------
\* Every page of streams but the last is full, none begins past the end, and
\* there is at most one answer about curves.
THEOREM TypeCorrect == Spec => []TypeOK
<1>1. IInv => TypeOK
  BY DEF IInv
<1> QED BY <1>1, AlwaysIInv, PTL

\* However many streams are registered while list_streams pages through them,
\* and wherever they land, each one that was there all along has been listed
\* when it ends, unless one was removed or the server does not count.
THEOREM NothingMissed == Spec => []ListedUnlessRemoved
<1>1. IInv => ListedUnlessRemoved
  BY DEF IInv, PagesInv
<1> QED BY <1>1, AlwaysIInv, PTL

\* As many places of a list hold streams of a group as there are such streams,
\* if it holds each stream once.
LEMMA CountedOnce ==
  ASSUME TypeOK, Once(items), NEW g
  PROVE  Registered(g) = Cardinality({k \in Found : GroupInPath[k] = g})
<1> DEFINE A == {i \in DOMAIN items : GroupInPath[items[i]] = g}
           B == {k \in Found : GroupInPath[k] = g}
           f == [i \in A |-> items[i]]
<1>1. /\ Len(items) \in Nat /\ DOMAIN items = 1..Len(items)
      /\ \A k : k \in Found <=> \E i \in 1..Len(items) : k = items[i]
  <2>1. items \in Seq(StreamKeys)
    BY DEF TypeOK
  <2> QED BY <2>1 DEF Found, ToSet
<1>2. IsFiniteSet(A)
  <2>1. A \in SUBSET (1..Len(items)) /\ IsFiniteSet(1..Len(items))
    BY <1>1, FS_Interval
  <2> QED BY <2>1, FS_Subset
<1>3. f \in Bijection(A, B)
  <2>1. \A i \in A : items[i] \in B
    BY <1>1
  <2>2. \A i, j \in A : items[i] = items[j] => i = j
    BY <1>1 DEF Once
  <2>3. \A k \in B : \E i \in A : items[i] = k
    BY <1>1
  <2> HIDE DEF A, B
  <2> QED BY <2>1, <2>2, <2>3 DEF Bijection, Injection, Surjection, IsInjective
<1> HIDE DEF f
<1>4. Cardinality(A) = Cardinality(B)
  <2>1. ExistsBijection(A, B)
    BY <1>3 DEF ExistsBijection
  <2> HIDE DEF A, B
  <2> QED BY <1>2, <2>1, FS_Bijection
<1> QED BY <1>4 DEF Registered

\* What compare reports is so: nothing is called orphaned or unregistered that
\* is not, and nothing is left out, as far as the server lets the audit see.
THEOREM ReportTrue == Spec => []FindingsTrue
<1>1. IInv => FindingsTrue
  <2> SUFFICES ASSUME IInv, phase = "reported" PROVE FindingsTrue
    BY DEF FindingsTrue
  <2>1. /\ items \in Seq(StreamKeys) /\ offered \subseteq Keys
        /\ listed \subseteq SUBSET CurveKeys /\ always \subseteq ever
    BY DEF IInv, TypeOK
  <2>2. Found \subseteq ever /\ Found \subseteq StreamKeys
    BY <2>1 DEF IInv, PagesInv, Found, ToSet
  <2>3. counted /\ ~removed => always \cap StreamKeys \subseteq Found
    BY DEF IInv, PagesInv, ListedUnlessRemoved
  <2>4. SourceGroups \subseteq Groups
    BY DEF Groups
  <2>5. ASSUME NEW g
        PROVE  /\ Orphaned(g) \subseteq ever \ offered
               /\ {k \in Candidates \ ever : GroupAtSource[k] = g} \subseteq Unregistered(g)
               /\ counted /\ ~removed =>
                    /\ Unregistered(g) \cap always = {}
                    /\ {k \in (always \cap StreamKeys) \ offered : GroupInPath[k] = g}
                         \subseteq Orphaned(g)
    BY <2>2, <2>3 DEF Orphaned, Unregistered, Candidates
  <2>6. ASSUME counted, changes = 0, NEW g
        PROVE  Registered(g) = Cardinality({k \in Streams : GroupInPath[k] = g})
    <3>1. Once(items) /\ Found = Streams
      BY <2>6 DEF IInv, StillInv
    <3>2. Registered(g) = Cardinality({k \in Found : GroupInPath[k] = g})
      BY <3>1, CountedOnce DEF IInv
    <3> QED BY <3>1, <3>2
  <2>7. /\ CurvesOrphaned \subseteq ever \ offered
        /\ Cardinality(ever \cap CurveKeys) <= CurvePage => CurvesUnregistered \cap always = {}
        /\ listed # {} => (offered \cap CurveKeys) \ ever \subseteq CurvesUnregistered
    <3>1. \A keys \in listed :
            /\ keys \subseteq ever
            /\ Cardinality(ever \cap CurveKeys) <= CurvePage => always \cap CurveKeys \subseteq keys
      BY DEF IInv, CurvesInv
    <3>2. CurvesOrphaned \subseteq ever \ offered
      BY <3>1 DEF CurvesOrphaned
    <3>3. Cardinality(ever \cap CurveKeys) <= CurvePage => CurvesUnregistered \cap always = {}
      BY <3>1, Zenon DEF CurvesUnregistered
    <3>4. listed # {} => (offered \cap CurveKeys) \ ever \subseteq CurvesUnregistered
      <4>1. ASSUME NEW k \in (offered \cap CurveKeys) \ ever, NEW keys \in listed
            PROVE  k \in CurvesUnregistered
        <5>1. k \in (offered \cap CurveKeys) \ keys
          BY <3>1, <4>1
        <5> QED BY <4>1, <5>1, Zenon DEF CurvesUnregistered
      <4> QED BY <4>1
    <3> QED BY <3>2, <3>3, <3>4
  <2> QED BY <2>4, <2>5, <2>6, <2>7 DEF FindingsTrue
<1> QED BY <1>1, AlwaysIInv, PTL
=============================================================================
