---------------------------- MODULE PrefixReplica ----------------------------
(***************************************************************************)
(* What the append path promises, with nothing of how: the server's copy   *)
(* of a stream is always the source's history up to some instant, whole    *)
(* instants only, and it catches up.                                       *)
(***************************************************************************)
EXTENDS Naturals

CONSTANTS Streams, Rows

VARIABLES source,   \* the rows each stream's source holds
          copy      \* the rows of each stream the server has ruled on

vars == <<source, copy>>

\* `part` holds, of every instant up to its newest, all that `whole` holds.
IsTimePrefix(part, whole) ==
  /\ part \subseteq whole
  /\ \A q \in part, r \in whole : r.time <= q.time => r \in part

Init ==
  /\ source = [s \in Streams |-> {}]
  /\ copy   = [s \in Streams |-> {}]

\* The source only ever grows at its newest end.
Grow(s) ==
  \E more \in SUBSET Rows :
    /\ more # {}
    /\ \A q \in more, r \in source[s] : r.time < q.time
    /\ source' = [source EXCEPT ![s] = @ \cup more]
    /\ UNCHANGED copy

CopyMore(s) ==
  \E more \in SUBSET source[s] :
    /\ IsTimePrefix(copy[s] \cup more, source[s])
    /\ copy' = [copy EXCEPT ![s] = @ \cup more]
    /\ UNCHANGED source

Next == \E s \in Streams : Grow(s) \/ CopyMore(s)

Spec == Init /\ [][Next]_vars

\* The promise as an invariant.
CopyIsPrefix == \A s \in Streams : IsTimePrefix(copy[s], source[s])
=============================================================================
