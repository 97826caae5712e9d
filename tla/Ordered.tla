------------------------------- MODULE Ordered -------------------------------
(***************************************************************************)
(* Sets of ids as the server lists them, in ascending order.               *)
(***************************************************************************)
EXTENDS Integers, SequencesExt

\* The place of an id in the order, the first being 0.
Rank(k, keys) == Cardinality({j \in keys : j < k})

Ascending(keys) ==
  CHOOSE s \in SetToSeqs(keys) : \A i, j \in DOMAIN s : i < j => s[i] < s[j]
=============================================================================
