--------------------------- MODULE MCBatchedIngest ---------------------------
(* Payloads over three instants, the middle one with three replicates: short *)
(* ones in every order, long ones forwards and backwards.                    *)
EXTENDS BatchedIngest, SequencesExt

MCRows == {[time |-> t, index |-> i] : t \in 1..3, i \in 0..2}
            \ {[time |-> t, index |-> i] : t \in {1, 3}, i \in 1..2}

MCPayloads ==
  UNION {IF Cardinality(S) <= 3
           THEN SetToSeqs(S)
           ELSE {SetToSeq(S), Reverse(SetToSeq(S))} : S \in SUBSET MCRows}

MCBatchSizes == 0..4

MCAuditSets == {{1, 3}, {0, 2, 4}}
=============================================================================
