--------------------------- MODULE MCAppendIngest ---------------------------
(* Instances of the append path small enough to enumerate.                  *)
EXTENDS AppendIngest

\* The last instant's second replicate is refused by the server.
MCInadmissible == {r \in Rows : r.time = 2 /\ r.index = 2}
=============================================================================
