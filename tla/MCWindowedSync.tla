---------------------------- MODULE MCWindowedSync ----------------------------
(* The windowed path over one stream: a row with and without its annotation, *)
(* its correction beside one more row, and a source that holds nothing.      *)
EXTENDS WindowedSync

CONSTANTS k1, k2, v1, v2, n1

Old == [key |-> k1, value |-> v1]
New == [key |-> k1, value |-> v2]
More == [key |-> k2, value |-> v1]

MCContents == {[rows |-> {Old}, notes |-> {}], [rows |-> {Old}, notes |-> {n1}],
               [rows |-> {New, More}, notes |-> {}], [rows |-> {}, notes |-> {}]}

MCInitially == {[rows |-> {Old}, notes |-> {}]}
=============================================================================
