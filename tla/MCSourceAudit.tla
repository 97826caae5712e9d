--------------------------- MODULE MCSourceAudit ---------------------------
(* Four streams on pages of two, in two groups and none, one group without a *)
(* channel; two curves on a page of one.                                     *)
EXTENDS SourceAudit

MCSourceGroups == {"north", "south", "bare"}

MCGroupAtSource == <<"north", "south", "north", "">>
MCGroupInPath   == <<"north", "south", "south", "">>
=============================================================================
