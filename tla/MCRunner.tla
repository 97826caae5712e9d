------------------------------- MODULE MCRunner -------------------------------
(* The runner with a queue of one, so that it fills.                         *)
EXTENDS Runner
=============================================================================
