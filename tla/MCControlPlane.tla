---------------------------- MODULE MCControlPlane ----------------------------
(* A cadence that is set, to less than the floor, and cleared; no other bound. *)
EXTENDS ControlPlane
=============================================================================
