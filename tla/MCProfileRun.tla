------------------------------ MODULE MCProfileRun ------------------------------
(* ProfileRun has no bounds: all of its states are checked. *)
EXTENDS ProfileRun
=============================================================================
