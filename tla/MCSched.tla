------------------------------ MODULE MCSched ------------------------------
(* TLC instances of the scheduler. *)
EXTENDS SchedRefinement, SchedInv
=============================================================================
