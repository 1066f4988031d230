----------------------------- MODULE MCBarrier ------------------------------
(***************************************************************************)
(* The controller with its convergence barrier.                            *)
(***************************************************************************)
EXTENDS Barrier, Instances
=============================================================================
