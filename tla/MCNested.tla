------------------------------ MODULE MCNested ------------------------------
(***************************************************************************)
(* The controller with a nested one in each of its lifetimes.              *)
(***************************************************************************)
EXTENDS Nested, Instances
=============================================================================
