-------------------------------- MODULE MC ----------------------------------
(***************************************************************************)
(* The controller by itself.                                               *)
(***************************************************************************)
EXTENDS Controller, Instances

\* The whole chain, standing on one key of its foot or on the other.
ChainSwitches == {d \in DesiredSnapshot : Cardinality(DOMAIN d) = 3}
=============================================================================
