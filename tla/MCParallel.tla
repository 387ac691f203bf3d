------------------------------ MODULE MCParallel ------------------------------
(* Instances of Parallel for TLC. *)
EXTENDS Parallel

CONSTANTS k1, k2
TwoKeys == {k1, k2}
=============================================================================
