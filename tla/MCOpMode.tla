------------------------------- MODULE MCOpMode -------------------------------
(***************************************************************************)
(* Instances of OpMode for TLC.  The configurations give all constants     *)
(* their values; this module adds the symmetry of the tokens.              *)
(***************************************************************************)
EXTENDS OpMode, TLC

TokenSymmetry == Permutations(Tokens)
=============================================================================
