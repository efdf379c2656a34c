----------------------------- MODULE MCConfSession -----------------------------
(***************************************************************************)
(* Instances of ConfSession for TLC.                                       *)
(***************************************************************************)
EXTENDS ConfSession, TLC

\* Users, ids and values are interchangeable.
ConfSymmetry == Permutations(Users) \cup Permutations(Ids) \cup Permutations(Values)
=============================================================================
