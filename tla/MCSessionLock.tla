----------------------------- MODULE MCSessionLock -----------------------------
(***************************************************************************)
(* Instances of SessionLock for TLC.                                       *)
(***************************************************************************)
EXTENDS SessionLock, TLC

\* Keys and logins are interchangeable; people are, too.
KeySymmetry == Permutations(Keys) \cup Permutations(People) \cup Permutations(Logins)
=============================================================================
