------------------------------ MODULE MCRestServer -----------------------------
(***************************************************************************)
(* Instances of RestServer for TLC.                                        *)
(***************************************************************************)
EXTENDS RestServer, TLC
=============================================================================
