-------------------------- MODULE MCRunDirectory --------------------------
(***************************************************************************)
(* The instance of RunDirectory for TLC.                                   *)
(***************************************************************************)
EXTENDS RunDirectory

CONSTANTS p1, p2, p3
============================================================================
