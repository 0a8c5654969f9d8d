----------------------------- MODULE MCCodeRun -----------------------------
(***************************************************************************)
(* Instances of CodeRun for TLC.                                           *)
(***************************************************************************)
EXTENDS CodeRun

CONSTANTS c1, c2, c3, c4, f, g, n
=============================================================================
