------------------------------ MODULE MCSweep ------------------------------
(***************************************************************************)
(* The instance of Sweep for TLC.                                          *)
(***************************************************************************)
EXTENDS Sweep

CONSTANTS s1, s2
============================================================================
