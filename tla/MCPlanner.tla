----------------------------- MODULE MCPlanner -----------------------------
(***************************************************************************)
(* Instances of Planner for TLC.                                           *)
(***************************************************************************)
EXTENDS Planner

CONSTANTS c1, c2, c3, i1
=============================================================================
