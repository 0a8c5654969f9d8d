----------------------------- MODULE MCTransfer -----------------------------
(***************************************************************************)
(* Instances of Transfer for TLC.  One artifact is enough: neither locks   *)
(* nor stores of different ids interact.  `x` is a Worker the Controller   *)
(* has no client for, so it is neither a source nor a target.              *)
(***************************************************************************)
EXTENDS Transfer, TLC

CONSTANTS t1, t2, t3, r1, r2, a1, wa, wb, wc, x

Copies(good, bad) ==
  [w \in Workers |-> [a \in Artifacts |->
     IF w \in good THEN "good" ELSE IF w \in bad THEN "bad" ELSE "none"]]

MCArtifactOf == [r \in Refs |-> a1]

(* Two references to one artifact, copies of the object made by the        *)
(* callers; the first lists an unreachable holder before a reachable one.  *)
IntactLocations == (r1 :> <<x, wa>>) @@ (r2 :> <<wa>>)
IntactStore == Copies({x, wa}, {})

(* The references disagree on where the artifact is, and the copy the      *)
(* first one names does not have the declared size.                        *)
CorruptLocations == (r1 :> <<wa>>) @@ (r2 :> <<wb>>)
CorruptStore == Copies({wb}, {wa})

CallSymmetry == Permutations(Tasks)
=============================================================================
