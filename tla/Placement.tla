----------------------------- MODULE Placement -----------------------------
(***************************************************************************)
(* What artifact localisation promises, without locks, pulls or retries.   *)
(*                                                                         *)
(* `copies` is the set of intact artifact copies in Worker stores,         *)
(* `placed` what the Controller's references say about where copies are,   *)
(* `granted` the localisation calls answered "the target has it" and       *)
(* `refused` the ones answered with an error.  A copy is made only from    *)
(* another copy, a location is recorded only where there is a copy, and a  *)
(* call is granted only at a recorded location.  Nothing is ever taken     *)
(* back: this is what lets an executor read its inputs long after the      *)
(* call that placed them has returned.                                     *)
(***************************************************************************)
CONSTANTS Tasks,       \* localisation calls
          Refs,        \* artifact references (Python objects) of the Controller
          Artifacts,   \* artifact ids
          Workers,     \* Worker ids
          ArtifactOf   \* ArtifactOf[r] is the id reference r carries

VARIABLES copies,      \* subset of Artifacts \X Workers
          placed,      \* subset of Refs \X Workers
          granted,     \* subset of Tasks \X Refs \X Workers
          refused      \* subset of Tasks

vars == <<copies, placed, granted, refused>>

Init ==
  /\ copies \in SUBSET (Artifacts \X Workers)
  /\ placed \in SUBSET (Refs \X Workers)
  /\ \A p \in placed : <<ArtifactOf[p[1]], p[2]>> \in copies
  /\ granted = {}
  /\ refused = {}

Answered(t) == t \in refused \/ \E g \in granted : g[1] = t

\* A Worker obtains a copy from a Worker that has one.
Replicate(a, w) ==
  /\ \E v \in Workers : <<a, v>> \in copies
  /\ copies' = copies \cup {<<a, w>>}
  /\ UNCHANGED <<placed, granted, refused>>

\* A reference learns of a copy that exists.
Publish(r, w) ==
  /\ <<ArtifactOf[r], w>> \in copies
  /\ placed' = placed \cup {<<r, w>>}
  /\ UNCHANGED <<copies, granted, refused>>

\* A call is answered positively; the location it relies on may be recorded
\* by the same step.
Grant(t, r, w) ==
  /\ ~Answered(t)
  /\ <<ArtifactOf[r], w>> \in copies
  /\ placed' = placed \cup {<<r, w>>}
  /\ granted' = granted \cup {<<t, r, w>>}
  /\ UNCHANGED <<copies, refused>>

Refuse(t) ==
  /\ ~Answered(t)
  /\ refused' = refused \cup {t}
  /\ UNCHANGED <<copies, placed, granted>>

Next ==
  \/ \E a \in Artifacts, w \in Workers : Replicate(a, w)
  \/ \E r \in Refs, w \in Workers : Publish(r, w)
  \/ \E t \in Tasks, r \in Refs, w \in Workers : Grant(t, r, w)
  \/ \E t \in Tasks : Refuse(t)

Spec == Init /\ [][Next]_vars
============================================================================
