------------------------------- MODULE Lineage -------------------------------
(***************************************************************************)
(* What the reference sweeps read out of a run's trace: which transfers    *)
(* and executions took place, which depends on which, which artifact was   *)
(* derived from which, and whether this evidence is complete               *)
(* (scope_expansion_v0.py and calibration_v0.py; longbench_v2.py imports   *)
(* the former).                                                            *)
(*                                                                         *)
(* The readers look events up by type, action and artifact, and a Worker   *)
(* gets an artifact once, so a trace is a set of events                    *)
(*   [kind, action, artifacts, worker, from]                               *)
(* and a transfer is named by its consumer and its artifact instead of a   *)
(* running number.                                                         *)
(***************************************************************************)
EXTENDS Integers, SequencesExt

OfKind(events, kind) == {e \in events : e.kind = kind}

(* The action that made an artifact; initial artifacts have none. *)
IsProduced(events, artifact) ==
  \E e \in OfKind(events, "artifact.created") : artifact \in e.artifacts
Producer(events, artifact) ==
  (CHOOSE e \in OfKind(events, "artifact.created") : artifact \in e.artifacts).action

Request(events, action) ==
  CHOOSE e \in OfKind(events, "execution.request") : e.action = action
-----------------------------------------------------------------------------
(* The rows. *)

TransferId(consumer, artifact) == <<"transfer", consumer, artifact>>
ActionId(action) == <<"action", action, action>>

(* One row per transfer that moved bytes. *)
TransferRows(events) ==
  UNION {{[id       |-> TransferId(e.action, a),
           artifact |-> a,
           consumer |-> e.action,
           from     |-> e.from,
           to       |-> e.worker,
           depends  |-> IF IsProduced(events, a) THEN {ActionId(Producer(events, a))} ELSE {}]
          : a \in e.artifacts} : e \in OfKind(events, "artifact.transfer.end")}

\* Bug variant: an input that was moved still depends on its producer.
DependencyBug(events, action, artifact) ==
  IF IsProduced(events, artifact) THEN {ActionId(Producer(events, artifact))}
  ELSE IF \E t \in TransferRows(events) : t.consumer = action /\ t.artifact = artifact
  THEN {TransferId(action, artifact)}
  ELSE {}

(* An input that was moved for the action makes it depend on the transfer, *)
(* any other one on its producer.                                          *)
Dependency(events, action, artifact) ==
  IF \E t \in TransferRows(events) : t.consumer = action /\ t.artifact = artifact
  THEN {TransferId(action, artifact)}
  ELSE IF IsProduced(events, artifact) THEN {ActionId(Producer(events, artifact))}
  ELSE {}

(* One row per execution that ended well. *)
ExecutionRows(events) ==
  {LET inputs == Request(events, e.action).artifacts
   IN [id      |-> ActionId(e.action),
       action  |-> e.action,
       worker  |-> e.worker,
       inputs  |-> inputs,
       outputs |-> e.artifacts,
       depends |-> UNION {Dependency(events, e.action, a) : a \in inputs}]
   : e \in OfKind(events, "worker.execution.end")}

(* Who made an input, and what was derived from it. *)
LineageRows(executions, initial) ==
  UNION {{[input    |-> a,
           producer |-> IF \E p \in executions : a \in p.outputs
                        THEN (CHOOSE p \in executions : a \in p.outputs).worker
                        ELSE initial[a],
           consumer |-> e.worker,
           derived  |-> e.outputs] : a \in e.inputs} : e \in executions}
-----------------------------------------------------------------------------
(* The checks of calibration_v0 before it calls the dependency evidence    *)
(* complete; scope_expansion_v0 claims completeness without checking.      *)

(* Where an input comes from and goes to has to agree with its transfer,   *)
(* and only an input that stays at its site may lack one.                  *)
InputExplained(x, a, executions, transfers, initial, Site) ==
  LET moves == {t \in transfers : t.consumer = x.action /\ t.artifact = a}
      makers == {y \in executions : a \in y.outputs}
      origin == IF a \in DOMAIN initial THEN {Site[initial[a]]}
                ELSE {Site[y.worker] : y \in makers}
      Fits(t) == /\ t.id \in x.depends
                 /\ {Site[t.from]} = origin
                 /\ Site[t.to] = Site[x.worker]
  IN IF a \in DOMAIN initial
     THEN origin = {Site[x.worker]} \/ \E t \in moves : Fits(t)
     ELSE /\ makers # {}
          /\ IF moves # {}
             THEN \A t \in moves : Fits(t) /\ t.depends = {y.id : y \in makers}
             ELSE /\ {y.id : y \in makers} \subseteq x.depends
                  /\ origin = {Site[x.worker]}

(* A transfer serves an input of its consumer and comes from the right     *)
(* place.                                                                  *)
TransferExplained(t, executions, initial, Site) ==
  \E x \in executions :
     /\ x.action = t.consumer
     /\ t.artifact \in x.inputs
     /\ t.id \in x.depends
     /\ IF t.artifact \in DOMAIN initial
        THEN Site[t.from] = Site[initial[t.artifact]] /\ Site[t.to] = Site[x.worker]
        ELSE \E y \in executions : t.artifact \in y.outputs /\ y.id \in t.depends

DependenciesComplete(events, initial, Site) ==
  LET executions == ExecutionRows(events)
      transfers == TransferRows(events)
      known == {x.id : x \in executions} \cup {t.id : t \in transfers}
  IN /\ \A x \in executions : x.depends \subseteq known
     /\ \A t \in transfers : t.depends \subseteq known
     /\ \A x \in executions : \A a \in x.inputs :
           InputExplained(x, a, executions, transfers, initial, Site)
     /\ \A t \in transfers : TransferExplained(t, executions, initial, Site)
-----------------------------------------------------------------------------
(* The time covered by a set of intervals <<start, end>>: they are merged  *)
(* in the order of their starts.                                           *)
Merge(acc, i) ==
  IF i[1] <= acc.end
  THEN [acc EXCEPT !.end = IF i[2] > @ THEN i[2] ELSE @]
  ELSE [total |-> acc.total + (acc.end - acc.start), start |-> i[1], end |-> i[2]]

IntervalUnion(intervals) ==
  IF intervals = <<>> THEN 0
  ELSE LET sorted == SortSeq(intervals, LAMBDA i, j : i[1] < j[1] \/ (i[1] = j[1] /\ i[2] < j[2]))
           last == FoldLeft(Merge, [total |-> 0, start |-> sorted[1][1], end |-> sorted[1][2]],
                            Tail(sorted))
       IN last.total + (last.end - last.start)
==============================================================================
