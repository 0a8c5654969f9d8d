------------------------------ MODULE Selection ------------------------------
(***************************************************************************)
(* Where a call runs: the three schedulers of model invocations            *)
(* (scheduler/fixed.py, round_robin.py, resource_aware.py) over the        *)
(* executor registry, the transfer estimate of the static resource         *)
(* provider, and the choice of a Worker for a record or media operator     *)
(* (ExecutionManager.select_media_worker).                                 *)
(***************************************************************************)
EXTENDS Integers, SequencesExt, Ordering

CONSTANTS
  Replicas,     \* the executors in declaration order: [id, model, worker];
                \* ids are numbers, ordered like the executors' names
  Assigned,     \* Assigned[m]: the executor FixedScheduler maps model m to
  WorkerOrder,  \* the Workers in the order of their names
  Site,         \* Site[w]: the site of Worker w
  Links         \* measured links in the provider's order:
                \* [from, to, rtt, per_byte, bidirectional]

Workers == ToSet(WorkerOrder)
Executors == ToSet(Replicas)
Models == {e.model : e \in Executors}

Unreachable == 1000   \* float("inf"): larger than any sum of real estimates

ASSUME SelectionAssumption ==
  /\ WorkerOrder \in Seq(Workers) /\ IsInjective(WorkerOrder)
  /\ Replicas \in Seq(Executors)
  /\ \A e \in Executors : e.worker \in Workers
  /\ \A i, j \in DOMAIN Replicas : Replicas[i].id = Replicas[j].id => i = j
  /\ \A m \in DOMAIN Assigned :
        \E e \in Executors : e.id = Assigned[m] /\ e.model = m
  /\ Workers \subseteq DOMAIN Site
-----------------------------------------------------------------------------
(* The registry and the fixed scheduler. *)

Executor(id) == CHOOSE e \in Executors : e.id = id

Serves(m, e) == e.model = m

ModelCandidates(m) == Those(Replicas, {i \in DOMAIN Replicas : Serves(m, Replicas[i])})

IsFixed(e, m) == m \in DOMAIN Assigned /\ e = Executor(Assigned[m])

(* Each model has an index of its own; an absent entry counts as 0. *)
IsNextInTurn(e, m, indices) ==
  /\ ModelCandidates(m) # <<>>
  /\ e = ModelCandidates(m)[(indices[m] % Len(ModelCandidates(m))) + 1]

\* Bug variant: the last replica is never reached.
RotatedIndicesBug(m, indices) ==
  [indices EXCEPT ![m] = IF @ + 2 < Len(ModelCandidates(m)) THEN @ + 1 ELSE 0]

RotatedIndices(m, indices) ==
  [indices EXCEPT ![m] = (@ + 1) % Len(ModelCandidates(m))]
-----------------------------------------------------------------------------
(* The estimate of the resource provider.  An artifact is described by its *)
(* size and the list of the Workers that have it.                          *)

Connects(link, s, t) ==
  \/ link.from = s /\ link.to = t
  \/ link.bidirectional /\ link.from = t /\ link.to = s

(* Nothing is charged within a site; the first link that fits counts. *)
LinkCost(source, target, size) ==
  LET fits == {i \in DOMAIN Links : Connects(Links[i], Site[source], Site[target])}
  IN IF Site[source] = Site[target] THEN 0
     ELSE IF fits = {} THEN Unreachable
     ELSE Links[Min(fits)].rtt + size * Links[Min(fits)].per_byte

ArtifactCost(artifact, target) ==
  IF target \in ToSet(artifact.locations) THEN 0
  ELSE LET known == ToSet(artifact.locations) \cap DOMAIN Site
       IN IF known = {} THEN Unreachable
          ELSE Min({LinkCost(source, target, artifact.size) : source \in known})

TransferEstimate(artifacts, target) ==
  FoldLeft(LAMBDA total, a : total + ArtifactCost(a, target), 0, artifacts)

(* The replica that is cheapest to feed, the least id among equals. *)
Cheaper(e, f, artifacts) ==
  LET x == TransferEstimate(artifacts, e.worker)
      y == TransferEstimate(artifacts, f.worker)
  IN x < y \/ (x = y /\ e.id < f.id)
IsCheapest(e, m, artifacts) ==
  /\ Serves(m, e)
  /\ \A f \in Executors \ {e} : Serves(m, f) => Cheaper(e, f, artifacts)
  /\ TransferEstimate(artifacts, e.worker) < Unreachable

(* The executor that is selected; none when there is no replica, or none   *)
(* that can be reached (NoExecutorAvailableError).                         *)
Selected(policy, m, artifacts, indices) ==
  {e \in Executors :
     CASE policy = "fixed"          -> IsFixed(e, m)
       [] policy = "round_robin"    -> IsNextInTurn(e, m, indices)
       [] policy = "resource_aware" -> IsCheapest(e, m, artifacts)}
-----------------------------------------------------------------------------
(* The Worker of an operator call without a target: of the Workers that    *)
(* answered and offer the operator, the one that has most input bytes,     *)
(* the first by name among equals.                                         *)

LocalBytes(artifacts, w) ==
  FoldLeft(LAMBDA total, a :
             total + IF w \in ToSet(a.locations) THEN a.size ELSE 0,
           0, artifacts)

NameRank(w) == CHOOSE i \in DOMAIN WorkerOrder : WorkerOrder[i] = w

MediaWorker(artifacts, candidates) ==
  {w \in candidates :
    \A v \in candidates \ {w} :
       \/ LocalBytes(artifacts, v) < LocalBytes(artifacts, w)
       \/ /\ LocalBytes(artifacts, v) = LocalBytes(artifacts, w)
          /\ NameRank(w) < NameRank(v)}
=============================================================================
