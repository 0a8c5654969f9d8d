---------------------------- MODULE TraceProofs ----------------------------
(***************************************************************************)
(* Proofs about the traces of the reference workflows: the turns of the    *)
(* replicas, the evidence that the sweeps read out of the events, the      *)
(* lineage they derive from it; and about the records that the distributed *)
(* plan gives to its final model.                                          *)
(***************************************************************************)
EXTENDS WorkflowProofs
-----------------------------------------------------------------------------
(* Round robin.  The candidates of a model are its replicas, each of them  *)
(* once; those before the index have had one turn more than the others.    *)

\* Replicas are told apart by their ids.
LEMMA Identified ==
  /\ IsInjective(Replicas) /\ DOMAIN Replicas = 1..Len(Replicas) /\ Len(Replicas) \in Nat
  /\ Executors = {Replicas[i] : i \in DOMAIN Replicas}
  /\ \A e, f \in Executors : e.id = f.id => e = f
<1>1. /\ Replicas \in Seq(Executors)
      /\ \A i, j \in DOMAIN Replicas : Replicas[i].id = Replicas[j].id => i = j
  BY SelectionAssumption
<1>2. Executors = {Replicas[i] : i \in DOMAIN Replicas}
  BY DEF Executors, ToSet
<1>3. DOMAIN Replicas = 1..Len(Replicas) /\ Len(Replicas) \in Nat
  BY <1>1
<1>4. IsInjective(Replicas)
  BY <1>1 DEF IsInjective
<1>5. \A e, f \in Executors : e.id = f.id => e = f
  BY <1>1, <1>2
<1> QED
  BY <1>2, <1>3, <1>4, <1>5

LEMMA Candidates ==
  ASSUME NEW m
  PROVE  /\ ModelCandidates(m) \in Seq(Executors) /\ Len(ModelCandidates(m)) \in Nat
         /\ DOMAIN ModelCandidates(m) = 1..Len(ModelCandidates(m))
         /\ IsInjective(ModelCandidates(m))
         /\ \A j \in 1..Len(ModelCandidates(m)) : ModelCandidates(m)[j].model = m
         /\ \A e \in Executors : e.model = m =>
               \E j \in 1..Len(ModelCandidates(m)) : ModelCandidates(m)[j] = e
         /\ m \in Models <=> ModelCandidates(m) # <<>>
<1> DEFINE at == {i \in DOMAIN Replicas : Serves(m, Replicas[i])}
<1>1. /\ at \in SUBSET DOMAIN Replicas /\ Replicas \in Seq(Executors)
      /\ ModelCandidates(m) = Those(Replicas, at)
  BY SelectionAssumption DEF ModelCandidates
<1>2. \A i \in DOMAIN Replicas : i \in at <=> Replicas[i].model = m
  BY DEF Serves
<1> HIDE DEF at
<1>3. /\ ModelCandidates(m) \in Seq(Executors)
      /\ \A n \in DOMAIN ModelCandidates(m) : \E i \in at : ModelCandidates(m)[n] = Replicas[i]
      /\ \A i \in at : \E n \in DOMAIN ModelCandidates(m) : ModelCandidates(m)[n] = Replicas[i]
      /\ IsInjective(ModelCandidates(m))
      /\ at = {} <=> ModelCandidates(m) = <<>>
  <2>1. IsInjective(Replicas)
    BY Identified
  <2> QED
    BY <1>1, <2>1, ThoseAre
<1>4. /\ DOMAIN ModelCandidates(m) = 1..Len(ModelCandidates(m))
      /\ Len(ModelCandidates(m)) \in Nat
  BY <1>3
<1>5. \A j \in DOMAIN ModelCandidates(m) : ModelCandidates(m)[j].model = m
  BY <1>1, <1>2, <1>3
<1>6. \A e \in Executors : e.model = m =>
         \E j \in DOMAIN ModelCandidates(m) : ModelCandidates(m)[j] = e
  <2> SUFFICES ASSUME NEW e \in Executors, e.model = m
               PROVE  \E j \in DOMAIN ModelCandidates(m) : ModelCandidates(m)[j] = e
    OBVIOUS
  <2>1. PICK i \in DOMAIN Replicas : e = Replicas[i]
    BY Identified
  <2> QED
    BY <1>2, <1>3, <2>1
<1>7. m \in Models <=> at # {}
  BY <1>1, <1>2, Identified DEF Models
<1> QED
  BY <1>3, <1>4, <1>5, <1>6, <1>7

\* The next index, of n.
LEMMA NextIndex ==
  ASSUME NEW n \in Nat \ {0}, NEW k \in 0..(n - 1)
  PROVE  k % n = k /\ (k + 1) % n = IF k + 1 < n THEN k + 1 ELSE 0
<1>1. ASSUME NEW i \in 0..(n - 1) PROVE i % n = i
  BY <1>1
<1>2. n % n = 0
  OBVIOUS
<1> QED
  BY <1>1, <1>2

Turns(m) ==
  LET replicas == ModelCandidates(m)
  IN /\ indices[m] \in 0..(Len(replicas) - 1)
     /\ \E rounds \in Nat : \A j \in 1..Len(replicas) :
          Cardinality(Selections(replicas[j])) = rounds + IF j <= indices[m] THEN 1 ELSE 0

\* What was selected was selected for a call that has left the start.
Chosen ==
  \A x \in OfKind(trace, "executor.selected") : \E p \in Procs, s \in Nat :
     /\ x.action = <<p, s>>
     /\ s <= step[p] \/ (s = step[p] + 1 /\ phase[p] # "idle")

TurnInv ==
  /\ IsFiniteSet(trace)
  /\ Chosen
  /\ task.policy = "round_robin" => \A m \in Models : Turns(m)

LEMMA TurnInit == ASSUME Init PROVE TurnInv
<1>1. trace = {} /\ indices = [m \in Models |-> 0]
  BY DEF Init
<1>2. \A e : Selections(e) = {}
  BY <1>1 DEF Selections, OfKind
<1>3. ASSUME NEW m \in Models PROVE Turns(m)
  <2>1. Len(ModelCandidates(m)) \in Nat /\ Len(ModelCandidates(m)) # 0
    BY Candidates
  <2>2. \A j \in 1..Len(ModelCandidates(m)) :
           Cardinality(Selections(ModelCandidates(m)[j])) = 0 /\ ~(j <= indices[m])
    BY <1>1, <1>2, FS_EmptySet
  <2> QED
    BY <1>1, <2>1, <2>2 DEF Turns
<1> QED
  BY <1>1, <1>3, FS_EmptySet DEF TurnInv, Chosen, OfKind

\* A step that selects no replica.
LEMMA NoTurn ==
  ASSUME TurnInv, TypeOK, NEW new, IsFiniteSet(new), trace' = trace \cup new,
         \A x \in new : x.kind # "executor.selected",
         UNCHANGED <<task, indices>>,
         \A p \in Procs : \/ step'[p] = step[p] /\ (phase'[p] = "idle" => phase[p] = "idle")
                          \/ step'[p] = step[p] + 1
  PROVE  TurnInv'
<1>1. OfKind(trace', "executor.selected") = OfKind(trace, "executor.selected")
  BY DEF OfKind
<1>2. \A e : Selections(e)' = Selections(e)
  BY <1>1 DEF Selections
<1>3. IsFiniteSet(trace')
  BY FS_Union DEF TurnInv
<1>4. Chosen'
  <2> SUFFICES ASSUME NEW x \in OfKind(trace, "executor.selected")
               PROVE  \E p \in Procs, s \in Nat :
                         /\ x.action = <<p, s>>
                         /\ s <= step'[p] \/ (s = step'[p] + 1 /\ phase'[p] # "idle")
    BY <1>1 DEF Chosen
  <2>1. PICK p \in Procs, s \in Nat :
           /\ x.action = <<p, s>>
           /\ s <= step[p] \/ (s = step[p] + 1 /\ phase[p] # "idle")
    BY DEF TurnInv, Chosen
  <2>2. step[p] \in Nat
    BY DEF TypeOK
  <2> QED
    BY <2>1, <2>2
<1>5. ASSUME task.policy = "round_robin", NEW m \in Models PROVE Turns(m)'
  <2>1. Turns(m)
    BY <1>5 DEF TurnInv
  <2> QED
    BY <1>2, <2>1 DEF Turns
<1> QED
  BY <1>3, <1>4, <1>5 DEF TurnInv

\* The replica in turn is selected.
LEMMA Turn ==
  ASSUME Inv, TurnInv, NEW p \in Procs, Invoke(p)
  PROVE  TurnInv'
<1> DEFINE m == Current(p).model
           c == ModelCandidates(m)
<1>1. PICK e \in SelectedFor(p) :
         trace' = trace \cup {Event("execution.request", p, ToSet(Held(p)), "", ""), Choice(p, e)}
  BY DEF Invoke, Record
<1>2. /\ task' = task /\ step' = step /\ phase[p] = "idle" /\ phase' = [phase EXCEPT ![p] = "localize"]
      /\ TypeOK /\ step[p] \in Nat
  BY DEF Invoke, MayStart, Inv, TypeOK
<1>3. e \in Executors /\ (task.policy = "round_robin" => IsNextInTurn(e, m, indices))
  BY DEF SelectedFor, Selected
<1> DEFINE request == Event("execution.request", p, ToSet(Held(p)), "", "")
           choice == Choice(p, e)
<1>4. /\ request.kind = "execution.request"
      /\ choice.kind = "executor.selected" /\ choice.action = <<p, step[p] + 1>>
      /\ choice.executor = e.id
  BY DEF Event, Choice, Output
<1> HIDE DEF request, choice
<1>5. trace' = trace \cup {request, choice}
  BY <1>1 DEF request, choice
<1>6. OfKind(trace', "executor.selected") = OfKind(trace, "executor.selected") \cup {choice}
  BY <1>4, <1>5 DEF OfKind
<1>7. choice \notin trace
  <2> SUFFICES ASSUME choice \in OfKind(trace, "executor.selected") PROVE FALSE
    BY <1>4 DEF OfKind
  <2>1. PICK q \in Procs, s \in Nat :
           /\ choice.action = <<q, s>>
           /\ s <= step[q] \/ (s = step[q] + 1 /\ phase[q] # "idle")
    BY DEF TurnInv, Chosen
  <2>2. q = p /\ s = step[p] + 1
    BY <1>4, <2>1
  <2> QED
    BY <1>2, <2>1, <2>2
<1>8. IsFiniteSet(trace')
  <2>1. trace' = (trace \cup {request}) \cup {choice}
    BY <1>5
  <2> QED
    BY <2>1, FS_AddElement DEF TurnInv
<1>9. Chosen'
  <2> SUFFICES ASSUME NEW x \in OfKind(trace', "executor.selected")
               PROVE  \E q \in Procs, s \in Nat :
                         /\ x.action = <<q, s>>
                         /\ s <= step'[q] \/ (s = step'[q] + 1 /\ phase'[q] # "idle")
    BY DEF Chosen
  <2>1. CASE x = choice
    <3>1. phase'[p] # "idle"
      BY <1>2 DEF TypeOK
    <3> QED
      BY <1>2, <1>4, <2>1, <3>1
  <2>2. CASE x \in OfKind(trace, "executor.selected")
    <3>1. PICK q \in Procs, s \in Nat :
             /\ x.action = <<q, s>>
             /\ s <= step[q] \/ (s = step[q] + 1 /\ phase[q] # "idle")
      BY <2>2 DEF TurnInv, Chosen
    <3>2. phase[q] # "idle" => phase'[q] # "idle"
      BY <1>2 DEF TypeOK
    <3> QED
      BY <1>2, <3>1, <3>2
  <2> QED
    BY <1>6, <2>1, <2>2
<1>10. ASSUME task.policy = "round_robin", NEW k \in Models PROVE Turns(k)'
  <2>1. Turns(k) /\ IsNextInTurn(e, m, indices)
    BY <1>3, <1>10 DEF TurnInv
  <2>2. indices' = RotatedIndices(m, indices) /\ DOMAIN indices = Models
    BY <1>10 DEF Invoke, Inv, TypeOK
  <2>3. \A f \in Executors :
          Selections(f)' = IF f = e THEN Selections(f) \cup {choice} ELSE Selections(f)
    BY <1>3, <1>4, <1>6, Identified DEF Selections
  <2>4. \A f \in Executors : IsFiniteSet(Selections(f)) /\ choice \notin Selections(f)
    <3>1. \A f : Selections(f) \in SUBSET trace
      BY DEF Selections, OfKind
    <3> QED
      BY <1>7, <3>1, FS_Subset DEF TurnInv
  <2>5. \A f \in Executors :
          Cardinality(Selections(f)') = Cardinality(Selections(f)) + IF f = e THEN 1 ELSE 0
    <3> SUFFICES ASSUME NEW f \in Executors
                 PROVE  Cardinality(Selections(f)')
                          = Cardinality(Selections(f)) + IF f = e THEN 1 ELSE 0
      OBVIOUS
    <3>1. Cardinality(Selections(f)) \in Nat
      BY <2>4, FS_CardinalityType
    <3> QED
      BY <2>3, <2>4, <3>1, FS_AddElement
  <2> HIDE DEF m
  <2> DEFINE d == ModelCandidates(k)
             n == Len(d)
  <2>6. /\ d \in Seq(Executors) /\ n \in Nat \ {0} /\ IsInjective(d) /\ DOMAIN d = 1..n
        /\ \A j \in 1..n : d[j] \in Executors /\ d[j].model = k
    <3>1. /\ d \in Seq(Executors) /\ Len(d) \in Nat /\ IsInjective(d) /\ DOMAIN d = 1..Len(d)
          /\ d # <<>> /\ \A j \in 1..Len(d) : d[j].model = k
      BY Candidates
    <3> QED
      BY <3>1
  <2>7. PICK rounds \in Nat : \A j \in 1..n :
          Cardinality(Selections(d[j])) = rounds + IF j <= indices[k] THEN 1 ELSE 0
    BY <2>1 DEF Turns
  <2>8. indices[k] \in 0..(n - 1)
    BY <2>1 DEF Turns
  <2>9. \A j \in 1..n :
          Cardinality(Selections(d[j])') = Cardinality(Selections(d[j])) + IF d[j] = e THEN 1 ELSE 0
    BY <2>5, <2>6
  <2>10. c # <<>> /\ e = c[(indices[m] % Len(c)) + 1]
    BY <2>1 DEF IsNextInTurn
  <2>11. CASE k # m
    <3>1. m \in Models /\ Len(c) \in Nat \ {0}
      BY <2>10, Candidates
    <3>2. indices[m] \in 0..(Len(c) - 1)
      BY <1>10, <3>1 DEF TurnInv, Turns
    <3>3. (indices[m] % Len(c)) + 1 \in 1..Len(c)
      BY <3>1, <3>2, NextIndex
    <3>4. e.model = m
      BY <2>10, <3>3, Candidates
    <3>5. \A j \in 1..n : d[j] # e
      BY <2>6, <2>11, <3>4
    <3>6. indices'[k] = indices[k]
      BY <2>2, <2>11 DEF RotatedIndices
    <3>7. \A j \in 1..n : Cardinality(Selections(d[j])) \in Nat
      BY <2>4, <2>6, FS_CardinalityType
    <3>8. \A j \in 1..n : Cardinality(Selections(d[j])') = Cardinality(Selections(d[j]))
      BY <2>9, <3>5, <3>7
    <3> QED
      BY <2>7, <2>8, <3>6, <3>8 DEF Turns
  <2>12. CASE k = m
    <3> DEFINE i == indices[k]
    <3>1. i % n = i /\ (i + 1) % n = IF i + 1 < n THEN i + 1 ELSE 0
      BY <2>6, <2>8, NextIndex
    <3>2. e = d[i + 1] /\ i + 1 \in 1..n
      <4>1. e = d[(i % n) + 1]
        BY <2>10, <2>12
      <4>2. i \in 0..(n - 1) /\ n \in Nat
        BY <2>6, <2>8
      <4> HIDE DEF i, n, d
      <4>3. e = d[i + 1]
        BY <3>1, <4>1
      <4> QED
        BY <4>2, <4>3
    <3>3. indices'[k] = IF i + 1 < n THEN i + 1 ELSE 0
      BY <2>2, <2>12, <3>1 DEF RotatedIndices
    <3> HIDE DEF i, d, n
    <3>4. \A j \in 1..n : d[j] = e <=> j = i + 1
      BY <2>6, <3>2 DEF IsInjective
    <3>5. \A j \in 1..n : Cardinality(Selections(d[j])')
                             = rounds + (IF j <= i THEN 1 ELSE 0) + IF j = i + 1 THEN 1 ELSE 0
      BY <2>7, <2>9, <3>4 DEF i
    <3>6. i \in 0..(n - 1) /\ n \in Nat \ {0}
      BY <2>6, <2>8 DEF i
    <3>7. CASE i + 1 < n
      <4>1. \A j \in 1..n : Cardinality(Selections(d[j])')
                                = rounds + IF j <= i + 1 THEN 1 ELSE 0
        BY <3>5, <3>6
      <4>2. indices'[k] = i + 1 /\ i + 1 \in 0..(n - 1)
        BY <3>3, <3>6, <3>7
      <4> QED
        BY <4>1, <4>2 DEF Turns, d, n
    <3>8. CASE ~(i + 1 < n)
      <4>1. \A j \in 1..n : Cardinality(Selections(d[j])')
                                = (rounds + 1) + IF j <= 0 THEN 1 ELSE 0
        BY <3>5, <3>6, <3>8
      <4>2. indices'[k] = 0 /\ 0 \in 0..(n - 1) /\ rounds + 1 \in Nat
        BY <3>3, <3>6, <3>8
      <4> QED
        BY <4>1, <4>2 DEF Turns, d, n
    <3> QED
      BY <3>7, <3>8
  <2> QED
    BY <2>11, <2>12
<1> QED
  BY <1>2, <1>8, <1>9, <1>10 DEF TurnInv

\* What a step adds to the trace.
LEMMA TurnStep == Inv /\ TurnInv /\ [Next]_vars => TurnInv'
<1> SUFFICES ASSUME Inv, TurnInv, [Next]_vars
             PROVE  TurnInv'
  OBVIOUS
<1> USE DEF dataVars, callVars
<1>1. TypeOK
  BY DEF Inv
<1>2. ASSUME NEW p \in Procs, NEW x, UNCHANGED <<task, indices, step>>, trace' = trace \cup {x},
             x.kind # "executor.selected", \A q \in Procs : phase'[q] = "idle" => phase[q] = "idle"
      PROVE  TurnInv'
  <2>1. IsFiniteSet({x}) /\ \A y \in {x} : y.kind # "executor.selected"
    BY <1>2, FS_Singleton
  <2> QED
    BY <1>1, <1>2, <2>1, NoTurn
<1>3. ASSUME UNCHANGED <<task, indices, step, trace>>,
             \A q \in Procs : phase'[q] = "idle" => phase[q] = "idle"
      PROVE  TurnInv'
  <2>1. IsFiniteSet({}) /\ trace' = trace \cup {}
    BY <1>3, FS_EmptySet
  <2> QED
    BY <1>1, <1>3, <2>1, NoTurn
<1>4. phase \in [Procs -> {"idle", "ask", "localize", "sent"} \cup Ended] /\ step \in [Procs -> Nat]
  BY <1>1 DEF TypeOK
<1>5. ASSUME NEW p \in Procs, Raise(p)
      PROVE  \A q \in Procs : phase'[q] = "idle" => phase[q] = "idle"
  BY <1>4, <1>5 DEF Raise
<1>6. \A kind, p, artifacts, worker, from : Event(kind, p, artifacts, worker, from).kind = kind
  BY DEF Event
<1>7. ASSUME NEW p \in Procs, Proceed(p)
      PROVE  TurnInv'
  <2>1. CASE Invoke(p)
    BY <2>1, Turn
  <2>2. CASE Refuse(p) \/ ReceiveError(p)
    BY <1>3, <1>5, <2>2 DEF Refuse, ReceiveError
  <2>3. CASE RefuseOperator(p)
    BY <1>2, <1>5, <1>6, <2>3 DEF RefuseOperator, Record
  <2>4. CASE CallOperator(p)
    <3>1. \A q \in Procs : phase'[q] = "idle" => phase[q] = "idle"
      BY <1>4, <2>4 DEF CallOperator
    <3> QED
      BY <1>2, <1>6, <2>4, <3>1 DEF CallOperator, Record
  <2>5. CASE AskWorkers(p)
    <3>1. \A q \in Procs : phase'[q] = "idle" => phase[q] = "idle"
      BY <1>4, <1>5, <2>5 DEF AskWorkers
    <3> QED
      BY <1>3, <2>5, <3>1 DEF AskWorkers
  <2>6. CASE SkipLocal(p)
    BY <1>3, <2>6 DEF SkipLocal
  <2>7. CASE Pull(p)
    BY <1>2, <1>6, <2>7 DEF Pull, Record
  <2>8. CASE Send(p)
    BY <1>3, <1>4, <2>8 DEF Send
  <2>9. CASE Receive(p)
    <3> DEFINE ended == Event("worker.execution.end", p, {Output(p)}, target[p], "")
               created == Event("artifact.created", p, {Output(p)}, target[p], "")
    <3>1. trace' = trace \cup {ended, created} /\ UNCHANGED <<task, indices>>
      BY <2>9 DEF Receive, Record
    <3>2. IsFiniteSet({ended, created})
      <4> HIDE DEF ended, created
      <4>1. IsFiniteSet({ended})
        BY FS_Singleton
      <4>2. IsFiniteSet({ended} \cup {created})
        BY <4>1, FS_AddElement
      <4>3. {ended, created} = {ended} \cup {created}
        OBVIOUS
      <4> QED
        BY <4>2, <4>3
    <3>3. ended.kind # "executor.selected" /\ created.kind # "executor.selected"
      BY DEF Event
    <3>4. \A q \in Procs : \/ step'[q] = step[q] /\ (phase'[q] = "idle" => phase[q] = "idle")
                           \/ step'[q] = step[q] + 1
      BY <1>4, <2>9 DEF Receive
    <3> HIDE DEF ended, created
    <3> QED
      BY <1>1, <3>1, <3>2, <3>3, <3>4, NoTurn
  <2> QED
    BY <1>7, <2>1, <2>2, <2>3, <2>4, <2>5, <2>6, <2>7, <2>8, <2>9 DEF Proceed
<1>8. ASSUME NEW p \in Procs, PullFails(p) \/ TimeOut(p)
      PROVE  TurnInv'
  BY <1>3, <1>5, <1>8 DEF PullFails, TimeOut
<1>9. ASSUME NEW p \in Procs, Cancel(p)
      PROVE  TurnInv'
  BY <1>3, <1>4, <1>9 DEF Cancel
<1>10. ASSUME NEW h \in handlers, Serve(h) \/ Break(h)
      PROVE  TurnInv'
  BY <1>3, <1>10 DEF Serve, Break
<1>11. CASE FetchAnswer \/ GiveUp
  <2>1. \A q \in Procs : phase'[q] = "idle" => phase[q] = "idle"
    BY <1>4, <1>11 DEF FetchAnswer, GiveUp
  <2> QED
    BY <1>3, <1>11, <2>1 DEF FetchAnswer, GiveUp
<1>12. CASE UNCHANGED vars
  BY <1>3, <1>12 DEF vars
<1> QED
  BY <1>7, <1>8, <1>9, <1>10, <1>11, <1>12 DEF Next

(* Round robin gives the replicas of a model their calls evenly, however    *)
(* many branches of the run ask for it at once: the replicas before the    *)
(* index have had one call more than the others, and a call is counted     *)
(* with the step that moves the index.                                     *)
THEOREM CallsAreShared == Spec => []ReplicasBalanced
<1>1. TurnInv => ReplicasBalanced
  <2> SUFFICES ASSUME TurnInv, task.policy = "round_robin",
                      NEW e \in Executors, NEW f \in Executors, e.model = f.model
               PROVE  Cardinality(Selections(e)) <= Cardinality(Selections(f)) + 1
    BY DEF ReplicasBalanced
  <2>1. e.model \in Models /\ Turns(e.model)
    BY DEF Models, TurnInv
  <2>2. PICK rounds \in Nat : \A j \in 1..Len(ModelCandidates(e.model)) :
          Cardinality(Selections(ModelCandidates(e.model)[j]))
            = rounds + IF j <= indices[e.model] THEN 1 ELSE 0
    BY <2>1 DEF Turns
  <2>3. PICK i \in 1..Len(ModelCandidates(e.model)) : ModelCandidates(e.model)[i] = e
    BY Candidates
  <2>4. PICK j \in 1..Len(ModelCandidates(e.model)) : ModelCandidates(e.model)[j] = f
    BY Candidates
  <2>5. /\ Cardinality(Selections(e)) \in {rounds, rounds + 1}
        /\ Cardinality(Selections(f)) \in {rounds, rounds + 1}
    BY <2>2, <2>3, <2>4
  <2> QED
    BY <2>5
<1>2. Init => TurnInv
  BY TurnInit
<1> QED
  BY <1>1, <1>2, Initially, Inductive, TurnStep, PTL DEF Spec
-----------------------------------------------------------------------------
(* Evidence.  What the events of a run say of its calls, and what the      *)
(* locations owe to events.                                                *)

\* The calls that have returned, and where an artifact was first.
Executed == {o \in Procs \X (Nat \ {0}) : o[2] <= step[o[1]]}
Origin(a) == locations[a][1]

Bounded ==
  /\ \A p \in Procs : p \notin Taking => step[p] = 0
  /\ \A p \in Taking : step[p] <= Len(Chain(task, p))
  /\ phase[Final] = "done" => step[Final] = Len(Chain(task, Final))
  /\ DOMAIN locations \subseteq InputIds(task) \cup Executed

Placed ==
  \A a \in DOMAIN locations :
     /\ locations[a] # <<>>
     /\ a \in InputIds(task) => Origin(a) = task.inputs[a[1]].worker

(* Each call that has returned, and no other, has its events; a call that  *)
(* is under way has its request.                                           *)
CallEvents == {"execution.request", "worker.execution.end", "artifact.created"}
Recorded ==
  /\ \A x \in OfKind(trace, "execution.request") :
        x.artifacts = ToSet(Reads(task, x.action[1], x.action[2]))
  /\ \A x \in OfKind(trace, "worker.execution.end") \cup OfKind(trace, "artifact.created") :
        x.action \in Executed /\ x.artifacts = {x.action} /\ x.worker = Origin(x.action)
  /\ \A o \in Executed, kind \in CallEvents : \E x \in OfKind(trace, kind) : x.action = o
  /\ \A p \in Procs : phase[p] \in {"ask", "localize", "sent"} =>
        \E x \in OfKind(trace, "execution.request") : x.action = Output(p)

(* An event of a transfer tells a call that reads the artifact, to whose   *)
(* Worker the artifact came from its origin.                               *)
Pulls == OfKind(trace, "artifact.transfer.end")
Explains(x, a, q, s) ==
  /\ x.artifacts = {a} /\ x.from = Origin(a) /\ x.action = <<q, s>>
  /\ a \in ToSet(Reads(task, q, s))
  /\ \/ s <= step[q] /\ x.worker = Origin(<<q, s>>)
     \/ /\ s = step[q] + 1 /\ phase[q] \in {"localize", "sent", "failed", "cancelled"}
        /\ x.worker = target[q]
Explained ==
  \A x \in Pulls : \E a \in DOMAIN locations, q \in Procs, s \in Nat \ {0} : Explains(x, a, q, s)

\* A later location of an artifact is the end of a transfer.
Owed == \A a \in DOMAIN locations : \A i \in DOMAIN locations[a] :
           i = 1 \/ \E x \in Pulls : x.artifacts = {a} /\ x.worker = locations[a][i]

(* What a call reads has come to its Worker, and so have the inputs that a *)
(* call under way has dealt with.                                          *)
Brought ==
  /\ \A o \in Executed : \A a \in ToSet(Reads(task, o[1], o[2])) :
        a \in DOMAIN locations /\ Origin(o) \in ToSet(locations[a])
  /\ \A p \in Procs : phase[p] \in {"localize", "sent"} =>
        \A i \in 1..ready[p] : target[p] \in ToSet(locations[Held(p)[i]])
  /\ \A p \in Procs : phase[p] = "sent" => ready[p] = Len(Held(p))

TraceInv == Bounded /\ Placed /\ Recorded /\ Explained /\ Owed /\ Brought

LEMMA TraceInit == ASSUME Init PROVE TraceInv
<1>1. task \in Tasks /\ Inv
  BY Initially DEF Init
<1>2. trace = {} /\ \A p \in Procs : step[p] = 0 /\ phase[p] = IF p \in Taking THEN "idle" ELSE "done"
  BY DEF Init, Taking
<1>3. /\ Final \in Procs /\ Final \in Taking /\ Taking \subseteq Procs
      /\ \A p \in Taking : Len(Chain(task, p)) \in Nat
  BY <1>1, Shape DEF Taking
<1>4. Executed = {}
  <2> SUFFICES ASSUME NEW o \in Executed PROVE FALSE
    OBVIOUS
  <2> QED
    BY <1>2 DEF Executed
<1>5. DOMAIN locations = InputIds(task)
  BY DEF Init
<1>6. Bounded
  BY <1>2, <1>3, <1>5 DEF Bounded
<1>7. \A a \in DOMAIN locations : locations[a] = <<task.inputs[a[1]].worker>>
  BY DEF Init
<1>8. Placed
  BY <1>7 DEF Placed, Origin
<1>9. Recorded
  BY <1>2, <1>4 DEF Recorded, OfKind
<1>10. Explained /\ Owed
  BY <1>2, <1>7 DEF Explained, Owed, Pulls, OfKind
<1>11. Brought
  BY <1>2, <1>4 DEF Brought
<1> QED
  BY <1>6, <1>8, <1>9, <1>10, <1>11 DEF TraceInv

(* How a process may go on between the starts and the ends of its calls,   *)
(* with new events of the trace.                                           *)
GoesOn(q, new) ==
  \/ phase'[q] = phase[q] /\ target'[q] = target[q] /\ ready'[q] = ready[q]
  \/ phase'[q] \in {"failed", "cancelled"} /\ target'[q] = target[q]
  \/ /\ phase[q] = "idle" /\ phase'[q] \in {"ask", "localize"} /\ ready'[q] = 0
     /\ \E x \in new : x.kind = "execution.request" /\ x.action = Output(q)
  \/ phase[q] = "ask" /\ phase'[q] = "localize" /\ ready'[q] = 0
  \/ /\ phase[q] = "localize" /\ phase'[q] = "localize" /\ target'[q] = target[q]
     /\ ready'[q] = ready[q] + 1 /\ target[q] \in ToSet(locations[NextInput(q)])
  \/ /\ phase[q] = "localize" /\ phase'[q] = "sent" /\ target'[q] = target[q]
     /\ ready'[q] = ready[q] /\ ready[q] = Len(Held(q))
Announces(x) ==
  \/ x.kind = "executor.selected"
  \/ /\ x.kind = "execution.request"
     /\ \E p \in Procs : x.action = Output(p) /\ x.artifacts = ToSet(Held(p))

LEMMA BetweenCalls ==
  ASSUME Inv, TraceInv, NEW new, trace' = trace \cup new, \A x \in new : Announces(x),
         UNCHANGED <<task, step, locations>>, \A q \in Procs : GoesOn(q, new)
  PROVE  TraceInv'
<1>1. /\ Executed' = Executed /\ Taking' = Taking
      /\ \A a : Origin(a)' = Origin(a)
      /\ \A p : Held(p)' = Held(p) /\ Output(p)' = Output(p)
  BY DEF Executed, Taking, Origin, Held, Output
<1>2. /\ OfKind(trace', "worker.execution.end") = OfKind(trace, "worker.execution.end")
      /\ OfKind(trace', "artifact.created") = OfKind(trace, "artifact.created")
      /\ OfKind(trace', "artifact.transfer.end") = OfKind(trace, "artifact.transfer.end")
      /\ OfKind(trace, "execution.request") \subseteq OfKind(trace', "execution.request")
      /\ OfKind(new, "execution.request") \subseteq OfKind(trace', "execution.request")
      /\ \A x \in OfKind(trace', "execution.request") :
            x \in OfKind(trace, "execution.request") \/ (x \in new /\ x.kind = "execution.request")
  BY DEF OfKind, Announces
<1>3. Final \in Procs /\ Final \in Taking /\ task \in Tasks /\ Taking \subseteq Procs
  BY Shape DEF Inv, TypeOK, Taking
<1>4. Bounded'
  <2>1. phase'[Final] = "done" => phase[Final] = "done"
    BY <1>3 DEF GoesOn
  <2> QED
    BY <1>1, <2>1 DEF TraceInv, Bounded
<1>5. Placed'
  BY <1>1 DEF TraceInv, Placed
<1>6. Recorded'
  <2>1. ASSUME NEW x \in new, x.kind = "execution.request"
        PROVE  x.artifacts = ToSet(Reads(task, x.action[1], x.action[2]))
    BY <2>1 DEF Announces, Held, Output
  <2>2. \A x \in OfKind(trace', "execution.request") :
           x.artifacts = ToSet(Reads(task, x.action[1], x.action[2]))
    BY <1>2, <2>1 DEF TraceInv, Recorded
  <2>3. \A o \in Executed, kind \in CallEvents : \E x \in OfKind(trace', kind) : x.action = o
    BY <1>2 DEF TraceInv, Recorded, CallEvents
  <2>4. ASSUME NEW p \in Procs, phase'[p] \in {"ask", "localize", "sent"}
        PROVE  \E x \in OfKind(trace', "execution.request") : x.action = Output(p)
    <3>1. CASE phase[p] \in {"ask", "localize", "sent"}
      BY <1>2, <3>1 DEF TraceInv, Recorded
    <3>2. CASE phase[p] \notin {"ask", "localize", "sent"}
      <4>1. \E x \in new : x.kind = "execution.request" /\ x.action = Output(p)
        BY <2>4, <3>2 DEF GoesOn
      <4> QED
        BY <1>2, <4>1 DEF OfKind
    <3> QED
      BY <3>1, <3>2
  <2> QED
    BY <1>1, <1>2, <2>2, <2>3, <2>4 DEF TraceInv, Recorded
<1>7. Explained'
  <2> SUFFICES ASSUME NEW x \in Pulls
               PROVE  \E a \in DOMAIN locations, q \in Procs, s \in Nat \ {0} : Explains(x, a, q, s)'
    BY <1>2 DEF Explained, Pulls
  <2>1. PICK a \in DOMAIN locations, q \in Procs, s \in Nat \ {0} : Explains(x, a, q, s)
    BY DEF TraceInv, Explained
  <2>2. phase[q] \in {"localize", "sent", "failed", "cancelled"} =>
           /\ phase'[q] \in {"localize", "sent", "failed", "cancelled"}
           /\ target'[q] = target[q]
    BY DEF GoesOn
  <2>3. Explains(x, a, q, s)'
    BY <1>1, <2>1, <2>2 DEF Explains
  <2> QED
    BY <2>3
<1>8. Owed'
  BY <1>2 DEF TraceInv, Owed, Pulls
<1>9. Brought'
  <2>1. ASSUME NEW p \in Procs, phase'[p] \in {"localize", "sent"}, NEW i \in 1..ready'[p]
        PROVE  target'[p] \in ToSet(locations[Held(p)[i]])
    <3>1. ready[p] \in Nat
      BY DEF Inv, TypeOK
    <3>2. CASE phase[p] \in {"localize", "sent"} /\ target'[p] = target[p] /\ ready'[p] = ready[p]
      BY <2>1, <3>2 DEF TraceInv, Brought
    <3>3. CASE /\ phase[p] = "localize" /\ target'[p] = target[p] /\ ready'[p] = ready[p] + 1
               /\ target[p] \in ToSet(locations[NextInput(p)])
      <4>1. i \in 1..ready[p] \/ i = ready[p] + 1
        BY <2>1, <3>1, <3>3
      <4> QED
        BY <3>3, <4>1 DEF TraceInv, Brought, NextInput
    <3>4. CASE ready'[p] = 0
      BY <2>1, <3>4
    <3> QED
      BY <2>1, <3>2, <3>3, <3>4 DEF GoesOn
  <2>2. ASSUME NEW p \in Procs, phase'[p] = "sent"
        PROVE  ready'[p] = Len(Held(p))
    BY <2>2 DEF GoesOn, TraceInv, Brought
  <2> QED
    BY <1>1, <2>1, <2>2 DEF TraceInv, Brought
<1> QED
  BY <1>4, <1>5, <1>6, <1>7, <1>8, <1>9 DEF TraceInv

\* The place of an output is known.
LEMMA ExecutedKnown == ASSUME Inv PROVE Executed \subseteq DOMAIN locations
<1> SUFFICES ASSUME NEW o \in Executed PROVE o \in DOMAIN locations
  OBVIOUS
<1>1. PICK q \in Procs, s \in Nat \ {0} : o = <<q, s>> /\ s <= step[q]
  BY DEF Executed
<1>2. step[q] \in Nat
  BY DEF Inv, TypeOK
<1>3. s \in 1..step[q]
  BY <1>1, <1>2
<1> QED
  BY <1>1, <1>3 DEF Inv, Underway

\* A pull: the artifact has one place more, and an event that says so.
LEMMA OnePull ==
  ASSUME Inv, TraceInv, NEW p \in Procs, Pull(p)
  PROVE  TraceInv'
<1>0. PICK a : a = NextInput(p)
  OBVIOUS
<1>20. PICK x : x = Event("artifact.transfer.end", p, {a}, target[p], Head(locations[a]))
  OBVIOUS
<1>1. /\ Localizing(p) /\ a \in DOMAIN locations /\ target[p] \in Workers /\ ready[p] \in Nat
      /\ locations[a] \in Seq(Workers) /\ phase[p] = "localize" /\ ready[p] < Len(Held(p))
      /\ step[p] \in Nat /\ locations[a] # <<>>
  BY <1>0, NextInputKnown DEF Pull, Localizing, Inv, TypeOK, TraceInv, Placed
<1>2. /\ locations' = [locations EXCEPT ![a] = Append(@, target[p])]
      /\ trace' = trace \cup {x} /\ ready' = [ready EXCEPT ![p] = @ + 1]
      /\ UNCHANGED <<task, step, phase, target>>
  BY <1>0, <1>20 DEF Pull, Record
<1>3. /\ x.kind = "artifact.transfer.end" /\ x.action = Output(p) /\ x.artifacts = {a}
      /\ x.worker = target[p] /\ x.from = Origin(a)
  BY <1>1, <1>20 DEF Event, Origin
<1>4. Held(p) \in Seq(DOMAIN locations) /\ a = Held(p)[ready[p] + 1]
  BY <1>0, <1>1 DEF Inv, Underway, NextInput
<1>5. a \in ToSet(Held(p))
  BY <1>1, <1>4, Elements
<1>6. locations \in [DOMAIN locations -> Seq(Workers)]
  BY DEF Inv, TypeOK
<1>7. /\ DOMAIN locations' = DOMAIN locations
      /\ locations'[a] = Append(locations[a], target[p])
      /\ \A b \in DOMAIN locations \ {a} : locations'[b] = locations[b]
  BY <1>1, <1>2, <1>6
<1>8. ASSUME NEW b \in DOMAIN locations
      PROVE  /\ locations'[b] # <<>> /\ locations'[b][1] = locations[b][1]
             /\ ToSet(locations[b]) \subseteq ToSet(locations'[b])
  <2>1. locations[b] \in Seq(Workers) /\ locations[b] # <<>>
    BY <1>6 DEF TraceInv, Placed
  <2>2. CASE b # a
    BY <1>7, <2>1, <2>2
  <2>3. CASE b = a
    <3>1. /\ DOMAIN locations[a] = 1..Len(locations[a]) /\ Len(locations[a]) \in Nat
          /\ DOMAIN Append(locations[a], target[p]) = 1..(Len(locations[a]) + 1)
          /\ \A i \in 1..Len(locations[a]) : Append(locations[a], target[p])[i] = locations[a][i]
      BY <1>1
    <3>2. Len(locations[a]) > 0
      BY <1>1, NonEmpty
    <3>3. ToSet(locations[a]) \subseteq ToSet(Append(locations[a], target[p]))
      BY <3>1 DEF ToSet
    <3>4. 1 \in 1..Len(locations[a]) /\ Append(locations[a], target[p]) # <<>>
      BY <3>1, <3>2
    <3> QED
      BY <1>7, <2>3, <3>1, <3>3, <3>4
  <2> QED
    BY <2>2, <2>3
<1>9. target[p] \in ToSet(locations'[a])
  <2>1. /\ Len(locations[a]) + 1 \in DOMAIN Append(locations[a], target[p])
        /\ Append(locations[a], target[p])[Len(locations[a]) + 1] = target[p]
    BY <1>1
  <2> QED
    BY <1>7, <2>1 DEF ToSet
<1>10. /\ Executed' = Executed /\ Taking' = Taking
       /\ \A b \in DOMAIN locations : Origin(b)' = Origin(b)
       /\ \A q : Held(q)' = Held(q) /\ Output(q)' = Output(q)
  BY <1>2, <1>8 DEF Executed, Taking, Origin, Held, Output
<1>11. Executed \subseteq DOMAIN locations
  BY ExecutedKnown
<1>12. /\ \A kind \in CallEvents : OfKind(trace', kind) = OfKind(trace, kind)
       /\ OfKind(trace', "artifact.transfer.end") = Pulls \cup {x}
  BY <1>2, <1>3 DEF OfKind, CallEvents, Pulls
<1>13. Bounded'
  BY <1>2, <1>7, <1>10 DEF TraceInv, Bounded
<1>14. Placed'
  BY <1>2, <1>7, <1>8, <1>10 DEF TraceInv, Placed
<1>15. Recorded'
  <2>1. \A y \in OfKind(trace, "worker.execution.end") \cup OfKind(trace, "artifact.created") :
           y.worker = Origin(y.action)'
    BY <1>10, <1>11 DEF TraceInv, Recorded
  <2>2. /\ OfKind(trace', "execution.request") = OfKind(trace, "execution.request")
        /\ OfKind(trace', "worker.execution.end") = OfKind(trace, "worker.execution.end")
        /\ OfKind(trace', "artifact.created") = OfKind(trace, "artifact.created")
    BY <1>12 DEF CallEvents
  <2>3. /\ \A y \in OfKind(trace, "execution.request") :
              y.artifacts = ToSet(Reads(task, y.action[1], y.action[2]))
        /\ \A y \in OfKind(trace, "worker.execution.end") \cup OfKind(trace, "artifact.created") :
              y.action \in Executed /\ y.artifacts = {y.action}
        /\ \A q \in Procs : phase[q] \in {"ask", "localize", "sent"} =>
              \E y \in OfKind(trace, "execution.request") : y.action = Output(q)
    BY DEF TraceInv, Recorded
  <2>4. \A o \in Executed, kind \in CallEvents : \E y \in OfKind(trace', kind) : y.action = o
    BY <1>12 DEF TraceInv, Recorded
  <2> QED
    BY <1>2, <1>10, <2>1, <2>2, <2>3, <2>4 DEF Recorded
<1>16. Explained'
  <2>1. ASSUME NEW y \in Pulls
        PROVE  \E b \in DOMAIN locations, q \in Procs, s \in Nat \ {0} : Explains(y, b, q, s)'
    <3>1. PICK b \in DOMAIN locations, q \in Procs, s \in Nat \ {0} : Explains(y, b, q, s)
      BY DEF TraceInv, Explained
    <3>2. s <= step[q] => Origin(<<q, s>>)' = Origin(<<q, s>>)
      BY <1>10, <1>11 DEF Executed
    <3>3. Explains(y, b, q, s)'
      BY <1>2, <1>10, <3>1, <3>2 DEF Explains
    <3> QED
      BY <3>3
  <2>2. Explains(x, a, p, step[p] + 1)'
    <3>1. Origin(a)' = Origin(a) /\ a \in ToSet(Reads(task, p, step[p] + 1))
      BY <1>1, <1>5, <1>10 DEF Held
    <3> QED
      BY <1>1, <1>2, <1>3, <3>1 DEF Explains, Output
  <2>3. step[p] + 1 \in Nat \ {0}
    BY <1>1
  <2>4. ASSUME NEW y \in Pulls \cup {x}
        PROVE  \E b \in DOMAIN locations, q \in Procs, s \in Nat \ {0} : Explains(y, b, q, s)'
    <3>1. CASE y \in Pulls
      BY <2>1, <3>1
    <3>2. CASE y = x
      <4>1. Explains(y, a, p, step[p] + 1)'
        BY <2>2, <3>2
      <4> QED
        BY <1>1, <1>2, <2>3, <4>1
    <3> QED
      BY <3>1, <3>2
  <2> QED
    BY <1>7, <1>12, <2>4 DEF Explained, Pulls
<1>17. Owed'
  <2> SUFFICES ASSUME NEW b \in DOMAIN locations, NEW i \in DOMAIN locations'[b], i # 1
               PROVE  \E y \in Pulls \cup {x} : y.artifacts = {b} /\ y.worker = locations'[b][i]
    BY <1>7, <1>12 DEF Owed, Pulls
  <2>1. CASE b # a \/ i \in DOMAIN locations[a]
    <3>1. i \in DOMAIN locations[b] /\ locations'[b][i] = locations[b][i]
      BY <1>1, <1>7, <2>1
    <3> QED
      BY <3>1 DEF TraceInv, Owed
  <2>2. CASE b = a /\ i \notin DOMAIN locations[a]
    <3>1. locations'[a][i] = target[p]
      BY <1>1, <1>7, <2>2
    <3> QED
      BY <1>3, <2>2, <3>1
  <2> QED
    BY <2>1, <2>2
<1>18. Brought'
  <2>1. \A o \in Executed : \A b \in ToSet(Reads(task, o[1], o[2])) :
           b \in DOMAIN locations /\ Origin(o)' \in ToSet(locations'[b])
    BY <1>8, <1>10, <1>11 DEF TraceInv, Brought
  <2>2. ASSUME NEW q \in Procs, phase[q] \in {"localize", "sent"}, NEW i \in 1..ready'[q]
        PROVE  target[q] \in ToSet(locations'[Held(q)[i]])
    <3>1. CASE i \in 1..ready[q]
      <4>1. Held(q) \in Seq(DOMAIN locations) /\ ready[q] <= Len(Held(q)) /\ ready[q] \in Nat
        BY <2>2 DEF Inv, Underway, TypeOK
      <4>2. Held(q)[i] \in DOMAIN locations
        BY <3>1, <4>1
      <4> QED
        BY <1>8, <2>2, <3>1, <4>2 DEF TraceInv, Brought
    <3>2. CASE i \notin 1..ready[q]
      <4>1. q = p /\ i = ready[p] + 1
        <5>1. ready \in [Procs -> Nat]
          BY DEF Inv, TypeOK
        <5>2. q # p => ready'[q] = ready[q]
          BY <1>2, <5>1
        <5>3. q = p => ready'[q] = ready[p] + 1
          BY <1>2, <5>1
        <5> QED
          BY <1>1, <2>2, <3>2, <5>2, <5>3
      <4> QED
        BY <1>4, <1>9, <4>1
    <3> QED
      BY <3>1, <3>2
  <2>3. \A q \in Procs : phase[q] = "sent" => ready'[q] = ready[q]
    BY <1>1, <1>2 DEF Inv, TypeOK
  <2> QED
    BY <1>2, <1>7, <1>10, <2>1, <2>2, <2>3 DEF TraceInv, Brought
<1> QED
  BY <1>13, <1>14, <1>15, <1>16, <1>17, <1>18 DEF TraceInv

\* The end of a call: its output is where its inputs have come to.
LEMMA OneReceipt ==
  ASSUME Inv, TraceInv, NEW p \in Procs, Receive(p)
  PROVE  TraceInv'
<1> DEFINE next == IF step[p] + 1 = Len(Chain(task, p)) THEN "done" ELSE "idle"
<1>0. PICK out : out = Output(p)
  OBVIOUS
<1>21. PICK ended, created :
         /\ ended = Event("worker.execution.end", p, {out}, target[p], "")
         /\ created = Event("artifact.created", p, {out}, target[p], "")
  OBVIOUS
<1>1. /\ phase[p] = "sent" /\ trace' = trace \cup {ended, created}
      /\ locations' = With(locations, out, <<target[p]>>)
      /\ step' = [step EXCEPT ![p] = step[p] + 1] /\ phase' = [phase EXCEPT ![p] = next]
      /\ UNCHANGED <<task, target, ready>>
  BY <1>0, <1>21 DEF Receive, Record
<1>2. /\ ended.kind = "worker.execution.end" /\ created.kind = "artifact.created"
      /\ ended.action = out /\ ended.artifacts = {out} /\ ended.worker = target[p]
      /\ created.action = out /\ created.artifacts = {out} /\ created.worker = target[p]
  BY <1>0, <1>21 DEF Event
<1>3. out = <<p, step[p] + 1>> /\ step[p] \in Nat
  BY <1>0 DEF Output, Inv, TypeOK
<1>4. next = "done" => step[p] + 1 = Len(Chain(task, p))
  OBVIOUS
<1>5. next \in {"done", "idle"}
  OBVIOUS
<1> HIDE DEF next
<1>6. /\ p \in Taking /\ Final \in Procs /\ Taking \subseteq Procs /\ Len(Chain(task, p)) \in Nat
      /\ step[p] + 1 <= Len(Chain(task, p)) /\ step \in [Procs -> Nat]
      /\ phase \in [Procs -> {"idle", "ask", "localize", "sent"} \cup Ended]
  <2>1. /\ p \in Taking /\ Final \in Procs /\ Branches(task) \subseteq Procs
        /\ step[p] \in Nat /\ Len(Chain(task, p)) \in Nat /\ step[p] < Len(Chain(task, p))
    BY <1>1, ActiveFacts DEF Ended
  <2>2. /\ step \in [Procs -> Nat]
        /\ phase \in [Procs -> {"idle", "ask", "localize", "sent"} \cup Ended]
    BY DEF Inv, TypeOK
  <2> QED
    BY <2>1, <2>2 DEF Taking
<1>7. step'[p] = step[p] + 1 /\ \A q \in Procs \ {p} : step'[q] = step[q]
  BY <1>1, <1>6
<1>8. phase'[p] = next /\ \A q \in Procs \ {p} : phase'[q] = phase[q]
  BY <1>1, <1>6
<1>9. Executed' = Executed \cup {out}
  <2>1. \A q \in Procs, s \in Nat \ {0} : s <= step'[q] <=> s <= step[q] \/ (q = p /\ s = step[p] + 1)
    BY <1>3, <1>6, <1>7
  <2>2. step[p] + 1 \in Nat \ {0}
    BY <1>3
  <2> QED
    BY <1>3, <2>1, <2>2 DEF Executed
<1>10. out \notin Executed /\ out \notin DOMAIN locations /\ out \notin InputIds(task)
  <2>1. out \notin Executed
    BY <1>3 DEF Executed
  <2>2. out \notin InputIds(task)
    BY <1>3 DEF InputIds, Input
  <2> QED
    BY <2>1, <2>2 DEF TraceInv, Bounded
<1>11. /\ DOMAIN locations' = DOMAIN locations \cup {out} /\ locations'[out] = <<target[p]>>
       /\ \A a \in DOMAIN locations : locations'[a] = locations[a]
  BY <1>1, <1>10 DEF With
<1>12. /\ Taking' = Taking /\ Origin(out)' = target[p]
       /\ \A a \in DOMAIN locations : Origin(a)' = Origin(a)
       /\ \A q \in Procs \ {p} : Held(q)' = Held(q) /\ Output(q)' = Output(q)
  BY <1>1, <1>7, <1>11 DEF Taking, Origin, Held, Output
<1>13. Executed \subseteq DOMAIN locations
  BY ExecutedKnown
<1>14. /\ OfKind(trace', "execution.request") = OfKind(trace, "execution.request")
       /\ OfKind(trace', "worker.execution.end") = OfKind(trace, "worker.execution.end") \cup {ended}
       /\ OfKind(trace', "artifact.created") = OfKind(trace, "artifact.created") \cup {created}
       /\ OfKind(trace', "artifact.transfer.end") = Pulls
  BY <1>1, <1>2 DEF OfKind, Pulls
<1>15. Bounded'
  <2>1. \A q \in Procs : q \notin Taking => step'[q] = 0
    BY <1>6, <1>7 DEF TraceInv, Bounded
  <2>2. \A q \in Taking : step'[q] <= Len(Chain(task, q))
    BY <1>6, <1>7 DEF TraceInv, Bounded
  <2>3. phase'[Final] = "done" => step'[Final] = Len(Chain(task, Final))
    BY <1>4, <1>6, <1>7, <1>8 DEF TraceInv, Bounded
  <2> QED
    BY <1>1, <1>9, <1>11, <1>12, <2>1, <2>2, <2>3 DEF TraceInv, Bounded
<1>16. Placed'
  BY <1>1, <1>10, <1>11, <1>12 DEF TraceInv, Placed
<1>17. Recorded'
  <2>1. \A x \in OfKind(trace', "worker.execution.end") \cup OfKind(trace', "artifact.created") :
           x.action \in Executed' /\ x.artifacts = {x.action} /\ x.worker = Origin(x.action)'
    BY <1>2, <1>9, <1>12, <1>13, <1>14 DEF TraceInv, Recorded
  <2>2. \A o \in Executed, kind \in CallEvents : \E x \in OfKind(trace', kind) : x.action = o
    BY <1>14 DEF TraceInv, Recorded, CallEvents
  <2>3. \A kind \in CallEvents : \E x \in OfKind(trace', kind) : x.action = out
    <3>1. \E x \in OfKind(trace', "execution.request") : x.action = out
      BY <1>0, <1>1, <1>14 DEF TraceInv, Recorded
    <3> QED
      BY <1>2, <1>14, <3>1 DEF CallEvents
  <2>4. ASSUME NEW q \in Procs, phase'[q] \in {"ask", "localize", "sent"}
        PROVE  \E x \in OfKind(trace', "execution.request") : x.action = Output(q)'
    <3>1. q # p /\ phase[q] \in {"ask", "localize", "sent"}
      BY <1>5, <1>8, <2>4
    <3> QED
      BY <1>12, <1>14, <3>1 DEF TraceInv, Recorded
  <2>5. \A x \in OfKind(trace', "execution.request") :
           x.artifacts = ToSet(Reads(task', x.action[1], x.action[2]))
    BY <1>1, <1>14 DEF TraceInv, Recorded
  <2> QED
    BY <1>9, <2>1, <2>2, <2>3, <2>4, <2>5 DEF Recorded
<1>18. Explained'
  <2> SUFFICES ASSUME NEW x \in Pulls
               PROVE  \E a \in DOMAIN locations', q \in Procs, s \in Nat \ {0} : Explains(x, a, q, s)'
    BY <1>14 DEF Explained, Pulls
  <2>1. PICK a \in DOMAIN locations, q \in Procs, s \in Nat \ {0} : Explains(x, a, q, s)
    BY DEF TraceInv, Explained
  <2>2. \/ s <= step'[q] /\ x.worker = Origin(<<q, s>>)'
        \/ /\ s = step'[q] + 1 /\ phase'[q] \in {"localize", "sent", "failed", "cancelled"}
           /\ x.worker = target[q]
    <3>1. CASE s <= step[q] /\ x.worker = Origin(<<q, s>>)
      <4>1. <<q, s>> \in DOMAIN locations
        BY <1>13, <3>1 DEF Executed
      <4>2. s <= step'[q]
        BY <1>6, <1>7, <3>1
      <4> QED
        BY <1>12, <3>1, <4>1, <4>2
    <3>2. CASE q = p /\ s = step[p] + 1 /\ x.worker = target[q]
      BY <1>3, <1>7, <1>12, <3>2
    <3>3. CASE /\ q # p /\ s = step[q] + 1 /\ x.worker = target[q]
               /\ phase[q] \in {"localize", "sent", "failed", "cancelled"}
      BY <1>7, <1>8, <3>3
    <3> QED
      BY <2>1, <3>1, <3>2, <3>3 DEF Explains
  <2>3. Explains(x, a, q, s)'
    BY <1>1, <1>12, <2>1, <2>2 DEF Explains
  <2> QED
    BY <1>11, <2>3
<1>19. Owed'
  <2> SUFFICES ASSUME NEW a \in DOMAIN locations \cup {out}, NEW i \in DOMAIN locations'[a], i # 1
               PROVE  \E x \in Pulls : x.artifacts = {a} /\ x.worker = locations'[a][i]
    BY <1>11, <1>14 DEF Owed, Pulls
  <2>1. a # out
    BY <1>11
  <2> QED
    BY <1>11, <2>1 DEF TraceInv, Owed
<1>20. Brought'
  <2>1. ASSUME NEW o \in Executed, NEW a \in ToSet(Reads(task, o[1], o[2]))
        PROVE  a \in DOMAIN locations' /\ Origin(o)' \in ToSet(locations'[a])
    BY <1>11, <1>12, <1>13 DEF TraceInv, Brought
  <2>2. ASSUME NEW a \in ToSet(Held(p))
        PROVE  a \in DOMAIN locations' /\ Origin(out)' \in ToSet(locations'[a])
    <3>1. Held(p) \in Seq(DOMAIN locations) /\ ready[p] = Len(Held(p))
      BY <1>1 DEF Inv, Underway, TraceInv, Brought
    <3>2. PICK i \in 1..ready[p] : a = Held(p)[i]
      BY <3>1, Elements
    <3>3. a \in DOMAIN locations
      BY <3>1, <3>2
    <3>4. target[p] \in ToSet(locations[a])
      BY <1>1, <3>2 DEF TraceInv, Brought
    <3> QED
      BY <1>11, <1>12, <3>3, <3>4
  <2>3. out[1] = p /\ out[2] = step[p] + 1
    BY <1>3
  <2>4. \A o \in Executed' : \A a \in ToSet(Reads(task', o[1], o[2])) :
           a \in DOMAIN locations' /\ Origin(o)' \in ToSet(locations'[a])
    BY <1>1, <1>9, <2>1, <2>2, <2>3 DEF Held
  <2>5. ASSUME NEW q \in Procs, phase'[q] \in {"localize", "sent"}
        PROVE  /\ \A i \in 1..ready[q] : target[q] \in ToSet(locations'[Held(q)'[i]])
               /\ phase'[q] = "sent" => ready[q] = Len(Held(q)')
    <3>1. q # p /\ phase[q] = phase'[q] /\ Held(q)' = Held(q)
      BY <1>5, <1>8, <1>12, <2>5
    <3>2. /\ Held(q) \in Seq(DOMAIN locations) /\ ready[q] <= Len(Held(q)) /\ ready[q] \in Nat
      BY <2>5, <3>1 DEF Inv, Underway, TypeOK
    <3>3. \A i \in 1..ready[q] : Held(q)[i] \in DOMAIN locations
      BY <3>2
    <3> QED
      BY <1>11, <2>5, <3>1, <3>3 DEF TraceInv, Brought
  <2> QED
    BY <1>1, <2>4, <2>5 DEF Brought
<1> QED
  BY <1>15, <1>16, <1>17, <1>18, <1>19, <1>20 DEF TraceInv

\* A raised exception is no start of a call, nor its end.
LEMMA RaisedGoesOn ==
  ASSUME Inv, NEW p \in Procs, Raise(p), UNCHANGED <<target, ready>>
  PROVE  \A q \in Procs : \A new : GoesOn(q, new)
BY DEF Raise, GoesOn

LEMMA TraceStep == Inv /\ TraceInv /\ [Next]_vars => TraceInv'
<1> SUFFICES ASSUME Inv, TraceInv, [Next]_vars
             PROVE  TraceInv'
  OBVIOUS
<1> USE DEF dataVars, callVars
<1>1. /\ phase \in [Procs -> {"idle", "ask", "localize", "sent"} \cup Ended]
      /\ target \in [Procs -> Workers \cup {""}] /\ ready \in [Procs -> Nat]
  BY DEF Inv, TypeOK
<1>2. ASSUME UNCHANGED <<task, step, locations, trace>>, \A q \in Procs : GoesOn(q, {})
      PROVE  TraceInv'
  <2>1. trace' = trace \cup {} /\ \A x \in {} : Announces(x)
    BY <1>2
  <2> QED
    BY <1>2, <2>1, BetweenCalls
<1>3. ASSUME UNCHANGED <<phase, target, ready>>
      PROVE  \A q \in Procs : \A new : GoesOn(q, new)
  BY <1>3 DEF GoesOn
<1>4. ASSUME NEW p \in Procs, UNCHANGED <<target, ready>>,
             \E next \in {"failed", "cancelled"} : phase' = [phase EXCEPT ![p] = next]
      PROVE  \A q \in Procs : \A new : GoesOn(q, new)
  BY <1>1, <1>4 DEF GoesOn
<1>5. ASSUME NEW p \in Procs
      PROVE  /\ Event("execution.request", p, ToSet(Held(p)), "", "").kind = "execution.request"
             /\ Event("execution.request", p, ToSet(Held(p)), "", "").action = Output(p)
             /\ Announces(Event("execution.request", p, ToSet(Held(p)), "", ""))
             /\ \A e : Announces(Choice(p, e))
  BY <1>5 DEF Event, Choice, Announces
<1>6. ASSUME NEW p \in Procs, NEW next \in {"ask", "localize"}, NEW new, NEW x \in new,
             x.kind = "execution.request", x.action = Output(p),
             phase[p] = "idle", phase' = [phase EXCEPT ![p] = next],
             ready' = [ready EXCEPT ![p] = 0], \A q \in Procs \ {p} : target'[q] = target[q]
      PROVE  \A q \in Procs : GoesOn(q, new)
  <2> SUFFICES ASSUME NEW q \in Procs PROVE GoesOn(q, new)
    OBVIOUS
  <2>1. CASE q = p
    BY <1>1, <1>6, <2>1 DEF GoesOn
  <2>2. CASE q # p
    BY <1>1, <1>6, <2>2 DEF GoesOn
  <2> QED
    BY <2>1, <2>2
<1>7. ASSUME NEW p \in Procs, Proceed(p)
      PROVE  TraceInv'
  <2>1. CASE Invoke(p)
    <3>1. PICK e \in SelectedFor(p) :
            /\ trace' = trace \cup {Event("execution.request", p, ToSet(Held(p)), "", ""), Choice(p, e)}
            /\ target' = [target EXCEPT ![p] = e.worker]
      BY <2>1 DEF Invoke, Record
    <3>2. PICK x, y : /\ x = Event("execution.request", p, ToSet(Held(p)), "", "")
                      /\ y = Choice(p, e)
      OBVIOUS
    <3>3. /\ x.kind = "execution.request" /\ x.action = Output(p)
          /\ \A z \in {x, y} : Announces(z)
      BY <1>5, <3>2
    <3>4. \A q \in Procs \ {p} : target'[q] = target[q]
      BY <1>1, <3>1
    <3>5. \A q \in Procs : GoesOn(q, {x, y})
      BY <1>6, <2>1, <3>3, <3>4 DEF Invoke, MayStart
    <3> QED
      BY <2>1, <3>1, <3>2, <3>3, <3>5, BetweenCalls DEF Invoke
  <2>2. CASE Refuse(p) \/ ReceiveError(p)
    BY <1>2, <2>2, RaisedGoesOn DEF Refuse, ReceiveError
  <2>3. CASE RefuseOperator(p)
    <3>1. \A q \in Procs : \A new : GoesOn(q, new)
      BY <2>3, RaisedGoesOn DEF RefuseOperator
    <3>2. PICK new : new = {Event("execution.request", p, ToSet(Held(p)), "", "")}
      OBVIOUS
    <3>3. \A x \in new : Announces(x)
      BY <1>5, <3>2
    <3> QED
      BY <2>3, <3>1, <3>2, <3>3, BetweenCalls DEF RefuseOperator, Record
  <2>4. CASE CallOperator(p)
    <3>1. PICK x : x = Event("execution.request", p, ToSet(Held(p)), "", "")
      OBVIOUS
    <3>2. x.kind = "execution.request" /\ x.action = Output(p) /\ \A z \in {x} : Announces(z)
      BY <1>5, <3>1
    <3>3. /\ \E next \in {"ask", "localize"} : phase' = [phase EXCEPT ![p] = next]
          /\ \A q \in Procs \ {p} : target'[q] = target[q]
      BY <1>1, <2>4 DEF CallOperator
    <3>4. \A q \in Procs : GoesOn(q, {x})
      BY <1>6, <2>4, <3>2, <3>3 DEF CallOperator, MayStart
    <3> QED
      BY <2>4, <3>1, <3>2, <3>4, BetweenCalls DEF CallOperator, Record
  <2>5. CASE AskWorkers(p)
    <3>1. /\ phase[p] = "ask" /\ UNCHANGED <<task, step, locations, trace, ready>>
          /\ \/ \E w : target' = [target EXCEPT ![p] = w] /\ phase' = [phase EXCEPT ![p] = "localize"]
             \/ Raise(p) /\ UNCHANGED target
      BY <2>5 DEF AskWorkers
    <3>2. ready[p] = 0
      BY <3>1 DEF Inv, Underway
    <3>3. CASE Raise(p) /\ UNCHANGED target
      BY <1>2, <3>1, <3>3, RaisedGoesOn
    <3>4. CASE \E w : target' = [target EXCEPT ![p] = w] /\ phase' = [phase EXCEPT ![p] = "localize"]
      <4>1. \A q \in Procs : GoesOn(q, {})
        BY <1>1, <3>1, <3>2, <3>4 DEF GoesOn
      <4> QED
        BY <1>2, <3>1, <4>1
    <3> QED
      BY <3>1, <3>3, <3>4
  <2>6. CASE SkipLocal(p)
    <3>1. \A q \in Procs : GoesOn(q, {})
      BY <1>1, <2>6 DEF SkipLocal, Localizing, GoesOn
    <3> QED
      BY <1>2, <2>6, <3>1 DEF SkipLocal
  <2>7. CASE Pull(p)
    BY <2>7, OnePull
  <2>8. CASE Send(p)
    <3>1. \A q \in Procs : GoesOn(q, {})
      BY <1>1, <2>8 DEF Send, GoesOn
    <3> QED
      BY <1>2, <2>8, <3>1 DEF Send
  <2>9. CASE Receive(p)
    BY <2>9, OneReceipt
  <2> QED
    BY <1>7, <2>1, <2>2, <2>3, <2>4, <2>5, <2>6, <2>7, <2>8, <2>9 DEF Proceed
<1>8. ASSUME NEW p \in Procs, PullFails(p) \/ TimeOut(p)
      PROVE  TraceInv'
  BY <1>2, <1>8, RaisedGoesOn DEF PullFails, TimeOut
<1>9. ASSUME NEW p \in Procs, Cancel(p)
      PROVE  TraceInv'
  BY <1>2, <1>4, <1>9 DEF Cancel
<1>10. ASSUME NEW h \in handlers, Serve(h) \/ Break(h)
      PROVE  TraceInv'
  BY <1>2, <1>3, <1>10 DEF Serve, Break
<1>11. CASE FetchAnswer
  BY <1>2, <1>3, <1>11 DEF FetchAnswer
<1>12. CASE GiveUp
  <2>1. Final \in Procs
    BY Shape DEF Inv, TypeOK
  <2> QED
    BY <1>2, <1>4, <1>12, <2>1 DEF GiveUp
<1>13. CASE UNCHANGED vars
  BY <1>2, <1>3, <1>13 DEF vars
<1> QED
  BY <1>7, <1>8, <1>9, <1>10, <1>11, <1>12, <1>13 DEF Next
-----------------------------------------------------------------------------
(* Who reads what: in a measured workflow an artifact is read by one call,  *)
(* and the branches together read the inputs that are inspected.           *)

LEMMA InputsAre ==
  ASSUME NEW t \in Tasks, NEW w
  PROVE  ToSet(InputsAt(t, w)) = {i \in DOMAIN t.inputs : t.inputs[i].worker = w}
<1>1. DOMAIN t.inputs = 1..Len(t.inputs) /\ Len(t.inputs) \in Nat
  BY Shape
<1> DEFINE all == [i \in DOMAIN t.inputs |-> i]
           at == {i \in DOMAIN t.inputs : t.inputs[i].worker = w}
<1>2. all \in Seq(Nat) /\ at \in SUBSET DOMAIN all /\ \A i \in at : all[i] = i
  BY <1>1
<1>3. InputsAt(t, w) = Those(all, at)
  BY DEF InputsAt
<1> HIDE DEF all, at
<1>4. /\ \A n \in DOMAIN Those(all, at) : \E i \in at : Those(all, at)[n] = all[i]
      /\ \A i \in at : \E n \in DOMAIN Those(all, at) : Those(all, at)[n] = all[i]
  BY <1>2, ThoseAre
<1>5. ToSet(Those(all, at)) = at
  BY <1>2, <1>4 DEF ToSet
<1> QED
  BY <1>3, <1>5 DEF at

LEMMA ActiveAre ==
  ASSUME NEW t \in Tasks
  PROVE  /\ DOMAIN ActiveWorkers(t) = 1..Len(ActiveWorkers(t)) /\ Len(ActiveWorkers(t)) \in Nat
         /\ IsInjective(ActiveWorkers(t))
         /\ \A i \in DOMAIN t.inputs : t.inputs[i].worker \in ToSet(ShardWorkers) =>
               \E b \in DOMAIN ActiveWorkers(t) : ActiveWorkers(t)[b] = t.inputs[i].worker
<1> DEFINE shards == {t.inputs[i].worker : i \in DOMAIN t.inputs}
           at == {i \in DOMAIN ShardWorkers : ShardWorkers[i] \in shards}
<1>1. ActiveWorkers(t) = Those(ShardWorkers, at)
  BY DEF ActiveWorkers
<1>2. ShardWorkers \in Seq(Workers) /\ IsInjective(ShardWorkers) /\ at \in SUBSET DOMAIN ShardWorkers
  BY WorkflowAssumption
<1>3. ASSUME NEW i \in DOMAIN t.inputs, t.inputs[i].worker \in ToSet(ShardWorkers)
      PROVE  \E j \in at : ShardWorkers[j] = t.inputs[i].worker
  BY <1>3 DEF ToSet
<1> HIDE DEF at
<1>4. /\ ActiveWorkers(t) \in Seq(Workers) /\ IsInjective(ActiveWorkers(t))
      /\ \A i \in at : \E n \in DOMAIN ActiveWorkers(t) : ActiveWorkers(t)[n] = ShardWorkers[i]
  BY <1>1, <1>2, ThoseAre
<1>5. ASSUME NEW i \in DOMAIN t.inputs, t.inputs[i].worker \in ToSet(ShardWorkers)
      PROVE  \E b \in DOMAIN ActiveWorkers(t) : ActiveWorkers(t)[b] = t.inputs[i].worker
  BY <1>3, <1>4, <1>5
<1> QED
  BY <1>4, <1>5

\* What a branch of a workflow reads first.
LEMMA BranchShape ==
  ASSUME NEW t \in Tasks, t.workflow # "planned"
  PROVE  /\ t.workflow \in RawWorkflows => Width(t) = 0
         /\ t.workflow \in FrameWorkflows =>
              Width(t) = Len(t.inputs) /\ \A b \in Branches(t) : ToSet(BranchInputs(t, b)) = {b}
         /\ t.workflow \in ImageWorkflows =>
              \A b \in Branches(t) : ToSet(BranchInputs(t, b))
                                       = {(b - 1) * GroupSize(t) + i : i \in 1..GroupSize(t)}
         /\ t.workflow \in ShardWorkflows =>
              /\ Width(t) = Len(ActiveWorkers(t))
              /\ \A b \in Branches(t) :
                   ToSet(BranchInputs(t, b))
                     = {i \in DOMAIN t.inputs : t.inputs[i].worker = ActiveWorkers(t)[b]}
         /\ t.workflow \in RawWorkflows \cup FrameWorkflows \cup ImageWorkflows \cup ShardWorkflows
         /\ GroupSize(t) \in {1, 2}
<1> USE DEF RawWorkflows, FrameWorkflows, ImageWorkflows, ShardWorkflows
<1>1. t.workflow \in RawWorkflows \cup FrameWorkflows \cup ImageWorkflows \cup ShardWorkflows
  BY WorkflowAssumption
<1>2. CASE t.workflow \in RawWorkflows
  BY <1>1, <1>2 DEF Width, GroupSize
<1>3. CASE t.workflow \in FrameWorkflows
  <2>1. Width(t) = Len(t.inputs) /\ \A b \in Branches(t) : BranchInputs(t, b) = <<b>>
    BY <1>3 DEF Width, BranchInputs
  <2>2. \A b \in Branches(t) : ToSet(BranchInputs(t, b)) = {b}
    BY <2>1 DEF ToSet
  <2> QED
    BY <1>1, <1>3, <2>1, <2>2 DEF GroupSize
<1>4. CASE t.workflow \in ImageWorkflows
  <2>1. GroupSize(t) \in {1, 2}
    BY DEF GroupSize
  <2>2. \A b \in Branches(t) :
           BranchInputs(t, b) = [i \in 1..GroupSize(t) |-> (b - 1) * GroupSize(t) + i]
    BY <1>4 DEF BranchInputs, ImageGroup
  <2>3. \A b \in Branches(t) : ToSet(BranchInputs(t, b))
                                   = {(b - 1) * GroupSize(t) + i : i \in 1..GroupSize(t)}
    BY <2>2 DEF ToSet
  <2> QED
    BY <1>1, <1>4, <2>1, <2>3
<1>5. CASE t.workflow \in ShardWorkflows
  <2>1. Width(t) = Len(ActiveWorkers(t)) /\ GroupSize(t) \in {1, 2}
    BY <1>5 DEF Width, GroupSize
  <2>2. \A b \in Branches(t) : BranchInputs(t, b) = InputsAt(t, ActiveWorkers(t)[b])
    BY <1>5 DEF BranchInputs
  <2> QED
    BY <1>1, <1>5, <2>1, <2>2, InputsAre
<1> QED
  BY <1>1, <1>2, <1>3, <1>4, <1>5

LEMMA BranchesApart ==
  ASSUME NEW t \in Tasks, t.workflow # "planned",
         NEW b \in Branches(t), NEW c \in Branches(t),
         NEW k \in ToSet(BranchInputs(t, b)), k \in ToSet(BranchInputs(t, c))
  PROVE  b = c
<1>1. b \in 1..Width(t) /\ c \in 1..Width(t) /\ Width(t) \in Nat
  BY Shape DEF Branches
<1>2. CASE t.workflow \in RawWorkflows
  BY <1>1, <1>2, BranchShape
<1>3. CASE t.workflow \in FrameWorkflows
  BY <1>3, BranchShape
<1>4. CASE t.workflow \in ImageWorkflows
  <2>1. PICK i \in 1..GroupSize(t), j \in 1..GroupSize(t) :
           k = (b - 1) * GroupSize(t) + i /\ k = (c - 1) * GroupSize(t) + j
    BY <1>4, BranchShape
  <2>2. CASE GroupSize(t) = 1
    BY <1>1, <2>1, <2>2
  <2>3. CASE GroupSize(t) = 2
    BY <1>1, <2>1, <2>3
  <2> QED
    BY <2>2, <2>3, BranchShape
<1>5. CASE t.workflow \in ShardWorkflows
  <2>1. ActiveWorkers(t)[b] = ActiveWorkers(t)[c] /\ Width(t) = Len(ActiveWorkers(t))
    BY <1>5, BranchShape
  <2>2. b \in DOMAIN ActiveWorkers(t) /\ c \in DOMAIN ActiveWorkers(t)
    BY <1>1, <2>1, ActiveAre
  <2> QED
    BY <2>1, <2>2, ActiveAre DEF IsInjective
<1> QED
  BY <1>2, <1>3, <1>4, <1>5, BranchShape

LEMMA BranchesCover ==
  ASSUME task \in Tasks, task.workflow # "planned", task.workflow \notin RawWorkflows
  PROVE  \A i : Input(i) \in Inspected <=>
                   \E b \in Branches(task) : i \in ToSet(BranchInputs(task, b))
<1>1. /\ DOMAIN task.inputs = 1..Len(task.inputs) /\ Len(task.inputs) \in Nat
      /\ Branches(task) = 1..Width(task) /\ Width(task) \in Nat
      /\ \A b \in Branches(task) : BranchInputs(task, b) \in Seq(DOMAIN task.inputs)
  BY Shape DEF Branches
<1>2. \A i : Input(i) \in InputIds(task) <=> i \in DOMAIN task.inputs
  BY DEF InputIds, Input
<1>3. CASE task.workflow \in FrameWorkflows
  <2>1. Inspected = InputIds(task)
    BY <1>3 DEF Inspected, FrameWorkflows, ImageWorkflows
  <2>2. \A i : (\E b \in Branches(task) : i \in ToSet(BranchInputs(task, b))) <=> i \in Branches(task)
    BY <1>3, BranchShape
  <2>3. Branches(task) = DOMAIN task.inputs
    BY <1>1, <1>3, BranchShape
  <2> QED
    BY <1>2, <2>1, <2>2, <2>3
<1>4. CASE task.workflow \in ImageWorkflows
  <2>1. \A i : Input(i) \in Inspected <=> i \in 1..(Width(task) * GroupSize(task))
    BY <1>4 DEF Inspected, Input
  <2>2. ASSUME NEW i
        PROVE  i \in 1..(Width(task) * GroupSize(task)) <=>
                 \E b \in 1..Width(task) : \E j \in 1..GroupSize(task) :
                    i = (b - 1) * GroupSize(task) + j
    <3>1. CASE GroupSize(task) = 1
      BY <1>1, <3>1
    <3>2. CASE GroupSize(task) = 2
      <4>1. ASSUME i \in 1..(Width(task) * 2)
            PROVE  \E b \in 1..Width(task) : \E j \in 1..2 : i = (b - 1) * 2 + j
        <5>1. PICK b \in Nat : i = 2 * b \/ i = 2 * b - 1
          <6>1. i % 2 \in {0, 1} /\ i = 2 * (i \div 2) + (i % 2) /\ i \div 2 \in Nat
            BY <1>1, <4>1
          <6>2. i = 2 * (i \div 2) \/ i = 2 * ((i \div 2) + 1) - 1
            BY <4>1, <6>1
          <6>3. i \div 2 \in Nat /\ (i \div 2) + 1 \in Nat
            BY <6>1
          <6> QED
            BY <6>2, <6>3
        <5>2. b \in 1..Width(task)
          BY <1>1, <4>1, <5>1
        <5> QED
          BY <4>1, <5>1, <5>2
      <4>2. ASSUME NEW b \in 1..Width(task), NEW j \in 1..2, i = (b - 1) * 2 + j
            PROVE  i \in 1..(Width(task) * 2)
        BY <1>1, <4>2
      <4> QED
        BY <3>2, <4>1, <4>2
    <3> QED
      BY <3>1, <3>2, BranchShape
  <2>3. ASSUME NEW i
        PROVE  (\E b \in Branches(task) : i \in ToSet(BranchInputs(task, b))) <=>
                 \E b \in 1..Width(task) : \E j \in 1..GroupSize(task) :
                    i = (b - 1) * GroupSize(task) + j
    <3>1. \A b \in Branches(task) : i \in ToSet(BranchInputs(task, b)) <=>
             \E j \in 1..GroupSize(task) : i = (b - 1) * GroupSize(task) + j
      BY <1>4, BranchShape
    <3> QED
      BY <1>1, <3>1
  <2> QED
    BY <2>1, <2>2, <2>3
<1>5. CASE task.workflow \in ShardWorkflows
  <2>1. Inspected = InputIds(task)
    BY <1>5 DEF Inspected, ShardWorkflows, ImageWorkflows
  <2>2. \A i \in DOMAIN task.inputs : task.inputs[i].worker \in ToSet(ShardWorkers)
    BY <1>5, WorkflowAssumption DEF IsTask, ShardWorkflows
  <2>3. ASSUME NEW i \in DOMAIN task.inputs
        PROVE  \E b \in Branches(task) : i \in ToSet(BranchInputs(task, b))
    <3>1. PICK b \in DOMAIN ActiveWorkers(task) : ActiveWorkers(task)[b] = task.inputs[i].worker
      BY <2>2, ActiveAre
    <3>2. b \in Branches(task)
      BY <1>1, <1>5, <3>1, ActiveAre, BranchShape
    <3> QED
      BY <1>5, <3>1, <3>2, BranchShape
  <2>4. \A b \in Branches(task) : ToSet(BranchInputs(task, b)) \subseteq DOMAIN task.inputs
    BY <1>1, Elements
  <2> QED
    BY <1>2, <2>1, <2>3, <2>4
<1> QED
  BY <1>3, <1>4, <1>5, BranchShape

\* What a call reads.
LEMMA CallReads ==
  ASSUME NEW t \in Tasks, NEW q \in {Final} \cup Branches(t), NEW s \in 1..Len(Chain(t, q))
  PROVE  /\ s > 1 => q # Final /\ ToSet(Reads(t, q, s)) = {<<q, s - 1>>}
         /\ s = 1 /\ q = Final /\ t.workflow \in RawWorkflows =>
              ToSet(Reads(t, q, s)) = InputIds(t)
         /\ s = 1 /\ q = Final /\ t.workflow \notin RawWorkflows =>
              ToSet(Reads(t, q, s)) = {<<b, Len(Chain(t, b))>> : b \in Branches(t)}
         /\ s = 1 /\ q # Final =>
              ToSet(Reads(t, q, s)) = {Input(i) : i \in ToSet(BranchInputs(t, q))}
<1>1. Len(Chain(t, Final)) = 1
  BY DEF Chain
<1>2. CASE s > 1
  <2>1. q # Final
    <3> SUFFICES ASSUME q = Final PROVE FALSE
      OBVIOUS
    <3>1. s \in 1..1
      BY <1>1
    <3> QED
      BY <1>2, <3>1
  <2>2. Reads(t, q, s) = <<<<q, s - 1>>>>
    BY <1>2 DEF Reads
  <2>3. ToSet(Reads(t, q, s)) = {<<q, s - 1>>}
    BY <2>2 DEF ToSet
  <2> QED
    BY <1>2, <2>1, <2>3
<1>3. CASE s = 1 /\ q = Final
  <2>1. Reads(t, q, s) = FinalInputs(t)
    BY <1>3 DEF Reads
  <2>2. CASE t.workflow \in RawWorkflows
    <3>1. FinalInputs(t) = [i \in DOMAIN t.inputs |-> Input(i)]
      BY <2>2 DEF FinalInputs
    <3>2. ToSet(Reads(t, q, s)) = InputIds(t)
      BY <2>1, <3>1 DEF ToSet, InputIds
    <3> QED
      BY <1>3, <2>2, <3>2
  <2>3. CASE t.workflow \notin RawWorkflows
    <3>1. FinalInputs(t) = [b \in Branches(t) |-> <<b, Len(Chain(t, b))>>]
      BY <2>3 DEF FinalInputs
    <3>2. ToSet(Reads(t, q, s)) = {<<b, Len(Chain(t, b))>> : b \in Branches(t)}
      BY <2>1, <3>1 DEF ToSet
    <3> QED
      BY <1>3, <2>3, <3>2
  <2> QED
    BY <2>2, <2>3
<1>4. CASE s = 1 /\ q # Final
  <2>1. Reads(t, q, s)
          = [i \in DOMAIN BranchInputs(t, q) |-> Input(BranchInputs(t, q)[i])]
    BY <1>4 DEF Reads
  <2>2. ToSet(Reads(t, q, s)) = {Input(i) : i \in ToSet(BranchInputs(t, q))}
    BY <2>1 DEF ToSet
  <2> QED
    BY <1>4, <2>2
<1> QED
  BY <1>2, <1>3, <1>4

LEMMA ReadsOnce ==
  ASSUME NEW t \in Tasks, t.workflow # "planned",
         NEW p \in {Final} \cup Branches(t), NEW r \in 1..Len(Chain(t, p)),
         NEW q \in {Final} \cup Branches(t), NEW s \in 1..Len(Chain(t, q)),
         NEW a \in ToSet(Reads(t, p, r)), a \in ToSet(Reads(t, q, s))
  PROVE  p = q /\ r = s
<1>1. /\ Final \notin Branches(t)
      /\ \A b \in {Final} \cup Branches(t) : Len(Chain(t, b)) \in Nat /\ Len(Chain(t, b)) > 0
  BY Shape
<1>2. t.workflow \in RawWorkflows => Branches(t) = {}
  BY BranchShape DEF Branches
<1>3. CASE r > 1
  <2>1. p \in Branches(t) /\ a = <<p, r - 1>> /\ r - 1 >= 1 /\ r - 1 < Len(Chain(t, p))
    BY <1>1, <1>3, CallReads
  <2>2. a \notin InputIds(t) /\ \A i : a # Input(i)
    BY <2>1 DEF InputIds, Input
  <2>3. \A b \in Branches(t) : a # <<b, Len(Chain(t, b))>>
    BY <2>1
  <2>4. s > 1
    BY <2>2, <2>3, CallReads
  <2>5. a = <<q, s - 1>>
    BY <2>4, CallReads
  <2> QED
    BY <2>1, <2>5
<1>4. CASE s > 1
  <2>1. q \in Branches(t) /\ a = <<q, s - 1>> /\ s - 1 >= 1 /\ s - 1 < Len(Chain(t, q))
    BY <1>1, <1>4, CallReads
  <2>2. a \notin InputIds(t) /\ \A i : a # Input(i)
    BY <2>1 DEF InputIds, Input
  <2>3. \A b \in Branches(t) : a # <<b, Len(Chain(t, b))>>
    BY <2>1
  <2>4. r > 1
    BY <2>2, <2>3, CallReads
  <2>5. a = <<p, r - 1>>
    BY <2>4, CallReads
  <2> QED
    BY <2>1, <2>5
<1>5. CASE r = 1 /\ s = 1 /\ (p = Final \/ q = Final)
  <2>1. ASSUME NEW u \in Branches(t), a \in ToSet(Reads(t, Final, 1)),
               a \in ToSet(Reads(t, u, 1))
        PROVE  FALSE
    <3>1. 1 \in 1..Len(Chain(t, Final)) /\ 1 \in 1..Len(Chain(t, u))
      BY <1>1
    <3>2. t.workflow \notin RawWorkflows /\ u # Final
      BY <1>1, <1>2, <2>1
    <3>3. a \in {<<b, Len(Chain(t, b))>> : b \in Branches(t)}
      BY <2>1, <3>1, <3>2, CallReads
    <3>4. a \in {Input(i) : i \in ToSet(BranchInputs(t, u))}
      BY <2>1, <3>1, <3>2, CallReads
    <3> QED
      BY <1>1, <3>3, <3>4 DEF Input
  <2> QED
    BY <1>5, <2>1
<1>6. CASE r = 1 /\ s = 1 /\ p # Final /\ q # Final
  <2>1. /\ a \in {Input(i) : i \in ToSet(BranchInputs(t, p))}
        /\ a \in {Input(i) : i \in ToSet(BranchInputs(t, q))}
    BY <1>6, CallReads
  <2>2. PICK i \in ToSet(BranchInputs(t, p)), j \in ToSet(BranchInputs(t, q)) :
           a = Input(i) /\ a = Input(j)
    BY <2>1
  <2>3. i = j
    BY <2>2 DEF Input
  <2> QED
    BY <1>6, <2>3, BranchesApart
<1> QED
  BY <1>1, <1>3, <1>4, <1>5, <1>6
-----------------------------------------------------------------------------
(* The rows of a run that has been answered: one for each call, with its   *)
(* Worker and what it read, and one for each artifact that was moved for a *)
(* call.                                                                   *)

ReadBy(o) == ToSet(Reads(task, o[1], o[2]))

\* When a measured run is answered, every call of the run has returned.
LEMMA AtTheEnd ==
  ASSUME Inv, TraceInv, Measured
  PROVE  /\ task \in Tasks /\ task.workflow # "planned"
         /\ \A o \in Executed : /\ o = <<o[1], o[2]>> /\ o[1] \in Taking
                                /\ o[2] \in 1..Len(Chain(task, o[1])) /\ o[2] \in Nat
                                /\ o \notin InputIds(task)
         /\ \A q \in Taking : \A s \in 1..Len(Chain(task, q)) : <<q, s>> \in Executed
         /\ \A x \in Pulls : \E o \in Executed : \E a \in ReadBy(o) :
               /\ x.action = o /\ x.artifacts = {a} /\ x.from = Origin(a) /\ x.worker = Origin(o)
<1>1. task \in Tasks /\ task.workflow # "planned" /\ outcome = "answered"
  BY DEF Inv, TypeOK, Measured
<1>2. \A p \in Procs : phase[p] = "done"
  BY <1>1 DEF Inv, Concluded, Underway, Taking
<1>3. /\ Taking \subseteq Procs /\ \A q \in Taking : Len(Chain(task, q)) \in Nat
      /\ Final \in Taking
  BY <1>1, Shape DEF Taking
<1>4. \A q \in Taking : step[q] = Len(Chain(task, q))
  BY <1>2, <1>3 DEF Inv, Underway, TraceInv, Bounded
<1>5. ASSUME NEW o \in Executed
      PROVE  /\ o = <<o[1], o[2]>> /\ o[1] \in Taking
             /\ o[2] \in 1..Len(Chain(task, o[1])) /\ o[2] \in Nat
             /\ o \notin InputIds(task)
  <2>1. PICK q \in Procs, s \in Nat \ {0} : o = <<q, s>> /\ s <= step[q]
    BY <1>5 DEF Executed
  <2>2. q \in Taking
    BY <2>1 DEF TraceInv, Bounded
  <2>3. s \in 1..Len(Chain(task, q))
    BY <1>3, <1>4, <2>1, <2>2
  <2>4. o \notin InputIds(task)
    BY <2>1 DEF InputIds, Input
  <2> QED
    BY <2>1, <2>2, <2>3, <2>4
<1>6. ASSUME NEW q \in Taking, NEW s \in 1..Len(Chain(task, q))
      PROVE  <<q, s>> \in Executed
  BY <1>3, <1>4 DEF Executed
<1>7. ASSUME NEW x \in Pulls
      PROVE  \E o \in Executed : \E a \in ReadBy(o) :
               /\ x.action = o /\ x.artifacts = {a} /\ x.from = Origin(a) /\ x.worker = Origin(o)
  <2>1. PICK a \in DOMAIN locations, q \in Procs, s \in Nat \ {0} : Explains(x, a, q, s)
    BY DEF TraceInv, Explained
  <2>2. s <= step[q] /\ x.worker = Origin(<<q, s>>)
    BY <1>2, <2>1 DEF Explains
  <2>3. <<q, s>> \in Executed /\ a \in ReadBy(<<q, s>>)
    BY <2>1, <2>2 DEF Executed, Explains, ReadBy
  <2> QED
    BY <2>1, <2>2, <2>3 DEF Explains
<1> QED
  BY <1>1, <1>5, <1>6, <1>7

LEMMA SoleReader ==
  ASSUME Inv, TraceInv, Measured, NEW o \in Executed, NEW u \in Executed,
         NEW a \in ReadBy(o), a \in ReadBy(u)
  PROVE  o = u
<1>1. /\ task \in Tasks /\ task.workflow # "planned"
      /\ o = <<o[1], o[2]>> /\ o[1] \in {Final} \cup Branches(task) /\ o[2] \in 1..Len(Chain(task, o[1]))
      /\ u = <<u[1], u[2]>> /\ u[1] \in {Final} \cup Branches(task) /\ u[2] \in 1..Len(Chain(task, u[1]))
  BY AtTheEnd DEF Taking
<1>2. o[1] = u[1] /\ o[2] = u[2]
  BY <1>1, ReadsOnce DEF ReadBy
<1> QED
  BY <1>1, <1>2

\* What a call read came from its origin, by a transfer unless it was there.
LEMMA PulledFor ==
  ASSUME Inv, TraceInv, Measured, NEW o \in Executed, NEW a \in ReadBy(o), Origin(a) # Origin(o)
  PROVE  \E x \in Pulls : x.action = o /\ x.artifacts = {a}
<1>1. a \in DOMAIN locations /\ Origin(o) \in ToSet(locations[a])
  BY DEF TraceInv, Brought, ReadBy
<1>2. PICK i \in DOMAIN locations[a] : locations[a][i] = Origin(o)
  BY <1>1 DEF ToSet
<1>3. i # 1
  BY <1>2 DEF Origin
<1>4. PICK x \in Pulls : x.artifacts = {a} /\ x.worker = locations[a][i]
  BY <1>1, <1>3 DEF TraceInv, Owed
<1>5. PICK u \in Executed : \E b \in ReadBy(u) : x.action = u /\ x.artifacts = {b}
  BY AtTheEnd
<1>6. a \in ReadBy(u)
  BY <1>4, <1>5
<1>7. u = o
  BY <1>6, SoleReader
<1> QED
  BY <1>4, <1>5, <1>7

\* What the readers find in the events.
LEMMA Lookup ==
  ASSUME TraceInv
  PROVE  /\ \A a : IsProduced(trace, a) <=> a \in Executed
         /\ \A a \in Executed : Producer(trace, a) = a
         /\ \A o \in Executed : Request(trace, o).artifacts = ReadBy(o)
<1> DEFINE created == OfKind(trace, "artifact.created")
           requests == OfKind(trace, "execution.request")
<1>1. /\ \A x \in created : x.action \in Executed /\ x.artifacts = {x.action}
      /\ \A o \in Executed : \E x \in created : x.action = o
      /\ \A x \in requests : x.artifacts = ReadBy(x.action)
      /\ \A o \in Executed : \E x \in requests : x.action = o
  BY DEF TraceInv, Recorded, CallEvents, ReadBy
<1>2. \A a : IsProduced(trace, a) <=> a \in Executed
  BY <1>1 DEF IsProduced
<1>3. \A a \in Executed : Producer(trace, a) = a
  BY <1>1 DEF Producer
<1>4. \A o \in Executed : Request(trace, o).artifacts = ReadBy(o)
  BY <1>1 DEF Request
<1> QED
  BY <1>2, <1>3, <1>4

\* What moved an artifact of a run depends on: the call that made it.
Source(a) == IF a \in Executed THEN {ActionId(a)} ELSE {}
Needs(o, a) ==
  IF \E t \in TransferRows(trace) : t.consumer = o /\ t.artifact = a
  THEN {TransferId(o, a)} ELSE Source(a)

LEMMA TransferRowsAre ==
  ASSUME Inv, TraceInv, Measured
  PROVE  /\ \A t \in TransferRows(trace) : \E o \in Executed : \E a \in ReadBy(o) :
               /\ t.id = TransferId(o, a) /\ t.artifact = a /\ t.consumer = o
               /\ t.from = Origin(a) /\ t.to = Origin(o) /\ t.depends = Source(a)
         /\ \A o \in Executed : \A a \in ReadBy(o) : Origin(a) # Origin(o) =>
               \E t \in TransferRows(trace) : t.consumer = o /\ t.artifact = a
<1> DEFINE row(x, a) == [id       |-> TransferId(x.action, a),
                         artifact |-> a,
                         consumer |-> x.action,
                         from     |-> x.from,
                         to       |-> x.worker,
                         depends  |-> Source(a)]
<1>1. \A a : Source(a) = IF IsProduced(trace, a) THEN {ActionId(Producer(trace, a))} ELSE {}
  BY Lookup DEF Source
<1>2. TransferRows(trace) = UNION {{row(x, a) : a \in x.artifacts} : x \in Pulls}
  BY <1>1 DEF TransferRows, Pulls
<1>3. ASSUME NEW t \in TransferRows(trace)
      PROVE  \E o \in Executed : \E a \in ReadBy(o) :
               /\ t.id = TransferId(o, a) /\ t.artifact = a /\ t.consumer = o
               /\ t.from = Origin(a) /\ t.to = Origin(o) /\ t.depends = Source(a)
  <2>1. PICK x \in Pulls : \E a \in x.artifacts : t = row(x, a)
    BY <1>2
  <2>2. PICK a \in x.artifacts : t = row(x, a)
    BY <2>1
  <2>3. PICK o \in Executed : \E b \in ReadBy(o) :
               x.action = o /\ x.artifacts = {b} /\ x.from = Origin(b) /\ x.worker = Origin(o)
    BY AtTheEnd
  <2>4. a \in ReadBy(o) /\ x.from = Origin(a)
    BY <2>2, <2>3
  <2> QED
    BY <2>2, <2>3, <2>4
<1>4. ASSUME NEW o \in Executed, NEW a \in ReadBy(o), Origin(a) # Origin(o)
      PROVE  \E t \in TransferRows(trace) : t.consumer = o /\ t.artifact = a
  <2>1. PICK x \in Pulls : x.action = o /\ x.artifacts = {a}
    BY <1>4, PulledFor
  <2>2. row(x, a) \in TransferRows(trace)
    BY <1>2, <2>1
  <2>3. row(x, a).consumer = o /\ row(x, a).artifact = a
    BY <2>1
  <2> QED
    BY <2>2, <2>3
<1> QED
  BY <1>3, <1>4

LEMMA ExecutionRowsAre ==
  ASSUME TraceInv
  PROVE  /\ \A x \in ExecutionRows(trace) : \E o \in Executed :
               /\ x.id = ActionId(o) /\ x.action = o /\ x.worker = Origin(o)
               /\ x.inputs = ReadBy(o) /\ x.outputs = {o}
               /\ x.depends = UNION {Needs(o, a) : a \in ReadBy(o)}
         /\ \A o \in Executed : \E x \in ExecutionRows(trace) : x.action = o
<1> DEFINE row(x) == [id      |-> ActionId(x.action),
                      action  |-> x.action,
                      worker  |-> x.worker,
                      inputs  |-> Request(trace, x.action).artifacts,
                      outputs |-> x.artifacts,
                      depends |-> UNION {Dependency(trace, x.action, a) :
                                           a \in Request(trace, x.action).artifacts}]
           ends == OfKind(trace, "worker.execution.end")
<1>1. ExecutionRows(trace) = {row(x) : x \in ends}
  BY DEF ExecutionRows
<1>2. /\ \A x \in ends : x.action \in Executed /\ x.artifacts = {x.action} /\ x.worker = Origin(x.action)
      /\ \A o \in Executed : \E x \in ends : x.action = o
  BY DEF TraceInv, Recorded, CallEvents
<1>3. \A o, a : Dependency(trace, o, a) = Needs(o, a)
  BY Lookup DEF Dependency, Needs, Source
<1>4. \A o \in Executed : Request(trace, o).artifacts = ReadBy(o)
  BY Lookup
<1>5. \A x \in ends :
         row(x) = [id |-> ActionId(x.action), action |-> x.action, worker |-> Origin(x.action),
                   inputs |-> ReadBy(x.action), outputs |-> {x.action},
                   depends |-> UNION {Needs(x.action, a) : a \in ReadBy(x.action)}]
  <2> SUFFICES ASSUME NEW x \in ends
               PROVE  /\ x.worker = Origin(x.action) /\ x.artifacts = {x.action}
                      /\ Request(trace, x.action).artifacts = ReadBy(x.action)
                      /\ {Dependency(trace, x.action, a) : a \in ReadBy(x.action)}
                           = {Needs(x.action, a) : a \in ReadBy(x.action)}
    BY Zenon
  <2> QED
    BY <1>2, <1>3, <1>4
<1> HIDE DEF row, ends
<1>6. ASSUME NEW y \in ExecutionRows(trace)
      PROVE  \E o \in Executed :
               /\ y.id = ActionId(o) /\ y.action = o /\ y.worker = Origin(o)
               /\ y.inputs = ReadBy(o) /\ y.outputs = {o}
               /\ y.depends = UNION {Needs(o, a) : a \in ReadBy(o)}
  <2>1. PICK x \in ends : y = row(x)
    BY <1>1
  <2>2. y = [id |-> ActionId(x.action), action |-> x.action, worker |-> Origin(x.action),
             inputs |-> ReadBy(x.action), outputs |-> {x.action},
             depends |-> UNION {Needs(x.action, a) : a \in ReadBy(x.action)}]
    BY <1>5, <2>1
  <2> QED
    BY <1>2, <2>2
<1>7. ASSUME NEW o \in Executed
      PROVE  \E y \in ExecutionRows(trace) : y.action = o
  <2>1. PICK x \in ends : x.action = o
    BY <1>2
  <2>2. row(x).action = o /\ row(x) \in ExecutionRows(trace)
    BY <1>1, <1>5, <2>1
  <2> QED
    BY <2>2
<1> QED
  BY <1>6, <1>7

\* The calls that made an artifact: one, or none for an input of the run.
LEMMA MakersAre ==
  ASSUME TraceInv, NEW a, NEW makers, makers = {y \in ExecutionRows(trace) : a \in y.outputs}
  PROVE  /\ makers # {} <=> a \in Executed
         /\ {y.id : y \in makers} = Source(a)
         /\ a \in Executed => \A f : {f[y.worker] : y \in makers} = {f[Origin(a)]}
<1>1. ASSUME NEW y \in makers
      PROVE  a \in Executed /\ y.id = ActionId(a) /\ y.worker = Origin(a)
  <2>1. PICK o \in Executed : y.id = ActionId(o) /\ y.worker = Origin(o) /\ y.outputs = {o}
    BY <1>1, ExecutionRowsAre
  <2> QED
    BY <1>1, <2>1
<1>2. ASSUME a \in Executed
      PROVE  \E y \in makers : TRUE
  <2>1. PICK y \in ExecutionRows(trace) : y.action = a
    BY <1>2, ExecutionRowsAre
  <2>2. PICK o \in Executed : y.action = o /\ y.outputs = {o}
    BY <2>1, ExecutionRowsAre
  <2> QED
    BY <2>1, <2>2
<1> QED
  BY <1>1, <1>2 DEF Source

\* Where an artifact was first is where the sweep says it was made.
LEMMA OriginsKnown ==
  ASSUME Inv, TraceInv, Measured, NEW o \in Executed, NEW a \in ReadBy(o)
  PROVE  \/ /\ a \in DOMAIN InitialWorker /\ a \notin Executed
            /\ InitialWorker[a] = Origin(a)
         \/ a \notin DOMAIN InitialWorker /\ a \in Executed
<1>1. a \in DOMAIN locations
  BY DEF TraceInv, Brought, ReadBy
<1>2. a \in InputIds(task) \/ a \in Executed
  BY <1>1 DEF TraceInv, Bounded
<1>3. DOMAIN InitialWorker = InputIds(task)
  BY DEF InitialWorker
<1>4. CASE a \in InputIds(task)
  <2>1. InitialWorker[a] = Origin(a)
    BY <1>1, <1>4 DEF InitialWorker, TraceInv, Placed
  <2> QED
    BY <1>3, <1>4, <2>1, AtTheEnd
<1>5. CASE a \notin InputIds(task)
  BY <1>2, <1>3, <1>5
<1> QED
  BY <1>4, <1>5

LEMMA Accounts == Inv /\ TraceInv => EvidenceComplete
<1> SUFFICES ASSUME Inv, TraceInv, Measured
             PROVE  DependenciesComplete(trace, InitialWorker, Site)
  BY DEF EvidenceComplete
<1> DEFINE executions == ExecutionRows(trace)
           transfers == TransferRows(trace)
           known == {x.id : x \in executions} \cup {t.id : t \in transfers}
<1>1. \A x \in executions : \E o \in Executed :
         /\ x.id = ActionId(o) /\ x.action = o /\ x.worker = Origin(o)
         /\ x.inputs = ReadBy(o) /\ x.outputs = {o}
         /\ x.depends = UNION {Needs(o, a) : a \in ReadBy(o)}
  BY ExecutionRowsAre
<1>2. \A t \in transfers : \E o \in Executed : \E a \in ReadBy(o) :
         /\ t.id = TransferId(o, a) /\ t.artifact = a /\ t.consumer = o
         /\ t.from = Origin(a) /\ t.to = Origin(o) /\ t.depends = Source(a)
  BY TransferRowsAre
<1>3. ASSUME NEW o \in Executed
      PROVE  \E x \in executions :
               /\ x.id = ActionId(o) /\ x.action = o /\ x.worker = Origin(o)
               /\ x.inputs = ReadBy(o) /\ x.outputs = {o}
               /\ x.depends = UNION {Needs(o, a) : a \in ReadBy(o)}
  <2>1. PICK x \in executions : x.action = o
    BY ExecutionRowsAre
  <2>2. PICK u \in Executed :
          /\ x.id = ActionId(u) /\ x.action = u /\ x.worker = Origin(u)
          /\ x.inputs = ReadBy(u) /\ x.outputs = {u}
          /\ x.depends = UNION {Needs(u, a) : a \in ReadBy(u)}
    BY <1>1
  <2>3. u = o
    BY <2>1, <2>2
  <2> QED
    BY <2>2, <2>3
<1>4. ASSUME NEW a PROVE Source(a) \subseteq known
  BY <1>3 DEF Source
<1>5. ASSUME NEW o \in Executed, NEW a \in ReadBy(o) PROVE Needs(o, a) \subseteq known
  <2>1. CASE \E t \in TransferRows(trace) : t.consumer = o /\ t.artifact = a
    <3>1. PICK t \in transfers : t.consumer = o /\ t.artifact = a
      BY <2>1
    <3>2. t.id = TransferId(o, a)
      BY <1>2, <3>1
    <3> QED
      BY <2>1, <3>2 DEF Needs
  <2>2. CASE ~\E t \in TransferRows(trace) : t.consumer = o /\ t.artifact = a
    BY <1>4, <2>2 DEF Needs
  <2> QED
    BY <2>1, <2>2
<1>6. \A x \in executions : x.depends \subseteq known
  BY <1>1, <1>5
<1>7. \A t \in transfers : t.depends \subseteq known
  BY <1>2, <1>4
<1>8. ASSUME NEW x \in executions, NEW a \in x.inputs
      PROVE  InputExplained(x, a, executions, transfers, InitialWorker, Site)
  <2>1. PICK o \in Executed :
           /\ x.action = o /\ x.worker = Origin(o) /\ x.inputs = ReadBy(o)
           /\ x.depends = UNION {Needs(o, b) : b \in ReadBy(o)}
    BY <1>1
  <2> DEFINE moves == {t \in transfers : t.consumer = x.action /\ t.artifact = a}
             makers == {y \in executions : a \in y.outputs}
             origin == IF a \in DOMAIN InitialWorker THEN {Site[InitialWorker[a]]}
                       ELSE {Site[y.worker] : y \in makers}
  <2>2. Needs(o, a) \subseteq x.depends /\ a \in ReadBy(o)
    BY <1>8, <2>1
  <2>3. /\ makers # {} <=> a \in Executed
        /\ {y.id : y \in makers} = Source(a)
        /\ a \in Executed => {Site[y.worker] : y \in makers} = {Site[Origin(a)]}
    BY MakersAre
  <2>4. origin = {Site[Origin(a)]}
    BY <2>2, <2>3, OriginsKnown
  <2>5. ASSUME NEW t \in moves
        PROVE  /\ t.id \in x.depends /\ {Site[t.from]} = origin
               /\ Site[t.to] = Site[x.worker] /\ t.depends = Source(a)
    <3>0. PICK u \in Executed : \E b \in ReadBy(u) :
            /\ t.id = TransferId(u, b) /\ t.artifact = b /\ t.consumer = u
            /\ t.from = Origin(b) /\ t.to = Origin(u) /\ t.depends = Source(b)
      BY <1>2, <2>5
    <3>1. PICK b \in ReadBy(u) :
            /\ t.id = TransferId(u, b) /\ t.artifact = b /\ t.consumer = u
            /\ t.from = Origin(b) /\ t.to = Origin(u) /\ t.depends = Source(b)
      BY <3>0
    <3>2. u = o /\ b = a
      BY <2>1, <2>5, <3>1
    <3>3. Needs(o, a) = {TransferId(o, a)}
      BY <2>1, <2>5 DEF Needs
    <3> QED
      BY <2>1, <2>2, <2>4, <3>1, <3>2, <3>3
  <2>6. moves = {} => Needs(o, a) = Source(a) /\ Origin(a) = Origin(o)
    BY <2>1, <2>2, TransferRowsAre DEF Needs
  <2> HIDE DEF moves, makers, origin
  <2>7. CASE a \in DOMAIN InitialWorker
    <3>1. origin = {Site[x.worker]} \/
            \E t \in moves : t.id \in x.depends /\ {Site[t.from]} = origin /\ Site[t.to] = Site[x.worker]
      <4>1. CASE moves = {}
        BY <2>1, <2>4, <2>6, <4>1
      <4>2. CASE moves # {}
        BY <2>5, <4>2
      <4> QED
        BY <4>1, <4>2
    <3> QED
      BY <2>7, <3>1 DEF InputExplained, moves, makers, origin
  <2>8. CASE a \notin DOMAIN InitialWorker
    <3>1. a \in Executed
      BY <2>2, <2>8, OriginsKnown
    <3>2. /\ makers # {}
          /\ IF moves # {}
             THEN \A t \in moves : /\ /\ t.id \in x.depends /\ {Site[t.from]} = origin
                                      /\ Site[t.to] = Site[x.worker]
                                   /\ t.depends = {y.id : y \in makers}
             ELSE {y.id : y \in makers} \subseteq x.depends /\ origin = {Site[x.worker]}
      BY <2>1, <2>2, <2>3, <2>4, <2>5, <2>6, <3>1
    <3> QED
      BY <2>8, <3>2 DEF InputExplained, moves, makers, origin
  <2> QED
    BY <2>7, <2>8
<1>9. ASSUME NEW t \in transfers
      PROVE  TransferExplained(t, executions, InitialWorker, Site)
  <2>0. PICK o \in Executed : \E a \in ReadBy(o) :
          /\ t.id = TransferId(o, a) /\ t.artifact = a /\ t.consumer = o
          /\ t.from = Origin(a) /\ t.to = Origin(o) /\ t.depends = Source(a)
    BY <1>2
  <2>1. PICK a \in ReadBy(o) :
          /\ t.id = TransferId(o, a) /\ t.artifact = a /\ t.consumer = o
          /\ t.from = Origin(a) /\ t.to = Origin(o) /\ t.depends = Source(a)
    BY <2>0
  <2>2. PICK x \in executions :
          /\ x.action = o /\ x.worker = Origin(o) /\ x.inputs = ReadBy(o)
          /\ x.depends = UNION {Needs(o, b) : b \in ReadBy(o)}
    BY <1>3
  <2>3. t.id \in x.depends
    BY <2>1, <2>2 DEF Needs
  <2>4. IF t.artifact \in DOMAIN InitialWorker
        THEN Site[t.from] = Site[InitialWorker[t.artifact]] /\ Site[t.to] = Site[x.worker]
        ELSE \E y \in executions : t.artifact \in y.outputs /\ y.id \in t.depends
    <3>1. CASE a \in DOMAIN InitialWorker
      BY <2>1, <2>2, <3>1, OriginsKnown
    <3>2. CASE a \notin DOMAIN InitialWorker
      <4>1. a \in Executed
        BY <3>2, OriginsKnown
      <4>2. PICK y \in executions : y.id = ActionId(a) /\ y.outputs = {a}
        BY <1>3, <4>1
      <4> QED
        BY <2>1, <3>2, <4>1, <4>2 DEF Source
    <3> QED
      BY <3>1, <3>2
  <2> QED
    BY <2>1, <2>2, <2>3, <2>4 DEF TransferExplained
<1> QED
  BY <1>6, <1>7, <1>8, <1>9 DEF DependenciesComplete

LEMMA Tracked == Spec => [](Inv /\ TraceInv)
<1>1. Init => Inv /\ TraceInv
  BY Initially, TraceInit
<1>2. Inv /\ TraceInv /\ [Next]_vars => (Inv /\ TraceInv)'
  BY Inductive, TraceStep
<1> QED
  BY <1>1, <1>2, PTL DEF Spec

(* Realized traces are rightly called complete: the rows that are read out *)
(* of the events of a measured run account for every input of every call.  *)
(* Each call has its events, a Worker that is no first place of an input   *)
(* has got it by a transfer that was recorded, and since an artifact has   *)
(* one reader the transfer is found under the call that needed it.         *)
THEOREM TracesComplete == Spec => []EvidenceComplete
<1>1. Inv /\ TraceInv => EvidenceComplete
  BY Accounts
<1> QED
  BY <1>1, Tracked, PTL
-----------------------------------------------------------------------------
(* Lineage.  The rows lead from the final artifact back along the chains   *)
(* of the branches.                                                        *)

\* The rows tell what each call has read.
LineageOfRun == LineageRows(ExecutionRows(trace), InitialWorker)

LEMMA LineageRowsAre ==
  ASSUME TraceInv
  PROVE  /\ \A r \in LineageOfRun : \E o \in Executed : \E a \in ReadBy(o) :
               r.input = a /\ r.derived = {o}
         /\ \A o \in Executed : \A a \in ReadBy(o) : \E r \in LineageOfRun :
               r.input = a /\ r.derived = {o}
<1> DEFINE executions == ExecutionRows(trace)
           maker(a) == IF \E p \in executions : a \in p.outputs
                       THEN (CHOOSE p \in executions : a \in p.outputs).worker
                       ELSE InitialWorker[a]
           row(x, a) == [input |-> a, producer |-> maker(a), consumer |-> x.worker,
                         derived |-> x.outputs]
<1>0. LineageOfRun = UNION {{row(x, a) : a \in x.inputs} : x \in executions}
  BY DEF LineageOfRun, LineageRows
<1>1. /\ \A x \in executions : \E o \in Executed :
            x.action = o /\ x.inputs = ReadBy(o) /\ x.outputs = {o}
      /\ \A o \in Executed : \E x \in executions : x.action = o
  BY ExecutionRowsAre
<1> HIDE DEF executions, maker
<1>2. \A x, a : row(x, a).input = a /\ row(x, a).derived = x.outputs
  OBVIOUS
<1> HIDE DEF row
<1>3. ASSUME NEW r \in LineageOfRun
      PROVE  \E o \in Executed : \E a \in ReadBy(o) : r.input = a /\ r.derived = {o}
  <2>1. PICK x \in executions : \E a \in x.inputs : r = row(x, a)
    BY <1>0, <1>3
  <2>2. PICK a \in x.inputs : r = row(x, a)
    BY <2>1
  <2>3. PICK o \in Executed : x.inputs = ReadBy(o) /\ x.outputs = {o}
    BY <1>1
  <2> QED
    BY <1>2, <2>2, <2>3
<1>4. ASSUME NEW o \in Executed, NEW a \in ReadBy(o)
      PROVE  \E r \in LineageOfRun : r.input = a /\ r.derived = {o}
  <2>1. PICK x \in executions : x.action = o
    BY <1>1
  <2>2. x.inputs = ReadBy(o) /\ x.outputs = {o}
    BY <1>1, <2>1
  <2>3. row(x, a) \in LineageOfRun
    BY <1>0, <2>2
  <2> QED
    BY <1>2, <2>2, <2>3
<1> QED
  BY <1>3, <1>4

\* What the calls of a run read of its inputs is what the branches inspect.
LEMMA InputsRead ==
  ASSUME Inv, TraceInv, Measured, NEW o \in Executed, NEW a \in ReadBy(o) \cap InputIds(task)
  PROVE  a \in Inspected
<1>1. /\ task \in Tasks /\ task.workflow # "planned"
      /\ o = <<o[1], o[2]>> /\ o[1] \in Taking /\ o[2] \in 1..Len(Chain(task, o[1]))
      /\ \A u \in Executed : u \notin InputIds(task)
      /\ \A q \in Taking : \A s \in 1..Len(Chain(task, q)) : <<q, s>> \in Executed
  BY AtTheEnd
<1>2. /\ o[2] > 1 => ReadBy(o) = {<<o[1], o[2] - 1>>}
      /\ o[2] = 1 /\ o[1] = Final /\ task.workflow \notin RawWorkflows =>
           ReadBy(o) = {<<b, Len(Chain(task, b))>> : b \in Branches(task)}
      /\ o[2] = 1 /\ o[1] # Final =>
           ReadBy(o) = {Input(i) : i \in ToSet(BranchInputs(task, o[1]))}
  BY <1>1, CallReads DEF ReadBy, Taking
<1>3. \A q \in Taking : Len(Chain(task, q)) \in Nat /\ Len(Chain(task, q)) > 0
  BY <1>1, Shape DEF Taking
<1>4. o[2] = 1
  <2> SUFFICES ASSUME o[2] # 1 PROVE FALSE
    OBVIOUS
  <2>1. o[2] > 1 /\ o[2] - 1 \in 1..Len(Chain(task, o[1]))
    BY <1>1, <1>3
  <2>2. a = <<o[1], o[2] - 1>>
    BY <1>2, <2>1
  <2> QED
    BY <1>1, <2>1, <2>2
<1>5. CASE task.workflow \in RawWorkflows
  BY <1>5 DEF Inspected, RawWorkflows, ImageWorkflows
<1>6. CASE task.workflow \notin RawWorkflows
  <2>1. o[1] # Final
    <3> SUFFICES ASSUME o[1] = Final PROVE FALSE
      OBVIOUS
    <3>1. PICK b \in Branches(task) : a = <<b, Len(Chain(task, b))>>
      BY <1>2, <1>4, <1>6
    <3>2. b \in Taking /\ Len(Chain(task, b)) \in 1..Len(Chain(task, b))
      BY <1>3 DEF Taking
    <3> QED
      BY <1>1, <3>1, <3>2
  <2>2. PICK i \in ToSet(BranchInputs(task, o[1])) : a = Input(i)
    BY <1>2, <1>4, <2>1
  <2>3. o[1] \in Branches(task)
    BY <1>1, <2>1 DEF Taking
  <2> QED
    BY <1>1, <1>6, <2>2, <2>3, BranchesCover
<1> QED
  BY <1>5, <1>6

\* Only inputs of the run are inspected.
LEMMA InspectedKnown ==
  ASSUME Inv, TraceInv, Measured
  PROVE  Inspected \subseteq InputIds(task)
<1>1. task \in Tasks /\ task.workflow # "planned"
  BY AtTheEnd
<1>2. CASE task.workflow \in RawWorkflows
  BY <1>2 DEF Inspected, RawWorkflows, ImageWorkflows
<1>3. CASE task.workflow \notin RawWorkflows
  <2> SUFFICES ASSUME NEW x \in Inspected PROVE x \in InputIds(task)
    OBVIOUS
  <2>1. PICK i : x = Input(i)
    BY DEF Inspected, InputIds
  <2>2. PICK b \in Branches(task) : i \in ToSet(BranchInputs(task, b))
    BY <1>1, <1>3, <2>1, BranchesCover
  <2>3. BranchInputs(task, b) \in Seq(DOMAIN task.inputs)
    BY <1>1, Shape
  <2>4. i \in DOMAIN task.inputs
    BY <2>2, <2>3, Elements
  <2> QED
    BY <2>1, <2>4 DEF InputIds
<1> QED
  BY <1>2, <1>3

LEMMA LeadsBack ==
  ASSUME Inv, TraceInv, Measured, NEW ids,
         \A o \in Executed : \A a \in ReadBy(o) : o = <<Final, 1>> \/ o \in ids => a \in ids
  PROVE  Inspected \subseteq ids
<1>1. /\ task \in Tasks /\ task.workflow # "planned"
      /\ \A q \in Taking : \A s \in 1..Len(Chain(task, q)) : <<q, s>> \in Executed
  BY AtTheEnd
<1>2. /\ Final \in Taking /\ Branches(task) \subseteq Taking /\ Final \notin Branches(task)
      /\ \A q \in Taking : Len(Chain(task, q)) \in Nat /\ 1 \in 1..Len(Chain(task, q))
  BY <1>1, Shape DEF Taking
<1>3. <<Final, 1>> \in Executed
  BY <1>1, <1>2
<1>4. /\ task.workflow \in RawWorkflows => ReadBy(<<Final, 1>>) = InputIds(task)
      /\ task.workflow \notin RawWorkflows =>
           ReadBy(<<Final, 1>>) = {<<b, Len(Chain(task, b))>> : b \in Branches(task)}
  BY <1>1, <1>2, CallReads DEF ReadBy, Taking
<1>5. CASE task.workflow \in RawWorkflows
  <2>1. Inspected = InputIds(task)
    BY <1>5 DEF Inspected, RawWorkflows, ImageWorkflows
  <2> QED
    BY <1>3, <1>4, <1>5, <2>1
<1>6. CASE task.workflow \notin RawWorkflows
  <2> SUFFICES ASSUME NEW x \in Inspected PROVE x \in ids
    OBVIOUS
  <2>1. PICK i : x = Input(i)
    BY DEF Inspected, InputIds
  <2>2. PICK b \in Branches(task) : i \in ToSet(BranchInputs(task, b))
    BY <1>1, <1>6, <2>1, BranchesCover
  <2>3. PICK n \in Nat : n = Len(Chain(task, b)) /\ 1 \in 1..n
    BY <1>2
  <2> DEFINE reached == {s \in 1..n : <<b, s>> \in ids}
  <2>4. n \in reached
    <3>1. <<b, n>> \in ReadBy(<<Final, 1>>)
      BY <1>4, <1>6, <2>3
    <3> QED
      BY <1>3, <2>3, <3>1
  <2>5. PICK m \in reached : \A k \in reached : m <= k
    <3>1. reached \in SUBSET Nat /\ reached # {}
      BY <2>4
    <3> HIDE DEF reached
    <3> QED
      BY <3>1, Least
  <2>6. m \in 1..n /\ <<b, m>> \in ids /\ <<b, m>> \in Executed
    BY <1>1, <1>2, <2>3, <2>5
  <2>7. m = 1
    <3> SUFFICES ASSUME m # 1 PROVE FALSE
      OBVIOUS
    <3>1. m - 1 \in 1..n /\ m > 1 /\ ~(m <= m - 1)
      BY <2>6
    <3>2. ReadBy(<<b, m>>) = {<<b, m - 1>>}
      BY <1>1, <1>2, <2>3, <2>6, <3>1, CallReads DEF ReadBy
    <3>3. <<b, m - 1>> \in ids
      BY <2>6, <3>2
    <3>4. m - 1 \in reached
      BY <3>1, <3>3
    <3> QED
      BY <2>5, <3>1, <3>4
  <2>8. ReadBy(<<b, 1>>) = {Input(j) : j \in ToSet(BranchInputs(task, b))}
    BY <1>1, <1>2, CallReads DEF ReadBy
  <2> QED
    BY <2>1, <2>2, <2>6, <2>7, <2>8
<1> QED
  BY <1>5, <1>6

LEMMA RowsLeadBack ==
  ASSUME Inv, TraceInv, Measured
  PROVE  Origins(LineageOfRun) = Inspected
<1>1. PICK rows : rows = LineageOfRun
  OBVIOUS
<1>2. /\ \A r \in rows : \E o \in Executed : \E a \in ReadBy(o) : r.input = a /\ r.derived = {o}
      /\ \A o \in Executed : \A a \in ReadBy(o) : \E r \in rows : r.input = a /\ r.derived = {o}
  BY <1>1, LineageRowsAre
<1> DEFINE read == {r.input : r \in rows}
           Backward(ids) ==
             \A r \in rows : r.derived \cap (ids \cup {<<Final, 1>>}) # {} => r.input \in ids
<1>3. Origins(rows) = {a \in InputIds(task) :
                          \A ids \in {js \in SUBSET read : Backward(js)} : a \in ids}
  BY DEF Origins
<1>4. ASSUME NEW a \in Origins(rows) PROVE a \in Inspected
  <2>1. Backward(read)
    OBVIOUS
  <2>2. a \in read /\ a \in InputIds(task)
    BY <1>3, <1>4, <2>1
  <2>3. PICK o \in Executed : a \in ReadBy(o)
    BY <1>2, <2>2
  <2> QED
    BY <2>2, <2>3, InputsRead
<1>5. ASSUME NEW a \in Inspected PROVE a \in Origins(rows)
  <2>1. a \in InputIds(task)
    BY InspectedKnown
  <2>2. ASSUME NEW ids, Backward(ids) PROVE a \in ids
    <3>1. ASSUME NEW o \in Executed, NEW b \in ReadBy(o), o = <<Final, 1>> \/ o \in ids
          PROVE  b \in ids
      <4>1. PICK r \in rows : r.input = b /\ r.derived = {o}
        BY <1>2
      <4> QED
        BY <2>2, <3>1, <4>1
    <3>2. Inspected \subseteq ids
      BY <3>1, LeadsBack
    <3> QED
      BY <3>2
  <2> QED
    BY <1>3, <2>1, <2>2
<1> QED
  BY <1>1, <1>4, <1>5
-----------------------------------------------------------------------------
(* What the files are made of: each of the inputs that the process of a    *)
(* call reads, or that its branches do.                                    *)
BranchSources(b) == {Input(i) : i \in ToSet(BranchInputs(task, b))}
SourcesOf(o) ==
  IF o \in InputIds(task) THEN {o}
  ELSE IF o[1] # Final THEN BranchSources(o[1])
  ELSE IF task.workflow \in RawWorkflows THEN InputIds(task)
  ELSE UNION {BranchSources(b) : b \in Branches(task)}
Sourced ==
  /\ \A h \in handlers : h.proc \in Taking /\ h.step \in 1..Len(Chain(task, h.proc))
  /\ \A o \in DOMAIN file : file[o].sources = SourcesOf(o)

\* A call makes its file of the sources of what it reads.
LEMMA SourcesRead ==
  ASSUME task \in Tasks, NEW q \in Taking, NEW s \in 1..Len(Chain(task, q))
  PROVE  UNION {SourcesOf(a) : a \in ToSet(Reads(task, q, s))} = SourcesOf(<<q, s>>)
<1>1. /\ s > 1 => q # Final /\ ToSet(Reads(task, q, s)) = {<<q, s - 1>>}
      /\ s = 1 /\ q = Final /\ task.workflow \in RawWorkflows =>
           ToSet(Reads(task, q, s)) = InputIds(task)
      /\ s = 1 /\ q = Final /\ task.workflow \notin RawWorkflows =>
           ToSet(Reads(task, q, s)) = {<<b, Len(Chain(task, b))>> : b \in Branches(task)}
      /\ s = 1 /\ q # Final =>
           ToSet(Reads(task, q, s)) = {Input(i) : i \in ToSet(BranchInputs(task, q))}
  BY CallReads DEF Taking
<1>2. /\ \A b \in Branches(task) : Len(Chain(task, b)) \in Nat /\ Len(Chain(task, b)) > 0
      /\ Final \notin Branches(task) /\ s \in Nat /\ s > 0
      /\ \A b \in Branches(task) : \A i \in ToSet(BranchInputs(task, b)) : i \in DOMAIN task.inputs
  <2>1. \A b \in Branches(task) : BranchInputs(task, b) \in Seq(DOMAIN task.inputs)
    BY Shape
  <2>2. \A b \in Branches(task) : ToSet(BranchInputs(task, b)) \subseteq DOMAIN task.inputs
    BY <2>1, Elements
  <2>3. /\ \A b \in Branches(task) : Len(Chain(task, b)) \in Nat /\ Len(Chain(task, b)) > 0
        /\ Final \notin Branches(task)
    BY Shape
  <2>4. s \in Nat /\ s > 0
    BY Shape DEF Taking
  <2> QED
    BY <2>2, <2>3, <2>4
<1>3. \A p, n : n \in Nat /\ n > 0 => <<p, n>> \notin InputIds(task)
  BY DEF InputIds, Input
<1>4. CASE s > 1
  <2>1. q # Final /\ s - 1 \in Nat /\ s - 1 > 0
    BY <1>1, <1>2, <1>4
  <2>2. SourcesOf(<<q, s - 1>>) = BranchSources(q) /\ SourcesOf(<<q, s>>) = BranchSources(q)
    BY <1>2, <1>3, <2>1 DEF SourcesOf
  <2> QED
    BY <1>1, <1>4, <2>2
<1>5. CASE s = 1 /\ q = Final /\ task.workflow \in RawWorkflows
  <2>1. SourcesOf(<<q, s>>) = InputIds(task)
    BY <1>3, <1>5 DEF SourcesOf
  <2>2. \A a \in InputIds(task) : SourcesOf(a) = {a}
    BY DEF SourcesOf
  <2> QED
    BY <1>1, <1>5, <2>1, <2>2
<1>6. CASE s = 1 /\ q = Final /\ task.workflow \notin RawWorkflows
  <2>1. SourcesOf(<<q, s>>) = UNION {BranchSources(b) : b \in Branches(task)}
    BY <1>3, <1>6 DEF SourcesOf
  <2> DEFINE last(b) == <<b, Len(Chain(task, b))>>
  <2>2. \A b \in Branches(task) : SourcesOf(last(b)) = BranchSources(b)
    BY <1>2, <1>3 DEF SourcesOf
  <2>3. ToSet(Reads(task, q, s)) = {last(b) : b \in Branches(task)}
    BY <1>1, <1>6
  <2> HIDE DEF last
  <2>4. ASSUME NEW x
        PROVE  (\E a \in ToSet(Reads(task, q, s)) : x \in SourcesOf(a))
                 <=> \E b \in Branches(task) : x \in BranchSources(b)
    BY <2>2, <2>3
  <2> QED
    BY <2>1, <2>4
<1>7. CASE s = 1 /\ q # Final
  <2>1. SourcesOf(<<q, s>>) = BranchSources(q)
    BY <1>3, <1>7 DEF SourcesOf
  <2>2. q \in Branches(task)
    BY <1>7 DEF Taking
  <2>3. \A a \in BranchSources(q) : SourcesOf(a) = {a}
    BY <1>2, <2>2 DEF SourcesOf, BranchSources, InputIds
  <2>4. ToSet(Reads(task, q, s)) = BranchSources(q)
    BY <1>1, <1>7 DEF BranchSources
  <2> QED
    BY <2>1, <2>3, <2>4
<1> QED
  BY <1>2, <1>4, <1>5, <1>6, <1>7

\* An operator that makes a file makes it of all its inputs.
LEMMA ResultSources ==
  ASSUME NEW op \in {"invoke_model"} \cup RecordOps \cup MediaOps, NEW files, NEW plan,
         Result(op, files, plan).ok
  PROVE  Result(op, files, plan).sources = UNION {f.sources : f \in ToSet(files)}
<1> DEFINE all == UNION {f.sources : f \in ToSet(files)}
           From(made) == made.ok => made.sources = all
<1>1. \A type, form, rows : From(Made(type, form, rows, files))
  BY DEF Made
<1>2. From(NothingMade)
  BY DEF NothingMade
<1> HIDE DEF From
<1>3. \A form, rows : From(RowsMade(form, rows, files))
  BY <1>1, <1>2 DEF RowsMade
<1>4. ASSUME op \in RecordOps PROVE From(RecordResult(op, files, plan))
  BY <1>2, <1>3, <1>4 DEF RecordOps, RecordResult, FilterRecords, SelectFields, DeriveFields,
     AggregateRecords, TopKRecords
<1>5. /\ From(Infer(files)) /\ From(SampleFrames(files)) /\ From(MakeContactSheet(files))
      /\ From(ExtractClip(files)) /\ From(AggregateArtifacts(files)) /\ From(BM25Retrieve(files))
  BY <1>1, <1>2 DEF Infer, SampleFrames, MakeContactSheet, ExtractClip, AggregateArtifacts,
     BM25Retrieve
<1>6. From(Result(op, files, plan))
  <2>1. CASE op \in RecordOps
    <3>1. Result(op, files, plan) = RecordResult(op, files, plan)
      BY <2>1 DEF Result, RecordOps
    <3> QED
      BY <1>4, <2>1, <3>1
  <2>2. CASE op = "invoke_model"
    BY <1>5, <2>2 DEF Result, RecordOps
  <2>3. CASE op = "sample_frames"
    BY <1>5, <2>3 DEF Result, RecordOps
  <2>4. CASE op = "make_contact_sheet"
    BY <1>5, <2>4 DEF Result, RecordOps
  <2>5. CASE op = "extract_clip"
    BY <1>5, <2>5 DEF Result, RecordOps
  <2>6. CASE op = "aggregate_artifacts"
    BY <1>5, <2>6 DEF Result, RecordOps
  <2>7. CASE op = "bm25_retrieve"
    BY <1>5, <2>7 DEF Result, RecordOps
  <2> QED
    BY <2>1, <2>2, <2>3, <2>4, <2>5, <2>6, <2>7 DEF MediaOps
<1> QED
  BY <1>6 DEF From

LEMMA SourcedInit == ASSUME Init PROVE Sourced
<1>1. handlers = {} /\ DOMAIN file = InputIds(task) /\ \A a \in InputIds(task) : file[a].sources = {a}
  BY DEF Init
<1> QED
  BY <1>1 DEF Sourced, SourcesOf

LEMMA AnswerSources ==
  ASSUME Inv, Sourced, NEW h \in handlers, NEW made \in {Work(h), NothingMade},
         Answer(h, made), UNCHANGED task
  PROVE  Sourced'
<1>1. /\ h.proc \in Taking /\ h.step \in 1..Len(Chain(task, h.proc)) /\ task \in Tasks
      /\ h.worker \in Workers
  BY DEF Sourced, Inv, TypeOK
<1>2. PICK p, s, output : p = h.proc /\ s = h.step /\ output = <<p, s>>
  OBVIOUS
<1>3. /\ Taking' = Taking /\ \A o : SourcesOf(o)' = SourcesOf(o)
  BY DEF Taking, SourcesOf, BranchSources
<1>4. ASSUME made.ok PROVE made.sources = SourcesOf(output)
  <2>1. PICK inputs : inputs = Reads(task, p, s)
    OBVIOUS
  <2>2. PICK op : op = Chain(task, p)[s].op
    OBVIOUS
  <2>3. PICK files : files = [i \in DOMAIN inputs |-> file[inputs[i]]]
    OBVIOUS
  <2>4. ~NothingMade.ok
    BY DEF NothingMade
  <2>5. ToSet(inputs) \subseteq store[h.worker] /\ made = Result(op, files, task.plan)
    BY <1>2, <1>4, <2>1, <2>2, <2>3, <2>4 DEF Work
  <2>6. ToSet(inputs) \subseteq DOMAIN file
    BY <1>1, <2>5 DEF Inv, TypeOK
  <2>7. op \in {"invoke_model"} \cup RecordOps \cup MediaOps
    <3>1. Chain(task, p) \in Seq(Calls) \ {<<>>}
      BY <1>1, <1>2, Shape DEF Taking
    <3>2. Chain(task, p)[s] \in Calls
      BY <1>1, <1>2, <3>1
    <3> QED
      BY <2>2, <3>2 DEF Calls
  <2>8. made.sources = UNION {f.sources : f \in ToSet(files)}
    BY <1>4, <2>5, <2>7, ResultSources
  <2>9. {f.sources : f \in ToSet(files)} = {SourcesOf(a) : a \in ToSet(inputs)}
    <3>1. ToSet(files) = {file[a] : a \in ToSet(inputs)}
      BY <2>3 DEF ToSet
    <3>2. \A a \in ToSet(inputs) : file[a].sources = SourcesOf(a)
      BY <2>6 DEF Sourced
    <3> QED
      BY <3>1, <3>2
  <2>10. UNION {SourcesOf(a) : a \in ToSet(inputs)} = SourcesOf(output)
    BY <1>1, <1>2, <2>1, SourcesRead
  <2> QED
    BY <2>8, <2>9, <2>10
<1>5. \A g \in handlers' : g \in handlers
  BY DEF Answer, Leaves
<1>6. ASSUME NEW o \in DOMAIN file' PROVE file'[o].sources = SourcesOf(o)
  <2>1. CASE made.ok
    <3>1. file' = With(file, output, made)
      BY <1>2, <2>1 DEF Answer
    <3>2. o \in DOMAIN file \cup {output} /\ file'[o] = IF o = output THEN made ELSE file[o]
      BY <1>6, <3>1 DEF With
    <3> QED
      BY <1>4, <2>1, <3>2 DEF Sourced
  <2>2. CASE ~made.ok
    <3>1. file' = file
      BY <2>2 DEF Answer
    <3> QED
      BY <1>6, <3>1 DEF Sourced
  <2> QED
    BY <2>1, <2>2
<1> QED
  BY <1>3, <1>5, <1>6 DEF Sourced

LEMMA SourcedStep == Inv /\ Sourced /\ [Next]_vars => Sourced'
<1> SUFFICES ASSUME Inv, Sourced, [Next]_vars
             PROVE  Sourced'
  OBVIOUS
<1> USE DEF dataVars, callVars
<1>1. ASSUME UNCHANGED <<task, file, handlers>>
      PROVE  Sourced'
  BY <1>1 DEF Sourced, Taking, SourcesOf, BranchSources
<1>2. ASSUME NEW p \in Procs, Send(p)
      PROVE  Sourced'
  <2>1. phase[p] \notin Ended
    BY <1>2 DEF Send, Ended
  <2>2. p \in Taking /\ step[p] + 1 \in 1..Len(Chain(task, p))
    BY <2>1, ActiveFacts
  <2>3. \A h \in handlers' : h \in handlers \/ (h.proc = p /\ h.step = step[p] + 1)
    BY <1>2 DEF Send
  <2>4. UNCHANGED <<task, file>>
    BY <1>2 DEF Send
  <2> QED
    BY <2>2, <2>3, <2>4 DEF Sourced, Taking, SourcesOf, BranchSources
<1>3. ASSUME NEW p \in Procs, Proceed(p)
      PROVE  Sourced'
  <2>1. CASE Invoke(p)
    BY <1>1, <2>1 DEF Invoke
  <2>2. CASE Refuse(p) \/ ReceiveError(p)
    BY <1>1, <2>2 DEF Refuse, ReceiveError
  <2>3. CASE RefuseOperator(p)
    BY <1>1, <2>3 DEF RefuseOperator
  <2>4. CASE CallOperator(p)
    BY <1>1, <2>4 DEF CallOperator
  <2>5. CASE AskWorkers(p)
    BY <1>1, <2>5 DEF AskWorkers
  <2>6. CASE SkipLocal(p)
    BY <1>1, <2>6 DEF SkipLocal
  <2>7. CASE Pull(p)
    BY <1>1, <2>7 DEF Pull
  <2>8. CASE Receive(p)
    BY <1>1, <2>8 DEF Receive
  <2> QED
    BY <1>2, <1>3, <2>1, <2>2, <2>3, <2>4, <2>5, <2>6, <2>7, <2>8 DEF Proceed
<1>4. ASSUME NEW p \in Procs, PullFails(p) \/ TimeOut(p) \/ Cancel(p)
      PROVE  Sourced'
  BY <1>1, <1>4 DEF PullFails, TimeOut, Cancel
<1>5. ASSUME NEW h \in handlers, Serve(h) \/ Break(h)
      PROVE  Sourced'
  <2>1. \E made \in {Work(h), NothingMade} : Answer(h, made)
    BY <1>5 DEF Serve, Break
  <2>2. UNCHANGED task
    BY <1>5 DEF Serve, Break
  <2> QED
    BY <2>1, <2>2, AnswerSources
<1>6. CASE FetchAnswer \/ GiveUp
  BY <1>1, <1>6 DEF FetchAnswer, GiveUp
<1>7. CASE UNCHANGED vars
  BY <1>1, <1>7 DEF vars
<1> QED
  BY <1>3, <1>4, <1>5, <1>6, <1>7 DEF Next

LEMMA AnswerSourced ==
  ASSUME Inv, TraceInv, Sourced, Measured
  PROVE  file[<<Final, 1>>].sources = Inspected
<1>1. /\ task \in Tasks /\ task.workflow # "planned"
      /\ \A q \in Taking : \A s \in 1..Len(Chain(task, q)) : <<q, s>> \in Executed
  BY AtTheEnd
<1>2. Final \in Taking /\ 1 \in 1..Len(Chain(task, Final))
  BY <1>1, Shape DEF Taking
<1>3. <<Final, 1>> \in DOMAIN file
  BY <1>1, <1>2, ExecutedKnown DEF Inv, TypeOK
<1>4. file[<<Final, 1>>].sources = SourcesOf(<<Final, 1>>)
  BY <1>3 DEF Sourced
<1>5. <<Final, 1>> \notin InputIds(task)
  BY DEF InputIds, Input
<1>6. CASE task.workflow \in RawWorkflows
  BY <1>4, <1>5, <1>6 DEF SourcesOf, Inspected, RawWorkflows, ImageWorkflows
<1>7. CASE task.workflow \notin RawWorkflows
  <2>1. file[<<Final, 1>>].sources = UNION {BranchSources(b) : b \in Branches(task)}
    BY <1>4, <1>5, <1>7 DEF SourcesOf
  <2>2. \A i : Input(i) \in Inspected <=> \E b \in Branches(task) : i \in ToSet(BranchInputs(task, b))
    BY <1>1, <1>7, BranchesCover
  <2>3. \A x \in Inspected : \E i : x = Input(i)
    BY DEF Inspected, InputIds
  <2> QED
    BY <2>1, <2>2, <2>3 DEF BranchSources
<1> QED
  BY <1>6, <1>7

(* The lineage is true: followed back from the final artifact, the rows    *)
(* lead to the inputs that were read for it, and these are the inputs the  *)
(* workflow inspects.                                                      *)
THEOREM LineageIsTrue == Spec => []LineageTrue
<1>1. Init => Sourced
  BY SourcedInit
<1>2. Inv /\ TraceInv /\ Sourced => LineageTrue
  BY RowsLeadBack, AnswerSourced DEF LineageTrue, LineageOfRun
<1>3. Spec => []Sourced
  BY <1>1, SourcedStep, Invariance, PTL DEF Spec
<1> QED
  BY <1>2, <1>3, Tracked, PTL
-----------------------------------------------------------------------------
(* Each file is what its call makes of the files it reads now, those of    *)
(* the inputs what they were: a handler that is late, or one that serves a *)
(* call given up, writes what is there already.                            *)
Given(a) == /\ file[a].form = task.inputs[a[1]].form /\ file[a].rows = task.inputs[a[1]].rows
            /\ file[a].type = task.inputs[a[1]].type
FilesRead(q, s) ==
  [i \in DOMAIN Reads(task, q, s) |-> file[Reads(task, q, s)[i]]]
MadeBy(q, s) == Result(Chain(task, q)[s].op, FilesRead(q, s), task.plan)
Reproducible ==
  /\ \A a \in InputIds(task) : Given(a)
  /\ \A q \in Taking : \A s \in 1..Len(Chain(task, q)) :
       <<q, s>> \in DOMAIN file =>
         /\ ToSet(Reads(task, q, s)) \subseteq DOMAIN file
         /\ file[<<q, s>>] = MadeBy(q, s) /\ file[<<q, s>>].ok

LEMMA ReproducibleInit == ASSUME Init PROVE Reproducible
<1>1. DOMAIN file = InputIds(task) /\ \A a \in InputIds(task) : Given(a)
  BY DEF Init, Given
<1>2. ASSUME NEW q, NEW s \in 1..Len(Chain(task, q)), <<q, s>> \in InputIds(task) PROVE FALSE
  BY <1>2 DEF InputIds, Input
<1> QED
  BY <1>1, <1>2 DEF Reproducible

LEMMA AnswerReproducible ==
  ASSUME Inv, Sourced, Reproducible, NEW h \in handlers, NEW made \in {Work(h), NothingMade},
         Answer(h, made), UNCHANGED task
  PROVE  Reproducible'
<1>1. /\ h.proc \in Taking /\ h.step \in 1..Len(Chain(task, h.proc)) /\ task \in Tasks
      /\ h.worker \in Workers
  BY DEF Sourced, Inv, TypeOK
<1>2. PICK p, s, output : p = h.proc /\ s = h.step /\ output = <<p, s>>
  OBVIOUS
<1>3. Taking' = Taking
  BY DEF Taking
<1>4. ASSUME made.ok
      PROVE  ToSet(Reads(task, p, s)) \subseteq DOMAIN file /\ made = MadeBy(p, s)
  <2>1. ~NothingMade.ok
    BY DEF NothingMade
  <2>2. ToSet(Reads(task, p, s)) \subseteq store[h.worker] /\ made = MadeBy(p, s)
    BY <1>2, <1>4, <2>1 DEF Work, MadeBy, FilesRead
  <2> QED
    BY <1>1, <2>2 DEF Inv, TypeOK
<1>5. output \notin InputIds(task)
  BY <1>1, <1>2 DEF InputIds, Input
<1>6. /\ DOMAIN file \subseteq DOMAIN file'
      /\ \A a \in DOMAIN file : file'[a] = file[a]
      /\ \A a \in DOMAIN file' : a \in DOMAIN file \/ (a = output /\ made.ok /\ file'[a] = made)
  <2>1. CASE made.ok
    <3>1. file' = With(file, output, made)
      BY <1>2, <2>1 DEF Answer
    <3>2. /\ DOMAIN file' = DOMAIN file \cup {output}
          /\ \A a \in DOMAIN file' : file'[a] = IF a = output THEN made ELSE file[a]
      BY <3>1 DEF With
    <3>3. output \in DOMAIN file => file[output] = made
      BY <1>1, <1>2, <1>4, <2>1 DEF Reproducible
    <3> QED
      BY <2>1, <3>2, <3>3
  <2>2. CASE ~made.ok
    <3>1. file' = file
      BY <2>2 DEF Answer
    <3> QED
      BY <3>1
  <2> QED
    BY <2>1, <2>2
<1>7. ASSUME NEW q, NEW n, ToSet(Reads(task, q, n)) \subseteq DOMAIN file
      PROVE  MadeBy(q, n)' = MadeBy(q, n) /\ ToSet(Reads(task, q, n)) \subseteq DOMAIN file'
  <2>1. PICK reads : reads = Reads(task, q, n)
    OBVIOUS
  <2>2. \A i \in DOMAIN reads : reads[i] \in DOMAIN file
    BY <1>7, <2>1 DEF ToSet
  <2>3. [i \in DOMAIN reads |-> file'[reads[i]]] = [i \in DOMAIN reads |-> file[reads[i]]]
    BY <1>6, <2>2
  <2>4. FilesRead(q, n)' = FilesRead(q, n)
    BY <2>1, <2>3 DEF FilesRead
  <2> QED
    BY <1>6, <1>7, <2>4 DEF MadeBy
<1>8. \A a \in InputIds(task) : a \in DOMAIN file
  BY DEF Inv, TypeOK, Underway
<1>9. \A a \in InputIds(task)' : Given(a)'
  BY <1>6, <1>8 DEF Reproducible, Given
<1>10. ASSUME NEW q \in Taking, NEW n \in 1..Len(Chain(task, q)), <<q, n>> \in DOMAIN file'
       PROVE  /\ ToSet(Reads(task, q, n)) \subseteq DOMAIN file'
              /\ file'[<<q, n>>] = MadeBy(q, n)' /\ file'[<<q, n>>].ok
  <2>1. CASE <<q, n>> \in DOMAIN file
    <3>1. /\ ToSet(Reads(task, q, n)) \subseteq DOMAIN file
          /\ file[<<q, n>>] = MadeBy(q, n) /\ file[<<q, n>>].ok
      BY <2>1 DEF Reproducible
    <3> QED
      BY <1>6, <1>7, <2>1, <3>1
  <2>2. CASE <<q, n>> \notin DOMAIN file
    <3>1. q = p /\ n = s /\ made.ok /\ file'[<<q, n>>] = made
      BY <1>2, <1>6, <1>10, <2>2
    <3> QED
      BY <1>4, <1>7, <3>1
  <2> QED
    BY <2>1, <2>2
<1> QED
  BY <1>3, <1>9, <1>10 DEF Reproducible

LEMMA ReproducibleStep == Inv /\ Sourced /\ Reproducible /\ [Next]_vars => Reproducible'
<1> SUFFICES ASSUME Inv, Sourced, Reproducible, [Next]_vars
             PROVE  Reproducible'
  OBVIOUS
<1> USE DEF dataVars, callVars
<1>1. ASSUME UNCHANGED <<task, file>>
      PROVE  Reproducible'
  BY <1>1 DEF Reproducible, Taking, Given, MadeBy, FilesRead
<1>2. ASSUME NEW p \in Procs, Proceed(p)
      PROVE  Reproducible'
  BY <1>1, <1>2 DEF Proceed, Invoke, Refuse, RefuseOperator, CallOperator, AskWorkers,
     SkipLocal, Pull, Send, Receive, ReceiveError
<1>3. ASSUME NEW p \in Procs, PullFails(p) \/ TimeOut(p) \/ Cancel(p)
      PROVE  Reproducible'
  BY <1>1, <1>3 DEF PullFails, TimeOut, Cancel
<1>4. ASSUME NEW h \in handlers, Serve(h) \/ Break(h)
      PROVE  Reproducible'
  <2>1. \E made \in {Work(h), NothingMade} : Answer(h, made)
    BY <1>4 DEF Serve, Break
  <2>2. UNCHANGED task
    BY <1>4 DEF Serve, Break
  <2> QED
    BY <2>1, <2>2, AnswerReproducible
<1>5. CASE FetchAnswer \/ GiveUp
  BY <1>1, <1>5 DEF FetchAnswer, GiveUp
<1>6. CASE UNCHANGED vars
  BY <1>1, <1>6 DEF vars
<1> QED
  BY <1>2, <1>3, <1>4, <1>5, <1>6 DEF Next
-----------------------------------------------------------------------------
(* The chain of a shard's branch. *)

\* A stage is a call more, or none.
LEMMA OneStage ==
  ASSUME NEW S, NEW calls \in Seq(S), NEW c \in S, NEW wanted \in BOOLEAN,
         NEW more, more = calls \o (IF wanted THEN <<c>> ELSE <<>>)
  PROVE  /\ more \in Seq(S) /\ Len(more) = Len(calls) + (IF wanted THEN 1 ELSE 0)
         /\ \A n \in 1..Len(calls) : more[n] = calls[n]
         /\ wanted => more[Len(more)] = c
<1>1. CASE wanted
  <2>1. more = calls \o <<c>>
    BY <1>1
  <2>2. <<c>> \in Seq(S) /\ Len(<<c>>) = 1 /\ <<c>>[1] = c
    OBVIOUS
  <2>3. PICK d : d = <<c>>
    OBVIOUS
  <2>4. /\ more \in Seq(S) /\ Len(more) = Len(calls) + 1
        /\ \A n \in 1..(Len(calls) + 1) :
             more[n] = IF n <= Len(calls) THEN calls[n] ELSE d[n - Len(calls)]
    BY <2>1, <2>2, <2>3, ConcatProperties
  <2>5. Len(calls) \in Nat
    OBVIOUS
  <2>6. more[Len(calls) + 1] = d[1]
    BY <2>4, <2>5
  <2> QED
    BY <1>1, <2>2, <2>3, <2>4, <2>5, <2>6
<1>2. CASE ~wanted
  <2>1. more = calls
    BY <1>2, ConcatEmptySeq
  <2> QED
    BY <1>2, <2>1
<1> QED
  BY <1>1, <1>2

One(wanted) == IF wanted THEN 1 ELSE 0
Filtered(plan) == One(plan.predicates # <<>>)
Cut(plan) == Filtered(plan) + One(plan.fields # <<>>)
Extended(plan) == Cut(plan) + One(plan.derivations # <<>>)

LEMMA RecordCalls ==
  ASSUME NEW plan, NEW w, (plan.aggregations # <<>>) # (plan.order # <<>>)
  PROVE  LET calls == RecordChain(plan, w)
         IN /\ Len(calls) = Extended(plan) + 1
            /\ plan.predicates # <<>> => calls[Filtered(plan)].op = "filter_records"
            /\ plan.fields # <<>> => calls[Cut(plan)].op = "select_fields"
            /\ plan.derivations # <<>> => calls[Extended(plan)].op = "derive_fields"
            /\ calls[Extended(plan) + 1].op
                 = IF plan.order # <<>> THEN "top_k_records" ELSE "aggregate_records"
<1> DEFINE Stage(op, wanted) == IF wanted THEN <<Call(op, w)>> ELSE <<>>
           S == {Call(op, w) : op \in RecordOps}
<1>1. PICK c0, c1, c2, c3, c4, c5 :
         /\ c0 = <<>>
         /\ c1 = Stage("filter_records", plan.predicates # <<>>)
         /\ c2 = c1 \o Stage("select_fields", plan.fields # <<>>)
         /\ c3 = c2 \o Stage("derive_fields", plan.derivations # <<>>)
         /\ c4 = c3 \o Stage("aggregate_records", plan.aggregations # <<>>)
         /\ c5 = c4 \o Stage("top_k_records", plan.order # <<>>)
  OBVIOUS
<1>2. RecordChain(plan, w) = c5
  BY <1>1 DEF RecordChain
<1>3. \A op \in RecordOps : Call(op, w) \in S /\ Call(op, w).op = op
  BY DEF Call
<1> HIDE DEF S
<1>4. /\ Call("filter_records", w) \in S /\ Call("select_fields", w) \in S
      /\ Call("derive_fields", w) \in S /\ Call("aggregate_records", w) \in S
      /\ Call("top_k_records", w) \in S
  BY <1>3 DEF RecordOps
<1>5. c0 \in Seq(S) /\ Len(c0) = 0 /\ c1 = c0 \o Stage("filter_records", plan.predicates # <<>>)
  <2>1. \A s \in Seq(S) : <<>> \o s = s
    BY ConcatEmptySeq
  <2>2. Stage("filter_records", plan.predicates # <<>>) \in Seq(S)
    BY <1>4
  <2>3. <<>> \in Seq(S) /\ Len(<<>>) = 0
    OBVIOUS
  <2> HIDE DEF Stage
  <2> QED
    BY <1>1, <2>1, <2>2, <2>3
<1>6. /\ c1 \in Seq(S) /\ Len(c1) = Filtered(plan)
      /\ plan.predicates # <<>> => c1[Len(c1)] = Call("filter_records", w)
  BY <1>4, <1>5, OneStage DEF Filtered, One
<1>7. /\ c2 \in Seq(S) /\ Len(c2) = Cut(plan) /\ \A n \in 1..Len(c1) : c2[n] = c1[n]
      /\ plan.fields # <<>> => c2[Len(c2)] = Call("select_fields", w)
  BY <1>1, <1>4, <1>6, OneStage DEF Cut, One
<1>8. /\ c3 \in Seq(S) /\ Len(c3) = Extended(plan) /\ \A n \in 1..Len(c2) : c3[n] = c2[n]
      /\ plan.derivations # <<>> => c3[Len(c3)] = Call("derive_fields", w)
  BY <1>1, <1>4, <1>7, OneStage DEF Extended, One
<1>9. /\ c4 \in Seq(S) /\ Len(c4) = Len(c3) + One(plan.aggregations # <<>>)
      /\ \A n \in 1..Len(c3) : c4[n] = c3[n]
      /\ plan.aggregations # <<>> => c4[Len(c4)] = Call("aggregate_records", w)
  <2>1. PICK wanted \in BOOLEAN : wanted <=> plan.aggregations # <<>>
    OBVIOUS
  <2>2. c4 = c3 \o (IF wanted THEN <<Call("aggregate_records", w)>> ELSE <<>>)
    BY <1>1, <2>1
  <2>3. /\ c4 \in Seq(S) /\ Len(c4) = Len(c3) + (IF wanted THEN 1 ELSE 0)
        /\ \A n \in 1..Len(c3) : c4[n] = c3[n]
        /\ wanted => c4[Len(c4)] = Call("aggregate_records", w)
    BY <1>4, <1>8, <2>2, OneStage
  <2> QED
    BY <2>1, <2>3 DEF One
<1>10. /\ c5 \in Seq(S) /\ Len(c5) = Len(c4) + One(plan.order # <<>>)
       /\ \A n \in 1..Len(c4) : c5[n] = c4[n]
       /\ plan.order # <<>> => c5[Len(c5)] = Call("top_k_records", w)
  <2>1. PICK wanted \in BOOLEAN : wanted <=> plan.order # <<>>
    OBVIOUS
  <2>2. c5 = c4 \o (IF wanted THEN <<Call("top_k_records", w)>> ELSE <<>>)
    BY <1>1, <2>1
  <2>3. /\ c5 \in Seq(S) /\ Len(c5) = Len(c4) + (IF wanted THEN 1 ELSE 0)
        /\ \A n \in 1..Len(c4) : c5[n] = c4[n]
        /\ wanted => c5[Len(c5)] = Call("top_k_records", w)
    BY <1>4, <1>9, <2>2, OneStage
  <2> QED
    BY <2>1, <2>3 DEF One
<1>11. PICK n1, n2, n3 : n1 = Filtered(plan) /\ n2 = Cut(plan) /\ n3 = Extended(plan)
  OBVIOUS
<1>12. /\ n1 \in Nat /\ n2 \in Nat /\ n3 \in Nat /\ n1 <= n2 /\ n2 <= n3
       /\ plan.predicates # <<>> => n1 > 0
       /\ plan.fields # <<>> => n2 > 0
       /\ plan.derivations # <<>> => n3 > 0
  BY <1>11 DEF Filtered, Cut, Extended, One
<1>13. Len(c5) = n3 + 1 /\ Len(c4) >= n3 /\ Len(c4) \in Nat
  BY <1>8, <1>9, <1>10, <1>11, <1>12 DEF One
<1>14. plan.predicates # <<>> => c5[n1] = Call("filter_records", w)
  BY <1>6, <1>7, <1>8, <1>9, <1>10, <1>11, <1>12, <1>13
<1>15. plan.fields # <<>> => c5[n2] = Call("select_fields", w)
  BY <1>7, <1>8, <1>9, <1>10, <1>11, <1>12, <1>13
<1>16. plan.derivations # <<>> => c5[n3] = Call("derive_fields", w)
  BY <1>8, <1>9, <1>10, <1>11, <1>12, <1>13
<1>17. c5[n3 + 1] = IF plan.order # <<>> THEN Call("top_k_records", w)
                    ELSE Call("aggregate_records", w)
  <2>1. CASE plan.order # <<>>
    BY <1>10, <1>13, <2>1
  <2>2. CASE plan.order = <<>>
    <3>1. Len(c4) = n3 + 1
      BY <1>9, <1>10, <1>13, <2>2 DEF One
    <3>2. n3 + 1 \in 1..Len(c4)
      BY <1>12, <3>1
    <3> QED
      BY <1>9, <1>10, <2>2, <3>1, <3>2
  <2> QED
    BY <2>1, <2>2
<1> QED
  BY <1>2, <1>3, <1>11, <1>13, <1>14, <1>15, <1>16, <1>17 DEF RecordOps
-----------------------------------------------------------------------------
(* The records that reach the last call of a shard's branch. *)

\* What is made of records, and of which files.
LEMMA MadeRows ==
  ASSUME NEW op \in RecordOps, NEW files, NEW plan, NEW made,
         made = Result(op, files, plan), made.ok
  PROVE  /\ \A f \in ToSet(files) : f.type = "json" /\ IsLoadable(f)
         /\ ~HasFailed(made.rows)
         /\ op # "aggregate_records" => made.form = "records"
         /\ op = "filter_records" =>
              made.rows = Filter(LoadAll(files), plan.predicates, plan.match)
         /\ op = "select_fields" => made.rows = Select(LoadAll(files), plan.fields)
         /\ op = "derive_fields" => made.rows = Derive(LoadAll(files), plan.derivations)
         /\ op = "aggregate_records" =>
              made.rows = Aggregate(LoadAll(files), plan.aggregations, plan.by)
         /\ op = "top_k_records" => made.rows = TopK(LoadAll(files), plan.order, plan.limit)
<1>1. made = RecordResult(op, files, plan)
  BY DEF Result, RecordOps
<1>2. ~NothingMade.ok
  BY DEF NothingMade
<1>3. AllOf(files, {"json"}) /\ \A f \in ToSet(files) : IsLoadable(f)
  BY <1>1, <1>2 DEF RecordResult
<1>4. ASSUME NEW form, NEW rows, made = RowsMade(form, rows, files)
      PROVE  made.form = form /\ made.rows = rows /\ ~HasFailed(made.rows)
  BY <1>2, <1>4 DEF RowsMade, Made
<1>5. CASE op = "filter_records"
  <2>1. made = RowsMade("records", Filter(LoadAll(files), plan.predicates, plan.match), files)
    BY <1>1, <1>3, <1>5 DEF RecordResult, FilterRecords
  <2> QED
    BY <1>3, <1>4, <1>5, <2>1 DEF AllOf
<1>6. CASE op = "select_fields"
  <2>1. made = RowsMade("records", Select(LoadAll(files), plan.fields), files)
    BY <1>1, <1>3, <1>6 DEF RecordResult, SelectFields
  <2> QED
    BY <1>3, <1>4, <1>6, <2>1 DEF AllOf
<1>7. CASE op = "derive_fields"
  <2>1. made = RowsMade("records", Derive(LoadAll(files), plan.derivations), files)
    BY <1>1, <1>3, <1>7 DEF RecordResult, DeriveFields
  <2> QED
    BY <1>3, <1>4, <1>7, <2>1 DEF AllOf
<1>8. CASE op = "aggregate_records"
  <2>1. made = RowsMade("groups", Aggregate(LoadAll(files), plan.aggregations, plan.by), files)
    BY <1>1, <1>3, <1>8 DEF RecordResult, AggregateRecords
  <2> QED
    BY <1>3, <1>4, <1>8, <2>1 DEF AllOf
<1>9. CASE op = "top_k_records"
  <2>1. made = RowsMade("records", TopK(LoadAll(files), plan.order, plan.limit), files)
    BY <1>1, <1>3, <1>9 DEF RecordResult, TopKRecords
  <2> QED
    BY <1>3, <1>4, <1>9, <2>1 DEF AllOf
<1> QED
  BY <1>5, <1>6, <1>7, <1>8, <1>9 DEF RecordOps

\* A call after the first reads the rows the call before it made.
LEMMA RowsFed ==
  ASSUME NEW b, NEW n \in Nat \ {0}, NEW f, f = file[<<b, n>>], f.form = "records", IsRows(f.rows)
  PROVE  LoadAll(FilesRead(b, n + 1)) = f.rows
<1>1. Reads(task, b, n + 1) = <<<<b, n>>>>
  <2>1. n + 1 > 1 /\ (n + 1) - 1 = n
    OBVIOUS
  <2> QED
    BY <2>1 DEF Reads
<1>2. FilesRead(b, n + 1) = <<f>>
  <2>1. PICK reads : reads = <<<<b, n>>>>
    OBVIOUS
  <2>2. DOMAIN reads = {1} /\ reads[1] = <<b, n>>
    BY <2>1
  <2>3. FilesRead(b, n + 1) = [i \in {1} |-> f]
    BY <1>1, <2>1, <2>2 DEF FilesRead
  <2> QED
    BY <2>3
<1>3. f.rows \in Seq({f.rows[i] : i \in DOMAIN f.rows})
  BY RowsAre
<1> QED
  BY <1>2, <1>3, LoadedAlone

StoredOn(b) == {x \in Stored : x[1] \in ToSet(BranchInputs(task, b))}
WantedOn(b) == {x \in Wanted : x[1] \in ToSet(BranchInputs(task, b))}

\* The files of a shard hold its records.
LEMMA ShardFiles ==
  ASSUME task \in Tasks, Reproducible, task.workflow = "distributed_compute", NEW b \in Branches(task),
         \A f \in ToSet(FilesRead(b, 1)) : f.type = "json" /\ IsLoadable(f)
  PROVE  /\ Lists(LoadAll(FilesRead(b, 1)), [x \in StoredOn(b) |-> Raw(x)])
         /\ \A x \in StoredOn(b) : IsRecord(Raw(x))
<1>1. PICK held : held = BranchInputs(task, b)
  OBVIOUS
<1>2. /\ held \in Seq(DOMAIN task.inputs) /\ IsInjective(held)
      /\ DOMAIN task.inputs = 1..Len(task.inputs) /\ Len(task.inputs) \in Nat
  <2>1. /\ held \in Seq(DOMAIN task.inputs)
        /\ DOMAIN task.inputs = 1..Len(task.inputs) /\ Len(task.inputs) \in Nat
    BY <1>1, Shape
  <2>2. held = InputsAt(task, ActiveWorkers(task)[b])
    BY <1>1 DEF BranchInputs, FrameWorkflows, ImageWorkflows, ShardWorkflows
  <2>3. PICK all : all = [i \in DOMAIN task.inputs |-> i]
    OBVIOUS
  <2>4. PICK at : at = {i \in DOMAIN task.inputs : task.inputs[i].worker = ActiveWorkers(task)[b]}
    OBVIOUS
  <2>5. all \in Seq(Nat) /\ at \in SUBSET DOMAIN all /\ IsInjective(all)
    BY <2>1, <2>3, <2>4 DEF IsInjective
  <2>6. held = Those(all, at)
    BY <2>2, <2>3, <2>4 DEF InputsAt
  <2> QED
    BY <2>1, <2>5, <2>6, ThoseAre
<1>3. PICK files : files = FilesRead(b, 1)
  OBVIOUS
<1>4. /\ DOMAIN files = DOMAIN held /\ files = [i \in DOMAIN files |-> files[i]]
      /\ \A i \in DOMAIN held : files[i] = file[Input(held[i])]
  <2>1. b # Final
    BY Shape
  <2>2. Reads(task, b, 1) = [i \in DOMAIN held |-> Input(held[i])]
    BY <1>1, <2>1 DEF Reads
  <2> QED
    BY <1>3, <2>2 DEF FilesRead
<1>5. IsRows(files)
  <2>1. DOMAIN held = 1..Len(held) /\ Len(held) \in Nat
    BY <1>2
  <2> QED
    BY <1>4, <2>1 DEF IsRows
<1>6. ASSUME NEW i \in DOMAIN held
      PROVE  /\ held[i] \in DOMAIN task.inputs /\ Load(files[i]) = Load(task.inputs[held[i]])
             /\ IsRows(Load(task.inputs[held[i]]))
             /\ \A k \in DOMAIN Load(task.inputs[held[i]]) : IsRecord(Load(task.inputs[held[i]])[k])
  <2>1. PICK input : input = task.inputs[held[i]]
    OBVIOUS
  <2>2. held[i] \in DOMAIN task.inputs
    BY <1>2
  <2>3. Input(held[i]) \in InputIds(task) /\ Input(held[i])[1] = held[i]
    BY <2>2 DEF InputIds, Input
  <2>4. files[i].form = input.form /\ files[i].rows = input.rows /\ files[i].type = input.type
    BY <1>4, <2>1, <2>3 DEF Reproducible, Given
  <2>5. files[i].type = "json" /\ IsLoadable(files[i])
    BY <1>3, <1>4 DEF ToSet
  <2>6. IsFile(input)
    BY <2>1, <2>2, <2>4, <2>5, WorkflowAssumption
  <2>7. IsLoadable(input)
    BY <2>4, <2>5 DEF IsLoadable
  <2>8. Load(files[i]) = Load(input)
    BY <2>4 DEF Load
  <2>9. IsRows(Load(input)) /\ \A k \in DOMAIN Load(input) : IsRecord(Load(input)[k])
    BY <2>6, <2>7, LoadedRows
  <2> QED
    BY <2>1, <2>2, <2>8, <2>9
<1>7. PICK loads : loads = [i \in DOMAIN files |-> Load(files[i])]
  OBVIOUS
<1>8. Lists(LoadAll(files), [x \in Blocks(loads) |-> loads[x[1]][x[2]]])
  BY <1>4, <1>5, <1>6, <1>7, LoadedLists
<1>9. PICK rec : rec = [x \in Blocks(loads) |-> loads[x[1]][x[2]]]
  OBVIOUS
<1>10. PICK other : other = [x \in StoredOn(b) |-> Raw(x)]
  OBVIOUS
<1>11. PICK g : g = [x \in Blocks(loads) |-> <<held[x[1]], x[2]>>]
  OBVIOUS
<1>12. ASSUME NEW i \in DOMAIN held
       PROVE  /\ loads[i] = Load(task.inputs[held[i]])
              /\ DOMAIN Load(task.inputs[held[i]]) = 1..Len(loads[i])
  BY <1>4, <1>6, <1>7, RowsAre
<1>13. DOMAIN loads = DOMAIN held
  BY <1>4, <1>7
<1>14. ASSUME NEW x \in DOMAIN rec
       PROVE  /\ x = <<x[1], x[2]>> /\ x[1] \in DOMAIN held /\ x[2] \in 1..Len(loads[x[1]])
              /\ g[x] = <<held[x[1]], x[2]>> /\ g[x] \in DOMAIN other /\ other[g[x]] = rec[x]
  <2>1. x = <<x[1], x[2]>> /\ x[1] \in DOMAIN held /\ x[2] \in 1..Len(loads[x[1]])
    BY <1>9, <1>13, BlocksAre
  <2>2. PICK i, k : i = x[1] /\ k = x[2]
    OBVIOUS
  <2>3. g[x] = <<held[i], k>>
    BY <1>9, <1>11, <2>2
  <2>4. k \in DOMAIN Load(task.inputs[held[i]]) /\ held[i] \in DOMAIN task.inputs
    BY <1>6, <1>12, <2>1, <2>2
  <2>5. <<held[i], k>> \in Stored
    BY <2>4 DEF Stored
  <2>6. held[i] \in ToSet(BranchInputs(task, b))
    BY <1>1, <2>1, <2>2 DEF ToSet
  <2>7. g[x] \in StoredOn(b)
    BY <2>3, <2>5, <2>6 DEF StoredOn
  <2>8. Raw(<<held[i], k>>) = loads[i][k]
    BY <1>12, <2>1, <2>2 DEF Raw
  <2>9. rec[x] = loads[i][k]
    BY <1>9, <2>2
  <2> QED
    BY <1>10, <2>1, <2>2, <2>3, <2>7, <2>8, <2>9
<1>15. ASSUME NEW x \in DOMAIN rec, NEW y \in DOMAIN rec, g[x] = g[y] PROVE x = y
  <2>1. held[x[1]] = held[y[1]] /\ x[2] = y[2]
    BY <1>14, <1>15
  <2>2. x[1] = y[1]
    BY <1>2, <1>14, <2>1 DEF IsInjective
  <2> QED
    BY <1>14, <2>1, <2>2
<1>16. ASSUME NEW z \in StoredOn(b)
       PROVE  /\ \E x \in DOMAIN rec : g[x] = z
              /\ IsRecord(Raw(z))
  <2>1. z \in Stored /\ z[1] \in ToSet(held)
    BY <1>1 DEF StoredOn
  <2>2. PICK j \in DOMAIN task.inputs : \E k \in DOMAIN Load(task.inputs[j]) : z = <<j, k>>
    BY <2>1 DEF Stored
  <2>3. PICK k \in DOMAIN Load(task.inputs[j]) : z = <<j, k>>
    BY <2>2
  <2>4. PICK i \in DOMAIN held : held[i] = j
    BY <2>1, <2>3 DEF ToSet
  <2>5. i \in DOMAIN loads /\ k \in 1..Len(loads[i])
    BY <1>12, <1>13, <2>4
  <2>6. <<i, k>> \in Blocks(loads)
    BY <2>5, BlocksAre
  <2>7. g[<<i, k>>] = z
    BY <1>11, <2>3, <2>4, <2>6
  <2>8. Raw(z) = Load(task.inputs[held[i]])[k]
    BY <2>3, <2>4 DEF Raw
  <2> QED
    BY <1>6, <1>9, <2>4, <2>6, <2>7, <2>8
<1>17. Places(g, rec, other)
  BY <1>10, <1>14, <1>15, <1>16 DEF Places
<1>18. Lists(LoadAll(files), other)
  BY <1>8, <1>9, <1>17, Relabelled
<1> QED
  BY <1>3, <1>10, <1>16, <1>18

\* Every call of an answered run has made its file.
LEMMA CallsMade ==
  ASSUME Inv, TraceInv, Reproducible, Measured, NEW q \in Taking, NEW s \in 1..Len(Chain(task, q))
  PROVE  file[<<q, s>>] = MadeBy(q, s) /\ file[<<q, s>>].ok
<1>1. <<q, s>> \in Executed
  BY AtTheEnd
<1>2. <<q, s>> \in DOMAIN file
  BY <1>1, ExecutedKnown DEF Inv, TypeOK
<1> QED
  BY <1>2 DEF Reproducible

\* What a plan's format says of its parts.
LEMMA PlanParts ==
  ASSUME NEW t \in Tasks, t.workflow = "distributed_compute"
  PROVE  /\ t.plan.derivations \in Seq(ToSet(t.plan.derivations))
         /\ \A n \in 1..Len(t.plan.derivations) : t.plan.derivations[n].op \in Arithmetic
         /\ t.plan.order \in Seq(ToSet(t.plan.order)) /\ t.plan.by \in Seq(ToSet(t.plan.by))
         /\ t.plan.limit \in Nat
         /\ t.plan.aggregations # <<>> \/ t.plan.order # <<>>
         /\ \A i \in DOMAIN t.inputs : t.inputs[i].worker \in ToSet(ShardWorkers)
<1>1. IsTask(t)
  BY WorkflowAssumption
<1>2. IsPlan(t.plan) /\ {t.inputs[i].worker : i \in DOMAIN t.inputs} = ToSet(ShardWorkers)
  BY <1>1 DEF IsTask
<1>3. /\ t.plan.derivations \in Seq(ToSet(t.plan.derivations))
      /\ \A d \in ToSet(t.plan.derivations) : d.op \in Arithmetic
      /\ t.plan.order \in Seq(ToSet(t.plan.order)) /\ t.plan.by \in Seq(ToSet(t.plan.by))
      /\ t.plan.limit \in 0..1000
      /\ t.plan.aggregations # <<>> \/ t.plan.order # <<>>
  BY <1>2 DEF IsPlan
<1>4. PICK all : all = t.plan.derivations
  OBVIOUS
<1>5. DOMAIN all = 1..Len(all) /\ \A n \in DOMAIN all : all[n] \in ToSet(all)
  BY <1>3, <1>4, LenProperties DEF ToSet
<1>6. \A n \in 1..Len(all) : all[n].op \in Arithmetic
  BY <1>3, <1>4, <1>5
<1>7. t.plan.limit \in Nat
  <2>1. PICK limit : limit = t.plan.limit
    OBVIOUS
  <2>2. limit \in 0..1000
    BY <1>3, <2>1
  <2>3. limit \in Nat
    BY <2>2
  <2> QED
    BY <2>1, <2>3
<1>8. \A i \in DOMAIN t.inputs : t.inputs[i].worker \in ToSet(ShardWorkers)
  BY <1>2
<1> QED
  BY <1>3, <1>4, <1>6, <1>7, <1>8

LEMMA RecordsComputed ==
  ASSUME NEW r
  PROVE  /\ IsRecord(r) => IsComputed(r)
         /\ IsComputed(r) /\ FAILED \notin Range(r) => IsRecord(r)
         /\ \A fields : IsRecord(r) => IsRecord(Projected(r, fields))
<1>1. IsRecord(r) => IsComputed(r)
  BY DEF IsRecord, IsComputed, Outcomes
<1>2. ASSUME IsComputed(r), FAILED \notin Range(r) PROVE IsRecord(r)
  <2>1. r \in [DOMAIN r -> Outcomes] /\ \A f \in DOMAIN r : r[f] # FAILED
    BY <1>2 DEF IsComputed, Range
  <2>2. \A f \in DOMAIN r : r[f] \in Values
    BY <2>1 DEF Outcomes
  <2> QED
    BY <2>1, <2>2 DEF IsRecord
<1>3. ASSUME NEW fields, IsRecord(r) PROVE IsRecord(Projected(r, fields))
  <2>1. PICK D : D = ToSet(fields) \cap DOMAIN r
    OBVIOUS
  <2>2. \A f \in D : r[f] \in Values
    BY <1>3, <2>1 DEF IsRecord
  <2>3. Projected(r, fields) = [f \in D |-> r[f]]
    BY <2>1 DEF Projected
  <2> QED
    BY <2>2, <2>3 DEF IsRecord
<1> QED
  BY <1>1, <1>2, <1>3

\* The stages hand on the records of the shard: those the plan asks about, in its
\* shape, all computed, reach the last call.
LEMMA ShardRecords ==
  ASSUME Inv, TraceInv, Reproducible, Computed, NEW b \in Branches(task),
         (task.plan.aggregations # <<>>) # (task.plan.order # <<>>)
  PROVE  LET last == Len(Chain(task, b))
             rows == LoadAll(FilesRead(b, last))
             plan == task.plan
         IN /\ Lists(rows, [x \in WantedOn(b) |-> Shaped(x)])
            /\ \A x \in WantedOn(b) : IsRecord(Shaped(x)) /\ FAILED \notin Range(Shaped(x))
            /\ plan.order # <<>> => LastRows(b) = TopK(rows, plan.order, plan.limit)
            /\ plan.order = <<>> => LastRows(b) = Aggregate(rows, plan.aggregations, plan.by)
            /\ ~HasFailed(LastRows(b))
<1>1. PICK plan : plan = task.plan
  OBVIOUS
<1>2. /\ task \in Tasks /\ task.workflow = "distributed_compute" /\ Measured
      /\ b \in Taking /\ b # Final
  <2>1. task \in Tasks /\ task.workflow = "distributed_compute" /\ Measured
    BY DEF Inv, TypeOK, Computed, Measured
  <2> QED
    BY <2>1, Shape DEF Taking
<1>3. PICK calls : calls = Chain(task, b)
  OBVIOUS
<1>4. calls = RecordChain(plan, ActiveWorkers(task)[b])
  BY <1>1, <1>2, <1>3 DEF Chain, ImageWorkflows
<1>5. PICK n1, n2, n3 : n1 = Filtered(plan) /\ n2 = Cut(plan) /\ n3 = Extended(plan)
  OBVIOUS
<1>6. /\ n1 = One(plan.predicates # <<>>) /\ n2 = n1 + One(plan.fields # <<>>)
      /\ n3 = n2 + One(plan.derivations # <<>>)
      /\ n1 \in Nat /\ n2 \in Nat /\ n3 \in Nat /\ n1 <= n2 /\ n2 <= n3
  BY <1>5 DEF Filtered, Cut, Extended, One
<1>7. /\ Len(calls) = n3 + 1
      /\ plan.predicates # <<>> => calls[n1].op = "filter_records"
      /\ plan.fields # <<>> => calls[n2].op = "select_fields"
      /\ plan.derivations # <<>> => calls[n3].op = "derive_fields"
      /\ calls[n3 + 1].op = IF plan.order # <<>> THEN "top_k_records" ELSE "aggregate_records"
  BY <1>1, <1>4, <1>5, RecordCalls
<1>8. ASSUME NEW n \in 1..(n3 + 1)
      PROVE  /\ file[<<b, n>>] = Result(calls[n].op, FilesRead(b, n), plan)
             /\ file[<<b, n>>].ok
  <2>1. n \in 1..Len(Chain(task, b))
    BY <1>3, <1>7
  <2> QED
    BY <1>1, <1>2, <1>3, <2>1, CallsMade DEF MadeBy
<1> DEFINE L(n) == LoadAll(FilesRead(b, n + 1))
           R(n) == file[<<b, n>>].rows
<1>9. ASSUME NEW n \in 1..n3, NEW op \in RecordOps \ {"aggregate_records"}, calls[n].op = op,
             NEW rec, Lists(R(n), rec)
      PROVE  Lists(L(n), rec)
  <2>1. n \in 1..(n3 + 1) /\ n \in Nat \ {0}
    BY <1>6
  <2>2. PICK f : f = file[<<b, n>>]
    OBVIOUS
  <2>3. f = Result(op, FilesRead(b, n), plan) /\ f.ok
    BY <1>8, <1>9, <2>1, <2>2
  <2>4. f.form = "records"
    BY <2>3, MadeRows
  <2>5. IsRows(f.rows)
    BY <1>9, <2>2 DEF Lists
  <2> QED
    BY <1>9, <2>1, <2>2, <2>4, <2>5, RowsFed
<1>10. /\ Lists(L(0), [x \in StoredOn(b) |-> Raw(x)])
       /\ \A x \in StoredOn(b) : IsRecord(Raw(x))
  <2>1. 1 \in 1..(n3 + 1)
    BY <1>6
  <2>2. calls[1].op \in RecordOps
    <3>1. CASE n1 = 1
      BY <1>6, <1>7, <3>1 DEF One, RecordOps
    <3>2. CASE n1 = 0 /\ n2 = 1
      BY <1>6, <1>7, <3>2 DEF One, RecordOps
    <3>3. CASE n1 = 0 /\ n2 = 0 /\ n3 = 1
      BY <1>6, <1>7, <3>3 DEF One, RecordOps
    <3>4. CASE n1 = 0 /\ n2 = 0 /\ n3 = 0
      BY <1>6, <1>7, <3>4 DEF One, RecordOps
    <3> QED
      BY <1>6, <3>1, <3>2, <3>3, <3>4 DEF One
  <2>3. PICK made, op : made = file[<<b, 1>>] /\ op = calls[1].op
    OBVIOUS
  <2>4. made = Result(op, FilesRead(b, 1), plan) /\ made.ok /\ op \in RecordOps
    BY <1>8, <2>1, <2>2, <2>3
  <2>5. \A f \in ToSet(FilesRead(b, 1)) : f.type = "json" /\ IsLoadable(f)
    BY <2>4, MadeRows
  <2>6. 0 + 1 = 1
    OBVIOUS
  <2> QED
    BY <1>2, <2>5, <2>6, ShardFiles
<1>11. Lists(L(n1), [x \in WantedOn(b) |-> Raw(x)]) /\ \A x \in WantedOn(b) : x \in StoredOn(b)
  <2>1. \A x : x \in WantedOn(b) <=> x \in StoredOn(b) /\
                  (plan.predicates # <<>> => Keeps(Raw(x), plan.predicates, plan.match))
    BY <1>1 DEF WantedOn, StoredOn, Wanted
  <2>2. CASE plan.predicates = <<>>
    <3>1. WantedOn(b) = StoredOn(b) /\ n1 = 0
      BY <1>6, <2>1, <2>2 DEF One
    <3> QED
      BY <1>10, <3>1
  <2>3. CASE plan.predicates # <<>>
    <3>1. n1 = 1 /\ n1 \in 1..n3 /\ n1 \in 1..(n3 + 1) /\ FilesRead(b, n1) = FilesRead(b, 0 + 1)
      BY <1>6, <2>3 DEF One
    <3>2. PICK rec : rec = [x \in StoredOn(b) |-> Raw(x)]
      OBVIOUS
    <3>3. Lists(Filter(L(0), plan.predicates, plan.match),
                [x \in {x \in DOMAIN rec : Keeps(rec[x], plan.predicates, plan.match)} |-> rec[x]])
      BY <1>10, <3>2, FilterLists
    <3>4. {x \in DOMAIN rec : Keeps(rec[x], plan.predicates, plan.match)} = WantedOn(b)
      BY <2>1, <2>3, <3>2
    <3>5. [x \in WantedOn(b) |-> rec[x]] = [x \in WantedOn(b) |-> Raw(x)]
      BY <2>1, <3>2
    <3>6. PICK made : made = file[<<b, n1>>]
      OBVIOUS
    <3>7. made = Result("filter_records", FilesRead(b, n1), plan) /\ made.ok
      BY <1>7, <1>8, <2>3, <3>1, <3>6
    <3>8. made.rows = Filter(LoadAll(FilesRead(b, n1)), plan.predicates, plan.match)
      BY <3>7, MadeRows DEF RecordOps
    <3>9. Lists(R(n1), [x \in WantedOn(b) |-> Raw(x)])
      BY <3>1, <3>3, <3>4, <3>5, <3>6, <3>8
    <3>10. Lists(L(n1), [x \in WantedOn(b) |-> Raw(x)])
      BY <1>7, <1>9, <2>3, <3>1, <3>9 DEF RecordOps
    <3> QED
      BY <2>1, <3>10
  <2> QED
    BY <2>2, <2>3
<1> DEFINE Kept(x) == IF plan.fields = <<>> THEN Raw(x) ELSE Projected(Raw(x), plan.fields)
<1>12. /\ Lists(L(n2), [x \in WantedOn(b) |-> Kept(x)])
       /\ \A x \in WantedOn(b) : IsRecord(Kept(x))
  <2>1. \A x \in WantedOn(b) : IsRecord(Kept(x))
    BY <1>10, <1>11, RecordsComputed
  <2>2. CASE plan.fields = <<>>
    <3>1. n2 = n1
      BY <1>6, <2>2 DEF One
    <3>2. [x \in WantedOn(b) |-> Kept(x)] = [x \in WantedOn(b) |-> Raw(x)]
      BY <2>2
    <3> QED
      BY <1>11, <2>1, <3>1, <3>2
  <2>3. CASE plan.fields # <<>>
    <3>1. n2 = n1 + 1 /\ n2 \in 1..n3 /\ n2 \in 1..(n3 + 1) /\ FilesRead(b, n2) = FilesRead(b, n1 + 1)
      BY <1>6, <2>3 DEF One
    <3>2. PICK rec : rec = [x \in WantedOn(b) |-> Raw(x)]
      OBVIOUS
    <3>3. Lists(Select(L(n1), plan.fields), [x \in DOMAIN rec |-> Projected(rec[x], plan.fields)])
      BY <1>11, <3>2, SelectLists
    <3>4. [x \in DOMAIN rec |-> Projected(rec[x], plan.fields)] = [x \in WantedOn(b) |-> Kept(x)]
      BY <2>3, <3>2
    <3>6. PICK made : made = file[<<b, n2>>]
      OBVIOUS
    <3>7. made = Result("select_fields", FilesRead(b, n2), plan) /\ made.ok
      BY <1>7, <1>8, <2>3, <3>1, <3>6
    <3>8. made.rows = Select(LoadAll(FilesRead(b, n2)), plan.fields)
      BY <3>7, MadeRows DEF RecordOps
    <3>9. Lists(R(n2), [x \in WantedOn(b) |-> Kept(x)])
      BY <3>1, <3>3, <3>4, <3>6, <3>8
    <3>10. Lists(L(n2), [x \in WantedOn(b) |-> Kept(x)])
      BY <1>7, <1>9, <2>3, <3>1, <3>9 DEF RecordOps
    <3> QED
      BY <2>1, <3>10
  <2> QED
    BY <2>2, <2>3
<1>13. \A x : Shaped(x) = DeriveAll(Kept(x), plan.derivations)
  BY <1>1 DEF Shaped
<1>14. /\ plan.derivations \in Seq(ToSet(plan.derivations))
       /\ \A n \in 1..Len(plan.derivations) : plan.derivations[n].op \in Arithmetic
  BY <1>1, <1>2, PlanParts
<1>15. ASSUME NEW x \in WantedOn(b)
       PROVE  IsComputed(Shaped(x)) /\ (plan.derivations = <<>> => Shaped(x) = Kept(x))
  <2>1. PICK r : r = Kept(x)
    OBVIOUS
  <2>2. IsComputed(r)
    BY <1>12, <2>1, RecordsComputed
  <2>3. /\ IsComputed(DeriveAll(r, plan.derivations))
        /\ plan.derivations = <<>> => DeriveAll(r, plan.derivations) = r
    BY <1>14, <2>2, DerivedUpto
  <2> QED
    BY <1>13, <2>1, <2>3
<1>16. /\ Lists(L(n3), [x \in WantedOn(b) |-> Shaped(x)])
       /\ \A x \in WantedOn(b) : IsRecord(Shaped(x)) /\ FAILED \notin Range(Shaped(x))
  <2>1. CASE plan.derivations = <<>>
    <3>1. n3 = n2
      BY <1>6, <2>1 DEF One
    <3>2. [x \in WantedOn(b) |-> Shaped(x)] = [x \in WantedOn(b) |-> Kept(x)]
      BY <1>15, <2>1
    <3>3. ASSUME NEW x \in WantedOn(b) PROVE FAILED \notin Range(Shaped(x))
      <4>1. IsRecord(Shaped(x))
        BY <1>12, <1>15, <2>1
      <4>2. FAILED \notin Values
        BY DEF FAILED, Value, Values
      <4> QED
        BY <4>1, <4>2 DEF IsRecord, Range
    <3> QED
      BY <1>12, <1>15, <2>1, <3>1, <3>2, <3>3
  <2>2. CASE plan.derivations # <<>>
    <3>1. n3 = n2 + 1 /\ n3 \in 1..n3 /\ n3 \in 1..(n3 + 1) /\ FilesRead(b, n3) = FilesRead(b, n2 + 1)
      BY <1>6, <2>2 DEF One
    <3>2. PICK rec : rec = [x \in WantedOn(b) |-> Kept(x)]
      OBVIOUS
    <3>3. Lists(Derive(L(n2), plan.derivations), [x \in DOMAIN rec |-> DeriveAll(rec[x], plan.derivations)])
      BY <1>12, <3>2, DeriveLists
    <3>4. [x \in DOMAIN rec |-> DeriveAll(rec[x], plan.derivations)] = [x \in WantedOn(b) |-> Shaped(x)]
      BY <1>13, <3>2
    <3>6. PICK made : made = file[<<b, n3>>]
      OBVIOUS
    <3>7. made = Result("derive_fields", FilesRead(b, n3), plan) /\ made.ok
      BY <1>7, <1>8, <2>2, <3>1, <3>6
    <3>8. made.rows = Derive(LoadAll(FilesRead(b, n3)), plan.derivations) /\ ~HasFailed(made.rows)
      BY <3>7, MadeRows DEF RecordOps
    <3>9. Lists(R(n3), [x \in WantedOn(b) |-> Shaped(x)])
      BY <3>1, <3>3, <3>4, <3>6, <3>8
    <3>10. Lists(L(n3), [x \in WantedOn(b) |-> Shaped(x)])
      BY <1>7, <1>9, <2>2, <3>1, <3>9 DEF RecordOps
    <3>11. ASSUME NEW x \in WantedOn(b) PROVE IsRecord(Shaped(x)) /\ FAILED \notin Range(Shaped(x))
      <4>1. PICK shaped : shaped = [y \in WantedOn(b) |-> Shaped(y)]
        OBVIOUS
      <4>2. PICK place : Places(place, made.rows, shaped)
        BY <3>6, <3>9, <4>1 DEF Lists
      <4>3. PICK n \in DOMAIN made.rows : made.rows[n] = Shaped(x)
        <5>1. x \in DOMAIN shaped /\ shaped[x] = Shaped(x)
          BY <4>1
        <5>2. PICK n \in DOMAIN made.rows : place[n] = x
          BY <4>2, <5>1 DEF Places
        <5>3. made.rows[n] = shaped[x]
          BY <4>2, <5>2 DEF Places
        <5> QED
          BY <5>1, <5>3
      <4>4. FAILED \notin Range(Shaped(x))
        BY <3>8, <4>3 DEF HasFailed
      <4> QED
        BY <1>15, <4>4, RecordsComputed
    <3> QED
      BY <3>10, <3>11
  <2> QED
    BY <2>1, <2>2
<1>17. PICK made, op : made = file[<<b, n3 + 1>>] /\ op = calls[n3 + 1].op
  OBVIOUS
<1>18. /\ made = Result(op, FilesRead(b, n3 + 1), plan) /\ made.ok
       /\ op = IF plan.order # <<>> THEN "top_k_records" ELSE "aggregate_records"
  BY <1>6, <1>7, <1>8, <1>17
<1>19. /\ plan.order # <<>> => made.rows = TopK(L(n3), plan.order, plan.limit)
       /\ plan.order = <<>> => made.rows = Aggregate(L(n3), plan.aggregations, plan.by)
       /\ ~HasFailed(made.rows)
  BY <1>18, MadeRows DEF RecordOps
<1>20. LastRows(b) = made.rows /\ Len(Chain(task, b)) = n3 + 1
  BY <1>3, <1>7, <1>17 DEF LastRows
<1> QED
  BY <1>1, <1>16, <1>19, <1>20

\* Every record is one of some shard's branch.
LEMMA RecordsCovered ==
  ASSUME task \in Tasks, task.workflow = "distributed_compute"
  PROVE  /\ \A x \in Wanted : \E b \in Branches(task) : x \in WantedOn(b)
         /\ \A b \in Branches(task) : WantedOn(b) \subseteq Wanted
<1>1. ASSUME NEW x \in Wanted PROVE \E b \in Branches(task) : x \in WantedOn(b)
  <2>1. x \in Stored
    BY DEF Wanted
  <2>2. PICK i \in DOMAIN task.inputs : x[1] = i
    BY <2>1 DEF Stored
  <2>3. Input(i) \in Inspected
    BY DEF Inspected, ImageWorkflows, InputIds
  <2>4. PICK b \in Branches(task) : i \in ToSet(BranchInputs(task, b))
    BY <2>3, BranchesCover DEF RawWorkflows
  <2> QED
    BY <2>2, <2>4 DEF WantedOn
<1> QED
  BY <1>1 DEF WantedOn

LEMMA WantedFinite ==
  ASSUME Inv, TraceInv, Reproducible, Computed,
         (task.plan.aggregations # <<>>) # (task.plan.order # <<>>)
  PROVE  IsFiniteSet(Wanted)
<1>1. task \in Tasks /\ task.workflow = "distributed_compute"
  BY DEF Inv, TypeOK, Computed
<1>2. IsFiniteSet(Branches(task))
  <2>1. \A n \in Nat : IsFiniteSet(1..n)
    BY FS_Interval
  <2>2. Width(task) \in Nat
    BY <1>1, Shape
  <2> QED
    BY <2>1, <2>2 DEF Branches
<1>3. ASSUME NEW b \in Branches(task) PROVE IsFiniteSet(WantedOn(b))
  <2>1. PICK rec : rec = [x \in WantedOn(b) |-> Shaped(x)]
    OBVIOUS
  <2>2. PICK rows : Lists(rows, rec)
    BY <2>1, ShardRecords
  <2>3. PICK place : Places(place, rows, rec)
    BY <2>2 DEF Lists
  <2>4. IsFiniteSet(DOMAIN rows)
    BY <2>2, RowsAre DEF Lists
  <2>5. PICK f : f = [n \in DOMAIN rows |-> place[n]]
    OBVIOUS
  <2>6. f \in Surjection(DOMAIN rows, WantedOn(b))
    BY <2>1, <2>3, <2>5 DEF Places, Surjection
  <2> QED
    BY <2>4, <2>6, FS_Surjection
<1>4. PICK shards, f : /\ shards = {WantedOn(b) : b \in Branches(task)}
                       /\ f = [b \in Branches(task) |-> WantedOn(b)]
  OBVIOUS
<1>5. f \in Surjection(Branches(task), shards)
  BY <1>4 DEF Surjection
<1>6. IsFiniteSet(shards) /\ \A T \in shards : IsFiniteSet(T)
  BY <1>2, <1>3, <1>4, <1>5, FS_Surjection
<1>7. IsFiniteSet(UNION shards)
  BY <1>6, FS_UNION
<1>8. Wanted = UNION shards
  BY <1>1, <1>4, RecordsCovered
<1> QED
  BY <1>7, <1>8

\* What each branch ends with are the best records of its shard, so that together
\* they hold the best of all.
LEMMA BestKept ==
  ASSUME Inv, TraceInv, Reproducible
  PROVE  KeepsTheBest
<1> SUFFICES ASSUME Computed, task.plan.aggregations = <<>> PROVE KeepsTheBest
  BY DEF KeepsTheBest
<1>1. task \in Tasks /\ task.workflow = "distributed_compute"
  BY DEF Inv, TypeOK, Computed
<1>2. PICK order, limit : order = task.plan.order /\ limit = task.plan.limit
  OBVIOUS
<1>3. order \in Seq(ToSet(order)) /\ order # <<>> /\ limit \in Nat
  BY <1>1, <1>2, PlanParts
<1>4. (task.plan.aggregations # <<>>) # (task.plan.order # <<>>)
  BY <1>2, <1>3
<1>5. ASSUME NEW b \in Branches(task)
      PROVE  \E rows, rec :
               /\ rec = [x \in WantedOn(b) |-> Shaped(x)]
               /\ Lists(rows, rec) /\ LastRows(b) = TopK(rows, order, limit)
               /\ \A x \in WantedOn(b) : IsRecord(Shaped(x)) /\ FAILED \notin Range(Shaped(x))
  BY <1>2, <1>3, <1>4, ShardRecords
<1>6. ASSUME NEW b \in Branches(task)
      PROVE  /\ \A x \in WantedOn(b) : FAILED \notin Range(Shaped(x))
             /\ \A n \in DOMAIN LastRows(b) : \E x \in WantedOn(b) : LastRows(b)[n] = Shaped(x)
             /\ \A x \in WantedOn(b) : \A ahead :
                  /\ IsFiniteSet(ahead) /\ Cardinality(ahead) < limit
                  /\ {z \in WantedOn(b) : CompareRecords(Shaped(z), Shaped(x), order) < 0} \subseteq ahead
                  => \E n \in DOMAIN LastRows(b) : JsonRecord(LastRows(b)[n]) = JsonRecord(Shaped(x))
  <2>1. PICK rows, rec :
          /\ rec = [x \in WantedOn(b) |-> Shaped(x)]
          /\ Lists(rows, rec) /\ LastRows(b) = TopK(rows, order, limit)
          /\ \A x \in WantedOn(b) : IsRecord(Shaped(x)) /\ FAILED \notin Range(Shaped(x))
    BY <1>5
  <2>2. DOMAIN rec = WantedOn(b) /\ \A x \in WantedOn(b) : rec[x] = Shaped(x)
    BY <2>1
  <2>3. PICK top : top = TopK(rows, order, limit)
    OBVIOUS
  <2>4. \A x \in DOMAIN rec : IsRecord(rec[x])
    BY <2>1, <2>2
  <2>5. \A n \in DOMAIN top : \E x \in DOMAIN rec : top[n] = rec[x]
    BY <1>3, <2>1, <2>3, <2>4, BestListed
  <2>6. \A x \in DOMAIN rec : \A ahead :
          /\ IsFiniteSet(ahead) /\ Cardinality(ahead) < limit
          /\ {z \in DOMAIN rec : CompareRecords(rec[z], rec[x], order) < 0} \subseteq ahead
          => \E n \in DOMAIN top : JsonRecord(top[n]) = JsonRecord(rec[x])
    BY <1>3, <2>1, <2>3, <2>4, BestListed
  <2>7. ASSUME NEW x \in WantedOn(b)
        PROVE  {z \in DOMAIN rec : CompareRecords(rec[z], rec[x], order) < 0}
                 = {z \in WantedOn(b) : CompareRecords(Shaped(z), Shaped(x), order) < 0}
    BY <2>2
  <2>8. top = LastRows(b)
    BY <2>1, <2>3
  <2> HIDE DEF Shaped
  <2>9. \A n \in DOMAIN LastRows(b) : \E x \in WantedOn(b) : LastRows(b)[n] = Shaped(x)
    BY <2>2, <2>5, <2>8
  <2>10. ASSUME NEW x \in WantedOn(b), NEW ahead, IsFiniteSet(ahead), Cardinality(ahead) < limit,
                {z \in WantedOn(b) : CompareRecords(Shaped(z), Shaped(x), order) < 0} \subseteq ahead
         PROVE  \E n \in DOMAIN LastRows(b) : JsonRecord(LastRows(b)[n]) = JsonRecord(Shaped(x))
    BY <2>2, <2>6, <2>7, <2>8, <2>10
  <2> QED
    BY <2>1, <2>9, <2>10
<1>7. /\ \A x \in Wanted : \E b \in Branches(task) : x \in WantedOn(b)
      /\ \A b \in Branches(task) : WantedOn(b) \subseteq Wanted
  BY <1>1, RecordsCovered
<1>8. \A x \in Wanted : FAILED \notin Range(Shaped(x))
  BY <1>6, <1>7
<1>9. ASSUME NEW y \in Delivered PROVE \E x \in Wanted : Item(y) = Shaped(x)
  <2>1. PICK b \in Branches(task) : \E n \in DOMAIN LastRows(b) : y = <<b, n>>
    BY DEF Delivered
  <2>2. PICK n \in DOMAIN LastRows(b) : y = <<b, n>>
    BY <2>1
  <2>3. Item(y) = LastRows(b)[n]
    BY <2>2 DEF Item
  <2> QED
    BY <1>6, <1>7, <2>3
<1>10. ASSUME NEW x \in Wanted, NEW ahead,
              ahead = {z \in Wanted : CompareRecords(Shaped(z), Shaped(x), order) < 0},
              Cardinality(ahead) < limit
       PROVE  \E y \in Delivered : JsonRecord(Item(y)) = JsonRecord(Shaped(x))
  <2>1. PICK b \in Branches(task) : x \in WantedOn(b)
    BY <1>7
  <2>2. IsFiniteSet(ahead)
    BY <1>4, <1>10, WantedFinite, FS_Subset
  <2>3. {z \in WantedOn(b) : CompareRecords(Shaped(z), Shaped(x), order) < 0} \subseteq ahead
    BY <1>7, <1>10
  <2>4. PICK n \in DOMAIN LastRows(b) : JsonRecord(LastRows(b)[n]) = JsonRecord(Shaped(x))
    BY <1>6, <1>10, <2>1, <2>2, <2>3
  <2>5. <<b, n>> \in Delivered /\ Item(<<b, n>>) = LastRows(b)[n]
    BY DEF Delivered, Item
  <2> QED
    BY <2>4, <2>5
<1> QED
  BY <1>2, <1>8, <1>9, <1>10 DEF KeepsTheBest

(* No record that fewer than `limit` records of all shards together precede *)
(* is lost, whatever the plan, the records and the faults, and what is not  *)
(* computed is not answered.                                                *)
THEOREM BestAreKept == Spec => []KeepsTheBest
<1>1. Init => Sourced /\ Reproducible
  BY SourcedInit, ReproducibleInit
<1>2. Inv /\ TraceInv /\ Reproducible => KeepsTheBest
  BY BestKept
<1>3. Spec => [](Sourced /\ Reproducible)
  BY <1>1, SourcedStep, ReproducibleStep, Invariance, PTL DEF Spec
<1> QED
  BY <1>2, <1>3, Tracked, PTL
=============================================================================
