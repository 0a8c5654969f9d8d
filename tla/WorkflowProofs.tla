--------------------------- MODULE WorkflowProofs ---------------------------
(***************************************************************************)
(* Proofs about the reference workflows, for any tasks, Workers, models    *)
(* and schedulers, and for any number of faults.                           *)
(***************************************************************************)
EXTENDS Workflow, RecordProofs

\* The processes of the run: its branches and the final call.
Taking == {Final} \cup Branches(task)

(* A call that is under way is one of a process of the run, at a Worker,   *)
(* and reads artifacts whose places are known; whatever has returned has   *)
(* a known place, and a branch is done after its last call.                *)
Underway ==
  /\ InputIds(task) \subseteq DOMAIN locations
  /\ \A p \in Procs :
       /\ p \notin Taking => phase[p] = "done"
       /\ \A s \in 1..step[p] : <<p, s>> \in DOMAIN locations
       /\ phase[p] \notin Ended => step[p] < Len(Chain(task, p))
       /\ p # Final /\ p \in Taking /\ phase[p] = "done" => step[p] = Len(Chain(task, p))
       /\ phase[p] \in {"localize", "sent"} => target[p] \in Workers
       /\ phase[p] \in {"ask", "localize", "sent"} =>
            Held(p) \in Seq(DOMAIN locations) /\ ready[p] <= Len(Held(p))
       /\ phase[p] = "ask" => ready[p] = 0

(* A process has at most one handler: that of the call it waits for, or of *)
(* one it has given up.  An answer "ok" comes after the output is stored.  *)
Served ==
  /\ \A h \in handlers :
       /\ phase[h.proc] \in {"sent", "failed", "cancelled"}
       /\ phase[h.proc] = "sent" =>
            h.step = step[h.proc] + 1 /\ h.worker = target[h.proc] /\ reply[h.proc] = "none"
  /\ \A g, h \in handlers : g.proc = h.proc => g = h
  /\ \A p \in Procs :
       /\ reply[p] # "none" => phase[p] \in {"sent", "failed", "cancelled"}
       /\ phase[p] = "sent" /\ reply[p] = "ok" => Output(p) \in store[target[p]]

(* Every recorded location holds its artifact, and so does the target of a *)
(* call, for the inputs it has dealt with.                                 *)
Supplied ==
  /\ \A a \in DOMAIN locations : \A i \in DOMAIN locations[a] : a \in store[locations[a][i]]
  /\ \A p \in Procs : phase[p] = "localize" =>
       \A i \in 1..ready[p] : Held(p)[i] \in store[target[p]]

(* The final call waits for all branches, and the caller for it. *)
Concluded ==
  /\ phase[Final] \in {"ask", "localize", "sent", "done"} =>
       \A b \in Branches(task) : phase[b] = "done"
  /\ outcome = "answered" => phase[Final] = "done"

Inv == TypeOK /\ Underway /\ Served /\ InputsPresent /\ Supplied /\ Concluded

USE DEF Ended
-----------------------------------------------------------------------------
(* What the assumptions say. *)

\* The Workers are finitely many: they are listed in the order of their names.
LEMMA FiniteWorkers == IsFiniteSet(Workers)
<1>1. WorkerOrder \in Seq(Workers)
  BY SelectionAssumption
<1>2. IsFiniteSet(1..Len(WorkerOrder))
  BY <1>1, FS_Interval
<1>3. Workers = {WorkerOrder[i] : i \in 1..Len(WorkerOrder)}
  BY <1>1 DEF Workers, ToSet
<1>4. WorkerOrder \in Surjection(1..Len(WorkerOrder), Workers)
  BY <1>1, <1>3 DEF Surjection
<1> QED
  BY <1>2, <1>4, FS_Surjection

\* The elements of a sequence are its values at 1, 2, ... up to its length.
LEMMA Elements ==
  ASSUME NEW S, NEW seq \in Seq(S)
  PROVE  /\ DOMAIN seq = 1..Len(seq)
         /\ Len(seq) \in Nat
         /\ ToSet(seq) = {seq[i] : i \in 1..Len(seq)}
         /\ ToSet(seq) \subseteq S
BY DEF ToSet

\* A sequence other than <<>> has a positive length.
LEMMA NonEmpty ==
  ASSUME NEW S, NEW seq \in Seq(S) \ {<<>>}
  PROVE  Len(seq) \in Nat /\ Len(seq) > 0 /\ DOMAIN seq = 1..Len(seq)
OBVIOUS

\* The processes of a run are numbered within the bound, and each makes a
\* non-empty sequence of calls at known Workers.
LEMMA Shape ==
  ASSUME NEW t \in Tasks
  PROVE  /\ Final \in Procs /\ Branches(t) \subseteq Procs /\ Final \notin Branches(t)
         /\ \A p \in {Final} \cup Branches(t) : Chain(t, p) \in Seq(Calls) \ {<<>>}
         /\ \A p \in {Final} \cup Branches(t) :
               Len(Chain(t, p)) \in Nat /\ Len(Chain(t, p)) > 0
         /\ \A b \in Branches(t) : BranchInputs(t, b) \in Seq(DOMAIN t.inputs)
         /\ DOMAIN t.inputs = 1..Len(t.inputs) /\ Len(t.inputs) \in Nat
         /\ \A i \in DOMAIN t.inputs : t.inputs[i].worker \in Workers
         /\ Width(t) \in Nat
<1>1. Width(t) \in 0..MaxBranches /\ MaxBranches \in Nat
  BY WorkflowAssumption
<1>2. Chain(t, Final) \in Seq(Calls) \ {<<>>}
  <2>1. Chain(t, Final) = <<Closing(t)>>
    BY DEF Chain
  <2>2. <<>> \in Seq(Workers)
    OBVIOUS
  <2>3. Closing(t) \in Calls
    BY <2>2 DEF Closing, Invocation, Calls
  <2> QED
    BY <2>1, <2>3
<1>3. t.inputs \in Seq(Range(t.inputs))
  BY WorkflowAssumption
<1>4. /\ \A b \in Branches(t) : Chain(t, b) \in Seq(Calls) \ {<<>>}
      /\ \A b \in Branches(t) : BranchInputs(t, b) \in Seq(DOMAIN t.inputs)
      /\ \A i \in DOMAIN t.inputs : t.inputs[i].worker \in Workers
  BY WorkflowAssumption
<1>5. \A p \in {Final} \cup Branches(t) :
         Len(Chain(t, p)) \in Nat /\ Len(Chain(t, p)) > 0
  BY <1>2, <1>4, NonEmpty
<1>6. /\ Final \in Procs /\ Branches(t) \subseteq Procs /\ Final \notin Branches(t)
      /\ Width(t) \in Nat
  BY <1>1 DEF Branches, Procs, Final
<1>7. DOMAIN t.inputs = 1..Len(t.inputs) /\ Len(t.inputs) \in Nat
  BY <1>3
<1> QED
  BY <1>2, <1>4, <1>5, <1>6, <1>7

\* What the next call of a process that may start reads has a known place.
LEMMA NextReads ==
  ASSUME Inv, NEW p \in Procs, MayStart(p)
  PROVE  Held(p) \in Seq(DOMAIN locations)
<1> USE DEF Inv
<1>1. task \in Tasks /\ step[p] \in Nat
  BY DEF TypeOK
<1>2. p \in Taking /\ step[p] < Len(Chain(task, p))
  BY DEF MayStart, Underway
<1>3. CASE step[p] > 0
  <2>1. Held(p) = <<<<p, step[p]>>>>
    BY <1>1, <1>3 DEF Held, Reads
  <2>2. <<p, step[p]>> \in DOMAIN locations
    BY <1>1, <1>3 DEF Underway
  <2> QED
    BY <2>1, <2>2
<1>4. CASE step[p] = 0 /\ p # Final
  <2>1. BranchInputs(task, p) \in Seq(DOMAIN task.inputs)
    BY <1>1, <1>2, <1>4, Shape DEF Taking
  <2>2. Held(p) = [i \in DOMAIN BranchInputs(task, p) |-> Input(BranchInputs(task, p)[i])]
    BY <1>4 DEF Held, Reads
  <2>3. \A i \in DOMAIN task.inputs : Input(i) \in DOMAIN locations
    BY DEF Underway, InputIds
  <2> QED
    BY <2>1, <2>2, <2>3
<1>5. CASE step[p] = 0 /\ p = Final
  <2>1. Held(p) = FinalInputs(task)
    BY <1>5 DEF Held, Reads
  <2>2. CASE task.workflow \in RawWorkflows
    <3>1. \A i \in DOMAIN task.inputs : Input(i) \in DOMAIN locations
      BY DEF Underway, InputIds
    <3>2. DOMAIN task.inputs = 1..Len(task.inputs) /\ Len(task.inputs) \in Nat
      BY <1>1, Shape
    <3>3. Held(p) = [i \in 1..Len(task.inputs) |-> Input(i)]
      BY <2>1, <2>2, <3>2 DEF FinalInputs
    <3> QED
      BY <3>1, <3>2, <3>3
  <2>3. CASE task.workflow \notin RawWorkflows
    <3>1. /\ Branches(task) \subseteq Procs /\ Final \notin Branches(task)
          /\ \A b \in Branches(task) : Len(Chain(task, b)) \in Nat /\ Len(Chain(task, b)) > 0
          /\ Width(task) \in Nat
      BY <1>1, Shape
    <3>2. ASSUME NEW b \in Branches(task)
          PROVE  <<b, Len(Chain(task, b))>> \in DOMAIN locations
      <4>1. phase[b] = "done"
        BY <1>5, <3>2 DEF MayStart
      <4>2. step[b] = Len(Chain(task, b))
        BY <3>1, <3>2, <4>1 DEF Underway, Taking
      <4> QED
        BY <3>1, <3>2, <4>2 DEF Underway
    <3>3. Held(p) = [b \in 1..Width(task) |-> <<b, Len(Chain(task, b))>>]
      BY <2>1, <2>3 DEF FinalInputs, Branches
    <3>4. \A b \in 1..Width(task) : <<b, Len(Chain(task, b))>> \in DOMAIN locations
      BY <3>2 DEF Branches
    <3> QED
      BY <3>1, <3>3, <3>4
  <2> QED
    BY <2>2, <2>3
<1> QED
  BY <1>1, <1>3, <1>4, <1>5
-----------------------------------------------------------------------------
\* The calls of a run that starts have not begun, and all its inputs have a
\* place.
LEMMA Initially ==
  ASSUME Init
  PROVE  Inv
<1>1. task \in Tasks /\ MaxFaults \in Nat
  BY WorkflowAssumption DEF Init
<1>2. InputIds(task) = DOMAIN locations /\ DOMAIN locations = DOMAIN file
  BY DEF Init, InputIds
<1>3. ASSUME NEW a \in InputIds(task)
      PROVE  \E w \in Workers : locations[a] = <<w>> /\ a \in store[w]
  <2>1. PICK i \in DOMAIN task.inputs : a = Input(i)
    BY <1>3 DEF InputIds
  <2>2. a[1] = i /\ task.inputs[i].worker \in Workers
    BY <1>1, <2>1, Shape DEF Input
  <2>3. locations[a] = <<task.inputs[i].worker>>
    BY <1>3, <2>2 DEF Init
  <2>4. a \in store[task.inputs[i].worker]
    BY <1>3, <2>2 DEF Init
  <2> QED
    BY <2>2, <2>3, <2>4
<1>4. \A p \in Procs : /\ step[p] = 0 /\ ready[p] = 0 /\ target[p] = "" /\ reply[p] = "none"
                       /\ phase[p] = IF p \in Taking THEN "idle" ELSE "done"
  BY DEF Init, Taking
<1>5. TypeOK
  <2>1. locations \in [DOMAIN locations -> Seq(Workers)]
    <3>1. locations = [a \in DOMAIN locations |-> locations[a]]
      BY DEF Init
    <3>2. ASSUME NEW a \in DOMAIN locations
          PROVE  locations[a] \in Seq(Workers)
      <4>1. PICK w \in Workers : locations[a] = <<w>>
        BY <1>2, <1>3
      <4> QED
        BY <4>1
    <3> QED
      BY <3>1, <3>2
  <2>2. step \in [Procs -> Nat] /\ ready \in [Procs -> Nat] /\ target \in [Procs -> Workers \cup {""}]
    BY DEF Init
  <2>3. phase \in [Procs -> {"idle", "ask", "localize", "sent"} \cup Ended]
    BY DEF Init
  <2>4. store \in [Workers -> SUBSET DOMAIN file]
    BY <1>2 DEF Init
  <2>5. reply \in [Procs -> {"none", "ok", "error"}] /\ DOMAIN indices = Models
    BY DEF Init
  <2>6. /\ handlers \subseteq [proc : Procs, step : Nat, worker : Workers]
        /\ outcome \in {"running", "answered", "failed"} /\ faults \in 0..MaxFaults
    <3>1. handlers = {} /\ outcome = "running" /\ faults = 0
      BY DEF Init
    <3> QED
      BY <1>1, <3>1
  <2> QED
    BY <1>1, <1>2, <2>1, <2>2, <2>3, <2>4, <2>5, <2>6, Zenon DEF TypeOK
<1>6. Underway
  <2>1. \A p \in Taking : Len(Chain(task, p)) \in Nat /\ Len(Chain(task, p)) > 0
    BY <1>1, Shape DEF Taking
  <2>2. ASSUME NEW p \in Procs
        PROVE  /\ p \notin Taking => phase[p] = "done"
               /\ \A s \in 1..step[p] : <<p, s>> \in DOMAIN locations
               /\ phase[p] \notin Ended => step[p] < Len(Chain(task, p))
               /\ p \in Taking => phase[p] = "idle"
    <3>1. step[p] = 0 /\ phase[p] = IF p \in Taking THEN "idle" ELSE "done"
      BY <1>4
    <3>2. \A s \in 1..step[p] : <<p, s>> \in DOMAIN locations
      BY <3>1
    <3>3. CASE p \in Taking
      BY <2>1, <3>1, <3>2, <3>3
    <3>4. CASE p \notin Taking
      BY <3>1, <3>2, <3>4
    <3> QED
      BY <3>3, <3>4
  <2> QED
    BY <1>2, <2>2 DEF Underway
<1>7. Served /\ InputsPresent
  BY <1>4 DEF Init, Served, InputsPresent
<1>8. Supplied
  <2>1. \A a \in DOMAIN locations : \A i \in DOMAIN locations[a] : a \in store[locations[a][i]]
    BY <1>2, <1>3
  <2> QED
    BY <1>4, <2>1 DEF Supplied
<1>9. Concluded
  <2>1. Final \in Procs
    BY <1>1, Shape
  <2> QED
    BY <1>4, <2>1 DEF Init, Concluded, Taking
<1> QED
  BY <1>5, <1>6, <1>7, <1>8, <1>9 DEF Inv
-----------------------------------------------------------------------------
\* What a process that is under way can rely on.
LEMMA ActiveFacts ==
  ASSUME Inv, NEW p \in Procs, phase[p] \notin Ended
  PROVE  /\ task \in Tasks /\ p \in Taking
         /\ Final \in Procs /\ Branches(task) \subseteq Procs /\ Final \notin Branches(task)
         /\ step[p] \in Nat /\ step[p] < Len(Chain(task, p)) /\ Len(Chain(task, p)) \in Nat
         /\ Current(p) \in Calls
<1>1. task \in Tasks /\ step[p] \in Nat
  BY DEF Inv, TypeOK
<1>2. p \in Taking /\ step[p] < Len(Chain(task, p))
  BY DEF Inv, Underway
<1>3. Chain(task, p) \in Seq(Calls) /\ Len(Chain(task, p)) \in Nat
  BY <1>1, <1>2, Shape DEF Taking
<1>4. Current(p) \in Calls
  BY <1>1, <1>2, <1>3 DEF Current
<1> QED
  BY <1>1, <1>2, <1>3, <1>4, Shape

\* What a raised exception makes of the phases and the outcome.
LEMMA Raised ==
  ASSUME Inv, NEW p \in Procs, phase[p] \notin Ended, Raise(p), task' = task
  PROVE  /\ phase' \in [Procs -> {"idle", "ask", "localize", "sent"} \cup Ended]
         /\ phase'[p] = "failed"
         /\ \A q \in Procs : phase'[q] = phase[q] \/ (phase'[q] = "failed" /\ q \in Taking)
         /\ outcome' \in {outcome, "failed"}
         /\ Concluded'
<1>1. phase \in [Procs -> {"idle", "ask", "localize", "sent"} \cup Ended]
  BY DEF Inv, TypeOK
<1>2. PICK ends : /\ ends \in {{p}, {p, Final}}
                  /\ phase' = [q \in Procs |-> IF q \in ends THEN "failed" ELSE phase[q]]
                  /\ outcome' = IF Final \in ends /\ outcome = "running"
                                THEN "failed" ELSE outcome
  BY DEF Raise
<1>3. p \in Taking /\ Final \in Procs /\ Final \in Taking
  BY ActiveFacts DEF Taking
<1>4. /\ phase' \in [Procs -> {"idle", "ask", "localize", "sent"} \cup Ended]
      /\ phase'[p] = "failed"
      /\ \A q \in Procs : phase'[q] = phase[q] \/ (phase'[q] = "failed" /\ q \in Taking)
      /\ outcome' \in {outcome, "failed"}
  BY <1>1, <1>2, <1>3
<1>5. phase'[Final] \notin {"ask", "localize", "sent", "done"}
  <2>1. CASE p = Final
    BY <1>4, <2>1
  <2>2. CASE p # Final
    <3>1. phase[Final] \notin {"ask", "localize", "sent", "done"}
      BY <1>3, <2>2 DEF Inv, Concluded, Taking
    <3> QED
      BY <1>3, <1>4, <3>1
  <2> QED
    BY <2>1, <2>2
<1>6. outcome' # "answered"
  <2>1. CASE outcome = "answered"
    BY <1>3, <2>1 DEF Inv, Concluded, Taking
  <2>2. CASE outcome # "answered"
    BY <1>4, <2>2
  <2> QED
    BY <2>1, <2>2
<1> QED
  BY <1>4, <1>5, <1>6 DEF Concluded

\* A call that raises; what its Worker already got stays there.
LEMMA RaiseStep ==
  ASSUME Inv, NEW p \in Procs, phase[p] \notin Ended, Raise(p),
         UNCHANGED <<task, indices, step, target, ready, locations, file, handlers, reply>>,
         store' \in [Workers -> SUBSET DOMAIN file],
         \A w \in Workers : store[w] \subseteq store'[w],
         faults' \in 0..MaxFaults
  PROVE  Inv'
<1>1. TypeOK'
  BY Raised DEF Inv, TypeOK
<1>2. Underway'
  BY Raised DEF Inv, TypeOK, Underway, Taking, Held
<1>3. Served'
  <2>1. ASSUME NEW h \in handlers
        PROVE  /\ phase'[h.proc] \in {"sent", "failed", "cancelled"}
               /\ phase'[h.proc] = "sent" =>
                    h.step = step[h.proc] + 1 /\ h.worker = target[h.proc] /\ reply[h.proc] = "none"
    BY Raised DEF Inv, TypeOK, Served
  <2>2. ASSUME NEW q \in Procs
        PROVE  /\ reply[q] # "none" => phase'[q] \in {"sent", "failed", "cancelled"}
               /\ phase'[q] = "sent" /\ reply[q] = "ok" => Output(q)' \in store'[target[q]]
    <3>1. Output(q)' = Output(q)
      BY DEF Output
    <3>2. phase[q] = "sent" => target[q] \in Workers
      BY DEF Inv, Underway
    <3> QED
      BY Raised, <3>1, <3>2 DEF Inv, Served
  <2>3. \A g, h \in handlers : g.proc = h.proc => g = h
    BY DEF Inv, Served
  <2> QED
    BY <2>1, <2>2, <2>3 DEF Served
<1>4. InputsPresent'
  BY DEF Inv, TypeOK, InputsPresent
<1>5. Supplied'
  <2>1. ASSUME NEW a \in DOMAIN locations, NEW i \in DOMAIN locations[a]
        PROVE  a \in store'[locations[a][i]]
    <3>1. locations[a] \in Seq(Workers)
      BY DEF Inv, TypeOK
    <3>2. locations[a][i] \in Workers
      BY <3>1
    <3> QED
      BY <3>2 DEF Inv, Supplied
  <2>2. ASSUME NEW q \in Procs, phase'[q] = "localize"
        PROVE  \A i \in 1..ready[q] : Held(q)'[i] \in store'[target[q]]
    <3>1. phase[q] = "localize" /\ Held(q)' = Held(q)
      BY Raised, <2>2 DEF Held
    <3>2. target[q] \in Workers
      BY <3>1 DEF Inv, Underway
    <3> QED
      BY <3>1, <3>2 DEF Inv, Supplied
  <2> QED
    BY <2>1, <2>2 DEF Supplied
<1> QED
  BY <1>1, <1>2, <1>3, <1>4, <1>5, Raised DEF Inv

\* Process p comes to another phase, n of the inputs of its call dealt with.
Moves(p, next, n) ==
  /\ phase' = [phase EXCEPT ![p] = next]
  /\ ready' = [ready EXCEPT ![p] = n]

LEMMA MovedFacts ==
  ASSUME TypeOK, NEW p \in Procs, NEW n \in Nat,
         NEW next \in {"idle", "ask", "localize", "sent"} \cup Ended, Moves(p, next, n)
  PROVE  /\ phase' \in [Procs -> {"idle", "ask", "localize", "sent"} \cup Ended]
         /\ ready' \in [Procs -> Nat]
         /\ phase'[p] = next /\ ready'[p] = n
         /\ \A q \in Procs \ {p} : phase'[q] = phase[q] /\ ready'[q] = ready[q]
BY DEF Moves, TypeOK

(* A call gets its Worker, or looks for one; none of its inputs has been    *)
(* dealt with, and the final call comes after all branches.                *)
Starts(p, next) ==
  /\ phase[p] \in {"idle", "ask"}
  /\ Moves(p, next, 0)
  /\ Held(p) \in Seq(DOMAIN locations)
  /\ p = Final => \A b \in Branches(task) : phase[b] = "done"
  /\ target' \in [Procs -> Workers \cup {""}]
  /\ \A q \in Procs \ {p} : target'[q] = target[q]
  /\ next = "localize" => target'[p] \in Workers
  /\ DOMAIN indices' = Models /\ faults' \in 0..MaxFaults
  /\ UNCHANGED <<task, step, locations, store, file, handlers, reply, outcome>>

\* Getting a Worker, or looking for one.
LEMMA StartStep ==
  ASSUME Inv, NEW p \in Procs, NEW next \in {"ask", "localize"}, Starts(p, next)
  PROVE  Inv'
<1>0. /\ UNCHANGED <<task, step, locations, store, file, handlers, reply, outcome>>
      /\ phase[p] \in {"idle", "ask"} /\ TypeOK
      /\ next \notin Ended \cup {"sent"}
  BY DEF Starts, Inv
<1>1. /\ p \in Taking /\ Final \in Procs /\ Final \notin Branches(task)
      /\ Branches(task) \subseteq Procs
  BY <1>0, ActiveFacts
<1>2. TypeOK'
  <2>1. /\ phase' \in [Procs -> {"idle", "ask", "localize", "sent"} \cup Ended]
        /\ ready' \in [Procs -> Nat]
    BY <1>0, MovedFacts DEF Starts
  <2> QED
    BY <1>0, <2>1 DEF Starts, TypeOK
<1>3. ASSUME NEW q \in Procs
      PROVE  /\ Held(q)' = Held(q) /\ Output(q)' = Output(q)
             /\ phase'[q] = IF q = p THEN next ELSE phase[q]
             /\ ready'[q] = IF q = p THEN 0 ELSE ready[q]
             /\ q # p => target'[q] = target[q]
  <2>1. Held(q)' = Held(q) /\ Output(q)' = Output(q)
    BY <1>0 DEF Held, Output
  <2>2. /\ phase'[p] = next /\ ready'[p] = 0
        /\ q # p => phase'[q] = phase[q] /\ ready'[q] = ready[q]
    BY <1>0, MovedFacts DEF Starts
  <2> QED
    BY <2>1, <2>2 DEF Starts
<1>4. Underway'
  <2>1. ASSUME NEW q \in Procs
        PROVE  /\ q \notin Taking => phase'[q] = "done"
               /\ \A s \in 1..step[q] : <<q, s>> \in DOMAIN locations
               /\ phase'[q] \notin Ended => step[q] < Len(Chain(task, q))
               /\ q # Final /\ q \in Taking /\ phase'[q] = "done" => step[q] = Len(Chain(task, q))
               /\ phase'[q] \in {"localize", "sent"} => target'[q] \in Workers
               /\ phase'[q] \in {"ask", "localize", "sent"} =>
                    Held(q) \in Seq(DOMAIN locations) /\ ready'[q] <= Len(Held(q))
               /\ phase'[q] = "ask" => ready'[q] = 0
    <3>1. CASE q = p
      <4>1. Len(Held(p)) \in Nat
        BY Elements DEF Starts
      <4>2. step[p] < Len(Chain(task, p)) /\ \A s \in 1..step[p] : <<p, s>> \in DOMAIN locations
        BY <1>0 DEF Inv, Underway
      <4>3. phase'[p] = next /\ ready'[p] = 0
        BY <1>3
      <4>4. phase'[p] \notin Ended /\ 0 <= Len(Held(p))
        BY <4>1, <4>3
      <4> QED
        BY <1>1, <3>1, <4>2, <4>3, <4>4 DEF Starts
    <3>2. CASE q # p
      BY <1>3, <3>2 DEF Inv, Underway
    <3> QED
      BY <3>1, <3>2
  <2>2. Taking' = Taking /\ InputIds(task) \subseteq DOMAIN locations
    BY <1>0 DEF Taking, Inv, Underway
  <2> QED
    BY <1>0, <1>3, <2>1, <2>2 DEF Underway
<1>5. Served'
  <2>1. \A h \in handlers : h.proc \in Procs /\ h.proc # p
    BY <1>0 DEF Inv, TypeOK, Served
  <2>2. ASSUME NEW q \in Procs
        PROVE  /\ reply[q] # "none" => phase'[q] \in {"sent", "failed", "cancelled"}
               /\ phase'[q] = "sent" /\ reply[q] = "ok" => Output(q)' \in store[target'[q]]
    <3>1. CASE q = p
      BY <1>0, <1>3, <3>1 DEF Inv, Served
    <3>2. CASE q # p
      BY <1>3, <3>2 DEF Inv, Served
    <3> QED
      BY <3>1, <3>2
  <2>3. ASSUME NEW h \in handlers
        PROVE  phase'[h.proc] = phase[h.proc] /\ target'[h.proc] = target[h.proc]
    BY <1>3, <2>1
  <2>4. \A h \in handlers :
          /\ phase[h.proc] \in {"sent", "failed", "cancelled"}
          /\ phase[h.proc] = "sent" =>
               h.step = step[h.proc] + 1 /\ h.worker = target[h.proc] /\ reply[h.proc] = "none"
    BY DEF Inv, Served
  <2>5. \A g, h \in handlers : g.proc = h.proc => g = h
    BY DEF Inv, Served
  <2> QED
    BY <1>0, <2>2, <2>3, <2>4, <2>5 DEF Served
<1>6. InputsPresent'
  BY <1>0 DEF Inv, InputsPresent
<1>7. Supplied'
  <2>1. ASSUME NEW q \in Procs, phase'[q] = "localize"
        PROVE  \A i \in 1..ready'[q] : Held(q)[i] \in store[target'[q]]
    <3>1. CASE q = p
      <4>1. ready'[q] = 0
        BY <1>3, <3>1
      <4> QED
        BY <4>1
    <3>2. CASE q # p
      BY <1>3, <2>1, <3>2 DEF Inv, Supplied
    <3> QED
      BY <3>1, <3>2
  <2> QED
    BY <1>0, <1>3, <2>1 DEF Inv, Supplied
<1>8. Concluded'
  BY <1>0, <1>1, <1>3 DEF Inv, Concluded, Taking, Starts
<1> QED
  BY <1>2, <1>4, <1>5, <1>6, <1>7, <1>8 DEF Inv
-----------------------------------------------------------------------------
\* What the invariant says of one process, of the handlers, of the locations.
Sound(p) ==
  /\ p \notin Taking => phase[p] = "done"
  /\ \A s \in 1..step[p] : <<p, s>> \in DOMAIN locations
  /\ phase[p] \notin Ended => step[p] < Len(Chain(task, p))
  /\ p # Final /\ p \in Taking /\ phase[p] = "done" => step[p] = Len(Chain(task, p))
  /\ phase[p] \in {"localize", "sent"} => target[p] \in Workers
  /\ phase[p] \in {"ask", "localize", "sent"} =>
       Held(p) \in Seq(DOMAIN locations) /\ ready[p] <= Len(Held(p))
  /\ phase[p] = "ask" => ready[p] = 0
  /\ reply[p] # "none" => phase[p] \in {"sent", "failed", "cancelled"}
  /\ phase[p] = "sent" /\ reply[p] = "ok" => Output(p) \in store[target[p]]
  /\ phase[p] = "localize" => \A i \in 1..ready[p] : Held(p)[i] \in store[target[p]]

Matched ==
  /\ \A h \in handlers :
       /\ phase[h.proc] \in {"sent", "failed", "cancelled"}
       /\ phase[h.proc] = "sent" =>
            h.step = step[h.proc] + 1 /\ h.worker = target[h.proc] /\ reply[h.proc] = "none"
  /\ \A g, h \in handlers : g.proc = h.proc => g = h

Located ==
  /\ InputIds(task) \subseteq DOMAIN locations
  /\ \A a \in DOMAIN locations : \A i \in DOMAIN locations[a] : a \in store[locations[a][i]]

LEMMA Parts ==
  Inv <=> /\ TypeOK /\ Matched /\ Located /\ InputsPresent /\ Concluded
          /\ \A p \in Procs : Sound(p)
BY DEF Inv, Underway, Served, Supplied, Sound, Matched, Located

LEMMA Assembled ==
  ASSUME TypeOK', Matched', Located', InputsPresent', Concluded',
         \A p \in Procs : Sound(p)'
  PROVE  Inv'
BY DEF Inv, Underway, Served, Supplied, Sound, Matched, Located

\* A step of process p, or of a handler of its, disturbs no other process:
\* places and stores only grow.
Aside(p) ==
  /\ UNCHANGED task
  /\ \A q \in Procs \ {p} : /\ phase'[q] = phase[q] /\ ready'[q] = ready[q]
                            /\ target'[q] = target[q] /\ reply'[q] = reply[q]
                            /\ step'[q] = step[q]
  /\ DOMAIN locations \subseteq DOMAIN locations'
  /\ \A w \in Workers : store[w] \subseteq store'[w]

LEMMA OthersStay ==
  ASSUME Inv, NEW p \in Procs, Aside(p), NEW q \in Procs \ {p}
  PROVE  Sound(q)'
<1>1. Sound(q)
  BY Parts
<1>2. /\ phase'[q] = phase[q] /\ ready'[q] = ready[q] /\ target'[q] = target[q]
      /\ reply'[q] = reply[q] /\ step'[q] = step[q] /\ task' = task
  BY DEF Aside
<1>3. Held(q)' = Held(q) /\ Output(q)' = Output(q) /\ Taking' = Taking
  BY <1>2 DEF Held, Output, Taking
<1>4. ASSUME Held(q) \in Seq(DOMAIN locations)
      PROVE  Held(q) \in Seq(DOMAIN locations')
  <2>1. DOMAIN locations \subseteq DOMAIN locations'
    BY DEF Aside
  <2> QED
    BY <1>4, <2>1
<1>5. \A s \in 1..step[q] : <<q, s>> \in DOMAIN locations'
  BY <1>1 DEF Sound, Aside
<1>6. phase[q] = "sent" /\ reply[q] = "ok" => Output(q) \in store'[target[q]]
  BY <1>1 DEF Sound, Aside
<1>7. phase[q] = "localize" => \A i \in 1..ready[q] : Held(q)[i] \in store'[target[q]]
  BY <1>1 DEF Sound, Aside
<1> QED
  BY <1>1, <1>2, <1>3, <1>4, <1>5, <1>6, <1>7 DEF Sound

\* InputsPresent stays true of a handler as the stores grow.
LEMMA StillPresent ==
  ASSUME Inv, NEW p \in Procs, Aside(p), NEW h \in handlers
  PROVE  ToSet(Reads(task, h.proc, h.step))' \subseteq store'[h.worker]
<1>1. h.worker \in Workers
  BY DEF Inv, TypeOK
<1> QED
  BY <1>1 DEF Inv, InputsPresent, Aside

\* The final call stays behind the branches when a process that is under way
\* goes on.
LEMMA StillConcluded ==
  ASSUME Inv, NEW p \in Procs, Aside(p), phase[p] \notin Ended, outcome' = outcome,
         p = Final /\ phase[p] = "idle" => phase'[p] \in {"idle", "failed", "cancelled"}
  PROVE  Concluded'
<1>1. /\ p \in Taking /\ Final \in Procs /\ Final \notin Branches(task)
      /\ Branches(task) \subseteq Procs /\ phase[p] \in {"idle", "ask", "localize", "sent"}
  BY ActiveFacts DEF Inv, TypeOK
<1>2. outcome' # "answered"
  BY <1>1 DEF Inv, Concluded, Taking
<1>3. CASE p = Final
  <2>1. \A b \in Branches(task) : phase'[b] = phase[b]
    BY <1>1, <1>3 DEF Aside
  <2> QED
    BY <1>1, <1>2, <1>3, <2>1 DEF Inv, Concluded, Aside
<1>4. CASE p # Final
  <2>1. phase[Final] \notin {"ask", "localize", "sent", "done"}
    BY <1>1, <1>4 DEF Inv, Concluded, Taking
  <2>2. phase'[Final] = phase[Final]
    BY <1>1, <1>4 DEF Aside
  <2> QED
    BY <1>2, <2>1, <2>2 DEF Concluded
<1> QED
  BY <1>3, <1>4
-----------------------------------------------------------------------------
\* One more input is dealt with: it is in the store of the target.
LEMMA InputDealtWith ==
  ASSUME Inv, NEW p \in Procs, Localizing(p), Aside(p),
         phase' = phase, target' = target, reply' = reply, step' = step, task' = task,
         ready'[p] = ready[p] + 1, NextInput(p) \in store'[target[p]]
  PROVE  Sound(p)'
<1>1. Sound(p) /\ phase[p] = "localize" /\ target[p] \in Workers /\ ready[p] \in Nat
  BY Parts DEF Localizing, Sound, Inv, TypeOK
<1>2. Held(p) \in Seq(DOMAIN locations) /\ Len(Held(p)) \in Nat /\ ready[p] < Len(Held(p))
  BY <1>1, Elements DEF Sound, Localizing
<1>3. Held(p)' = Held(p) /\ Taking' = Taking
  BY DEF Held, Taking
<1>4. Held(p) \in Seq(DOMAIN locations')
  BY <1>2 DEF Aside
<1>5. \A i \in 1..(ready[p] + 1) : Held(p)[i] \in store'[target[p]]
  BY <1>1 DEF Sound, Aside, NextInput
<1>6. \A s \in 1..step[p] : <<p, s>> \in DOMAIN locations'
  BY <1>1 DEF Sound, Aside
<1> QED
  BY <1>1, <1>2, <1>3, <1>4, <1>5, <1>6 DEF Sound

LEMMA NextInputKnown ==
  ASSUME Inv, NEW p \in Procs, Localizing(p)
  PROVE  /\ NextInput(p) \in DOMAIN locations /\ target[p] \in Workers /\ ready[p] \in Nat
         /\ locations[NextInput(p)] \in Seq(Workers) /\ phase[p] \notin Ended
<1>1. phase[p] = "localize" /\ ready[p] \in Nat /\ ready[p] < Len(Held(p))
  BY DEF Localizing, Inv, TypeOK
<1>2. Held(p) \in Seq(DOMAIN locations) /\ target[p] \in Workers
  BY <1>1 DEF Inv, Underway
<1>3. NextInput(p) \in DOMAIN locations
  BY <1>1, <1>2 DEF NextInput
<1> QED
  BY <1>1, <1>2, <1>3 DEF Inv, TypeOK

LEMMA SkipStep ==
  ASSUME Inv, NEW p \in Procs, SkipLocal(p)
  PROVE  Inv'
<1> USE DEF dataVars
<1>1. /\ Localizing(p) /\ NextInput(p) \in DOMAIN locations /\ phase[p] \notin Ended
      /\ locations[NextInput(p)] \in Seq(Workers)
  BY NextInputKnown DEF SkipLocal
<1>2. NextInput(p) \in store[target[p]]
  <2>1. PICK i \in DOMAIN locations[NextInput(p)] : locations[NextInput(p)][i] = target[p]
    BY <1>1, Elements DEF SkipLocal
  <2> QED
    BY <1>1, <2>1 DEF Inv, Supplied
<1>3. TypeOK'
  <2>1. ready \in [Procs -> Nat] /\ ready' = [ready EXCEPT ![p] = ready[p] + 1]
    BY DEF SkipLocal, Inv, TypeOK
  <2>2. ready' \in [Procs -> Nat]
    BY <2>1
  <2> QED
    BY <2>2 DEF SkipLocal, Inv, TypeOK
<1>4. Aside(p)
  BY DEF SkipLocal, Aside, Inv, TypeOK
<1>5. Sound(p)'
  <2>1. ready'[p] = ready[p] + 1
    BY DEF SkipLocal, Inv, TypeOK
  <2> QED
    BY <1>1, <1>2, <1>4, <2>1, InputDealtWith DEF SkipLocal
<1>6. Matched' /\ Located'
  BY Parts DEF SkipLocal, Matched, Located
<1>7. InputsPresent'
  BY DEF SkipLocal, Inv, InputsPresent
<1>8. Concluded'
  BY DEF SkipLocal, Inv, Concluded
<1>9. \A q \in Procs : Sound(q)'
  BY <1>4, <1>5, OthersStay
<1> QED
  BY <1>3, <1>6, <1>7, <1>8, <1>9, Assembled

LEMMA PullStep ==
  ASSUME Inv, NEW p \in Procs, Pull(p)
  PROVE  Inv'
<1> DEFINE a == NextInput(p)
<1>1. /\ Localizing(p) /\ a \in DOMAIN locations /\ phase[p] \notin Ended
      /\ locations[a] \in Seq(Workers) /\ target[p] \in Workers
  BY NextInputKnown DEF Pull
<1>2. /\ store' = [store EXCEPT ![target[p]] = @ \cup {a}]
      /\ locations' = [locations EXCEPT ![a] = Append(@, target[p])]
      /\ ready' = [ready EXCEPT ![p] = @ + 1]
      /\ UNCHANGED <<task, indices, step, phase, target, file, handlers, reply, outcome, faults>>
  BY DEF Pull
<1> HIDE DEF a
<1>3. /\ store \in [Workers -> SUBSET DOMAIN file] /\ DOMAIN locations \subseteq DOMAIN file
      /\ locations \in [DOMAIN locations -> Seq(Workers)] /\ ready \in [Procs -> Nat]
  BY DEF Inv, TypeOK
<1>4. /\ ready' \in [Procs -> Nat] /\ ready'[p] = ready[p] + 1
      /\ \A q \in Procs \ {p} : ready'[q] = ready[q]
  BY <1>2, <1>3
<1>5. /\ store' \in [Workers -> SUBSET DOMAIN file] /\ a \in store'[target[p]]
      /\ \A w \in Workers : store[w] \subseteq store'[w]
  BY <1>1, <1>2, <1>3
<1>6. /\ DOMAIN locations' = DOMAIN locations
      /\ locations'[a] = Append(locations[a], target[p])
      /\ \A b \in DOMAIN locations \ {a} : locations'[b] = locations[b]
  BY <1>1, <1>2, <1>3
<1>7. locations' \in [DOMAIN locations' -> Seq(Workers)]
  <2>1. Append(locations[a], target[p]) \in Seq(Workers)
    BY <1>1
  <2> QED
    BY <1>1, <1>2, <1>3, <2>1
<1>8. TypeOK'
  BY <1>2, <1>4, <1>5, <1>6, <1>7 DEF Inv, TypeOK
<1>9. Aside(p)
  BY <1>2, <1>4, <1>5, <1>6 DEF Aside
<1>10. Sound(p)'
  BY <1>1, <1>2, <1>4, <1>5, <1>9, InputDealtWith DEF a
<1>11. Matched'
  BY <1>2, Parts DEF Matched
<1>12. Located'
  <2>1. ASSUME NEW b \in DOMAIN locations, NEW i \in DOMAIN locations'[b]
        PROVE  b \in store'[locations'[b][i]]
    <3>1. CASE b # a
      <4>1. locations[b] \in Seq(Workers) /\ locations'[b] = locations[b]
        BY <1>3, <1>6, <3>1
      <4>2. locations[b][i] \in Workers /\ b \in store[locations[b][i]]
        BY <2>1, <4>1, Parts DEF Located
      <4> QED
        BY <1>5, <4>1, <4>2
    <3>2. CASE b = a /\ i \in DOMAIN locations[a]
      <4>1. locations'[a][i] = locations[a][i] /\ locations[a][i] \in Workers
        BY <1>1, <1>6, <3>2
      <4>2. a \in store[locations[a][i]]
        BY <1>1, <3>2, Parts DEF Located
      <4> QED
        BY <1>5, <3>2, <4>1, <4>2
    <3>3. CASE b = a /\ i \notin DOMAIN locations[a]
      <4>1. locations'[a][i] = target[p]
        BY <1>1, <1>6, <2>1, <3>3
      <4> QED
        BY <1>5, <3>3, <4>1
    <3> QED
      BY <3>1, <3>2, <3>3
  <2> QED
    BY <1>2, <1>6, <2>1, Parts DEF Located
<1>13. InputsPresent'
  BY <1>2, <1>9, StillPresent DEF InputsPresent
<1>14. Concluded'
  BY <1>2 DEF Inv, Concluded
<1>15. \A q \in Procs : Sound(q)'
  BY <1>9, <1>10, OthersStay
<1> QED
  BY <1>8, <1>11, <1>12, <1>13, <1>14, <1>15, Assembled

\* The request goes out when every input has been dealt with.
LEMMA SendStep ==
  ASSUME Inv, NEW p \in Procs, Send(p)
  PROVE  Inv'
<1> DEFINE new == [proc |-> p, step |-> step[p] + 1, worker |-> target[p]]
<1>1. /\ phase[p] = "localize" /\ ready[p] = Len(Held(p))
      /\ handlers' = handlers \cup {new} /\ phase' = [phase EXCEPT ![p] = "sent"]
      /\ UNCHANGED <<task, indices, step, target, ready, locations, store, file, reply,
                     outcome, faults>>
  BY DEF Send, dataVars
<1>2. /\ Sound(p) /\ target[p] \in Workers /\ step[p] \in Nat /\ reply[p] = "none"
      /\ Held(p) \in Seq(DOMAIN locations)
  BY <1>1, Parts DEF Sound, Inv, TypeOK
<1>3. new \in [proc : Procs, step : Nat, worker : Workers]
  BY <1>2
<1>4. /\ phase' \in [Procs -> {"idle", "ask", "localize", "sent"} \cup Ended]
      /\ phase'[p] = "sent" /\ \A q \in Procs \ {p} : phase'[q] = phase[q]
  BY <1>1 DEF Inv, TypeOK
<1>5. \A h \in handlers : h.proc \in Procs \ {p}
  BY <1>1, Parts DEF Matched, Inv, TypeOK
<1>6. TypeOK'
  <2>1. handlers' \subseteq [proc : Procs, step : Nat, worker : Workers]
    BY <1>1, <1>3 DEF Inv, TypeOK
  <2> QED
    BY <1>1, <1>4, <2>1 DEF Inv, TypeOK
<1>7. Aside(p)
  BY <1>1, <1>4 DEF Aside
<1>8. Sound(p)'
  <2>1. Held(p)' = Held(p) /\ Output(p)' = Output(p) /\ Taking' = Taking
    BY <1>1 DEF Held, Output, Taking
  <2> QED
    BY <1>1, <1>2, <1>4, <2>1 DEF Sound
<1>9. InputsPresent'
  <2>1. ToSet(Held(p)) \subseteq store[target[p]]
    <3>1. ToSet(Held(p)) = {Held(p)[i] : i \in 1..Len(Held(p))}
      BY <1>2, Elements
    <3> QED
      BY <1>1, <1>2, <3>1 DEF Sound
  <2>2. ToSet(Reads(task, new.proc, new.step)) \subseteq store[new.worker]
    BY <2>1 DEF Held
  <2> QED
    BY <1>1, <2>2 DEF Inv, InputsPresent
<1>10. Matched'
  <2>1. new.proc = p /\ new.step = step[p] + 1 /\ new.worker = target[p]
    OBVIOUS
  <2> HIDE DEF new
  <2> QED
    BY <1>1, <1>2, <1>4, <1>5, <2>1, Parts DEF Matched
<1>11. Located'
  BY <1>1, Parts DEF Located
<1>12. Concluded'
  BY <1>1, <1>7, StillConcluded
<1>13. \A q \in Procs : Sound(q)'
  BY <1>7, <1>8, OthersStay
<1> QED
  BY <1>6, <1>9, <1>10, <1>11, <1>12, <1>13, Assembled

\* The end of a handler: its output, if there is one, is stored before the
\* caller hears of it.
LEMMA AnswerStep ==
  ASSUME Inv, NEW h \in handlers, NEW made, Answer(h, made),
         UNCHANGED <<task, indices, step, phase, target, ready, locations, outcome>>,
         faults' \in 0..MaxFaults
  PROVE  Inv'
<1> DEFINE p == h.proc
           output == <<h.proc, h.step>>
<1>1. p \in Procs /\ h.worker \in Workers /\ Sound(p)
  BY Parts DEF Inv, TypeOK
<1>2. /\ store \in [Workers -> SUBSET DOMAIN file] /\ reply \in [Procs -> {"none", "ok", "error"}]
      /\ DOMAIN locations \subseteq DOMAIN file
  BY DEF Inv, TypeOK
<1>3. /\ handlers' = handlers \ {h}
      /\ file' = IF made.ok THEN With(file, output, made) ELSE file
      /\ store' = IF made.ok THEN [store EXCEPT ![h.worker] = @ \cup {output}] ELSE store
      /\ reply' = IF phase[p] = "sent"
                  THEN [reply EXCEPT ![p] = IF made.ok THEN "ok" ELSE "error"] ELSE reply
  BY DEF Answer, Leaves
<1>4. phase[p] = "sent" => h.step = step[p] + 1 /\ h.worker = target[p]
  BY Parts DEF Matched
<1>5. phase[p] = "sent" => output = Output(p)
  BY <1>4 DEF Output
<1> HIDE DEF p, output
<1>6. DOMAIN file \subseteq DOMAIN file' /\ (made.ok => output \in DOMAIN file')
  BY <1>3 DEF With
<1>7. /\ store' \in [Workers -> SUBSET DOMAIN file']
      /\ \A w \in Workers : store[w] \subseteq store'[w]
      /\ made.ok => output \in store'[h.worker]
  <2>1. CASE made.ok
    <3>1. store' = [store EXCEPT ![h.worker] = store[h.worker] \cup {output}]
      BY <1>3, <2>1
    <3> QED
      BY <1>1, <1>2, <1>6, <2>1, <3>1
  <2>2. CASE ~made.ok
    BY <1>2, <1>3, <1>6, <2>2
  <2> QED
    BY <2>1, <2>2
<1>8. /\ reply' \in [Procs -> {"none", "ok", "error"}]
      /\ \A q \in Procs \ {p} : reply'[q] = reply[q]
      /\ phase[p] # "sent" => reply' = reply
      /\ reply'[p] = "ok" /\ phase[p] = "sent" => made.ok
  BY <1>1, <1>2, <1>3
<1>9. TypeOK'
  BY <1>2, <1>3, <1>6, <1>7, <1>8 DEF Inv, TypeOK
<1>10. Aside(p)
  BY <1>7, <1>8 DEF Aside
<1>11. Sound(p)'
  <2>1. Held(p)' = Held(p) /\ Output(p)' = Output(p) /\ Taking' = Taking
    BY DEF Held, Output, Taking
  <2>2. phase[p] \in {"sent", "failed", "cancelled"}
    BY Parts DEF Matched, p
  <2>3. CASE phase[p] = "sent"
    <3>1. reply'[p] = "ok" => Output(p) \in store'[target[p]]
      BY <1>4, <1>5, <1>7, <1>8, <2>3
    <3> QED
      BY <1>1, <2>1, <2>3, <3>1 DEF Sound
  <2>4. CASE phase[p] # "sent"
    BY <1>1, <1>8, <2>1, <2>2, <2>4 DEF Sound
  <2> QED
    BY <2>3, <2>4
<1>12. Matched'
  <2>1. ASSUME NEW g \in handlers'
        PROVE  g \in handlers /\ g.proc \in Procs \ {p}
    BY <1>3, <2>1, Parts DEF Matched, Inv, TypeOK, p
  <2>2. ASSUME NEW g \in handlers'
        PROVE  reply'[g.proc] = reply[g.proc]
    BY <1>8, <2>1
  <2> QED
    BY <2>1, <2>2, Parts DEF Matched
<1>13. Located'
  <2>1. ASSUME NEW a \in DOMAIN locations, NEW i \in DOMAIN locations[a]
        PROVE  a \in store'[locations[a][i]]
    <3>1. locations[a] \in Seq(Workers)
      BY DEF Inv, TypeOK
    <3>2. locations[a][i] \in Workers /\ a \in store[locations[a][i]]
      BY <3>1, Parts DEF Located
    <3> QED
      BY <1>7, <3>2
  <2> QED
    BY <2>1, Parts DEF Located
<1>14. InputsPresent'
  BY <1>1, <1>3, <1>10, StillPresent DEF InputsPresent
<1>15. Concluded'
  BY DEF Inv, Concluded
<1>16. \A q \in Procs : Sound(q)'
  BY <1>10, <1>11, OthersStay, <1>1
<1> QED
  BY <1>9, <1>12, <1>13, <1>14, <1>15, <1>16, Assembled

\* The caller learns where the output is: at its target, which has stored it.
LEMMA ReceiveStep ==
  ASSUME Inv, NEW p \in Procs, Receive(p)
  PROVE  Inv'
<1> DEFINE next == IF step[p] + 1 = Len(Chain(task, p)) THEN "done" ELSE "idle"
           out == Output(p)
<1>1. /\ phase[p] = "sent" /\ reply[p] = "ok"
      /\ locations' = With(locations, out, <<target[p]>>)
      /\ step' = [step EXCEPT ![p] = step[p] + 1]
      /\ reply' = [reply EXCEPT ![p] = "none"]
      /\ phase' = [phase EXCEPT ![p] = next]
      /\ UNCHANGED <<task, indices, target, ready, store, file, handlers, outcome, faults>>
  BY DEF Receive
<1>2. /\ Sound(p) /\ target[p] \in Workers /\ out \in store[target[p]] /\ phase[p] \notin Ended
      /\ step[p] \in Nat /\ Len(Chain(task, p)) \in Nat /\ step[p] < Len(Chain(task, p))
  BY <1>1, Parts, ActiveFacts DEF Sound
<1>3. next \in {"done", "idle"}
  OBVIOUS
<1>4. out = <<p, step[p] + 1>>
  BY DEF Output
<1>5. next = "idle" => step[p] + 1 < Len(Chain(task, p))
  BY <1>2
<1>6. next = "done" => step[p] + 1 = Len(Chain(task, p))
  OBVIOUS
<1> HIDE DEF next, out
<1>7. /\ step \in [Procs -> Nat] /\ reply \in [Procs -> {"none", "ok", "error"}]
      /\ phase \in [Procs -> {"idle", "ask", "localize", "sent"} \cup Ended]
      /\ locations \in [DOMAIN locations -> Seq(Workers)] /\ DOMAIN locations \subseteq DOMAIN file
      /\ store \in [Workers -> SUBSET DOMAIN file]
  BY DEF Inv, TypeOK
<1>8. /\ step' \in [Procs -> Nat] /\ step'[p] = step[p] + 1
      /\ \A q \in Procs \ {p} : step'[q] = step[q]
  BY <1>1, <1>2, <1>7
<1>9. /\ reply' \in [Procs -> {"none", "ok", "error"}] /\ reply'[p] = "none"
      /\ \A q \in Procs \ {p} : reply'[q] = reply[q]
  BY <1>1, <1>7
<1>10. /\ phase' \in [Procs -> {"idle", "ask", "localize", "sent"} \cup Ended] /\ phase'[p] = next
       /\ \A q \in Procs \ {p} : phase'[q] = phase[q]
  BY <1>1, <1>3, <1>7
<1>11. /\ DOMAIN locations' = DOMAIN locations \cup {out} /\ locations'[out] = <<target[p]>>
       /\ \A a \in DOMAIN locations \ {out} : locations'[a] = locations[a]
       /\ locations' = [a \in DOMAIN locations' |-> locations'[a]]
  BY <1>1 DEF With
<1>12. TypeOK'
  <2>1. <<target[p]>> \in Seq(Workers)
    BY <1>2
  <2>2. locations' \in [DOMAIN locations' -> Seq(Workers)]
    BY <1>7, <1>11, <2>1
  <2>3. DOMAIN locations' \subseteq DOMAIN file
    BY <1>2, <1>7, <1>11
  <2> QED
    BY <1>1, <1>8, <1>9, <1>10, <2>2, <2>3 DEF Inv, TypeOK
<1>13. Aside(p)
  BY <1>1, <1>8, <1>9, <1>10, <1>11 DEF Aside
<1>14. Sound(p)'
  <2>1. Taking' = Taking /\ p \in Taking
    BY <1>1, <1>2, ActiveFacts DEF Taking
  <2>2. \A s \in 1..(step[p] + 1) : <<p, s>> \in DOMAIN locations'
    BY <1>2, <1>4, <1>11 DEF Sound
  <2>3. task' = task
    BY <1>1
  <2> QED
    BY <1>3, <1>5, <1>6, <1>8, <1>9, <1>10, <2>1, <2>2, <2>3 DEF Sound
<1>15. Matched'
  <2>1. \A h \in handlers : h.proc \in Procs \ {p}
    BY <1>1, Parts DEF Matched, Inv, TypeOK
  <2> QED
    BY <1>1, <1>8, <1>9, <1>10, <2>1, Parts DEF Matched
<1>16. Located'
  <2>1. ASSUME NEW a \in DOMAIN locations', NEW i \in DOMAIN locations'[a]
        PROVE  a \in store[locations'[a][i]]
    <3>1. CASE a = out
      BY <1>2, <1>11, <2>1, <3>1
    <3>2. CASE a # out
      BY <1>11, <2>1, <3>2, Parts DEF Located
    <3> QED
      BY <3>1, <3>2
  <2> QED
    BY <1>1, <1>11, <2>1, Parts DEF Located
<1>17. InputsPresent'
  BY <1>1, <1>13, StillPresent DEF InputsPresent
<1>18. Concluded'
  BY <1>1, <1>2, <1>13, StillConcluded
<1>19. \A q \in Procs : Sound(q)'
  BY <1>13, <1>14, OthersStay
<1> QED
  BY <1>12, <1>15, <1>16, <1>17, <1>18, <1>19, Assembled

\* A process that is cancelled keeps nothing but its handler.
LEMMA CancelStep ==
  ASSUME Inv, NEW p \in Procs, Cancel(p)
  PROVE  Inv'
<1>1. /\ phase[p] \notin Ended /\ phase' = [phase EXCEPT ![p] = "cancelled"]
      /\ UNCHANGED <<task, indices, step, target, ready, locations, store, file, reply,
                     handlers, outcome, faults>>
  BY DEF Cancel, dataVars
<1>2. /\ phase' \in [Procs -> {"idle", "ask", "localize", "sent"} \cup Ended]
      /\ phase'[p] = "cancelled" /\ \A q \in Procs \ {p} : phase'[q] = phase[q]
  BY <1>1 DEF Inv, TypeOK
<1>3. TypeOK'
  BY <1>1, <1>2 DEF Inv, TypeOK
<1>4. Aside(p)
  BY <1>1, <1>2 DEF Aside
<1>5. Sound(p)'
  <2>1. Taking' = Taking /\ p \in Taking /\ Sound(p)
    BY <1>1, ActiveFacts, Parts DEF Taking
  <2> QED
    BY <1>1, <1>2, <2>1 DEF Sound
<1>6. Matched'
  <2>1. \A h \in handlers : h.proc \in Procs
    BY DEF Inv, TypeOK
  <2> QED
    BY <1>1, <1>2, <2>1, Parts DEF Matched
<1>7. Located'
  BY <1>1, Parts DEF Located
<1>8. InputsPresent'
  BY <1>1 DEF Inv, InputsPresent
<1>9. Concluded'
  BY <1>1, <1>2, <1>4, StillConcluded
<1>10. \A q \in Procs : Sound(q)'
  BY <1>4, <1>5, OthersStay
<1> QED
  BY <1>3, <1>6, <1>7, <1>8, <1>9, <1>10, Assembled

\* A Planner that gives up fails its final call, which has not begun.
LEMMA GiveUpStep ==
  ASSUME Inv, GiveUp
  PROVE  Inv'
<1>1. /\ phase' = [phase EXCEPT ![Final] = "failed"] /\ outcome' = "failed"
      /\ UNCHANGED <<task, indices, step, target, ready, locations, store, file, reply,
                     handlers, faults>>
  BY DEF GiveUp, dataVars
<1>2. Final \in Procs /\ Final \in Taking
  BY Shape DEF Inv, TypeOK, Taking
<1>3. /\ phase' \in [Procs -> {"idle", "ask", "localize", "sent"} \cup Ended]
      /\ phase'[Final] = "failed" /\ \A q \in Procs \ {Final} : phase'[q] = phase[q]
  BY <1>1, <1>2 DEF Inv, TypeOK
<1>4. TypeOK'
  BY <1>1, <1>3 DEF Inv, TypeOK
<1>5. Aside(Final)
  BY <1>1, <1>3 DEF Aside
<1>6. Sound(Final)'
  <2>1. Taking' = Taking /\ Sound(Final)
    BY <1>1, <1>2, Parts DEF Taking
  <2> QED
    BY <1>1, <1>2, <1>3, <2>1 DEF Sound
<1>7. Matched'
  <2>1. \A h \in handlers : h.proc \in Procs
    BY DEF Inv, TypeOK
  <2> QED
    BY <1>1, <1>3, <2>1, Parts DEF Matched
<1>8. Located'
  BY <1>1, Parts DEF Located
<1>9. InputsPresent'
  BY <1>1 DEF Inv, InputsPresent
<1>10. Concluded'
  BY <1>1, <1>3 DEF Concluded
<1>11. \A q \in Procs : Sound(q)'
  BY <1>2, <1>5, <1>6, OthersStay
<1> QED
  BY <1>4, <1>7, <1>8, <1>9, <1>10, <1>11, Assembled

\* The caller fetches the answer of a final call that is done.
LEMMA FetchStep ==
  ASSUME Inv, FetchAnswer
  PROVE  Inv'
<1>1. /\ phase[Final] = "done" /\ outcome' \in {"answered", "failed"}
      /\ faults' \in 0..MaxFaults
      /\ UNCHANGED <<task, indices, step, phase, target, ready, locations, store, file, reply,
                     handlers>>
  <2>1. MaxFaults \in Nat /\ faults \in 0..MaxFaults
    BY WorkflowAssumption DEF Inv, TypeOK
  <2> QED
    BY <2>1 DEF FetchAnswer, Fault, dataVars, callVars
<1>2. TypeOK'
  BY <1>1 DEF Inv, TypeOK
<1>3. /\ Matched' /\ Located'
      /\ \A q \in Procs : Sound(q)'
  BY <1>1, Parts DEF Matched, Located, Sound, Held, Output, Taking
<1>4. InputsPresent' /\ Concluded'
  BY <1>1 DEF Inv, InputsPresent, Concluded
<1> QED
  BY <1>2, <1>3, <1>4, Assembled
-----------------------------------------------------------------------------
\* One more fault stays within the bound.
LEMMA FaultType ==
  ASSUME TypeOK, NEW n \in Nat, Fault(n)
  PROVE  faults' \in 0..MaxFaults
<1>1. MaxFaults \in Nat
  BY WorkflowAssumption
<1>2. faults \in 0..MaxFaults /\ faults + n <= MaxFaults /\ faults' = faults + n
  BY DEF TypeOK, Fault
<1> QED
  BY <1>1, <1>2

\* A model call gets the Worker of the executor that was selected.
LEMMA InvokeStep ==
  ASSUME Inv, NEW p \in Procs, Invoke(p)
  PROVE  Inv'
<1>1. PICK executor \in SelectedFor(p) : target' = [target EXCEPT ![p] = executor.worker]
  BY DEF Invoke
<1>2. executor.worker \in Workers
  BY SelectionAssumption DEF SelectedFor, Selected
<1>3. Held(p) \in Seq(DOMAIN locations)
  BY NextReads DEF Invoke
<1>4. DOMAIN indices' = Models
  BY DEF Invoke, RotatedIndices, Inv, TypeOK
<1>5. /\ target \in [Procs -> Workers \cup {""}] /\ faults \in 0..MaxFaults
  BY DEF Inv, TypeOK
<1>6. /\ target' \in [Procs -> Workers \cup {""}] /\ target'[p] \in Workers
      /\ \A q \in Procs \ {p} : target'[q] = target[q]
  BY <1>1, <1>2, <1>5
<1>7. Starts(p, "localize")
  BY <1>3, <1>4, <1>5, <1>6 DEF Invoke, Starts, MayStart, Moves, dataVars
<1> QED
  BY <1>7, StartStep

\* An operator call goes to the Worker its workflow names, or looks for one.
LEMMA CallStep ==
  ASSUME Inv, NEW p \in Procs, CallOperator(p)
  PROVE  Inv'
<1>1. /\ Held(p) \in Seq(DOMAIN locations) /\ Current(p) \in Calls
  BY NextReads, ActiveFacts DEF CallOperator, MayStart
<1>2. /\ target \in [Procs -> Workers \cup {""}] /\ faults \in 0..MaxFaults
      /\ DOMAIN indices = Models
  BY DEF Inv, TypeOK
<1>3. CASE Current(p).at # <<>> /\ target' = [target EXCEPT ![p] = Current(p).at[1]]
           /\ phase' = [phase EXCEPT ![p] = "localize"]
  <2>1. Current(p).at[1] \in Workers
    BY <1>1, <1>3 DEF Calls
  <2>2. /\ target' \in [Procs -> Workers \cup {""}] /\ target'[p] \in Workers
        /\ \A q \in Procs \ {p} : target'[q] = target[q]
    BY <1>2, <1>3, <2>1
  <2>3. Starts(p, "localize")
    BY <1>1, <1>2, <1>3, <2>2 DEF CallOperator, Starts, MayStart, Moves, dataVars
  <2> QED
    BY <2>3, StartStep
<1>4. CASE UNCHANGED target /\ phase' = [phase EXCEPT ![p] = "ask"]
  <2>1. Starts(p, "ask")
    BY <1>1, <1>2, <1>4 DEF CallOperator, Starts, MayStart, Moves, dataVars
  <2> QED
    BY <2>1, StartStep
<1> QED
  BY <1>3, <1>4 DEF CallOperator

\* Of the Workers that answer one is chosen, or the call is refused.
LEMMA AskStep ==
  ASSUME Inv, NEW p \in Procs, AskWorkers(p)
  PROVE  Inv'
<1>1. PICK silent \in SUBSET Workers :
        LET candidates == {w \in Workers \ silent : Current(p).op \in Operators[w]}
        IN /\ phase[p] = "ask"
           /\ Fault(Cardinality(silent))
           /\ \/ /\ \E w \in MediaWorker(Described(Held(p)), candidates) :
                      target' = [target EXCEPT ![p] = w]
                 /\ phase' = [phase EXCEPT ![p] = "localize"]
                 /\ UNCHANGED outcome
              \/ candidates = {} /\ Raise(p) /\ UNCHANGED target
           /\ UNCHANGED <<task, indices, step, ready, dataVars, handlers, reply, trace>>
  BY DEF AskWorkers
<1>2. Cardinality(silent) \in Nat
  BY FiniteWorkers, FS_Subset, FS_CardinalityType
<1>3. faults' \in 0..MaxFaults
  BY <1>1, <1>2, FaultType DEF Inv
<1>4. CASE Raise(p) /\ UNCHANGED target
  <2>1. /\ phase[p] \notin Ended
        /\ UNCHANGED <<task, indices, step, target, ready, locations, file, store, handlers, reply>>
    BY <1>1, <1>4 DEF dataVars
  <2>2. store \in [Workers -> SUBSET DOMAIN file]
    BY DEF Inv, TypeOK
  <2> QED
    BY <1>3, <1>4, <2>1, <2>2, RaiseStep
<1>5. ASSUME NEW w \in Workers, target' = [target EXCEPT ![p] = w],
             phase' = [phase EXCEPT ![p] = "localize"], UNCHANGED outcome
      PROVE  Inv'
  <2>1. /\ phase[p] = "ask" /\ Sound(p)
        /\ UNCHANGED <<task, indices, step, ready, locations, file, store, handlers, reply>>
    BY <1>1, Parts DEF dataVars
  <2>2. /\ target \in [Procs -> Workers \cup {""}] /\ ready \in [Procs -> Nat]
        /\ DOMAIN indices = Models
    BY DEF Inv, TypeOK
  <2>3. /\ target' \in [Procs -> Workers \cup {""}] /\ target'[p] \in Workers
        /\ \A q \in Procs \ {p} : target'[q] = target[q]
    BY <1>5, <2>2
  <2>4. ready' = [ready EXCEPT ![p] = 0] /\ Held(p) \in Seq(DOMAIN locations)
    BY <2>1, <2>2 DEF Sound
  <2>5. p = Final => \A b \in Branches(task) : phase[b] = "done"
    BY <2>1 DEF Inv, Concluded
  <2>6. Starts(p, "localize")
    BY <1>3, <1>5, <2>1, <2>2, <2>3, <2>4, <2>5 DEF Starts, Moves
  <2> QED
    BY <2>6, StartStep
<1> QED
  BY <1>1, <1>4, <1>5 DEF MediaWorker

\* The calls that raise.
LEMMA RefusalStep ==
  ASSUME Inv, NEW p \in Procs,
         \/ Refuse(p) \/ RefuseOperator(p) \/ ReceiveError(p) \/ TimeOut(p)
  PROVE  Inv'
<1>1. /\ phase[p] \notin Ended /\ Raise(p)
      /\ UNCHANGED <<task, indices, step, target, ready, locations, file, store, handlers, reply>>
  BY DEF Refuse, RefuseOperator, ReceiveError, TimeOut, MayStart, dataVars
<1>2. store \in [Workers -> SUBSET DOMAIN file] /\ faults \in 0..MaxFaults /\ TypeOK
  BY DEF Inv, TypeOK
<1>3. faults' \in 0..MaxFaults
  <2>1. Fault(1) => faults' \in 0..MaxFaults
    BY <1>2, FaultType
  <2> QED
    BY <1>2, <2>1 DEF Refuse, RefuseOperator, ReceiveError, TimeOut
<1> QED
  BY <1>1, <1>2, <1>3, RaiseStep

\* A pull that fails may have brought the artifact.
LEMMA PullFailsStep ==
  ASSUME Inv, NEW p \in Procs, PullFails(p)
  PROVE  Inv'
<1>1. /\ NextInput(p) \in DOMAIN locations /\ target[p] \in Workers /\ phase[p] \notin Ended
  BY NextInputKnown DEF PullFails
<1>2. PICK arrived \in SUBSET {NextInput(p)} :
        store' = [store EXCEPT ![target[p]] = @ \cup arrived]
  BY DEF PullFails
<1>3. /\ store \in [Workers -> SUBSET DOMAIN file] /\ TypeOK
      /\ DOMAIN locations \subseteq DOMAIN file
  BY DEF Inv, TypeOK
<1>4. /\ store' \in [Workers -> SUBSET DOMAIN file]
      /\ \A w \in Workers : store[w] \subseteq store'[w]
  BY <1>1, <1>2, <1>3
<1>5. faults' \in 0..MaxFaults
  BY <1>3, FaultType DEF PullFails
<1> QED
  BY <1>1, <1>4, <1>5, RaiseStep DEF PullFails

LEMMA HandlerStep ==
  ASSUME Inv, NEW h \in handlers, Serve(h) \/ Break(h)
  PROVE  Inv'
<1>1. faults \in 0..MaxFaults /\ TypeOK
  BY DEF Inv, TypeOK
<1>2. CASE Serve(h)
  BY <1>1, <1>2, AnswerStep DEF Serve
<1>3. CASE Break(h)
  <2>1. faults' \in 0..MaxFaults
    BY <1>1, <1>3, FaultType DEF Break
  <2> QED
    BY <1>3, <2>1, AnswerStep DEF Break
<1> QED
  BY <1>2, <1>3

\* Nothing changes.
LEMMA Stutter ==
  ASSUME Inv, UNCHANGED vars
  PROVE  Inv'
BY DEF Inv, TypeOK, Underway, Served, InputsPresent, Supplied, Concluded, Taking, Held, Output,
       vars, callVars, dataVars

LEMMA Inductive == Inv /\ [Next]_vars => Inv'
<1> SUFFICES ASSUME Inv, [Next]_vars
             PROVE  Inv'
  OBVIOUS
<1>1. ASSUME NEW p \in Procs, Proceed(p)
      PROVE  Inv'
  BY <1>1, InvokeStep, RefusalStep, CallStep, AskStep, SkipStep, PullStep, SendStep, ReceiveStep
  DEF Proceed
<1>2. ASSUME NEW p \in Procs, PullFails(p) \/ TimeOut(p) \/ Cancel(p)
      PROVE  Inv'
  BY <1>2, PullFailsStep, RefusalStep, CancelStep
<1>3. CASE UNCHANGED vars
  BY <1>3, Stutter
<1> QED
  BY <1>1, <1>2, <1>3, HandlerStep, FetchStep, GiveUpStep DEF Next

LEMMA Invariance == Spec => []Inv
<1>1. Init => Inv
  BY Initially
<1> QED
  BY <1>1, Inductive, PTL DEF Spec

(* Every variable stays in its type: indices belong to models, targets and *)
(* locations to Workers, and no place is known of a file that was not      *)
(* made.                                                                   *)
THEOREM TypeCorrect == Spec => []TypeOK
<1>1. Inv => TypeOK
  BY DEF Inv
<1> QED
  BY <1>1, Invariance, PTL

(* A handler finds each of its inputs in the store of its Worker: the      *)
(* request goes out only when ensure_local has dealt with all of them, and *)
(* whatever it relied on still holds when the handler runs.                *)
THEOREM InputsArePresent == Spec => []InputsPresent
<1>1. Inv => InputsPresent
  BY DEF Inv
<1> QED
  BY <1>1, Invariance, PTL

(* A run that was answered has left no branch and no handler behind, since *)
(* a branch that fails or is given up takes the answer with it.            *)
THEOREM NothingLeftBehind == Spec => []AnsweredIsQuiet
<1>1. Inv => AnsweredIsQuiet
  <2> SUFFICES ASSUME Inv, outcome = "answered"
               PROVE  handlers = {} /\ \A p \in Procs : phase[p] = "done"
    BY DEF AnsweredIsQuiet, Measured
  <2>1. \A p \in Procs : phase[p] = "done"
    BY DEF Inv, Concluded, Underway, Taking
  <2>2. \A h \in handlers : h.proc \in Procs /\ phase[h.proc] # "done"
    BY Parts DEF Matched, Inv, TypeOK
  <2> QED
    BY <2>1, <2>2
<1> QED
  BY <1>1, Invariance, PTL
==============================================================================
