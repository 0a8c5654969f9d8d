------------------------------- MODULE Workflow -------------------------------
(***************************************************************************)
(* One run over placed artifacts, from the workflow that issues the calls  *)
(* (calibration.py, calibration_v0.py, scope_expansion_v0.py,              *)
(* longbench_v2.py, or one turn of a Planner) through AgentRuntime, the    *)
(* schedulers and the execution manager to the handlers of the Workers and *)
(* back.                                                                   *)
(*                                                                         *)
(* Every workflow has one shape: branches run concurrently, each a chain   *)
(* of calls that feeds the next, then a final model call over their        *)
(* results.  Process b of 1..MaxBranches is a branch, process 0 the final  *)
(* call.  The Controller awaits between the phases of a call, and a        *)
(* handler goes on in its own process when its caller has given up.        *)
(*                                                                         *)
(* Artifact <<i, 0>> is the i-th input of the run, artifact <<p, s>> the   *)
(* output of the s-th call of process p.                                   *)
(***************************************************************************)
EXTENDS Selection, Records, Lineage

CONSTANTS
  Tasks,            \* the runs considered
  ShardWorkers,     \* SHARD_WORKERS, in the order of the code
  ReasoningWorker,  \* where raw videos are sampled for the final model
  LocalModel,       \* the model that reduces a chunk to evidence
  FinalModel,       \* the model of the final call
  Accepts,          \* Accepts[m]: the artifact types model m takes
  Operators,        \* Operators[w]: the operators Worker w offers
  SizeOf,           \* SizeOf[type]: the bytes of an artifact of a type
  MaxBranches,      \* bound: branches of a workflow
  MaxFaults         \* bound: faults in one run

Final == 0
Procs == 0..MaxBranches

TextTypes == {"text", "json"}
RecordOps == {"filter_records", "select_fields", "derive_fields",
              "aggregate_records", "top_k_records"}
MediaOps == {"sample_frames", "make_contact_sheet", "extract_clip",
             "aggregate_artifacts", "bm25_retrieve"}
RawWorkflows == {"centralized_raw", "centralized"}
FrameWorkflows == {"sampled_raw", "visual_reduction", "evidence"}
ImageWorkflows == {"distributed_3x2", "distributed_6x1"}
ShardWorkflows == {"distributed_retrieval", "distributed_compute"}

VARIABLES
  task,       \* the run: [workflow, policy, inputs, plan, calls]
  indices,    \* RoundRobinScheduler._next_indices
  step,       \* step[p]: how many calls of process p have returned
  phase,      \* phase[p]: where its current call is
  target,     \* target[p]: the Worker chosen for it
  ready,      \* ready[p]: how many of its inputs ensure_local has dealt with
  locations,  \* locations[a]: ArtifactRef.locations
  store,      \* store[w]: the artifacts in the store of Worker w
  file,       \* file[a]: what the artifact holds
  handlers,   \* the calls Workers are serving: [proc, step, worker]
  reply,      \* reply[p]: the answer to its current call
  trace,      \* the run's events
  outcome,    \* what the workflow's caller has seen
  faults      \* faults so far

callVars == <<step, phase, target, ready, reply>>
dataVars == <<locations, store, file>>
vars == <<task, indices, callVars, dataVars, handlers, trace, outcome, faults>>

Ended == {"done", "failed", "cancelled"}
-----------------------------------------------------------------------------
(* The shape of a workflow. *)

InputsAt(t, w) ==
  Those([i \in DOMAIN t.inputs |-> i], {i \in DOMAIN t.inputs : t.inputs[i].worker = w})

(* The Workers that hold a shard; only LongBench's retrieval leaves the    *)
(* others out, the task formats of the rest exclude them.                  *)
ActiveWorkers(t) ==
  LET shards == {t.inputs[i].worker : i \in DOMAIN t.inputs}
  IN Those(ShardWorkers, {i \in DOMAIN ShardWorkers : ShardWorkers[i] \in shards})

(* _execute_reference of calibration.py inspects images in pairs or alone; *)
(* the last image of an odd number is left over.                           *)
GroupSize(t) == IF t.workflow = "distributed_3x2" THEN 2 ELSE 1
ImageGroup(t, b) == [i \in 1..GroupSize(t) |-> (b - 1) * GroupSize(t) + i]

Width(t) ==
  CASE t.workflow \in RawWorkflows      -> 0
    [] t.workflow \in ImageWorkflows    -> Len(t.inputs) \div GroupSize(t)
    [] t.workflow \in FrameWorkflows    -> Len(t.inputs)
    [] t.workflow \in ShardWorkflows    -> Len(ActiveWorkers(t))
    [] t.workflow = "planned"           -> Len(t.calls)
Branches(t) == 1..Width(t)

\* Bug variant: only the first artifact of a shard is processed.
BranchInputsBug(t, b) ==
  CASE t.workflow \in FrameWorkflows \cup ImageWorkflows -> <<b>>
    [] t.workflow \in ShardWorkflows -> <<Head(InputsAt(t, ActiveWorkers(t)[b]))>>
    [] t.workflow = "planned"        -> t.calls[b].inputs

BranchInputs(t, b) ==
  CASE t.workflow \in FrameWorkflows -> <<b>>
    [] t.workflow \in ImageWorkflows -> ImageGroup(t, b)
    [] t.workflow \in ShardWorkflows -> InputsAt(t, ActiveWorkers(t)[b])
    [] t.workflow = "planned"        -> t.calls[b].inputs

Call(op, w) == [op |-> op, at |-> <<w>>, model |-> LocalModel]
Invocation(model) == [op |-> "invoke_model", at |-> <<>>, model |-> model]
Local(op) == [op |-> op, at |-> <<>>, model |-> LocalModel]

\* Bug variant: the records are ordered before their fields are derived.
RecordChainBug(plan, w) ==
  LET Stage(op, wanted) == IF wanted THEN <<Call(op, w)>> ELSE <<>>
  IN Stage("filter_records", plan.predicates # <<>>)
     \o Stage("select_fields", plan.fields # <<>>)
     \o Stage("top_k_records", plan.order # <<>>)
     \o Stage("derive_fields", plan.derivations # <<>>)
     \o Stage("aggregate_records", plan.aggregations # <<>>)

(* execute_structured_reference.process: a stage without work is skipped. *)
RecordChain(plan, w) ==
  LET Stage(op, wanted) == IF wanted THEN <<Call(op, w)>> ELSE <<>>
  IN Stage("filter_records", plan.predicates # <<>>)
     \o Stage("select_fields", plan.fields # <<>>)
     \o Stage("derive_fields", plan.derivations # <<>>)
     \o Stage("aggregate_records", plan.aggregations # <<>>)
     \o Stage("top_k_records", plan.order # <<>>)

(* The visual model also compares the images of `centralized`, and what it *)
(* said of pairs.                                                          *)
Closing(t) ==
  Invocation(IF t.workflow \in {"centralized", "distributed_3x2"} THEN LocalModel ELSE FinalModel)

Chain(t, p) ==
  CASE p = Final -> <<Closing(t)>>
    [] p # Final /\ t.workflow \in ImageWorkflows -> <<Invocation(LocalModel)>>
    [] p # Final /\ t.workflow = "sampled_raw" ->
         <<Call("sample_frames", ReasoningWorker)>>
    [] p # Final /\ t.workflow = "visual_reduction" ->
         <<Call("sample_frames", t.inputs[p].worker)>>
    [] p # Final /\ t.workflow = "evidence" ->
         <<Call("sample_frames", t.inputs[p].worker), Invocation(LocalModel)>>
    [] p # Final /\ t.workflow = "distributed_retrieval" ->
         <<Call("bm25_retrieve", ActiveWorkers(t)[p])>>
    [] p # Final /\ t.workflow = "distributed_compute" ->
         RecordChain(t.plan, ActiveWorkers(t)[p])
    [] p # Final /\ t.workflow = "planned" -> <<Local(t.calls[p].op)>>

Input(i) == <<i, 0>>
InputIds(t) == {Input(i) : i \in DOMAIN t.inputs}

(* What the s-th call of process p reads. *)
FinalInputs(t) ==
  IF t.workflow \in RawWorkflows THEN [i \in DOMAIN t.inputs |-> Input(i)]
  ELSE [b \in Branches(t) |-> <<b, Len(Chain(t, b))>>]
Reads(t, p, s) ==
  IF s > 1 THEN <<<<p, s - 1>>>>
  ELSE IF p = Final THEN FinalInputs(t)
  ELSE LET held == BranchInputs(t, p) IN [i \in DOMAIN held |-> Input(held[i])]

(* StructuredPlan.validate_projection.  A `limit` of 0 stands for None.     *)
IsPlan(plan) ==
  LET derived == Range(OutputsOf(plan.derivations))
      read == ToSet(plan.by) \cup ({a.field : a \in ToSet(plan.aggregations)} \ {NoField})
              \cup UNION {{d.left, d.right} : d \in ToSet(plan.derivations)}
      sortable == ToSet(plan.fields) \cup derived \cup Range(OutputsOf(plan.aggregations))
  IN /\ plan.derivations \in Seq(ToSet(plan.derivations))
     /\ \A d \in ToSet(plan.derivations) : d.op \in Arithmetic
     /\ plan.order \in Seq(ToSet(plan.order)) /\ plan.by \in Seq(ToSet(plan.by))
     /\ \A p \in ToSet(plan.predicates) : IsPredicate(p)
     /\ \A a \in ToSet(plan.aggregations) : IsAggregation(a)
     /\ IsInjective(plan.fields) /\ IsInjective(plan.by)
     /\ ToSet(plan.fields) \cap derived = {}
     /\ plan.fields # <<>> => read \subseteq ToSet(plan.fields)
     /\ \A s \in ToSet(plan.order) : s.field \in sortable
     /\ plan.limit \in 0..1000 /\ (plan.order = <<>> <=> plan.limit = 0)
     /\ plan.aggregations # <<>> \/ plan.order # <<>>

(* The tasks that load: three videos, documents on several Workers, shards *)
(* on all of them with a plan, or any number of images.                    *)
IsTask(t) ==
  LET at == {t.inputs[i].worker : i \in DOMAIN t.inputs}
  IN /\ t.workflow \in FrameWorkflows =>
          Len(t.inputs) = 3 /\ \A i \in 1..3 : t.inputs[i].type = "video"
     /\ t.workflow \in ImageWorkflows \cup {"centralized"} => t.inputs # <<>>
     /\ t.workflow = "distributed_retrieval" =>
          at \subseteq ToSet(ShardWorkers) /\ Cardinality(at) > 1
     /\ t.workflow = "distributed_compute" =>
          at = ToSet(ShardWorkers) /\ IsPlan(t.plan)

(* What the code takes a run to be: tasks that load, with inputs and calls *)
(* at Workers it knows, and branches that call something and read inputs   *)
(* of the run.                                                             *)
Calls == [op : {"invoke_model"} \cup RecordOps \cup MediaOps,
          at : Seq(Workers), model : {LocalModel, FinalModel}]

ASSUME WorkflowAssumption ==
  /\ MaxBranches \in Nat /\ MaxFaults \in Nat
  /\ ShardWorkers \in Seq(Workers) /\ IsInjective(ShardWorkers)
  /\ \A t \in Tasks :
       /\ IsTask(t)
       /\ t.workflow \in {"planned"} \cup RawWorkflows \cup FrameWorkflows
                           \cup ImageWorkflows \cup ShardWorkflows
       /\ t.inputs \in Seq(Range(t.inputs))
       /\ \A i \in DOMAIN t.inputs :
            /\ t.inputs[i].worker \in Workers
            /\ t.inputs[i].type = "json" => IsFile(t.inputs[i])
       /\ Width(t) \in 0..MaxBranches
       /\ \A b \in Branches(t) :
            /\ Chain(t, b) \in Seq(Calls) \ {<<>>}
            /\ BranchInputs(t, b) \in Seq(DOMAIN t.inputs)
-----------------------------------------------------------------------------
(* The operators of a Worker: the file a call makes of the files it reads, *)
(* or FAILED.  `sources` are the run's inputs the file was made from.      *)

Made(type, form, rows, files) ==
  [ok |-> TRUE, type |-> type, form |-> form, rows |-> rows,
   sources |-> UNION {f.sources : f \in ToSet(files)}]
NothingMade ==
  [ok |-> FALSE, type |-> "none", form |-> "none", rows |-> <<>>, sources |-> {}]

AllOf(files, types) == \A f \in ToSet(files) : f.type \in types

(* A record set, or a failed call when a row could not be computed. *)
RowsMade(form, rows, files) ==
  IF HasFailed(rows) THEN NothingMade ELSE Made("json", form, rows, files)

FilterRecords(files, plan) ==
  RowsMade("records", Filter(LoadAll(files), plan.predicates, plan.match), files)
SelectFields(files, plan) ==
  RowsMade("records", Select(LoadAll(files), plan.fields), files)
DeriveFields(files, plan) ==
  RowsMade("records", Derive(LoadAll(files), plan.derivations), files)
AggregateRecords(files, plan) ==
  RowsMade("groups", Aggregate(LoadAll(files), plan.aggregations, plan.by), files)
TopKRecords(files, plan) ==
  RowsMade("records", TopK(LoadAll(files), plan.order, plan.limit), files)

RecordResult(op, files, plan) ==
  IF ~AllOf(files, {"json"}) \/ \E f \in ToSet(files) : ~IsLoadable(f)
  THEN NothingMade
  ELSE CASE op = "filter_records"    -> FilterRecords(files, plan)
         [] op = "select_fields"     -> SelectFields(files, plan)
         [] op = "derive_fields"     -> DeriveFields(files, plan)
         [] op = "aggregate_records" -> AggregateRecords(files, plan)
         [] op = "top_k_records"     -> TopKRecords(files, plan)

(* One file of the given type, if the inputs have the types the handler    *)
(* asks for.                                                               *)
SampleFrames(files) ==
  IF AllOf(files, {"video"}) THEN Made("image", "opaque", <<>>, files) ELSE NothingMade
MakeContactSheet(files) ==
  IF AllOf(files, {"image"}) THEN Made("image", "opaque", <<>>, files) ELSE NothingMade
ExtractClip(files) ==
  IF AllOf(files, {"video"}) THEN Made("video", "opaque", <<>>, files) ELSE NothingMade
AggregateArtifacts(files) ==
  IF AllOf(files, TextTypes) THEN Made("json", "object", <<>>, files) ELSE NothingMade
BM25Retrieve(files) ==
  IF AllOf(files, TextTypes) THEN Made("json", "object", <<>>, files) ELSE NothingMade
Infer(files) == Made("text", "opaque", <<>>, files)

Result(op, files, plan) ==
  CASE op \in RecordOps           -> RecordResult(op, files, plan)
    [] op = "invoke_model"        -> Infer(files)
    [] op = "sample_frames"       -> SampleFrames(files)
    [] op = "make_contact_sheet"  -> MakeContactSheet(files)
    [] op = "extract_clip"        -> ExtractClip(files)
    [] op = "aggregate_artifacts" -> AggregateArtifacts(files)
    [] op = "bm25_retrieve"       -> BM25Retrieve(files)
-----------------------------------------------------------------------------
(* The calls of a run. *)

Current(p) == Chain(task, p)[step[p] + 1]
Held(p) == Reads(task, p, step[p] + 1)
Output(p) == <<p, step[p] + 1>>

Described(artifacts) ==
  [i \in DOMAIN artifacts |-> [size      |-> SizeOf[file[artifacts[i]].type],
                               locations |-> locations[artifacts[i]]]]

Event(kind, p, artifacts, worker, from) ==
  [kind |-> kind, action |-> Output(p), artifacts |-> artifacts,
   worker |-> worker, from |-> from]
Choice(p, executor) ==
  [kind |-> "executor.selected", action |-> Output(p),
   executor |-> executor.id, worker |-> executor.worker]
Record(events) == trace' = trace \cup events

Init ==
  /\ task \in Tasks
  /\ indices = [m \in Models |-> 0]
  /\ step = [p \in Procs |-> 0]
  /\ phase = [p \in Procs |-> IF p \in {Final} \cup Branches(task) THEN "idle" ELSE "done"]
  /\ target = [p \in Procs |-> ""]
  /\ ready = [p \in Procs |-> 0]
  /\ locations = [a \in InputIds(task) |-> <<task.inputs[a[1]].worker>>]
  /\ store = [w \in Workers |-> {a \in InputIds(task) : task.inputs[a[1]].worker = w}]
  /\ file = [a \in InputIds(task) |->
               LET input == task.inputs[a[1]]
               IN [ok |-> TRUE, type |-> input.type, form |-> input.form,
                   rows |-> input.rows, sources |-> {a}]]
  /\ handlers = {}
  /\ reply = [p \in Procs |-> "none"]
  /\ trace = {}
  /\ outcome = "running"
  /\ faults = 0

\* The function f with the value of a set.
With(f, a, value) == [x \in DOMAIN f \cup {a} |-> IF x = a THEN value ELSE f[x]]

Fault(n) == faults + n <= MaxFaults /\ faults' = faults + n

\* Bug variant: the exception of a branch is dropped.
RaiseBug(p) ==
  /\ phase' = [phase EXCEPT ![p] = "failed"]
  /\ outcome' = IF p = Final /\ outcome = "running" THEN "failed" ELSE outcome

(* A call raised.  gather hands the first exception on, and with it ends   *)
(* the workflow, while the other branches go on; the framework makes the   *)
(* exception of a Planner's tool an answer to the Planner.                 *)
Raise(p) ==
  LET ends == IF task.workflow = "planned" THEN {p} ELSE {p, Final}
  IN /\ phase' = [q \in Procs |-> IF q \in ends THEN "failed" ELSE phase[q]]
     /\ outcome' = IF Final \in ends /\ outcome = "running" THEN "failed" ELSE outcome

MayStart(p) ==
  /\ phase[p] = "idle"
  /\ p = Final => \A b \in Branches(task) : phase[b] = "done"

(* AgentRuntime.invoke up to the choice of an executor: the model has to   *)
(* take the types of its inputs.                                           *)
Acceptable(p) ==
  \A i \in DOMAIN Held(p) : file[Held(p)[i]].type \in Accepts[Current(p).model]

SelectedFor(p) ==
  Selected(task.policy, Current(p).model, Described(Held(p)), indices)

Invoke(p) ==
  /\ MayStart(p)
  /\ Current(p).op = "invoke_model"
  /\ Acceptable(p)
  /\ \E executor \in SelectedFor(p) :
        /\ Record({Event("execution.request", p, ToSet(Held(p)), "", ""),
                   Choice(p, executor)})
        /\ target' = [target EXCEPT ![p] = executor.worker]
  /\ indices' = IF task.policy = "round_robin"
                THEN RotatedIndices(Current(p).model, indices) ELSE indices
  /\ ready' = [ready EXCEPT ![p] = 0]
  /\ phase' = [phase EXCEPT ![p] = "localize"]
  /\ UNCHANGED <<task, step, dataVars, handlers, reply, outcome, faults>>

(* Nothing is recorded of an invocation that is refused. *)
Refuse(p) ==
  /\ MayStart(p)
  /\ Current(p).op = "invoke_model"
  /\ ~Acceptable(p) \/ SelectedFor(p) = {}
  /\ Raise(p)
  /\ UNCHANGED <<task, indices, step, target, ready, dataVars, handlers,
                 reply, trace, faults>>

(* The request of an operator call is built from its arguments, after it   *)
(* was recorded; the plan's format lets some pass that this one does not   *)
(* (two aggregations with one output, say).                                *)
IsRequest(op, plan) ==
  CASE op = "filter_records"    -> IsFilterRequest(plan.predicates)
    [] op = "select_fields"     -> IsSelectRequest(plan.fields)
    [] op = "derive_fields"     -> IsDeriveRequest(plan.derivations)
    [] op = "aggregate_records" -> IsAggregateRequest(plan.aggregations, plan.by)
    [] op = "top_k_records"     -> IsTopKRequest(plan.order, plan.limit)
    [] OTHER                    -> TRUE

RefuseOperator(p) ==
  /\ MayStart(p)
  /\ Current(p).op # "invoke_model"
  /\ ~IsRequest(Current(p).op, task.plan)
  /\ Record({Event("execution.request", p, ToSet(Held(p)), "", "")})
  /\ Raise(p)
  /\ UNCHANGED <<task, indices, step, target, ready, dataVars, handlers,
                 reply, faults>>

(* An operator call: for a Worker given by the workflow, or for one that   *)
(* remains to be found.                                                    *)
CallOperator(p) ==
  /\ MayStart(p)
  /\ Current(p).op # "invoke_model"
  /\ IsRequest(Current(p).op, task.plan)
  /\ Record({Event("execution.request", p, ToSet(Held(p)), "", "")})
  /\ ready' = [ready EXCEPT ![p] = 0]
  /\ \/ /\ Current(p).at # <<>>
        /\ target' = [target EXCEPT ![p] = Current(p).at[1]]
        /\ phase' = [phase EXCEPT ![p] = "localize"]
     \/ /\ Current(p).at = <<>>
        /\ phase' = [phase EXCEPT ![p] = "ask"]
        /\ UNCHANGED target
  /\ UNCHANGED <<task, indices, step, dataVars, handlers, reply, outcome, faults>>

(* select_media_worker, where the status of `silent` Workers could not be  *)
(* had.                                                                    *)
AskWorkers(p) ==
  \E silent \in SUBSET Workers :
     LET candidates == {w \in Workers \ silent : Current(p).op \in Operators[w]}
     IN /\ phase[p] = "ask"
        /\ Fault(Cardinality(silent))
        /\ \/ /\ \E w \in MediaWorker(Described(Held(p)), candidates) :
                   target' = [target EXCEPT ![p] = w]
              /\ phase' = [phase EXCEPT ![p] = "localize"]
              /\ UNCHANGED outcome
           \/ candidates = {} /\ Raise(p) /\ UNCHANGED target
        /\ UNCHANGED <<task, indices, step, ready, dataVars, handlers,
                       reply, trace>>

(* ensure_local, of one input after the other. *)
NextInput(p) == Held(p)[ready[p] + 1]
Localizing(p) == phase[p] = "localize" /\ ready[p] < Len(Held(p))

\* Bug variant: the first local input ends the loop over the inputs.
SkipLocalBug(p) ==
  /\ Localizing(p)
  /\ target[p] \in ToSet(locations[NextInput(p)])
  /\ ready' = [ready EXCEPT ![p] = Len(Held(p))]
  /\ UNCHANGED <<task, indices, step, phase, target, dataVars, handlers,
                 reply, trace, outcome, faults>>

SkipLocal(p) ==
  /\ Localizing(p)
  /\ target[p] \in ToSet(locations[NextInput(p)])
  /\ ready' = [ready EXCEPT ![p] = @ + 1]
  /\ UNCHANGED <<task, indices, step, phase, target, dataVars, handlers,
                 reply, trace, outcome, faults>>

Pull(p) ==
  LET a == NextInput(p)
      source == Head(locations[a])
  IN /\ Localizing(p)
     /\ target[p] \notin ToSet(locations[a])
     /\ a \in store[source]
     /\ store' = [store EXCEPT ![target[p]] = @ \cup {a}]
     /\ locations' = [locations EXCEPT ![a] = Append(@, target[p])]
     /\ Record({Event("artifact.transfer.end", p, {a}, target[p], source)})
     /\ ready' = [ready EXCEPT ![p] = @ + 1]
     /\ UNCHANGED <<task, indices, step, phase, target, file, handlers,
                    reply, outcome, faults>>

(* A pull that is given up may have brought the artifact all the same. *)
PullFails(p) ==
  /\ Localizing(p)
  /\ target[p] \notin ToSet(locations[NextInput(p)])
  /\ Fault(1)
  /\ \E arrived \in SUBSET {NextInput(p)} :
        store' = [store EXCEPT ![target[p]] = @ \cup arrived]
  /\ Raise(p)
  /\ UNCHANGED <<task, indices, step, target, ready, locations, file,
                 handlers, reply, trace>>

(* The request to the Worker, and its answer. *)
Send(p) ==
  /\ phase[p] = "localize" /\ ready[p] = Len(Held(p))
  /\ handlers' = handlers \cup {[proc |-> p, step |-> step[p] + 1, worker |-> target[p]]}
  /\ phase' = [phase EXCEPT ![p] = "sent"]
  /\ UNCHANGED <<task, indices, step, target, ready, dataVars, reply,
                 trace, outcome, faults>>

(* What a handler makes; an artifact it does not have is an error. *)
Work(h) ==
  LET inputs == Reads(task, h.proc, h.step)
      call == Chain(task, h.proc)[h.step]
  IN IF ToSet(inputs) \subseteq store[h.worker]
     THEN Result(call.op, [i \in DOMAIN inputs |-> file[inputs[i]]], task.plan)
     ELSE NothingMade

Leaves(h) == handlers' = handlers \ {h}

(* The answer reaches a caller that is still waiting. *)
Answer(h, made) ==
  LET output == <<h.proc, h.step>>
      waits == phase[h.proc] = "sent"
  IN /\ Leaves(h)
     /\ file' = IF made.ok THEN With(file, output, made) ELSE file
     /\ store' = IF made.ok THEN [store EXCEPT ![h.worker] = @ \cup {output}] ELSE store
     /\ reply' = IF waits THEN [reply EXCEPT ![h.proc] = IF made.ok THEN "ok" ELSE "error"]
                 ELSE reply

Serve(h) ==
  /\ Answer(h, Work(h))
  /\ UNCHANGED <<task, indices, step, phase, target, ready, locations,
                 trace, outcome, faults>>

(* The model, the tool or the disk fails. *)
Break(h) ==
  /\ Fault(1)
  /\ Answer(h, NothingMade)
  /\ UNCHANGED <<task, indices, step, phase, target, ready, locations,
                 trace, outcome>>

Receive(p) ==
  /\ phase[p] = "sent" /\ reply[p] = "ok"
  /\ Record({Event("worker.execution.end", p, {Output(p)}, target[p], ""),
             Event("artifact.created", p, {Output(p)}, target[p], "")})
  /\ locations' = With(locations, Output(p), <<target[p]>>)
  /\ step' = [step EXCEPT ![p] = @ + 1]
  /\ reply' = [reply EXCEPT ![p] = "none"]
  /\ phase' = [phase EXCEPT ![p] = IF step[p] + 1 = Len(Chain(task, p)) THEN "done" ELSE "idle"]
  /\ UNCHANGED <<task, indices, target, ready, store, file, handlers,
                 outcome, faults>>

ReceiveError(p) ==
  /\ phase[p] = "sent" /\ reply[p] = "error"
  /\ Raise(p)
  /\ UNCHANGED <<task, indices, step, target, ready, dataVars, handlers,
                 reply, trace, faults>>

\* Bug variant: the call is sent once more.
TimeOutBug(p) ==
  /\ phase[p] = "sent"
  /\ Fault(1)
  /\ phase' = [phase EXCEPT ![p] = "localize"]
  /\ UNCHANGED <<task, indices, step, target, ready, dataVars, handlers,
                 reply, trace, outcome>>

(* The Controller stops waiting, perhaps for an answer that was lost; the  *)
(* handler does not notice.                                                *)
TimeOut(p) ==
  /\ phase[p] = "sent"
  /\ Fault(1)
  /\ Raise(p)
  /\ UNCHANGED <<task, indices, step, target, ready, dataVars, handlers,
                 reply, trace>>

(* The end of the run. *)
FetchAnswer ==
  /\ phase[Final] = "done" /\ outcome = "running"
  /\ \/ outcome' = "answered" /\ UNCHANGED faults
     \/ outcome' = "failed" /\ Fault(1)
  /\ UNCHANGED <<task, indices, callVars, dataVars, handlers, trace>>

(* A Planner that has failed calls is taken to give up. *)
GiveUp ==
  /\ task.workflow = "planned" /\ outcome = "running"
  /\ \A b \in Branches(task) : phase[b] \in Ended
  /\ \E b \in Branches(task) : phase[b] = "failed"
  /\ phase' = [phase EXCEPT ![Final] = "failed"]
  /\ outcome' = "failed"
  /\ UNCHANGED <<task, indices, step, target, ready, reply, dataVars,
                 handlers, trace, faults>>

(* The sweep that goes on with its next cell lets the branches of a failed *)
(* run be; they are cancelled when the program ends before they do.        *)
Cancel(p) ==
  /\ outcome # "running" /\ phase[p] \notin Ended
  /\ phase' = [phase EXCEPT ![p] = "cancelled"]
  /\ UNCHANGED <<task, indices, step, target, ready, reply, dataVars,
                 handlers, trace, outcome, faults>>

Proceed(p) ==
  \/ Invoke(p) \/ Refuse(p) \/ RefuseOperator(p) \/ CallOperator(p) \/ AskWorkers(p)
  \/ SkipLocal(p) \/ Pull(p) \/ Send(p) \/ Receive(p) \/ ReceiveError(p)

Next ==
  \/ \E p \in Procs : Proceed(p) \/ PullFails(p) \/ TimeOut(p) \/ Cancel(p)
  \/ \E h \in handlers : Serve(h) \/ Break(h)
  \/ FetchAnswer \/ GiveUp

Spec == Init /\ [][Next]_vars

(* The event loop runs some coroutine as long as one can go on, and a      *)
(* Worker ends what it serves; faults and cancellations are never owed.    *)
Advance == (\E p \in Procs : Proceed(p)) \/ FetchAnswer \/ GiveUp

FairSpec ==
  /\ Spec
  /\ WF_vars(Advance)
  /\ WF_handlers(\E h \in handlers : Leaves(h))
-----------------------------------------------------------------------------
(* The properties. *)

(* The type invariant. *)
TypeOK ==
  /\ task \in Tasks
  /\ DOMAIN indices = Models
  /\ step \in [Procs -> Nat]
  /\ phase \in [Procs -> {"idle", "ask", "localize", "sent"} \cup Ended]
  /\ target \in [Procs -> Workers \cup {""}]
  /\ ready \in [Procs -> Nat]
  /\ locations \in [DOMAIN locations -> Seq(Workers)]
  /\ DOMAIN locations \subseteq DOMAIN file
  /\ store \in [Workers -> SUBSET DOMAIN file]
  /\ handlers \subseteq [proc : Procs, step : Nat, worker : Workers]
  /\ reply \in [Procs -> {"none", "ok", "error"}]
  /\ outcome \in {"running", "answered", "failed"}
  /\ faults \in 0..MaxFaults

(* A handler finds each of its inputs in the store of its Worker, however  *)
(* calls fail and overlap: ensure_local precedes the request, and what it  *)
(* relied on (a recorded location, a finished pull) still holds.           *)
InputsPresent ==
  \A h \in handlers : ToSet(Reads(task, h.proc, h.step)) \subseteq store[h.worker]

(* Round robin gives the replicas of a model their calls evenly, although  *)
(* concurrent branches and several models share the scheduler.             *)
Selections(e) == {x \in OfKind(trace, "executor.selected") : x.executor = e.id}
ReplicasBalanced ==
  task.policy = "round_robin" =>
    \A e, f \in Executors :
       e.model = f.model => Cardinality(Selections(e)) <= Cardinality(Selections(f)) + 1

Measured == outcome = "answered" /\ task.workflow # "planned"

(* A measured run that was answered has left nothing behind: no branch     *)
(* still runs and no Worker serves one of its calls into the next run.     *)
AnsweredIsQuiet == Measured => handlers = {} /\ \A p \in Procs : phase[p] \in Ended

(* The rows read from the trace of an answered measured run account for    *)
(* every input of every execution: realized traces are rightly "complete". *)
InitialWorker == [a \in InputIds(task) |-> task.inputs[a[1]].worker]
EvidenceComplete == Measured => DependenciesComplete(trace, InitialWorker, Site)

(* Following the lineage rows back from the final artifact leads to those  *)
(* inputs that were really read for it, and to all of them, but for the    *)
(* last of an odd number of images that are inspected in pairs.  Origins   *)
(* are the inputs one cannot avoid on the way back.                        *)
Inspected ==
  IF task.workflow \in ImageWorkflows THEN {Input(i) : i \in 1..(Width(task) * GroupSize(task))}
  ELSE InputIds(task)
Origins(rows) ==
  LET Backward(ids) ==
        \A r \in rows : r.derived \cap (ids \cup {<<Final, 1>>}) # {} => r.input \in ids
      closed == {ids \in SUBSET {r.input : r \in rows} : Backward(ids)}
  IN {a \in InputIds(task) : \A ids \in closed : a \in ids}
LineageTrue ==
  Measured =>
    /\ Origins(LineageRows(ExecutionRows(trace), InitialWorker)) = Inspected
    /\ file[<<Final, 1>>].sources = Inspected

(* The records of all shards together that the plan asks about, in its     *)
(* shape: <<i, k>> stands for the k-th record of the i-th input.           *)
Computed == outcome = "answered" /\ task.workflow = "distributed_compute"
Stored == UNION {{<<i, k>> : k \in DOMAIN Load(task.inputs[i])} : i \in DOMAIN task.inputs}
Raw(x) == Load(task.inputs[x[1]])[x[2]]
Wanted ==
  {x \in Stored : task.plan.predicates # <<>> =>
                    Keeps(Raw(x), task.plan.predicates, task.plan.match)}
Shaped(x) ==
  DeriveAll(IF task.plan.fields = <<>> THEN Raw(x) ELSE Projected(Raw(x), task.plan.fields),
            task.plan.derivations)

(* What the final model is given: <<b, n>> stands for the n-th record that *)
(* branch b ends with.                                                     *)
LastRows(b) == file[<<b, Len(Chain(task, b))>>].rows
Delivered == UNION {{<<b, n>> : n \in DOMAIN LastRows(b)} : b \in Branches(task)}
Item(y) == LastRows(y[1])[y[2]]

(* Each record that fewer than `limit` records of any shard precede is     *)
(* given to the final model, as JSON text: choosing the best of every      *)
(* shard loses none of the best of all.  A plan that cannot be computed    *)
(* for a wanted record is not answered.                                    *)
KeepsTheBest ==
  Computed /\ task.plan.aggregations = <<>> =>
    LET Ahead(r) == {x \in Wanted : CompareRecords(Shaped(x), r, task.plan.order) < 0}
    IN /\ \A x \in Wanted : FAILED \notin Range(Shaped(x))
       /\ \A y \in Delivered : \E x \in Wanted : Item(y) = Shaped(x)
       /\ \A x \in Wanted :
             Cardinality(Ahead(Shaped(x))) < task.plan.limit =>
               \E y \in Delivered : JsonRecord(Item(y)) = JsonRecord(Shaped(x))

(* The counts and sums of a group over the shards add up to its count and  *)
(* its sum over all records: no record is missed, counted twice or put in  *)
(* a wrong group on its shard.  Amounts are in tenths, like Quantity.      *)
Amount(x) == IF IsAbsent(x) THEN 0 ELSE Quantity(x)
Share(r, a) ==
  IF a.op = "sum" THEN Amount(FieldValue(r, a.field))
  ELSE IF a.field = NoField \/ ~IsAbsent(FieldValue(r, a.field)) THEN 10 ELSE 0

\* The sum of the values of a function: its units, less those of its negative values.
SumOver(amounts) ==
  LET Units(sign) == UNION {{<<x, n>> : n \in 1..(sign * amounts[x])} : x \in DOMAIN amounts}
  IN Cardinality(Units(1)) - Cardinality(Units(-1))

Group(r) == [f \in ToSet(task.plan.by) |-> GroupValue(r, f)]
GroupsAddUp ==
  Computed /\ task.plan.aggregations # <<>> /\ task.plan.order = <<>> =>
    /\ \A y \in Delivered :
          task.plan.by # <<>> => \E x \in Wanted : Group(Shaped(x)) = Group(Item(y))
    /\ \A x \in Wanted, a \in ToSet(task.plan.aggregations) :
          a.op \in {"count", "sum"} =>
            LET items == {y \in Delivered : Group(Item(y)) = Group(Shaped(x))}
                members == {z \in Wanted : Group(Shaped(z)) = Group(Shaped(x))}
            IN SumOver([y \in items |-> Amount(Item(y)[a.output])])
                 = SumOver([z \in members |-> Share(Shaped(z), a)])

(* "Order generic JSON records deterministically and retain a prefix       *)
(* locally": when a plan orders the groups it has aggregated, the best     *)
(* `limit` groups of each shard are retained.                              *)
TopKLimitsGroups ==
  Computed /\ task.plan.aggregations # <<>> /\ task.plan.order # <<>> =>
    \A b \in Branches(task) :
       LET last == Len(Chain(task, b))
       IN file[<<b, last>>].rows
            = TopK(file[<<b, last - 1>>].rows, task.plan.order, task.plan.limit)

(* Every run comes to an end, and in the end none of its calls is open and *)
(* none of its handlers runs, those of failed branches included.           *)
Settles ==
  <>[](/\ outcome # "running" /\ handlers = {}
       /\ \A p \in Procs : phase[p] \in Ended)
=============================================================================
