# Infra-aware multi-agent execution: TLA+ models and proofs

This directory models the program in `src/infra_mas`: a Controller that runs agent
workloads on a few Workers, places and moves artifacts between them, schedules inference
on model executors and records what happened in a trace. The modules are translated from
the source; `PROJECT.json` maps every definition to its lines, lists the components, the
runs, the bugs each property has been shown to catch (`mutants`), the hazards and the
theorems.

To check a module: `tlc -config transfer_faults.cfg MCTransfer.tla` (and so on, see
section 4); to check the proofs: `tlapm TransferProofs.tla`.

## 1. Inventory

### Components

| Component | State it keeps | Operations | Model |
|---|---|---|---|
| Localisation: `execution/transfer.py`, `core/artifact.py`, with the pull handler and store of a Worker (`worker/service.py`, `worker/server.py`, `worker/artifact_store.py`) and its client | one lock per (artifact id, target); the completed keys; the locations of every `ArtifactRef` object; one file per artifact id and Worker | `ensure_local`; pull, download, put, delete | `Transfer`, `Placement` |
| Planner and execution path: `planner/*`, `runtime/runtime.py`, `execution/manager.py` | action counter, artifact catalog, planning ledger, turn count, open LLM call | the turns of the Coordinator, eight function tools, the trace hooks, `invoke`, `execute`, the media operators | `Planner`, `PlanningHistory` |
| Run directory: `tracing/recorder.py`, `experiment.py`, `calibration.py` | `trace.jsonl`, `config.yaml`, `result.json`, temporaries | reserve, start, record, save, end; the lifecycle of an experiment or of one run of the calibration sweep: taking over a result, preflight, upload or binding of inputs, workflow, error handler | `RunDirectory` |
| Code tasks: `code_tasks/server.py`, `context.py`, `coordinator.py`, `tools.py`, `trace_hooks.py`, `client.py`, `experiment.py` | the checkout on the Worker and its lock; exploration count, repository version, pending observations, submitted patch | reset, search, read, edit, patch, test, submit; the turns of a run; runs in sequence | `CodeWorkspace`, `CodeRun`, `AtomicWorkspace` |
| Reference sweeps: `scope_expansion_v0.py`, `calibration_v0.py`, `longbench_v2.py` | `raw_runs.jsonl`, the completed keys | one attempt of one cell; resumption | `Sweep` |
| Executor selection: `scheduler/*`, `resources/provider.py`, `execution/executor_registry.py` | a round-robin index per model | `select`, estimates of transfers, `select_media_worker` | `Selection` |
| Worker operators and backends: `worker/service.py`, `worker/backends/*` | none but the store | filter, select, derive, aggregate, top-k over records; sampling, contact sheets, clips, aggregation, BM25, inference | `Records`, `Workflow` |
| Reference workflows: `calibration.py`, `calibration_v0.py`, `scope_expansion_v0.py`, `longbench_v2.py`, over `runtime/runtime.py` and `execution/manager.py` | the artifacts of a run, its trace | ten workflows: branches of calls run concurrently, then a final call | `Workflow` |
| Rows of a realized trace: the `_transfer_rows`, `_execution_rows`, `_lineage_rows` and interval sums of the sweeps | none | dependencies, evidence, lineage | `Lineage` |
| `bench.py` and other drivers, statistics, reports, command lines, configurations | none, or formatting | | not modelled |

### How they interact

The Coordinator runs the OpenAI Agents SDK. Its function tools run concurrently within a
turn and share the catalog, the ledger and the action counter. A tool that invokes a model
goes through `AgentRuntime.invoke` (scheduling) and `ExecutionManager.execute`, which
first calls `TransferManager.ensure_local` for every input and then the Worker. Everybody
writes to one `TraceRecorder`, under one asyncio lock. Workers talk to each other only in
pulls: the target reads the artifact from the source by HTTP. A code-task run talks to one
code Worker in the same manner, with a checkout in place of artifacts. A sweep runs
reference workflows, one run directory each, and appends a row per attempt. A reference
workflow has no Planner: it calls `AgentRuntime` itself, in concurrent branches, and reads
the trace back into rows when the run has ended.

### Hard behaviours and what has to hold

- *Interleavings in the Controller.* Concurrent calls localise one artifact through
  different reference objects, extend one list of locations around awaits, draw action
  ids, complete invocations and queue for the trace. The lock of a key excludes whichever
  references are used; ids are distinct; the trace shows a growing history; the finish
  event is last.
- *Requests that outlive their caller.* A client timeout does not stop the Worker's
  handler. A second pull of the same artifact may run beside the first, and the handlers
  write and delete the same file. What the Controller has recorded as a location must stay
  a copy. When one branch of a workflow fails, `asyncio.gather` raises at once and the
  others go on, on the Workers that the next measured run uses and in the trace of the run
  that has ended. A test run of a code Worker has no limit of time and keeps its lock.
- *Data that passes through a chain.* Record operators run per shard and feed one another;
  the final model sees the best, or the totals, of each shard, and they have to be those of
  all the records.
- *Crashes and restarts.* Workers die in a pull; processes die between reserving a
  directory and recording anything, or within an attempt of a sweep.
- *Partial failure.* Any trace event may fail to be written, in the success path, after
  it, or in the error handler.
- *Atomicity of the checkout.* A search, a test run or a patch is many file operations;
  `submit` and `read` do not take the lock.
- *Ordering of what a model is told.* Observations reach one model call each; ids a reply
  mentions resolve; labels of repository versions name contents.

`PROJECT.json` lists each hazard at its line with the properties that cover it.

### What makes each component correct

- *Localisation*: one transfer at a time per artifact and target; bytes move once; a
  recorded location is a copy, with intact sources or with calls that wait for their pulls;
  a successful answer is recorded; every call returns.
- *Planner*: ids told to the model resolve; every traced span is closed; the trace and the replies show growing prefixes of one history; the finish event
  is last; the run returns.
- *Run directory*: files of one writer; after run.end no file is rewritten and no second
  end follows, and only branches that a failed run of the sweep left behind still record
  events; result.json tells how the run ended and is final, also for whoever reads it before
  run.end is written; a rejected process was rejected for a reason.
- *Code tasks*: changes, searches and tests are atomic; the budget holds; observations are
  fed once; labels name contents; a submission is the solution; a run starts on the base
  commit; every request is answered unless a test run hangs, and every call comes back to
  its caller even then.
- *Sweeps*: no cell measured twice or left out; rows agree with runs; warm-ups first;
  resumption completes the sweep as long as its file of rows can be read.
- *Executor selection*: replicas of a model get their calls evenly under round robin; the
  choice is the cheapest by the estimate otherwise.
- *Reference workflows*: a handler finds its inputs; an answered run leaves nothing
  running; every run settles; its rows explain every input of every execution, and lead
  from the answer back to the sources that were read for it.
- *Record operators*: the distributed plan gives the final model every record that belongs
  to the best of all, and groups whose counts and sums add up.

## 2. Plan

Written, in this order:

1. `Placement`, `Transfer`, `TransferProofs`: every other part relies on artifacts being
   where the Controller thinks they are.
2. `PlanningHistory`, `Planner`, `PlannerProofs`: the concurrent tools of a run.
3. `RunDirectory`, `RunDirectoryProofs`: who owns a run and how it ends.
4. `AtomicWorkspace`, `CodeWorkspace`, `CodeRun`, `CodeRunProofs`: a run against a code
   Worker.
5. `Sweep`, `SweepProofs`: resumption of sweeps.
6. `Ordering`, `Records`, `Selection`, `Lineage`: the record operators, the schedulers and
   the rows of a trace as operators on data; `RecordProofs`.
7. `Workflow`, which composes them with transfers, handlers and time-outs, and
   `WorkflowProofs`, `TraceProofs`.
8. The inputs of a run and the sweep of `calibration.py`, as a second program in
   `RunDirectory`.

What would come next: the import of files on a Worker (`bind_local`), the evaluation of
code tasks, and a proof of `GroupsAddUp`, for which the text of a group key has to be shown
to determine its value.

Composition: `CodeRun` extends `CodeWorkspace` (client and server share the requests).
`Transfer` already holds both sides of a pull. `Planner` treats a localisation as one step
that succeeds or fails, which is what `Transfer` shows of it (`EveryCallReturns`,
`AnswerRecorded`), and `Workflow` one pull as one step that may fail and still have
brought the file; it shows from there that handlers find their inputs. Of a run directory, `Sweep` keeps what `RunDirectory` shows of it: a
run with a new id owns its directory, `result.json` is replaced as a whole.

## 3. The modules

Every model leaves out texts, sizes in bytes, times and formatting. The bug variants
(`...Bug`) stand before the definition they are a variant of; nothing else refers to them.

### Transfer

One task is one call of `ensure_local`. The Controller is one asyncio loop, so a call is
atomic between two awaits; `pc` names the await it is suspended at: the lock (`wait`), the
start event (`start`), the request (`pull`), the end event (`end`) and the failure event
(`abort`). An `asyncio.Lock` is first in, first out: `ahead[t]` is the set of calls in
front of `t`. `_locks_guard` never suspends while held and is left out. `pull[t]` is the
handler on the target Worker with its own steps: `exists`/`stat`, the request to the
source, the write to a temporary, `os.replace`, the comparison of sizes, the deletion of a
wrong file. Of a file the model keeps whether its size is the declared one. A reader that
opened a file keeps its inode, so the body it gets is that of one moment (`body`); a
connection that breaks off is detected by its length (`PullBroken`). Faults: `timeout`
(the client gives up, the handler goes on), `crash` (the Worker dies and restarts without
its handlers; files stay), `trace` (an event cannot be written).

`Placement` is what localisation promises: copies are made from copies, a location is
recorded where a copy is, every call is answered once. `Transfer` implements it if the
sources are intact (`IntactSources`): every initial copy has its declared size.

### Planner

`phase` is the Coordinator's position in `run` and in the SDK's loop; `pc[c]` that of a
tool call. Tool kinds differ in their path: `delegate` and `spawn` announce an action,
invoke a model, complete, summarise; `process` has no planning state in its reply; `media`
stands for the operators on Workers; `inspect` downloads a text. An event is put in the
queue of the recorder's lock and is written when it is the head (`Write`); a failed write
raises in its coroutine. The SDK's part (the calls of a turn are gathered, a tool that
raises is answered with an error text, `max_turns`) is external and modelled from how the
code uses it. The trace is kept per coroutine, plus the sequence of ledger states; the
transfer events belong to `Transfer`; `infrastructure_context` and texts are left out.
Whether an output can be inspected is nondeterministic.

`PlanningHistory` is the abstract specification: one history of completed invocations that
only grows; what is published and what a model is told are prefixes of it, published in
order.

### RunDirectory

Processes with the same run id race in `_reserve_empty_run_directory` (mkdir, iterdir,
touch: one step each), save files through temporaries, append events. `driver` says which
program they run.

- An experiment goes through the stages of `run_blind_experiment`: start, preflight,
  upload or binding of the inputs (whose start and end are events), the saved plan, the
  work, the result. An exception leads to its handler, except from `trace.start`, which is
  outside the `try` (line 564).
- An invocation of the calibration sweep first looks for a result in the directory
  (`CompletedRow`) and takes it over if there is one: its run ids are fixed, so that this is
  how it is resumed. Otherwise it reserves the id like an experiment, and ends the run
  *after* its `try`: an error of `trace.end` ends the invocation and does not reach a
  handler. That is what makes a result final as soon as it is there (`SkippedStands`); with
  `trace.end` inside the `try`, a result that another invocation has read might be
  rewritten.

A reference workflow gathers its branches, and the first of them that fails ends it for the
sweep while the others go on (`calibration.py:223`). `late[p]` counts those that process `p`
has left running when `Work` raises; each may still record an event, after run.end too, until
it ends or the program does (`FinishBranch`). The Coordinator of an experiment leaves none:
its tools are functions of a turn that the SDK awaits.

An append is whole or not at all here. Of the inputs one is kept, and one event of the
work, or of a branch that is left.

### CodeWorkspace, CodeRun

The content of a file is the call that wrote it last. The Worker's lock is a queue of
handlers; a patch writes its files one by one, a search reads them one by one, `submit`
and `read` do neither wait nor hold the lock. `git diff` and `git grep` know tracked files
only. On the client side a call increments counters, awaits the trace, sends, receives;
`label[c]` is the repository version it was given as input. A run ends with a final text, an
exception, or the limit of turns, which leaves the observations of its last tools untaken. `serial` records whether calls
of the run have come one at a time and none was given up. `AtomicWorkspace` is the
abstract specification: changes, searches and test runs happen at one moment.

### Sweep

The schedule is a sequence of positions: groups (a task in a world), attempts (0 is the
warm-up), workflows. An invocation reads the rows, skips completed keys, opens a run with
a new id, performs it, ends its trace, analyses the trace, appends a row. `rows` and
`tail` are `raw_runs.jsonl`: a row may reach the file in part (fault `torn`) or without its
newline (`open`; it can be read, but the next row is joined to it), or whole and yet not
readable (fault `separator`): rows are written with the line separators of Unicode as they
are, and read by `str.splitlines()`, which cuts there. In the first and the last case the
file is `broken` and stays so. Several series, that is run prefixes, share the file. Invocations of one output directory are assumed not to
overlap.

### Selection

Operators for what the three schedulers return: the executor assigned to a model, the next
one in turn (with the index per model), the cheapest one by the estimated transfer.
The estimate sums, over the inputs, the cheapest link between the sites of a location and of
the executor; a link has a direction or both; without one the cost is infinite.
`select_media_worker` prefers the Worker that holds most of the inputs' bytes. `Selected`
is the set of the executors that are chosen by these definitions: one, or none where
selection fails.

### Ordering

What the comprehensions and `sorted` of the code do: `Those` picks the elements of a
sequence at some of its indices, in their order; `Sorted` enumerates a set by an order.

### Records

The five record operators as functions on sequences of records. A value keeps its kind
(null, missing, boolean, integer, float in tenths, text), as the code distinguishes them
when it compares, sums, groups and sorts; a JSON text is a sequence of characters where
the order by text decides. Operators fail where the code raises. What
`_load_json_records` makes of a file depends on its form: a list, an object with
`records`, or one object that is one record. The definitions were compared with the
Python functions on random inputs when they were written. `MCReference` also has TLC
evaluate that the order of values is total and transitive, for all kinds, and that the
union of intervals measures what they cover. `Values` and `IsFile` say what a JSON file can
hold; the proofs are about any such records.

### Lineage

The rows that sweeps read out of a trace: transfers, executions with their dependencies,
lineage, and whether the evidence of dependencies is complete, as computed in
`calibration_v0.py`. A trace is a set of events: the readers look events up by type, action
and artifact.

### Workflow

A run has a task (workflow, scheduler, placed inputs, plan) and processes: one per branch
and one for the final call, which waits for all of them. `Chain` gives each process its
calls, `Reads` what each call reads. A call is chosen a Worker (`Invoke`, `CallOperator`,
`AskWorkers`), localises its inputs one by one (`SkipLocal`, `Pull`, `PullFails`), is sent
(`Send`), served by a handler that reads the files in its Worker's store (`Serve`, `Break`)
and answered (`Receive`, `ReceiveError`, `TimeOut`). `Raise` is an exception: it ends the
workflow for its caller, while other branches go on until they end or are cancelled with
the program (`Cancel`). `planned` stands for one turn of a Planner's tools, which share
inputs and do not name a Worker. Files have a type, records where the operators compute
them, and the set of inputs they were made from, which the code does not keep: the
properties compare what the rows say with it. `executor.selected` (`Choice`) is the event
of model invocations and names the executor; the one that operator calls record is left
out, as no row is read from it. `Inspected` is the set of the inputs a workflow looks at:
all of them, but for the last of an odd number of images that are inspected in pairs.
`Origins` are the inputs that lie in every set of artifacts which holds the final one and,
with each artifact, what the lineage rows say it was derived from. The named
assumptions say what the code and its configuration give: `SHARD_WORKERS` are known Workers
and differ, executors are told apart by their ids. `KeepsTheBest` and `GroupsAddUp` name a
record of the inputs by input and place (`Wanted`), one that the final model is given by
branch and place (`Delivered`), so that equal records are counted apart.

## 4. The runs

States are distinct states. `CHECK_DEADLOCK FALSE` everywhere: these systems stop when all
calls have returned, all runs have ended or all is measured.

| Run | Instance | States | What it shows |
|---|---|---|---|
| `transfer_faults` | 3 calls, 2 references to one artifact, 3 Workers with a client and one without, all faults | 242 k | exclusion, bytes move once, recorded locations hold, answers recorded, `Placement` |
| `transfer_live` | 3 calls, 3 Workers, a listed source of the wrong size, timeouts and lost events, fair | 354 k | a wrong file never stands for good; every call returns; a rejected file takes no recorded copy with it as long as no handler outlives its call |
| `planner_tools` | 2 calls of any two kinds, 2 turns, lost events, fair | 612 k | usable ids, closed spans, finish last, history in the trace, `PlanningHistory`, the run returns |
| `planner_summary` | one delegation | | **violated** `StatefulReturnsLedger`, see section 7 |
| `directory_faults` | 3 processes of either program, every initial directory, failed writes, deaths, up to two branches left by a failed workflow, fair | 26 k | one writer, rejection for a cause, what run.end makes final, final results, results that were taken over stand, somebody runs |
| `code_tools` | 4 calls, 2 at a time, over several runs, a tracked and a new file, timeouts, rejected patches, test runs that may hang, fair | 340 k | budget, observations, labels, a run starts on the base commit, `AtomicWorkspace`; every request is answered unless a test run hangs, and every call returns even then |
| `code_new_file` | calls one at a time | | **violated** `SubmitsSolution` |
| `code_torn` | 2 calls of one turn | | **violated** `WholePatches` |
| `sweep_resume` | 2 series of 4 cells, 2 faults of any kind, fair | 323 k | measured once, rows tell results, everything accounted for, warm-up first, all is measured eventually |
| `sweep_unreadable` | 1 series, 1 fault: a death, a torn row or one with a separator | | **violated** `Resumable` |
| `reference_runs` | 19 tasks: all ten workflows, three schedulers, three turns of tools, plans that fail by themselves; 5 Workers, 4 executors, 1 fault anywhere, fair | 191 k | inputs present, replicas balanced, answered runs are quiet, evidence complete, lineage true, the best records and the totals of groups survive distribution, every run settles |
| `structured_groups` | a plan that orders its groups | | **violated** `TopKLimitsGroups` |

### Why the bounds are enough

- *Transfer.* Three calls let a second call pull beside a pull that was given up while a
  third one waits or reads; two references separate what a reference says from what the
  lock's key says; Worker `wc` gives two targets for one list, `x` a location without a
  client. In `transfer_live` a handler in one of the targets deletes what it fetched from
  the corrupt source while other calls, of the same and of another target, read and record
  copies; `LossIsLate` is about those of its behaviours in which no handler outlives its
  call, and the others are what the rest of the run is about. Artifacts do not interact except through references, so one is enough.
- *Planner.* Two calls show every pairwise interleaving, in one turn or in two. `spawn`
  does all that `delegate` does and may be refused, so the run leaves `delegate` out.
  Action ids are the only thing that grows with more calls.
- *RunDirectory.* With three processes two can race after a third one died, or one can
  take over what a second wrote while a third is turned away; the initial directory takes
  every form. Three branches: one fails, and of the two that are left one may record while
  the other has not ended.
- *CodeRun.* Two files are needed for half a patch; a tracked and a new one for `git
  clean`. Four calls: one reset each for two runs and two requests, one of which is still
  queued at the second reset. `NewCall` takes calls in a fixed order, as they do not
  differ before they are issued. Behind a test run that
  hangs there may wait a request of the same run, or the reset of the next.
- *Sweep.* Two workflows and a warm-up show the order of the schedule, two series the
  scope of resumption. Two faults: a fault in the resumption of what a fault has cut off.
  `MaxFaults` also bounds the number of runs.

- *Workflow.* Three branches, as the code has three shards and three videos; two models,
  one with three replicas; links with and without a direction and a Worker without any;
  shards with equal keys, null and missing fields, integers and floats; for the groups also
  shards whose keys are 1, 1.0, true, 0, false, the text "1", null and missing. One fault: each
  place where a call can fail, with the other branches in any state. Tasks are listed one
  by one because they must be ones that load (`IsTask`). `distributed_3x2` has five images:
  two pairs, and one that is left over.

Symmetry is used only in runs without liveness properties, on the calls of `Transfer`.

### Fairness

- `Transfer`: every await of the Controller is resumed and every handler goes on: it waits
  for a transfer between Workers only, whose client has a timeout. Faults are never required.
- `Planner`: the event loop runs what is ready, a file write ends or fails, requests to
  models and Workers end. The start of a run is not required.
- `RunDirectory`: a process that can take a step takes it, or dies.
- `CodeRun`: the loops run what is ready, a client waits no longer than its timeout, and
  `git` and file operations end, which is an assumption. Of a test run nothing is assumed:
  `code_tasks/server.py:284` awaits it without a limit, so that it may hold the lock for ever.
- `Workflow`: the event loop runs some coroutine as long as one can go on. That a handler
  ends what it serves is an assumption: requests to models have timeouts, but the ffmpeg and
  gst processes of `worker/service.py` have none. No handler of
  the model hangs. If one did, its caller would still get its timeout, and what would no
  longer hold is the half of `Settles` that speaks of handlers. That a fault or a
  cancellation happens is not required, and it need not be any one coroutine that runs.
- `Sweep`: an invocation goes on. That somebody invokes each series again and again is an
  assumption about its user and strong fairness, as invocations of the two series exclude
  each other.

## 5. What is proved

The proofs hold for every value of the constants under the named assumptions of the
modules.

- `TransferProofs`. `TypeCorrect` needs `SourceChosen` (a pull has a source, chosen before
  the start event). `TransfersExclude`: `LockInv` orders the calls of one key by `ahead`;
  of two calls inside, each would have to be in front of the other.
  `MovedOnce`: `OnceInv`, a call inside has a key that is not completed, which stays so as
  it is alone there, and a call that reports moved bytes has completed its key.
  `WrongSizeLeaves` assumes that no Worker dies: a file that is wrong was left by the
  handler now in `reject`, and whichever step removes that handler replaces the file.
  `RecordedLocationsHold`: no file is ever bad with intact sources, so no pull deletes
  anything (`CopyInv`), every recorded location and completed key has its copy, and a pull
  that answered has published (`ListInv`). Without that strengthening the invariant is not
  inductive: a handler in `reject` could delete a recorded copy. `AnswersRecorded` follows
  from the same invariant. `PatientLocationsHold` is about any sources and any
  faults, in a behaviour in which no handler outlives its call (`HandlersAwaited`): it then
  runs only while its call holds the lock (`PatientInv`), so that no other handler of that
  key is at work, what it has seen of its file stays true, and it deletes only a file that
  it wrote itself and that nobody has recorded (`GoodInv`).
  `TransferRefines`: each step maps to one step of `Placement` or to none.
- `RunDirectoryProofs`. `TypeCorrect`. `OneWriter`: `OwnerInv` says that a process past
  `touch` is the one that reserved, and all there is in the directory is the reserver's;
  `mkdir` alone gives no ownership, which is why the invariant speaks of `touch`.
  `EndIsFinal`: `EndInv`, after run.end no process is in a stage that writes a file or an
  end. Only branches record then, and `LateInv` says whose: those of a process of a sweep
  whose run failed or raised, so that by `OutcomeInv` the result says failure.
  `SkippedResultsStand`: `SweepInv`, in a sweep the owner of a directory with a result is
  past every step that could write one, as its handler is behind it and it has only
  run.end left; an owner that has not got there is the only one that may write.
  `RefusedForCause`: `CauseInv`, what a process was refused for stays: a file keeps its
  name, a reservation its owner, a saved file its place. `OutcomeTold`: `OutcomeInv`, a
  process about to record run.end has saved the result of its stage, success or failure,
  and by `OwnerInv` nobody else can have saved one since.
- `PlannerProofs`. `TypeCorrect`, with the steps of a call sorted into completions and
  `Plain` ones. `FinishLast`: `QueueInv`, a coroutine has at most one event in the queue,
  at a label that records one and never after a loss it has not handled, and outside
  `tools` every call is settled. `HistoryKept`, the refinement of `PlanningHistory`:
  `ChainInv` says that the states in the trace, then those in the queue, are prefixes of
  the ledger in growing order, and that whoever waits for one is at label `ledger`;
  `ToldInv`, that a state kept for a reply is in the trace once its call has left that
  label, unless the answer is an error. Without the queue in it neither is inductive: the
  order in the file is the order of the queue. `TraceWhole`: `TraceInv`, without a loss the
  trace holds exactly the first states and the queue all the others. `UsableIds`:
  `UsableInv`, an output is registered at every label where it is summarised. `SpansEnd`:
  `SpanInv` counts the events of a coroutine in the trace and in the queue; a coroutine that
  has lost none has recorded one start more than ends at the labels between the two, and
  as many elsewhere. All safety properties of `Planner` that a run checks are proved.
- `CodeRunProofs`. `TypeCorrect`. `BudgetKept`: the counter bounds the calls that have
  reached the Worker (`BudgetInv`), as they are counted in the step that checks it and
  before they are sent. `FedOnce`: a returned result of a run is either in the list of the
  next model call or an input of one that was made, never both (`FedInv`). `StartsFresh`:
  the lock serves requests first come, first served (`LockInv`), and the reset is the last
  of its queue until it is done, as its run sends nothing before; so whatever an earlier
  run left there is in front of it (`FreshInv`). `LabelsTrue`: `LabelInv`, while calls are
  made one at a time a call is alone between its issue and its receipt (`Alone`), so that
  the tree stands still under one that looks, and what was read under the present version
  is still in the tree unless a change has begun (`LookedRight`); the change that was made
  is the next to be received, and its receipt makes a new version before anything else is
  labelled. `WorkerIsAtomic`: a handler that writes
  or scans holds the lock, and what it has written or read so far is part of one tree
  (`AtomInv`); an unfinished write is not committed.
- `SweepProofs`. `MeasuredOnce` and `RowsTellResults`: while an invocation is at work,
  what it knows is what the file says (`SessionInv`), its cell is not completed and its
  run has no row, and the directory of the run says what the stage says (`RunInv`). Rows
  of earlier invocations do not change, as only the run without a row is written to.
  `TypeCorrect` rests on lemmas about the schedule (`Division`, `Quotient`, `Schedule`):
  the divisions that turn a position into a group, an attempt and a workflow stay in range.
  `WarmedUp` and `NothingLeftOut` follow from one invariant, `DoneInv`: each position that
  an invocation has passed is completed in the file or reported by it as failed. For the
  former, `WarmUpsPrecede` says of the schedule that before a measured attempt come the
  warm-ups of all workflows of its group, so that these have rows when the attempt gets
  one; for the latter, `CellAt` says that every cell has a position. Rows are only
  appended, so an order that holds among them is kept, a torn or an open row included.
- `RecordProofs` is about the operators, without state. The order of values is one of the
  kinds first, told by the first character of a JSON text, then of numbers, texts or
  booleans among themselves, and of integers and floats by their quantity; where it takes
  the JSON texts it is the order of texts, which is total (`TextsCompared`). Hence records
  are ordered totally by any criteria, then by text, then by their place. `TopKKeepsTheBest`
  follows by counting: the n-th of the sorted records has n - 1 in front of it. Recursive
  functions and sequences of any length are reasoned about by their least counterexample
  (`Least`, `Stepwise`), as no prover takes the library's induction theorems. The other
  half of the module follows labelled records through the operators: rows list a set of
  records if each stands in one place of them (`Lists`), and loading, filtering, selecting,
  deriving keep that (`LoadedLists`, `FilterLists`, `SelectLists`, `DeriveLists`).
- `WorkflowProofs`. `TypeCorrect`, `InputsArePresent`, `NothingLeftBehind`, for any tasks,
  Workers, links and number of faults, from one inductive invariant with these parts.
  `Underway`: a call under way is one of a process of the run, reads artifacts with a known
  place, and what has returned has one. `Served`: a process has at most one handler, for
  the call it waits for or one it has given up; without it a handler of an old call could
  be taken for that of the next. `Supplied`: a recorded location holds its artifact, and the
  target of a call holds the inputs it has dealt with; this is what `InputsPresent` needs at
  `Send`, and it survives pulls that fail after the file arrived because stores only grow.
  `Concluded`: the final call starts after every branch is done, and the caller is answered
  after the final call, so that nothing can be left.
- `TraceProofs`, on top of that invariant. `CallsAreShared`: `Those` is a bijection between
  its indices and positions (`RankOnto`, `ThoseAre`), so the candidates of a model are its
  replicas, each once; `TurnInv` says that the replicas before the index of the model have
  been chosen once more than the others. The index is read and written in one step with
  the choice, and a model's index moves with its own choices only.
  `TracesComplete`: `TraceInv` says what events there are. `Recorded`: each call that has
  returned has its request, its end and its artifact, and nothing else has an end.
  `Explained`: an event of a transfer tells a call that reads the artifact, the Worker of
  that call and the first place of the artifact; `Owed`: a location other than the first
  one has such an event; `Brought`: what a call reads has come to its Worker. A row could
  still name a transfer that was made for another call. That this does not happen rests on
  the shape of the workflows: an artifact of a measured run is read by one call only
  (`ReadsOnce`, from `BranchesApart`: branches share no inputs, whichever way a workflow
  divides them). Turns of a Planner's tools do share inputs, and of them the property says
  nothing. `LineageIsTrue` has two halves. The rows lead back from the final artifact
  along the chain of each branch to its inputs, whatever the length of the chain (a
  least-number argument, `Least`), and the branches together cover what the workflow
  inspects (`BranchesCover`); and the files are made of what the calls read (`Sourced`,
  `ResultSources`: an operator that makes a file makes it of all its inputs).
  `BestAreKept`: a file of records is what its operator makes of the files that its call
  reads (`Reproducible`, an invariant that needs `Sourced`: files do not change once they
  are made). Followed along the chain of a branch, the last file of a shard is the best
  of the wanted records of that shard in the shape of the plan (`ShardRecords`, by the
  listings of `RecordProofs`); the shards together have all of them (`RecordsCovered`); and
  a record that fewer than `limit` of all records precede is preceded by fewer of its own
  shard.

The type invariants of all components are proved and therefore not checked by a run as
well.

Only model-checked: all liveness properties (out of the prover's reach), and
`GroupsAddUp`, which speaks of sums over groups of records; its members and items are those
of `ShardRecords`, but the sums need induction over data. All other safety properties that
runs check are proved.

## 6. Not modelled, and known limits

- With a listed source of the wrong size *and* a timeout, the handler that was given up
  may delete, as its own wrong file, the good copy that a retry has written from another
  source. `LocationSound` does not hold then. It is checked and proved with intact
  sources and any faults, and, as `LossIsLate`, with any sources where no handler outlives
  its call.
- A Worker that dies between `os.replace` and the deletion of a wrong file keeps it; later
  pulls report an error and the artifact stays out of reach there. Temporaries of dead
  handlers stay, too.
- An append to a trace is whole or not at all; readers of torn traces are not modelled.
  (`Sweep` does model torn rows.)
- `CodeRun`: patches do not delete files; `git apply` does not fail half-way; a request
  given up before it arrives does not arrive; ignored files are left out; runs follow one
  another on one Worker.
- `code_tasks/experiment.py:298` resets the Worker before it reserves the run: a second
  process started by mistake resets the checkout of the first. The model has one process.
- `RunDirectory`: of `calibration.py` the sum over the trace that follows run.end is left
  out; if it raises, the invocation ends with the result in place. The sum of a failed run
  is taken (line 730) before branches that are left have recorded theirs, and a later
  invocation that takes the row over sums again (line 337); no text says what the sums of a
  failed row are. Summaries are formatting.
- `LabelsNameContents` is about runs whose calls come one at a time and are not given up. Of
  concurrent changes, or one whose response was lost, nothing says what a version names.
- A trace is read with `splitlines()` as rows are (`scope_expansion_v0.py:544`,
  `calibration.py:291`, written by `tracing/recorder.py:138`): an event with a Unicode line
  separator makes the analysis of its run fail, which `Sweep` has as an error of the analysis.
- `calibration.py:188` divides the number of images by two and leaves the last one of an
  odd number out, and a row that is taken over counts the model calls of six images
  (`calibration.py:257`). The repository's sweep has six; no text of it speaks of others.
  `LineageTrue` says that the last image is left over and no other.
- `Workflow`: an event that cannot be written (`runtime.py:125-148` in `Invoke`,
  `execution/manager.py:60, 94, 111` around a call) raises in its branch; the model leaves
  that out, except in pulls, where it is one of the ways to fail. Such a branch ends like
  one whose handler broke, but its file may be there. Prompts, tokens, sizes in bytes and scores are left out; media operators and
  models make an artifact of a type and with sources. `scope_expansion_v0.py:815` writes
  that its evidence is complete without computing it; the model computes it as
  `calibration_v0.py` does, on those workflows as well. A failed run's branches do go on
  into the next run of a sweep (`AnsweredIsQuiet` is about answered runs); the next run
  itself is not in the model.
- `Records`: records are flat (no dotted paths), numbers have at most one decimal, NaN is
  left out: with it the order is not total (`worker/service.py:356`).
- `transfer.py:88` pulls from the first location listed, not from the one whose cost the
  scheduler had in mind; both are modelled as they are, and nothing states a relation.
- In `Sweep` a workflow and the analysis of its trace are one step each. A measured attempt
  may be completed although its warm-up failed, and the warm-up is then repeated after it
  (`WarmUpFirst` says only that it was tried).
- `CodeRun` has every tool, but `code_tools` calls `search`, `test`, `patch` and `submit`:
  an `edit` is a patch of one file, and `read` does not change anything.
- The scheduler of code tasks serves one executor. `pilot.py`, `bench.py` and the other
  drivers run one experiment after the other. Reports, statistics, command lines and
  configuration have no state and are left out.

## 7. Where code and documentation disagree

- `planner_summary`: README.md:74-76 says that `stateful` returns the planning ledger
  after each completed delegation. A delegation that completed and is in the ledger, but
  whose output cannot be read back, is answered with an error text and no ledger
  (`planner/tools.py:106-116`).
- `code_new_file`: `submit` diffs tracked files only, so a file that a patch created is
  not part of the submission (`code_tasks/server.py:226`).
- `code_torn`: `submit` takes no lock and may hand in half of a patch of the same turn
  (`code_tasks/server.py:224`).
- `sweep_unreadable`: "Each cell is resumable" (configs/scope_expansion_v0/README.md:36),
  but one line that is not JSON makes `_completed_keys` raise in every later invocation
  (`scope_expansion_v0.py:505`). A row that was torn leaves one, and so does a whole row,
  with no crash at all: rows are written with `ensure_ascii=False` (line 841) and read with
  `str.splitlines()` (line 503), which also cuts at U+2028, U+2029 and U+0085, and the
  answer of a model may hold one of these. The trace that TLC prints tears a row; with
  `Faults = {"separator"}` it writes a whole one.
- `structured_groups`: a plan may order the groups it has aggregated
  (`longbench_v2.py:194-198`), and `top_k_records` is to "order generic JSON records
  deterministically and retain a prefix" (`worker/service.py:1205`), but it is given the
  object that `aggregate_records` writes, whose rows are under `groups`
  (`worker/service.py:1123`); `_load_json_records` unwraps `records` only
  (`worker/service.py:117`) and takes the whole object for one record. Neither the order
  nor the limit reaches the groups.
