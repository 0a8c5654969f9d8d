------------------------------ MODULE Planner ------------------------------
(***************************************************************************)
(* The Coordinator's run (planner/coordinator.py): turns of the language   *)
(* model under the hooks that trace it (planner/trace_hooks.py), the tool  *)
(* calls of a turn, which run concurrently (planner/tools.py), the         *)
(* artifact catalog (planner/context.py), the planning ledger              *)
(* (planner/ledger.py), the invocation path below the tools                *)
(* (runtime/runtime.py, execution/manager.py) and the trace recorder's     *)
(* queue (tracing/recorder.py).                                            *)
(*                                                                         *)
(* Every party is a coroutine of one event loop.  `record` suspends its    *)
(* caller until the recorder, which serves callers in the order they came, *)
(* has written the event; between two suspensions a coroutine is atomic.   *)
(* An output artifact carries the name of the call that produced it.       *)
(***************************************************************************)
EXTENDS Naturals, Sequences, FiniteSets

CONSTANTS
  Calls,          \* tool calls the language model may make during the run
  Inputs,         \* ids of the initial artifacts
  NoArtifact,     \* placeholder: the call has no arguments yet
  Kinds,          \* the kinds of tools in use, a subset of AllKinds
  MaxTurns,       \* Coordinator's max_turns
  Coordinator,    \* the coroutine that drives the turns
  PlannerHarness, \* "minimal", "stateful" or "efficient"
  Faults          \* {"trace"} when the trace may fail to be written

(* "process" is process_local_artifact and "media" the Worker operators.   *)
AllKinds == {"delegate", "spawn", "process", "media", "inspect"}

(* The kinds that invoke a model and count as completed invocations, and   *)
(* the ones among them whose reply carries the planning state.             *)
Invocations == {"delegate", "spawn", "process"}
Reporting == {"delegate", "spawn"}

ASSUME PlannerAssumption ==
  /\ Calls \cap Inputs = {}
  /\ NoArtifact \notin Calls \cup Inputs
  /\ Kinds \subseteq AllKinds
  /\ MaxTurns \in Nat \ {0}
  /\ Coordinator \notin Calls
  /\ PlannerHarness \in {"minimal", "stateful", "efficient"}
  /\ Faults \subseteq {"trace"}

VARIABLES
  phase,      \* where the Coordinator is
  turn,       \* PlannerTraceHooks._turn_count
  active,     \* PlannerTraceHooks._active: an LLM call is open in the trace
  kind,       \* kind[c]: the tool that call c uses
  used,       \* used[c]: the artifact id call c names
  action,     \* action[c]: the number in the action id of call c
  pc,         \* pc[c]: the event call c is recording, or what it waits for
  planning,   \* planning[c]: planning_state of call c, {} when it has none
  reply,      \* reply[c]: how call c was answered
  counter,    \* PlannerContext._action_counter
  catalog,    \* ids in ArtifactCatalog._artifacts
  ledger,     \* PlanningLedger._completed, in insertion order
  queue,      \* events waiting for, or being written under, the trace's lock
  trace,      \* trace[o]: the types of the events of coroutine o in the file
  ledgerLog,  \* the states in the planner.ledger.updated events of the file
  raised,     \* coroutines that have yet to handle the loss of an event
  lost        \* coroutines an event of which could not be written

runVars == <<phase, turn, active>>
callVars == <<kind, used, action, pc, planning, reply>>
planVars == <<counter, catalog, ledger>>
fileVars == <<trace, ledgerLog, raised, lost>>
vars == <<runVars, callVars, planVars, queue, fileVars>>

Artifacts == Inputs \cup Calls
Coroutines == Calls \cup {Coordinator}
Elements(list) == {list[i] : i \in 1..Len(list)}

CoordinatorPhases ==
  {"idle", "initialize", "start", "model", "answer", "tools", "pending",
   "finish", "done"}
Waits == {"localize", "run", "download"}
Steps ==
  {"called", "announce", "request", "selected", "placed", "start", "end",
   "failed", "created", "ledger", "inspect", "inspected"} \cup Waits

EventTypes ==
  {"planner.ledger.initialized", "planner.ledger.updated",
   "planner.llm.start", "planner.llm.end", "planner.finish",
   "planner.action", "execution.request", "executor.selected",
   "worker.execution.start", "worker.execution.end", "artifact.created",
   "artifact.inspect.start", "artifact.inspect.end"}
-----------------------------------------------------------------------------
(* ---- the recorder ---- *)

RecordState(o, type, state) ==
  queue' = Append(queue, [owner |-> o, type |-> type, state |-> state])
Record(o, type) == RecordState(o, type, {})

Recording(o) == \E i \in 1..Len(queue) : queue[i].owner = o

\* Bug variant: events are written in the background, without being awaited.
WrittenBug(o) == o \notin raised

\* o's last event is in the file.
Written(o) == ~Recording(o) /\ o \notin raised

\* Bug variant: an append that raises does not give the lock back.
WriteStuckBug ==
  /\ queue # <<>>
  /\ LET event == Head(queue) IN
     /\ event.owner \notin raised
     /\ \/ /\ trace' = [trace EXCEPT ![event.owner] = Append(@, event.type)]
           /\ ledgerLog' = IF event.type = "planner.ledger.updated"
                           THEN Append(ledgerLog, event.state) ELSE ledgerLog
           /\ queue' = Tail(queue)
           /\ UNCHANGED <<raised, lost>>
        \/ /\ "trace" \in Faults
           /\ raised' = raised \cup {event.owner}
           /\ lost' = lost \cup {event.owner}
           /\ UNCHANGED <<trace, ledgerLog, queue>>
  /\ UNCHANGED <<runVars, callVars, planVars>>

\* Bug variant: whoever gets the lock first writes first, in no fixed order.
WriteBug ==
  \E i \in 1..Len(queue) :
    LET event == queue[i] IN
    /\ queue' = SubSeq(queue, 1, i - 1) \o SubSeq(queue, i + 1, Len(queue))
    /\ trace' = [trace EXCEPT ![event.owner] = Append(@, event.type)]
    /\ ledgerLog' = IF event.type = "planner.ledger.updated"
                    THEN Append(ledgerLog, event.state) ELSE ledgerLog
    /\ UNCHANGED <<runVars, callVars, planVars, raised, lost>>

(* The event at the head of the lock's queue is appended to trace.jsonl,   *)
(* or its coroutine gets the error of the file system.                     *)
Write ==
  /\ queue # <<>>
  /\ LET event == Head(queue) IN
     \/ /\ trace' = [trace EXCEPT ![event.owner] = Append(@, event.type)]
        /\ ledgerLog' = IF event.type = "planner.ledger.updated"
                        THEN Append(ledgerLog, event.state) ELSE ledgerLog
        /\ UNCHANGED <<raised, lost>>
     \/ /\ "trace" \in Faults
        /\ raised' = raised \cup {event.owner}
        /\ lost' = lost \cup {event.owner}
        /\ UNCHANGED <<trace, ledgerLog>>
  /\ queue' = Tail(queue)
  /\ UNCHANGED <<runVars, callVars, planVars>>

-----------------------------------------------------------------------------
Init ==
  /\ phase = "idle"
  /\ turn = 0
  /\ active = FALSE
  /\ kind = [c \in Calls |-> "none"]
  /\ used = [c \in Calls |-> NoArtifact]
  /\ action = [c \in Calls |-> 0]
  /\ pc = [c \in Calls |-> "idle"]
  /\ planning = [c \in Calls |-> {}]
  /\ reply = [c \in Calls |-> "none"]
  /\ counter = 0
  /\ catalog = Inputs
  /\ ledger = <<>>
  /\ queue = <<>>
  /\ trace = [o \in Coroutines |-> <<>>]
  /\ ledgerLog = <<>>
  /\ raised = {}
  /\ lost = {}

(* ---- the Coordinator: run, the Runner it calls and the trace hooks ---- *)

Enter(p) == phase' = p

\* The finish event, of success or of failure, takes an action id.
RecordFinish ==
  /\ counter' = counter + 1
  /\ Record(Coordinator, "planner.finish")
  /\ Enter("finish")

(* The ledger's initial state is recorded before the Runner starts.        *)
Initialize ==
  /\ phase = "idle"
  /\ Record(Coordinator, "planner.ledger.initialized")
  /\ Enter("initialize")
  /\ UNCHANGED <<turn, active, callVars, planVars, fileVars>>

Settled(c) == pc[c] \in {"idle", "replied"}

(* The Runner gathers every tool call of a turn before the next turn.      *)
TurnReady ==
  \/ phase = "initialize" /\ Written(Coordinator)
  \/ phase = "tools" /\ \A c \in Calls : Settled(c)

(* on_llm_start, unless the turns are used up, which is an error.          *)
StartTurn ==
  /\ TurnReady
  /\ turn < MaxTurns
  /\ turn' = turn + 1
  /\ counter' = counter + 1
  /\ Record(Coordinator, "planner.llm.start")
  /\ Enter("start")
  /\ UNCHANGED <<active, callVars, catalog, ledger, fileVars>>

ExhaustTurns ==
  /\ TurnReady
  /\ turn = MaxTurns
  /\ RecordFinish
  /\ UNCHANGED <<turn, active, callVars, catalog, ledger, fileVars>>

(* _active is set once the start event is in the file.                     *)
CallModel ==
  /\ phase = "start"
  /\ Written(Coordinator)
  /\ active' = TRUE
  /\ Enter("model")
  /\ UNCHANGED <<turn, callVars, planVars, queue, fileVars>>

ModelAnswers ==
  /\ phase = "model"
  /\ active' = FALSE
  /\ Record(Coordinator, "planner.llm.end")
  /\ Enter("answer")
  /\ UNCHANGED <<turn, callVars, planVars, fileVars>>

(* finish_pending closes the start event of a call that raised.            *)
ModelFails ==
  /\ phase = "model"
  /\ active' = FALSE
  /\ Record(Coordinator, "planner.llm.end")
  /\ Enter("pending")
  /\ UNCHANGED <<turn, callVars, planVars, fileVars>>

(* The answer is a set of tool calls, which may name unknown artifacts ... *)
IssueCalls ==
  /\ phase = "answer"
  /\ Written(Coordinator)
  /\ \E issued \in SUBSET {c \in Calls : pc[c] = "idle"} :
        /\ issued # {}
        /\ \E tools \in [issued -> Kinds], ids \in [issued -> Artifacts] :
              /\ kind' = [c \in Calls |->
                            IF c \in issued THEN tools[c] ELSE kind[c]]
              /\ used' = [c \in Calls |->
                            IF c \in issued THEN ids[c] ELSE used[c]]
        /\ pc' = [c \in Calls |-> IF c \in issued THEN "called" ELSE pc[c]]
  /\ Enter("tools")
  /\ UNCHANGED <<turn, active, action, planning, reply, planVars, queue, fileVars>>

(* ... or ends the run: a text that becomes the result, or an empty or     *)
(* malformed output that becomes an error.                                 *)
FinishRun ==
  /\ \/ phase \in {"answer", "pending"} /\ Written(Coordinator)
     \/ phase \in {"start", "answer"} /\ Coordinator \in raised
  /\ raised' = raised \ {Coordinator}
  /\ RecordFinish
  /\ UNCHANGED <<turn, active, callVars, catalog, ledger, trace, ledgerLog,
                 lost>>

(* run returns or raises; an event that cannot be written outside the try  *)
(* block, or in its handler, ends the run without a finish event.          *)
Return ==
  /\ \/ phase = "finish" /\ ~Recording(Coordinator)
     \/ phase \in {"initialize", "pending"} /\ Coordinator \in raised
  /\ Enter("done")
  /\ UNCHANGED <<turn, active, callVars, planVars, queue, fileVars>>

-----------------------------------------------------------------------------
(* ---- a tool call ---- *)

Goto(c, label) == pc' = [pc EXCEPT ![c] = label]
At(c, label) == pc[c] = label /\ Written(c)

\* The call's next event is handed to the recorder.
Await(c, label, type) == Goto(c, label) /\ Record(c, type)

Answer(c, result) ==
  /\ Goto(c, "replied")
  /\ reply' = [reply EXCEPT ![c] = result]
  /\ UNCHANGED queue

(* The tool takes an action id and records what it is asked to do; a       *)
(* dynamic invocation of an unknown model fails before that.               *)
Announce(c) ==
  /\ pc[c] = "called"
  /\ counter' = counter + 1
  /\ action' = [action EXCEPT ![c] = counter + 1]
  /\ Await(c, "announce", "planner.action")
  /\ UNCHANGED <<runVars, kind, used, planning, reply, catalog, ledger, fileVars>>

RejectModel(c) ==
  /\ pc[c] = "called"
  /\ kind[c] = "spawn"
  /\ Answer(c, "error")
  /\ UNCHANGED <<runVars, kind, used, action, planning, planVars, fileVars>>

(* The id is looked up.  An unknown id is an error; so is an unknown       *)
(* agent, an unsuitable type or the lack of an executor, and an artifact   *)
(* that cannot be inspected.                                               *)
Request(c) ==
  /\ At(c, "announce")
  /\ used[c] \in catalog
  /\ IF kind[c] = "inspect" THEN Await(c, "inspect", "artifact.inspect.start")
                            ELSE Await(c, "request", "execution.request")
  /\ UNCHANGED <<runVars, kind, used, action, planning, reply, planVars, fileVars>>

RejectRequest(c) ==
  /\ At(c, "announce")
  /\ used[c] \notin catalog \/ kind[c] # "media"
  /\ Answer(c, "error")
  /\ UNCHANGED <<runVars, kind, used, action, planning, planVars, fileVars>>

(* A model invocation records its executor, then brings its inputs there;  *)
(* a Worker operator looks for a Worker, brings the inputs and records the *)
(* Worker.                                                                 *)
Select(c) ==
  /\ At(c, "request")
  /\ IF kind[c] = "media" THEN Goto(c, "localize") /\ UNCHANGED queue
                          ELSE Await(c, "selected", "executor.selected")
  /\ UNCHANGED <<runVars, kind, used, action, planning, reply, planVars, fileVars>>

Localize(c) ==
  /\ At(c, "selected")
  /\ Goto(c, "localize")
  /\ UNCHANGED <<runVars, kind, used, action, planning, reply, planVars, queue,
                 fileVars>>

Localized(c) ==
  /\ pc[c] = "localize"
  /\ IF kind[c] = "media" THEN Await(c, "placed", "executor.selected")
                          ELSE Await(c, "start", "worker.execution.start")
  /\ UNCHANGED <<runVars, kind, used, action, planning, reply, planVars, fileVars>>

StartOperator(c) ==
  /\ At(c, "placed")
  /\ Await(c, "start", "worker.execution.start")
  /\ UNCHANGED <<runVars, kind, used, action, planning, reply, planVars, fileVars>>

\* No Worker has the operator, or a transfer fails.
LocalizeFails(c) ==
  /\ pc[c] = "localize"
  /\ Answer(c, "error")
  /\ UNCHANGED <<runVars, kind, used, action, planning, planVars, fileVars>>

Run(c) ==
  /\ At(c, "start")
  /\ Goto(c, "run")
  /\ UNCHANGED <<runVars, kind, used, action, planning, reply, planVars, queue,
                 fileVars>>

(* The Worker answers with one output, or with an error, an answer of some *)
(* other executor, or none in time.                                        *)
RunSucceeds(c) ==
  /\ pc[c] = "run"
  /\ Await(c, "end", "worker.execution.end")
  /\ UNCHANGED <<runVars, kind, used, action, planning, reply, planVars, fileVars>>

\* Bug variant: the error of the Worker is passed on unrecorded.
RunFailsBug(c) ==
  /\ pc[c] = "run"
  /\ Answer(c, "error")
  /\ UNCHANGED <<runVars, kind, used, action, planning, planVars, fileVars>>

RunFails(c) ==
  /\ pc[c] = "run"
  /\ Await(c, "failed", "worker.execution.end")
  /\ UNCHANGED <<runVars, kind, used, action, planning, reply, planVars, fileVars>>

RecordOutput(c) ==
  /\ At(c, "end")
  /\ Await(c, "created", "artifact.created")
  /\ UNCHANGED <<runVars, kind, used, action, planning, reply, planVars, fileVars>>

(* Summarising an output reads it back from its Worker when it is a small  *)
(* text; whether it is one is left open.                                   *)
Summarize(c) ==
  \/ Answer(c, "ok")
  \/ Await(c, "inspect", "artifact.inspect.start") /\ UNCHANGED reply

\* Bug variant: the output is not registered in the catalog.
CompleteBug(c) ==
  /\ At(c, "created")
  /\ kind[c] \in Invocations
  /\ ledger' = Append(ledger, c)
  /\ LET state == Elements(ledger) \cup {c} IN
     /\ RecordState(c, "planner.ledger.updated", state)
     /\ planning' = [planning EXCEPT ![c] =
          IF kind[c] \in Reporting /\ PlannerHarness # "minimal" THEN state ELSE {}]
  /\ Goto(c, "ledger")
  /\ UNCHANGED <<runVars, kind, used, action, reply, counter, catalog, fileVars>>

(* The output is registered and the invocation added to the ledger; the    *)
(* state that results is recorded, and kept for the reply if the tool and  *)
(* the harness report it.                                                  *)
Complete(c) ==
  /\ At(c, "created")
  /\ kind[c] \in Invocations
  /\ catalog' = catalog \cup {c}
  /\ ledger' = Append(ledger, c)
  /\ LET state == Elements(ledger) \cup {c} IN
     /\ RecordState(c, "planner.ledger.updated", state)
     /\ planning' = [planning EXCEPT ![c] =
          IF kind[c] \in Reporting /\ PlannerHarness # "minimal" THEN state ELSE {}]
  /\ Goto(c, "ledger")
  /\ UNCHANGED <<runVars, kind, used, action, reply, counter, fileVars>>

CompleteOperator(c) ==
  /\ At(c, "created")
  /\ kind[c] = "media"
  /\ catalog' = catalog \cup {c}
  /\ Summarize(c)
  /\ UNCHANGED <<runVars, kind, used, action, planning, counter, ledger, fileVars>>

\* Bug variant: an update that could not be recorded is passed over.
SummarizeCompletedBug(c) ==
  /\ pc[c] = "ledger"
  /\ ~Recording(c)
  /\ Summarize(c)
  /\ UNCHANGED <<runVars, kind, used, action, planning, planVars, fileVars>>

SummarizeCompleted(c) ==
  /\ At(c, "ledger")
  /\ Summarize(c)
  /\ UNCHANGED <<runVars, kind, used, action, planning, planVars, fileVars>>

(* inspect_text: a download between two events.                            *)
Download(c) ==
  /\ At(c, "inspect")
  /\ Goto(c, "download")
  /\ UNCHANGED <<runVars, kind, used, action, planning, reply, planVars, queue,
                 fileVars>>

DownloadEnds(c) ==
  /\ pc[c] = "download"
  /\ \E label \in {"inspected", "failed"} : Await(c, label, "artifact.inspect.end")
  /\ UNCHANGED <<runVars, kind, used, action, planning, reply, planVars, fileVars>>

Inspected(c) ==
  /\ At(c, "inspected")
  /\ Answer(c, "ok")
  /\ UNCHANGED <<runVars, kind, used, action, planning, planVars, fileVars>>

(* The tool raises, and the Agents SDK turns that into an error text for   *)
(* the model.                                                              *)
Fail(c) ==
  /\ \/ At(c, "failed")
     \/ c \in raised /\ pc[c] \notin {"inspected", "replied"}
  /\ Answer(c, "error")
  /\ UNCHANGED <<runVars, kind, used, action, planning, planVars, fileVars>>

(* The end event of an inspection is written in the try block: when that   *)
(* fails, the handler writes one that says so.                             *)
InspectedUnrecorded(c) ==
  /\ c \in raised
  /\ pc[c] = "inspected"
  /\ raised' = raised \ {c}
  /\ Await(c, "failed", "artifact.inspect.end")
  /\ UNCHANGED <<runVars, kind, used, action, planning, reply, planVars, trace,
                 ledgerLog, lost>>
-----------------------------------------------------------------------------
Tool(c) ==
  \/ Announce(c) \/ RejectModel(c)
  \/ Request(c) \/ RejectRequest(c)
  \/ Select(c)
  \/ Localize(c) \/ Localized(c) \/ LocalizeFails(c) \/ StartOperator(c)
  \/ Run(c) \/ RunSucceeds(c) \/ RunFails(c)
  \/ RecordOutput(c)
  \/ Complete(c) \/ CompleteOperator(c)
  \/ SummarizeCompleted(c)
  \/ Download(c) \/ DownloadEnds(c)
  \/ Inspected(c) \/ InspectedUnrecorded(c)
  \/ Fail(c)

RunStep ==
  \/ Initialize \/ StartTurn \/ ExhaustTurns
  \/ CallModel \/ ModelAnswers \/ ModelFails
  \/ IssueCalls \/ FinishRun \/ Return

Next == Write \/ RunStep \/ \E c \in Calls : Tool(c)

Spec == Init /\ [][Next]_vars

(* The event loop runs what is ready, files are written or refused, and    *)
(* every request to a model or a Worker has a timeout.  Starting the run   *)
(* is the caller's business.                                               *)
FairSpec ==
  /\ Spec
  /\ WF_vars(Write)
  /\ WF_vars(phase # "idle" /\ RunStep)
  /\ \A c \in Calls : WF_vars(Tool(c))
-----------------------------------------------------------------------------
TypeOK ==
  /\ phase \in CoordinatorPhases
  /\ turn \in 0..MaxTurns
  /\ active \in BOOLEAN
  /\ kind \in [Calls -> Kinds \cup {"none"}]
  /\ used \in [Calls -> Artifacts \cup {NoArtifact}]
  /\ action \in [Calls -> Nat]
  /\ pc \in [Calls -> {"idle", "replied"} \cup Steps]
  /\ planning \in [Calls -> SUBSET Calls]
  /\ reply \in [Calls -> {"none", "ok", "error"}]
  /\ counter \in Nat
  /\ catalog \subseteq Artifacts
  /\ ledger \in Seq(Calls)
  /\ queue \in Seq([owner : Coroutines, type : EventTypes, state : SUBSET Calls])
  /\ trace \in [Coroutines -> Seq(EventTypes)]
  /\ ledgerLog \in Seq(SUBSET Calls)
  /\ raised \subseteq lost
  /\ lost \subseteq Coroutines

(* What the language model is told by a call that succeeds.                *)
Told(c) == IF reply[c] = "ok" THEN planning[c] ELSE {}

(* Every artifact id that a successful reply or the planning state in it   *)
(* has told the model is one the catalog resolves, so that the model can   *)
(* build on it.                                                            *)
TellsUsableIds ==
  \A c \in Calls :
    /\ reply[c] = "ok" /\ kind[c] # "inspect" => c \in catalog
    /\ Told(c) \subseteq catalog

(* If no completed invocation lost an event, the last state in the trace   *)
(* of a run that has returned is the whole ledger, and none was skipped:   *)
(* the history of completed invocations can be reconstructed from it.      *)
HistoryInTrace ==
  phase = "done" /\ Elements(ledger) \cap lost = {} /\ ledger # <<>> =>
    /\ Len(ledgerLog) = Len(ledger)
    /\ ledgerLog[Len(ledgerLog)] = Elements(ledger)

(* In a run that has returned no coroutine that could write all its events *)
(* left a start without its end, of a model call, an execution or an       *)
(* inspection, whichever way each of them ended.                           *)
Count(o, type) == Cardinality({i \in 1..Len(trace[o]) : trace[o][i] = type})
SpansClosed ==
  phase = "done" =>
    /\ Coordinator \notin lost =>
         Count(Coordinator, "planner.llm.start") = Count(Coordinator, "planner.llm.end")
    /\ \A c \in Calls \ lost :
         /\ Count(c, "worker.execution.start") = Count(c, "worker.execution.end")
         /\ Count(c, "artifact.inspect.start") = Count(c, "artifact.inspect.end")

(* planner.finish is the last thing the run records: when it is asked for, *)
(* no tool call is under way and none of their events is outstanding.      *)
FinishIsLast ==
  phase \in {"finish", "done"} =>
    /\ \A c \in Calls : Settled(c)
    /\ \A i \in 1..Len(queue) : queue[i].type = "planner.finish"

(* A call for a delegation or a dynamic invocation that is in the ledger   *)
(* has been answered with the planning state, if the harness is stateful.  *)
StatefulReturnsLedger ==
  \A c \in Elements(ledger) :
    kind[c] \in Reporting /\ PlannerHarness = "stateful" /\ pc[c] = "replied"
      => Told(c) # {}

(* Every run that is started returns.                                      *)
RunReturns == phase # "idle" ~> phase = "done"

(* The promise of module PlanningHistory.                                  *)
H == INSTANCE PlanningHistory WITH
       history <- ledger, published <- ledgerLog,
       told <- [c \in Calls |-> Told(c)]
HistorySpec == H!Spec
=============================================================================
