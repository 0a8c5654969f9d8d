--------------------------- MODULE PlannerProofs ---------------------------
(***************************************************************************)
(* Proofs about the Coordinator's run, for any calls, kinds of tools,      *)
(* inputs and number of turns, any harness, and with or without a trace    *)
(* that fails.                                                             *)
(***************************************************************************)
EXTENDS Planner, FiniteSetTheorems, TLAPS

USE PlannerAssumption
USE DEF AllKinds, Invocations, Reporting, Artifacts, Coroutines, CoordinatorPhases,
        Waits, Steps
-----------------------------------------------------------------------------
(* Types.                                                                  *)

Events == [owner : Coroutines, type : EventTypes, state : SUBSET Calls]
Labels == {"idle", "replied"} \cup Steps

\* What the steps of a call have in common: its own label and its own answer,
\* and an event of its own in the queue or none.
LEMMA AwaitType ==
  ASSUME TypeOK, NEW c \in Calls, NEW label \in Labels, NEW type \in EventTypes,
         Await(c, label, type)
  PROVE  /\ pc' \in [Calls -> Labels] /\ pc'[c] = label
         /\ \A d \in Calls \ {c} : pc'[d] = pc[d]
         /\ queue' = Append(queue, [owner |-> c, type |-> type, state |-> {}])
         /\ queue' \in Seq(Events)
<1>1. [owner |-> c, type |-> type, state |-> {}] \in Events
  BY DEF Events
<1>2. queue \in Seq(Events)
  BY DEF TypeOK, Events
<1>3. queue' = Append(queue, [owner |-> c, type |-> type, state |-> {}])
  BY DEF Await, Record, RecordState
<1>4. queue' \in Seq(Events)
  BY <1>1, <1>2, <1>3
<1>5. pc' \in [Calls -> Labels] /\ pc'[c] = label /\ \A d \in Calls \ {c} : pc'[d] = pc[d]
  BY DEF Await, Goto, TypeOK, Labels
<1> QED
  BY <1>3, <1>4, <1>5

LEMMA GotoType ==
  ASSUME TypeOK, NEW c \in Calls, NEW label \in Labels, Goto(c, label)
  PROVE  pc' \in [Calls -> Labels] /\ pc'[c] = label /\ \A d \in Calls \ {c} : pc'[d] = pc[d]
BY DEF Goto, TypeOK, Labels

LEMMA AnswerType ==
  ASSUME TypeOK, NEW c \in Calls, NEW result \in {"ok", "error"}, Answer(c, result)
  PROVE  /\ pc' \in [Calls -> Labels] /\ pc'[c] = "replied"
         /\ \A d \in Calls \ {c} : pc'[d] = pc[d] /\ reply'[d] = reply[d]
         /\ reply' \in [Calls -> {"none", "ok", "error"}] /\ reply'[c] = result
         /\ queue' = queue
BY DEF Answer, Goto, TypeOK, Labels

\* The steps of a call that do not complete an invocation, by what they do to
\* its label, its answer and the queue.
Waiting(c) == pc[c] \in {"called", "localize", "run", "download"}

Recorded == {"announce", "request", "selected", "placed", "start", "end", "failed",
             "created", "ledger", "inspect", "inspected"}

ToolAwaits(c) ==
  /\ \E label \in Recorded \ {"ledger"} : \E type \in EventTypes \ {"planner.ledger.updated"} :
       Await(c, label, type)
  /\ reply' = reply
  /\ Waiting(c) \/ c \notin raised'

ToolWaits(c) ==
  \E label \in {"localize", "run", "download"} :
    Goto(c, label) /\ Written(c) /\ UNCHANGED <<queue, reply>>

ToolAnswers(c) == \E result \in {"ok", "error"} : Answer(c, result)

Plain(c) ==
  /\ \/ ToolAwaits(c) /\ raised' \in {raised, raised \ {c}}
     \/ ToolWaits(c) /\ UNCHANGED raised
     \/ ToolAnswers(c) /\ UNCHANGED raised
  /\ pc[c] # "replied" /\ (pc[c] = "idle" => c \in raised)
  /\ Waiting(c) \/ Written(c) \/ c \in raised
  /\ UNCHANGED <<runVars, kind, used, planning, ledger, trace, ledgerLog, lost>>
  /\ \/ UNCHANGED <<counter, action>>
     \/ counter' = counter + 1 /\ action' = [action EXCEPT ![c] = counter + 1]
  /\ catalog \subseteq catalog' /\ catalog' \subseteq catalog \cup {c}

LEMMA ToolSteps ==
  ASSUME TypeOK, NEW c \in Calls, Tool(c)
  PROVE  Plain(c) \/ Complete(c)
<1> USE DEF runVars, planVars, fileVars
<1>1. CASE Announce(c)
  <2>1. ToolAwaits(c)
    BY <1>1 DEF Announce, ToolAwaits, Recorded, EventTypes, Waiting
  <2> QED
    BY <1>1, <2>1 DEF Announce, Plain, Waiting
<1>2. CASE RejectModel(c) \/ RejectRequest(c) \/ LocalizeFails(c) \/ Inspected(c) \/ Fail(c)
  <2>1. ToolAnswers(c)
    BY <1>2 DEF RejectModel, RejectRequest, LocalizeFails, Inspected, Fail, ToolAnswers
  <2> QED
    BY <1>2, <2>1 DEF RejectModel, RejectRequest, LocalizeFails, Inspected, Fail, Plain,
                      Waiting, At
<1>3. CASE Request(c) \/ Localized(c) \/ StartOperator(c) \/ RunSucceeds(c)
             \/ RunFails(c) \/ RecordOutput(c) \/ DownloadEnds(c)
  <2>1. ToolAwaits(c)
    BY <1>3 DEF Request, Localized, StartOperator, RunSucceeds, RunFails,
                RecordOutput, DownloadEnds, ToolAwaits, Recorded, EventTypes,
                Waiting, At, Written
  <2> QED
    BY <1>3, <2>1 DEF Request, Localized, StartOperator, RunSucceeds, RunFails,
                      RecordOutput, DownloadEnds, Plain, Waiting, At
<1>4. CASE Select(c)
  <2>1. ToolAwaits(c) \/ ToolWaits(c)
    BY <1>4 DEF Select, At, Written, ToolAwaits, ToolWaits, Recorded, EventTypes
  <2> QED
    BY <1>4, <2>1 DEF Select, Plain, At
<1>5. CASE Localize(c) \/ Run(c) \/ Download(c)
  <2>1. ToolWaits(c)
    BY <1>5 DEF Localize, Run, Download, At, ToolWaits
  <2> QED
    BY <1>5, <2>1 DEF Localize, Run, Download, Plain, At
<1>6. CASE CompleteOperator(c) \/ SummarizeCompleted(c)
  <2>1. ToolAwaits(c) \/ ToolAnswers(c)
    BY <1>6 DEF CompleteOperator, SummarizeCompleted, Summarize, ToolAwaits, ToolAnswers,
                Recorded, EventTypes, At, Written
  <2> QED
    BY <1>6, <2>1 DEF CompleteOperator, SummarizeCompleted, Plain, At
<1>7. CASE InspectedUnrecorded(c)
  <2>1. ToolAwaits(c)
    BY <1>7 DEF InspectedUnrecorded, ToolAwaits, Recorded, EventTypes
  <2> QED
    BY <1>7, <2>1 DEF InspectedUnrecorded, Plain
<1> QED
  BY <1>1, <1>2, <1>3, <1>4, <1>5, <1>6, <1>7 DEF Tool

LEMMA PlainType == ASSUME TypeOK, NEW c \in Calls, Plain(c) PROVE TypeOK'
<1>1. /\ pc' \in [Calls -> Labels] /\ queue' \in Seq(Events)
      /\ reply' \in [Calls -> {"none", "ok", "error"}]
  <2>1. CASE ToolAwaits(c)
    <3>1. PICK label \in Recorded, type \in EventTypes : Await(c, label, type) /\ reply' = reply
      BY <2>1 DEF ToolAwaits
    <3>2. label \in Labels
      BY DEF Recorded, Labels
    <3> QED
      BY <3>1, <3>2, AwaitType DEF TypeOK
  <2>2. CASE ToolWaits(c)
    BY <2>2, GotoType DEF ToolWaits, TypeOK, Events, Labels
  <2>3. CASE ToolAnswers(c)
    BY <2>3, AnswerType DEF ToolAnswers, TypeOK, Events
  <2> QED
    BY <2>1, <2>2, <2>3 DEF Plain
<1>2. action' \in [Calls -> Nat] /\ counter' \in Nat
  <2>1. \/ UNCHANGED <<counter, action>>
        \/ counter' = counter + 1 /\ action' = [action EXCEPT ![c] = counter + 1]
    BY DEF Plain
  <2>2. counter \in Nat /\ action \in [Calls -> Nat]
    BY DEF TypeOK
  <2>3. [action EXCEPT ![c] = counter + 1] \in [Calls -> Nat] /\ counter + 1 \in Nat
    BY <2>2
  <2> QED
    BY <2>1, <2>2, <2>3
<1>3. catalog' \subseteq Artifacts /\ raised' \subseteq lost'
  BY DEF Plain, TypeOK
<1>4. UNCHANGED <<phase, turn, active, kind, used, planning, ledger, trace, ledgerLog, lost>>
  BY DEF Plain, runVars
<1> QED
  BY <1>1, <1>2, <1>3, <1>4 DEF TypeOK, Events, Labels

LEMMA ElementsType ==
  ASSUME TypeOK
  PROVE  Elements(ledger) \subseteq Calls
BY DEF TypeOK, Elements

\* The completion of an invocation.
State(c) == Elements(ledger) \cup {c}

LEMMA CompleteType ==
  ASSUME TypeOK, NEW c \in Calls, Complete(c)
  PROVE  /\ TypeOK'
         /\ At(c, "created") /\ kind[c] \in Invocations
         /\ catalog' = catalog \cup {c}
         /\ ledger' = Append(ledger, c)
         /\ queue' = Append(queue, [owner |-> c, type |-> "planner.ledger.updated",
                                    state |-> State(c)])
         /\ planning'[c] \in {State(c), {}} /\ \A d \in Calls \ {c} : planning'[d] = planning[d]
         /\ pc'[c] = "ledger" /\ \A d \in Calls \ {c} : pc'[d] = pc[d]
         /\ UNCHANGED <<runVars, kind, used, action, reply, counter, fileVars>>
<1>1. State(c) \in SUBSET Calls
  BY ElementsType DEF State
<1>2. /\ At(c, "created") /\ kind[c] \in Invocations /\ catalog' = catalog \cup {c}
      /\ ledger' = Append(ledger, c)
      /\ queue' = Append(queue, [owner |-> c, type |-> "planner.ledger.updated",
                                 state |-> State(c)])
      /\ planning' = [planning EXCEPT ![c] =
           IF kind[c] \in Reporting /\ PlannerHarness # "minimal" THEN State(c) ELSE {}]
      /\ Goto(c, "ledger")
      /\ UNCHANGED <<runVars, kind, used, action, reply, counter, fileVars>>
  BY DEF Complete, RecordState, State
<1>3. [owner |-> c, type |-> "planner.ledger.updated", state |-> State(c)] \in Events
  BY <1>1 DEF Events, EventTypes
<1>4. queue \in Seq(Events) /\ ledger \in Seq(Calls)
  BY DEF TypeOK, Events
<1>5. queue' \in Seq(Events)
  BY <1>2, <1>3, <1>4
<1>6. ledger' \in Seq(Calls)
  BY <1>2, <1>4
<1>7. /\ planning' \in [Calls -> SUBSET Calls]
      /\ planning'[c] \in {State(c), {}} /\ \A d \in Calls \ {c} : planning'[d] = planning[d]
  BY <1>1, <1>2 DEF TypeOK
<1>8. pc' \in [Calls -> Labels] /\ pc'[c] = "ledger" /\ \A d \in Calls \ {c} : pc'[d] = pc[d]
  BY <1>2, GotoType DEF Labels
<1>9. TypeOK'
  BY <1>2, <1>5, <1>6, <1>7, <1>8 DEF TypeOK, runVars, fileVars, Events, Labels
<1> QED
  BY <1>2, <1>7, <1>8, <1>9

LEMMA HeadType ==
  ASSUME TypeOK, queue # <<>>
  PROVE  /\ Head(queue) \in Events /\ Head(queue) = queue[1]
         /\ Tail(queue) \in Seq(Events)
         /\ Len(Tail(queue)) = Len(queue) - 1 /\ Len(queue) \in Nat \ {0}
         /\ \A i \in 1..(Len(queue) - 1) : Tail(queue)[i] = queue[i + 1]
<1>1. queue \in Seq(Events)
  BY DEF TypeOK, Events
<1>2. Tail(queue) \in Seq(Events)
  BY <1>1
<1>3. Len(Tail(queue)) = Len(queue) - 1 /\ Len(queue) \in Nat \ {0}
  BY <1>1
<1>4. \A i \in 1..(Len(queue) - 1) : Tail(queue)[i] = queue[i + 1]
  BY <1>1, <1>3
<1>5. Head(queue) = queue[1] /\ Head(queue) \in Events
  BY <1>1
<1> QED
  BY <1>2, <1>3, <1>4, <1>5

LEMMA WriteType == ASSUME TypeOK, Write PROVE TypeOK'
<1> DEFINE event == Head(queue)
<1>1. queue # <<>> /\ queue' = Tail(queue) /\ UNCHANGED <<runVars, callVars, planVars>>
  BY DEF Write
<1>2. event \in Events /\ queue' \in Seq(Events)
  BY <1>1, HeadType
<1>3. \/ /\ trace' = [trace EXCEPT ![event.owner] = Append(@, event.type)]
         /\ ledgerLog' = IF event.type = "planner.ledger.updated"
                         THEN Append(ledgerLog, event.state) ELSE ledgerLog
         /\ UNCHANGED <<raised, lost>>
      \/ /\ raised' = raised \cup {event.owner}
         /\ lost' = lost \cup {event.owner}
         /\ UNCHANGED <<trace, ledgerLog>>
  BY DEF Write
<1> HIDE DEF event
<1>4. event.owner \in Coroutines /\ event.type \in EventTypes /\ event.state \in SUBSET Calls
  BY <1>2 DEF Events
<1>5. trace' \in [Coroutines -> Seq(EventTypes)]
  <2>1. Append(trace[event.owner], event.type) \in Seq(EventTypes)
    BY <1>4 DEF TypeOK
  <2>2. trace \in [Coroutines -> Seq(EventTypes)]
    BY DEF TypeOK
  <2> QED
    BY <1>3, <2>1, <2>2
<1>6. ledgerLog' \in Seq(SUBSET Calls)
  <2>1. Append(ledgerLog, event.state) \in Seq(SUBSET Calls)
    BY <1>4 DEF TypeOK
  <2> QED
    BY <1>3, <2>1 DEF TypeOK
<1>7. raised' \subseteq lost' /\ lost' \subseteq Coroutines
  BY <1>3, <1>4 DEF TypeOK
<1> QED
  BY <1>1, <1>2, <1>5, <1>6, <1>7 DEF TypeOK, runVars, callVars, planVars, Events, Labels

\* The steps of the Coordinator.
LEMMA RecordType ==
  ASSUME TypeOK, NEW type \in EventTypes, Record(Coordinator, type)
  PROVE  /\ queue' = Append(queue, [owner |-> Coordinator, type |-> type, state |-> {}])
         /\ queue' \in Seq(Events)
<1>1. [owner |-> Coordinator, type |-> type, state |-> {}] \in Events
  BY DEF Events
<1>2. queue \in Seq(Events)
  BY DEF TypeOK, Events
<1>3. queue' = Append(queue, [owner |-> Coordinator, type |-> type, state |-> {}])
  BY DEF Record, RecordState
<1> QED
  BY <1>1, <1>2, <1>3

\* An event is recorded at the entry of these phases.
Expected(p) == CASE p = "initialize" -> "planner.ledger.initialized"
                 [] p = "start"      -> "planner.llm.start"
                 [] p \in {"answer", "pending"} -> "planner.llm.end"
                 [] p = "finish"     -> "planner.finish"

Enters(p) == Enter(p) /\ Record(Coordinator, Expected(p)) /\ UNCHANGED callVars

LEMMA RunSteps ==
  ASSUME RunStep
  PROVE  \/ Enters("initialize") /\ phase = "idle" /\ raised' = raised
         \/ Enters("start") /\ TurnReady /\ raised' = raised
         \/ Enters("finish") /\ TurnReady /\ raised' = raised
         \/ Enters("answer") /\ phase = "model" /\ raised' = raised
         \/ Enters("pending") /\ phase = "model" /\ raised' = raised
         \/ Enters("finish") /\ FinishRun
         \/ CallModel \/ IssueCalls \/ Return
BY DEF RunStep, Initialize, StartTurn, ExhaustTurns, CallModel, ModelAnswers, ModelFails,
       FinishRun, Return, RecordFinish, Enters, Expected, fileVars

LEMMA EntersType ==
  ASSUME TypeOK, NEW p \in {"initialize", "start", "answer", "pending", "finish"}, Enters(p)
  PROVE  /\ phase' = p
         /\ queue' = Append(queue, [owner |-> Coordinator, type |-> Expected(p), state |-> {}])
         /\ queue' \in Seq(Events) /\ UNCHANGED callVars
<1>1. Expected(p) \in EventTypes
  BY DEF Expected, EventTypes
<1> QED
  BY <1>1, RecordType DEF Enters, Enter

LEMMA IssueType ==
  ASSUME TypeOK, IssueCalls
  PROVE  /\ TypeOK' /\ phase = "answer" /\ phase' = "tools" /\ Written(Coordinator)
         /\ \A c \in Calls : \/ pc[c] = "idle" /\ pc'[c] = "called"
                             \/ pc'[c] = pc[c] /\ kind'[c] = kind[c] /\ used'[c] = used[c]
         /\ UNCHANGED <<turn, active, action, planning, reply, planVars, queue, fileVars>>
<1>1. PICK issued \in SUBSET {c \in Calls : pc[c] = "idle"} :
        /\ \E tools \in [issued -> Kinds], ids \in [issued -> Artifacts] :
              /\ kind' = [c \in Calls |-> IF c \in issued THEN tools[c] ELSE kind[c]]
              /\ used' = [c \in Calls |-> IF c \in issued THEN ids[c] ELSE used[c]]
        /\ pc' = [c \in Calls |-> IF c \in issued THEN "called" ELSE pc[c]]
  BY DEF IssueCalls
<1>2. PICK tools \in [issued -> Kinds], ids \in [issued -> Artifacts] :
        /\ kind' = [c \in Calls |-> IF c \in issued THEN tools[c] ELSE kind[c]]
        /\ used' = [c \in Calls |-> IF c \in issued THEN ids[c] ELSE used[c]]
  BY <1>1
<1>3. /\ kind' \in [Calls -> Kinds \cup {"none"}] /\ used' \in [Calls -> Artifacts \cup {NoArtifact}]
  BY <1>2 DEF TypeOK
<1>4. pc' \in [Calls -> Labels]
  BY <1>1 DEF TypeOK, Labels
<1>5. /\ phase = "answer" /\ phase' = "tools" /\ Written(Coordinator)
      /\ UNCHANGED <<turn, active, action, planning, reply, planVars, queue, fileVars>>
  BY DEF IssueCalls, Enter
<1>6. TypeOK'
  BY <1>3, <1>4, <1>5 DEF TypeOK, planVars, fileVars, Labels
<1> QED
  BY <1>1, <1>2, <1>5, <1>6

LEMMA RunType == ASSUME TypeOK, RunStep PROVE TypeOK'
<1> USE DEF callVars, planVars, fileVars
<1>1. CASE Initialize
  BY <1>1, RecordType DEF Initialize, Enter, TypeOK, EventTypes, Events
<1>2. CASE StartTurn
  <2>1. turn' \in 0..MaxTurns /\ counter' \in Nat
    BY <1>2 DEF StartTurn, TypeOK
  <2> QED
    BY <1>2, <2>1, RecordType DEF StartTurn, Enter, TypeOK, EventTypes, Events
<1>3. CASE ExhaustTurns
  BY <1>3, RecordType DEF ExhaustTurns, RecordFinish, Enter, TypeOK, EventTypes, Events
<1>4. CASE CallModel
  BY <1>4 DEF CallModel, Enter, TypeOK
<1>5. CASE ModelAnswers \/ ModelFails
  BY <1>5, RecordType DEF ModelAnswers, ModelFails, Enter, TypeOK, EventTypes, Events
<1>6. CASE FinishRun
  BY <1>6, RecordType DEF FinishRun, RecordFinish, Enter, TypeOK, EventTypes, Events
<1>7. CASE Return
  BY <1>7 DEF Return, Enter, TypeOK
<1> QED
  BY <1>1, <1>2, <1>3, <1>4, <1>5, <1>6, <1>7, IssueType DEF RunStep

LEMMA TypeInit == Init => TypeOK
<1> SUFFICES ASSUME Init PROVE TypeOK
  OBVIOUS
<1>1. queue \in Seq(Events) /\ ledger \in Seq(Calls) /\ ledgerLog \in Seq(SUBSET Calls)
  BY DEF Init
<1>2. trace \in [Coroutines -> Seq(EventTypes)]
  BY DEF Init
<1>3. pc \in [Calls -> Labels] /\ planning \in [Calls -> SUBSET Calls]
  BY DEF Init, Labels
<1>4. /\ kind \in [Calls -> Kinds \cup {"none"}] /\ reply \in [Calls -> {"none", "ok", "error"}]
      /\ used \in [Calls -> Artifacts \cup {NoArtifact}] /\ action \in [Calls -> Nat]
  BY DEF Init
<1>5. phase \in CoordinatorPhases /\ turn \in 0..MaxTurns /\ counter \in Nat
      /\ catalog \subseteq Artifacts /\ raised \subseteq lost /\ lost \subseteq Coroutines
  BY DEF Init
<1>6. active \in BOOLEAN
  BY DEF Init
<1> QED
  BY <1>1, <1>2, <1>3, <1>4, <1>5, <1>6 DEF TypeOK, Events, Labels

LEMMA TypeStep == TypeOK /\ [Next]_vars => TypeOK'
<1> SUFFICES ASSUME TypeOK, [Next]_vars PROVE TypeOK'
  OBVIOUS
<1>1. CASE UNCHANGED vars
  BY <1>1 DEF vars, runVars, callVars, planVars, fileVars, TypeOK
<1> QED
  BY <1>1, ToolSteps, PlainType, CompleteType, WriteType, RunType DEF Next

\* Every variable keeps its type.
THEOREM TypeCorrect == Spec => []TypeOK
  BY TypeInit, TypeStep, PTL DEF Spec
-----------------------------------------------------------------------------
(* The queue of the recorder.  A coroutine has at most one event in it, in *)
(* the phases and at the labels that record one, and none after a loss it  *)
(* has yet to handle.                                                      *)
QueueInv ==
  /\ \A i, j \in 1..Len(queue) : queue[i].owner = queue[j].owner => i = j
  /\ \A i \in 1..Len(queue) : queue[i].owner \notin raised
  /\ \A i \in 1..Len(queue) : queue[i].owner \in Calls => pc[queue[i].owner] \in Recorded
  /\ \A i \in 1..Len(queue) : queue[i].owner = Coordinator =>
       /\ phase \in {"initialize", "start", "answer", "pending", "finish"}
       /\ queue[i].type = Expected(phase)
  /\ \A c \in Calls : pc[c] = "idle" \/ Waiting(c) => c \notin raised
  /\ phase \in {"idle", "model", "tools"} => Coordinator \notin raised
  /\ \A c \in Calls : ~Settled(c) => phase = "tools"

LEMMA QueueInit == Init => QueueInv
  BY DEF Init, QueueInv, Settled

LEMMA AppendQueue ==
  ASSUME TypeOK, NEW event, queue' = Append(queue, event)
  PROVE  /\ Len(queue') = Len(queue) + 1 /\ Len(queue) \in Nat
         /\ queue'[Len(queue) + 1] = event
         /\ \A i \in 1..Len(queue) : queue'[i] = queue[i]
         /\ \A i \in 1..Len(queue') : i = Len(queue) + 1 \/ i \in 1..Len(queue)
<1>1. queue \in Seq(Events)
  BY DEF TypeOK, Events
<1>2. Len(queue') = Len(queue) + 1 /\ Len(queue) \in Nat
  BY <1>1
<1>3. queue'[Len(queue) + 1] = event /\ \A i \in 1..Len(queue) : queue'[i] = queue[i]
  BY <1>1
<1> QED
  BY <1>2, <1>3

LEMMA Owners ==
  ASSUME TypeOK, NEW i \in 1..Len(queue)
  PROVE  queue[i] \in Events /\ queue[i].owner \in Calls \cup {Coordinator}
<1>1. queue \in Seq(Events)
  BY DEF TypeOK, Events
<1>2. queue[i] \in Events
  BY <1>1
<1> QED
  BY <1>2 DEF Events

LEMMA PlainQueue == ASSUME TypeOK, QueueInv, NEW c \in Calls, Plain(c) PROVE QueueInv'
<1>1. ~Settled(c) /\ phase = "tools" /\ UNCHANGED phase
  BY DEF Plain, QueueInv, Settled, runVars
<1>2. ~Recording(c)
  BY DEF Plain, Written, Waiting, Recorded, QueueInv, Recording
<1>3. \A i \in 1..Len(queue) : queue[i].owner \in Calls \cup {Coordinator} /\ queue[i].owner # c
  BY <1>2, Owners DEF Recording
<1>4. CASE ToolAwaits(c) /\ raised' \in {raised, raised \ {c}}
  <2>1. PICK label \in Recorded, type \in EventTypes : Await(c, label, type)
    BY <1>4 DEF ToolAwaits
  <2>2. label \in Labels
    BY DEF Recorded, Labels
  <2>3. /\ pc'[c] = label /\ \A d \in Calls \ {c} : pc'[d] = pc[d]
        /\ queue' = Append(queue, [owner |-> c, type |-> type, state |-> {}])
    BY <2>1, <2>2, AwaitType
  <2>4. c \notin raised'
    BY <1>4 DEF ToolAwaits, QueueInv
  <2>5. /\ Len(queue') = Len(queue) + 1 /\ Len(queue) \in Nat
        /\ queue'[Len(queue) + 1].owner = c
        /\ \A i \in 1..Len(queue) : queue'[i] = queue[i]
        /\ \A i \in 1..Len(queue') : i = Len(queue) + 1 \/ i \in 1..Len(queue)
    BY <2>3, AppendQueue
  <2> QED
    BY <1>1, <1>3, <1>4, <2>3, <2>4, <2>5 DEF QueueInv, Settled, Waiting, Recorded
<1>5. CASE ToolWaits(c) /\ UNCHANGED raised
  <2>1. PICK label \in {"localize", "run", "download"} :
          Goto(c, label) /\ Written(c) /\ UNCHANGED queue
    BY <1>5 DEF ToolWaits
  <2>2. pc'[c] = label /\ \A d \in Calls \ {c} : pc'[d] = pc[d]
    BY <2>1, GotoType DEF Labels
  <2> QED
    BY <1>1, <1>3, <1>5, <2>1, <2>2 DEF QueueInv, Settled, Waiting, Recorded, Written
<1>6. CASE ToolAnswers(c) /\ UNCHANGED raised
  <2>1. queue' = queue /\ pc'[c] = "replied" /\ \A d \in Calls \ {c} : pc'[d] = pc[d]
    BY <1>6, AnswerType DEF ToolAnswers
  <2> QED
    BY <1>1, <1>3, <1>6, <2>1 DEF QueueInv, Settled, Waiting, Recorded
<1> QED
  BY <1>4, <1>5, <1>6 DEF Plain

LEMMA CompleteQueue == ASSUME TypeOK, QueueInv, NEW c \in Calls, Complete(c) PROVE QueueInv'
<1>1. /\ At(c, "created")
      /\ queue' = Append(queue, [owner |-> c, type |-> "planner.ledger.updated",
                                 state |-> State(c)])
      /\ pc'[c] = "ledger" /\ \A d \in Calls \ {c} : pc'[d] = pc[d]
      /\ UNCHANGED <<phase, raised>>
  BY CompleteType DEF runVars, fileVars
<1>2. phase = "tools"
  BY <1>1 DEF QueueInv, At, Settled
<1>3. ~Recording(c) /\ c \notin raised
  BY <1>1 DEF At, Written
<1>4. \A i \in 1..Len(queue) : queue[i].owner \in Calls \cup {Coordinator} /\ queue[i].owner # c
  BY <1>3, Owners DEF Recording
<1>5. /\ Len(queue') = Len(queue) + 1 /\ Len(queue) \in Nat
      /\ queue'[Len(queue) + 1].owner = c
      /\ \A i \in 1..Len(queue) : queue'[i] = queue[i]
      /\ \A i \in 1..Len(queue') : i = Len(queue) + 1 \/ i \in 1..Len(queue)
  BY <1>1, AppendQueue
<1> QED
  BY <1>1, <1>2, <1>3, <1>4, <1>5 DEF QueueInv, Settled, Waiting, Recorded

LEMMA WriteQueue == ASSUME TypeOK, QueueInv, Write PROVE QueueInv'
<1>1. queue # <<>> /\ queue' = Tail(queue) /\ UNCHANGED <<phase, pc>>
  BY DEF Write, runVars, callVars
<1>2. /\ Head(queue) = queue[1]
      /\ Len(queue') = Len(queue) - 1 /\ Len(queue) \in Nat \ {0}
      /\ \A i \in 1..Len(queue') : i + 1 \in 1..Len(queue) /\ queue'[i] = queue[i + 1]
  BY <1>1, HeadType
<1>3. raised' \in {raised, raised \cup {queue[1].owner}}
  BY <1>2 DEF Write
<1>4. 1 \in 1..Len(queue) /\ queue[1].owner \in Calls \cup {Coordinator}
  BY <1>2, Owners
<1>5. \A i \in 1..Len(queue') : queue'[i].owner # queue[1].owner
  BY <1>2, <1>4 DEF QueueInv
<1>6. \A i, j \in 1..Len(queue') : queue'[i].owner = queue'[j].owner => i = j
  <2> SUFFICES ASSUME NEW i \in 1..Len(queue'), NEW j \in 1..Len(queue'),
                      queue'[i].owner = queue'[j].owner
               PROVE  i = j
    OBVIOUS
  <2>1. i + 1 = j + 1
    BY <1>2 DEF QueueInv
  <2> QED
    BY <1>2, <2>1
<1>7. \A c \in Calls : pc[c] = "idle" \/ Waiting(c) => c # queue[1].owner
  BY <1>4 DEF QueueInv, Waiting, Recorded
<1>8. phase \in {"idle", "model", "tools"} => Coordinator # queue[1].owner
  BY <1>4 DEF QueueInv
<1>9. \A i \in 1..Len(queue') : queue'[i].owner \notin raised'
  BY <1>2, <1>3, <1>5 DEF QueueInv
<1>10. /\ \A i \in 1..Len(queue') : queue'[i].owner \in Calls => pc'[queue'[i].owner] \in Recorded
       /\ \A i \in 1..Len(queue') : queue'[i].owner = Coordinator =>
            /\ phase' \in {"initialize", "start", "answer", "pending", "finish"}
            /\ queue'[i].type = Expected(phase')
  BY <1>1, <1>2 DEF QueueInv
<1>11. /\ \A c \in Calls : (pc[c] = "idle" \/ Waiting(c))' => c \notin raised'
       /\ phase' \in {"idle", "model", "tools"} => Coordinator \notin raised'
       /\ \A c \in Calls : ~Settled(c)' => phase' = "tools"
  BY <1>1, <1>3, <1>7, <1>8 DEF QueueInv, Waiting, Settled
<1> QED
  BY <1>6, <1>9, <1>10, <1>11 DEF QueueInv, Expected

LEMMA EntersQueue ==
  ASSUME TypeOK, QueueInv, NEW p \in {"initialize", "start", "answer", "pending", "finish"},
         Enters(p), \A c \in Calls : Settled(c), ~Recording(Coordinator),
         raised' \subseteq raised, Coordinator \notin raised'
  PROVE  QueueInv'
<1>1. /\ phase' = p /\ UNCHANGED pc
      /\ queue' = Append(queue, [owner |-> Coordinator, type |-> Expected(p), state |-> {}])
  BY EntersType DEF callVars
<1>2. /\ Len(queue') = Len(queue) + 1 /\ Len(queue) \in Nat
      /\ queue'[Len(queue) + 1].owner = Coordinator
      /\ queue'[Len(queue) + 1].type = Expected(p)
      /\ \A i \in 1..Len(queue) : queue'[i] = queue[i]
      /\ \A i \in 1..Len(queue') : i = Len(queue) + 1 \/ i \in 1..Len(queue)
  BY <1>1, AppendQueue
<1>3. \A i \in 1..Len(queue) : queue[i].owner \in Calls \cup {Coordinator} /\ queue[i].owner # Coordinator
  BY Owners DEF Recording
<1>4. (Expected(phase))' = Expected(p)
  BY <1>1 DEF Expected
<1> QED
  BY <1>1, <1>2, <1>3, <1>4 DEF QueueInv, Settled, Waiting

LEMMA RunQueue == ASSUME TypeOK, QueueInv, RunStep PROVE QueueInv'
<1>1. phase # "tools" => \A c \in Calls : Settled(c)
  BY DEF QueueInv
<1>2. phase \in {"idle", "model", "tools"} => ~Recording(Coordinator) /\ Coordinator \notin raised
  BY DEF QueueInv, Recording
<1>3. Coordinator \in raised => ~Recording(Coordinator)
  BY DEF QueueInv, Recording
<1>4. TurnReady => ~Recording(Coordinator) /\ Coordinator \notin raised /\ \A c \in Calls : Settled(c)
  BY <1>1, <1>2 DEF TurnReady, Written
<1>5. CASE Enters("finish") /\ FinishRun
  <2>1. ~Recording(Coordinator) /\ raised' = raised \ {Coordinator} /\ phase # "tools"
    BY <1>3, <1>5 DEF FinishRun, Written
  <2> QED
    BY <1>1, <1>5, <2>1, EntersQueue
<1>6. CASE CallModel
  <2>1. /\ phase' = "model" /\ phase = "start" /\ Written(Coordinator)
        /\ UNCHANGED <<pc, queue, raised>>
    BY <1>6 DEF CallModel, Enter, callVars, fileVars
  <2> QED
    BY <1>1, <2>1 DEF QueueInv, Written, Recording, Settled, Waiting
<1>7. CASE IssueCalls
  <2>1. /\ phase' = "tools" /\ phase = "answer" /\ Written(Coordinator)
        /\ \A c \in Calls : (pc[c] = "idle" /\ pc'[c] = "called") \/ pc'[c] = pc[c]
        /\ UNCHANGED <<queue, raised>>
    BY <1>7, IssueType DEF fileVars
  <2>2. \A i \in 1..Len(queue) : queue[i].owner \in Calls => pc[queue[i].owner] # "idle"
    BY DEF QueueInv, Recorded
  <2> QED
    BY <2>1, <2>2 DEF QueueInv, Written, Recording, Settled, Waiting
<1>8. CASE Return
  <2>1. /\ phase' = "done" /\ UNCHANGED <<pc, queue, raised>> /\ phase # "tools"
        /\ ~Recording(Coordinator)
    BY <1>3, <1>8 DEF Return, Enter, callVars, fileVars
  <2> QED
    BY <1>1, <2>1 DEF QueueInv, Recording, Settled, Waiting
<1> QED
  BY <1>1, <1>2, <1>4, <1>5, <1>6, <1>7, <1>8, RunSteps, EntersQueue

LEMMA StutterQueue == ASSUME QueueInv, UNCHANGED vars PROVE QueueInv'
BY DEF QueueInv, Settled, Waiting, Expected, vars, runVars, callVars, fileVars

LEMMA QueueStep == TypeOK /\ QueueInv /\ [Next]_vars => QueueInv'
  BY ToolSteps, PlainQueue, CompleteQueue, WriteQueue, RunQueue, StutterQueue DEF Next

LEMMA QueueImpliesLast == QueueInv /\ TypeOK => FinishIsLast
<1> SUFFICES ASSUME QueueInv, TypeOK, phase \in {"finish", "done"}
             PROVE  /\ \A c \in Calls : Settled(c)
                    /\ \A i \in 1..Len(queue) : queue[i].type = "planner.finish"
  BY DEF FinishIsLast
<1>1. \A c \in Calls : Settled(c)
  BY DEF QueueInv
<1>2. \A i \in 1..Len(queue) : queue[i].owner \in Calls \cup {Coordinator}
  BY Owners
<1>3. \A i \in 1..Len(queue) : queue[i].owner = Coordinator
  BY <1>1, <1>2 DEF QueueInv, Recorded, Settled
<1> QED
  BY <1>1, <1>3 DEF QueueInv, Expected

\* When planner.finish is recorded no tool call is under way, and nothing of
\* one is still to be written: it is the last line of the run.
THEOREM FinishLast == Spec => []FinishIsLast
  BY TypeInit, TypeStep, QueueInit, QueueStep, QueueImpliesLast, PTL DEF Spec
-----------------------------------------------------------------------------
(* The history of the ledger.  The states recorded are those the ledger    *)
(* has gone through, in the order it went through them: first the ones in  *)
(* the trace, then the ones in the queue, whose calls still wait for them. *)
Upto(n) == {ledger[k] : k \in 1..n}
Update(i) == queue[i].type = "planner.ledger.updated"
Before(old, new) == old \subseteq new /\ old # new
Late == {"ledger", "inspect", "download", "inspected", "failed", "replied"}

ChainInv ==
  /\ \A i, j \in 1..Len(ledger) : ledger[i] = ledger[j] => i = j
  /\ \A n \in 1..Len(ledger) : pc[ledger[n]] \in Late
  /\ \A i \in 1..Len(queue) : Update(i) =>
       /\ queue[i].owner \in Calls /\ pc[queue[i].owner] = "ledger"
       /\ \E n \in 1..Len(ledger) : ledger[n] = queue[i].owner /\ queue[i].state = Upto(n)
  /\ \A i, j \in 1..Len(queue) :
       i < j /\ Update(i) /\ Update(j) => Before(queue[i].state, queue[j].state)
  /\ \A k \in 1..Len(ledgerLog) : \E n \in 1..Len(ledger) : ledgerLog[k] = Upto(n)
  /\ \A k \in 1..Len(ledgerLog), i \in 1..Len(queue) :
       Update(i) => Before(ledgerLog[k], queue[i].state)

\* A state kept for a reply is the one of the call's own completion, and is in
\* the trace when the call goes on from there, unless it goes on to an error.
Shown(c) == \E k \in 1..Len(ledgerLog) : ledgerLog[k] = planning[c]
Queued(c) == \E i \in 1..Len(queue) :
               Update(i) /\ queue[i].owner = c /\ queue[i].state = planning[c]

ToldInv ==
  /\ \A c \in Calls : planning[c] # {} =>
       /\ \E n \in 1..Len(ledger) : ledger[n] = c /\ planning[c] = Upto(n)
       /\ \/ Shown(c) \/ reply[c] = "error"
          \/ pc[c] = "ledger" /\ (c \in raised \/ Queued(c))
  /\ \A c \in Calls : pc[c] # "replied" => reply[c] = "none"

LEMMA HistoryInit == Init => ChainInv /\ ToldInv
  BY DEF Init, ChainInv, ToldInv, Late

\* What every step but a completion and a write does.
Quiet ==
  /\ UNCHANGED <<ledger, ledgerLog, planning, lost>>
  /\ \/ UNCHANGED queue
     \/ \E event \in Events :
          event.type # "planner.ledger.updated" /\ queue' = Append(queue, event)
  /\ \A c \in Calls :
       /\ pc[c] \in Late => pc'[c] \in Late
       /\ pc[c] = "ledger" /\ Recording(c) => pc'[c] = "ledger"
       /\ pc[c] = "ledger" =>
            \/ pc'[c] = "ledger" /\ (c \in raised => c \in raised')
            \/ Written(c) \/ reply'[c] = "error"
       /\ reply[c] = "error" => reply'[c] = "error"
       /\ pc'[c] # "replied" => reply'[c] = "none"

\* The calls answer in the order of their labels.
LEMMA LateSteps ==
  ASSUME TypeOK, NEW c \in Calls, Tool(c), pc[c] \in Late \ {"replied"}
  PROVE  pc'[c] \in Late /\ (pc[c] = "ledger" => Written(c) \/ reply'[c] = "error")
<1>1. SummarizeCompleted(c) \/ Download(c) \/ DownloadEnds(c) \/ Inspected(c)
        \/ InspectedUnrecorded(c) \/ Fail(c)
  BY DEF Tool, Late, Announce, RejectModel, Request, RejectRequest, Select, Localize,
         Localized, LocalizeFails, StartOperator, Run, RunSucceeds, RunFails, RecordOutput,
         Complete, CompleteOperator, At
<1>2. \E label \in Late : Goto(c, label)
  BY <1>1 DEF Late, SummarizeCompleted, Summarize, Download, DownloadEnds, Inspected,
              InspectedUnrecorded, Fail, Await, Answer
<1>3. pc'[c] \in Late
  BY <1>2, GotoType DEF Late, Labels
<1>4. pc[c] = "ledger" => Written(c) \/ Answer(c, "error")
  BY <1>1 DEF SummarizeCompleted, Download, DownloadEnds, Inspected, InspectedUnrecorded,
              Fail, At
<1> QED
  BY <1>3, <1>4, AnswerType

LEMMA ToolOrder ==
  ASSUME TypeOK, QueueInv, ToldInv, NEW c \in Calls, Plain(c), Tool(c)
  PROVE  /\ pc[c] \in Late => pc'[c] \in Late
         /\ pc[c] = "ledger" => Written(c) \/ reply'[c] = "error"
         /\ pc'[c] # "replied" => reply'[c] = "none"
         /\ reply[c] # "error" /\ (reply'[c] = "ok" => pc[c] # "ledger" \/ Written(c))
         /\ \A d \in Calls \ {c} : pc'[d] = pc[d] /\ reply'[d] = reply[d]
<1>1. pc[c] # "replied" /\ reply[c] = "none"
  BY DEF Plain, ToldInv
<1>2. CASE ToolAwaits(c)
  <2>1. PICK label \in Recorded \ {"ledger"}, type \in EventTypes \ {"planner.ledger.updated"} :
          Await(c, label, type) /\ reply' = reply
    BY <1>2 DEF ToolAwaits
  <2>2. pc'[c] = label /\ \A d \in Calls \ {c} : pc'[d] = pc[d]
    BY <2>1, AwaitType DEF Recorded, Labels
  <2>3. /\ pc[c] \in Late => pc'[c] \in Late
        /\ pc[c] = "ledger" => Written(c) \/ reply'[c] = "error"
    BY <1>1, LateSteps DEF Late
  <2> QED
    BY <1>1, <2>1, <2>2, <2>3 DEF Late
<1>3. CASE ToolWaits(c)
  <2>1. PICK label \in {"localize", "run", "download"} :
          Goto(c, label) /\ Written(c) /\ reply' = reply
    BY <1>3 DEF ToolWaits
  <2>2. pc'[c] = label /\ \A d \in Calls \ {c} : pc'[d] = pc[d]
    BY <2>1, GotoType DEF Labels
  <2>3. pc[c] \in Late => pc'[c] \in Late
    BY <1>1, LateSteps
  <2> QED
    BY <1>1, <2>1, <2>2, <2>3
<1>4. CASE ToolAnswers(c)
  <2>1. PICK result \in {"ok", "error"} : Answer(c, result)
    BY <1>4 DEF ToolAnswers
  <2>2. /\ pc'[c] = "replied" /\ reply'[c] = result
        /\ \A d \in Calls \ {c} : pc'[d] = pc[d] /\ reply'[d] = reply[d]
    BY <2>1, AnswerType
  <2>3. pc[c] = "ledger" => Written(c) \/ reply'[c] = "error"
    BY LateSteps DEF Late
  <2> QED
    BY <1>1, <2>2, <2>3 DEF Late
<1> QED
  BY <1>2, <1>3, <1>4 DEF Plain

LEMMA PlainQuiet ==
  ASSUME TypeOK, QueueInv, ToldInv, NEW c \in Calls, Plain(c), Tool(c)
  PROVE  Quiet
<1>1. UNCHANGED <<ledger, ledgerLog, planning, lost>>
  BY DEF Plain
<1>2. \/ UNCHANGED queue
      \/ \E event \in Events :
           event.type # "planner.ledger.updated" /\ queue' = Append(queue, event)
  <2>1. CASE ToolAwaits(c)
    <3>1. PICK label \in Recorded, type \in EventTypes \ {"planner.ledger.updated"} :
            Await(c, label, type)
      BY <2>1 DEF ToolAwaits
    <3>2. queue' = Append(queue, [owner |-> c, type |-> type, state |-> {}])
      BY <3>1, AwaitType DEF Recorded, Labels
    <3> QED
      BY <3>2 DEF Events
  <2> QED
    BY <2>1 DEF Plain, ToolWaits, ToolAnswers, Answer
<1>3. ~Recording(c)
  BY DEF Plain, Written, Waiting, Recorded, QueueInv, Recording
<1>4. raised \ {c} \subseteq raised'
  BY DEF Plain
<1>5. \A d \in Calls : pc[d] # "replied" => reply[d] = "none"
  BY DEF ToldInv
<1> QED
  BY <1>1, <1>2, <1>3, <1>4, <1>5, ToolOrder DEF Quiet

LEMMA RunQuiet ==
  ASSUME TypeOK, QueueInv, ToldInv, RunStep
  PROVE  Quiet
<1>1. UNCHANGED <<ledger, ledgerLog, planning, lost, reply>> /\ raised \ {Coordinator} \subseteq raised'
  BY DEF RunStep, Initialize, StartTurn, ExhaustTurns, CallModel, ModelAnswers, ModelFails,
         IssueCalls, FinishRun, Return, callVars, planVars, fileVars
<1>2. \/ UNCHANGED queue
      \/ \E event \in Events :
           event.type # "planner.ledger.updated" /\ queue' = Append(queue, event)
  <2>1. CASE CallModel \/ IssueCalls \/ Return
    BY <2>1 DEF CallModel, IssueCalls, Return
  <2>2. ASSUME NEW p \in {"initialize", "start", "answer", "pending", "finish"}, Enters(p)
        PROVE  \E event \in Events :
                 event.type # "planner.ledger.updated" /\ queue' = Append(queue, event)
    <3>1. queue' = Append(queue, [owner |-> Coordinator, type |-> Expected(p), state |-> {}])
      BY <2>2, EntersType
    <3>2. Expected(p) \in EventTypes \ {"planner.ledger.updated"}
      BY DEF Expected, EventTypes
    <3> QED
      BY <3>1, <3>2 DEF Events
  <2> QED
    BY <2>1, <2>2, RunSteps
<1>3. \A c \in Calls : pc'[c] = pc[c] \/ (pc[c] = "idle" /\ pc'[c] = "called")
  <2>1. CASE IssueCalls
    BY <2>1, IssueType
  <2> QED
    BY <2>1 DEF RunStep, Initialize, StartTurn, ExhaustTurns, CallModel, ModelAnswers,
                ModelFails, FinishRun, RecordFinish, Return, callVars
<1>4. \A d \in Calls : pc[d] # "replied" => reply[d] = "none"
  BY DEF ToldInv
<1> QED
  BY <1>1, <1>2, <1>3, <1>4 DEF Quiet, Late

\* A quiet step adds no state to the queue and takes none from it.
LEMMA QuietEvents ==
  ASSUME TypeOK, Quiet
  PROVE  /\ Len(queue') >= Len(queue) /\ Len(queue) \in Nat
         /\ \A i \in 1..Len(queue) : queue'[i] = queue[i] /\ (Update(i)' <=> Update(i))
         /\ \A i \in 1..Len(queue') : Update(i)' => i \in 1..Len(queue)
<1>1. CASE UNCHANGED queue
  <2>1. queue \in Seq(Events)
    BY DEF TypeOK, Events
  <2> QED
    BY <1>1, <2>1 DEF Update
<1>2. CASE \E event \in Events :
             event.type # "planner.ledger.updated" /\ queue' = Append(queue, event)
  <2>1. PICK event \in Events :
          event.type # "planner.ledger.updated" /\ queue' = Append(queue, event)
    BY <1>2
  <2> QED
    BY <2>1, AppendQueue DEF Update
<1> QED
  BY <1>1, <1>2 DEF Quiet

LEMMA QuietChain == ASSUME TypeOK, ChainInv, Quiet PROVE ChainInv'
<1>1. UNCHANGED <<ledger, ledgerLog>> /\ \A n : Upto(n)' = Upto(n)
  BY DEF Quiet, Upto
<1>2. \A n \in 1..Len(ledger) : ledger[n] \in Calls
  BY DEF TypeOK
<1>3. \A i \in 1..Len(queue) : Update(i) =>
        /\ queue[i].owner \in Calls /\ pc'[queue[i].owner] = "ledger"
        /\ \E n \in 1..Len(ledger) : ledger[n] = queue[i].owner /\ queue[i].state = Upto(n)
  BY DEF Quiet, ChainInv, Recording
<1>4. \A n \in 1..Len(ledger') : pc'[ledger'[n]] \in Late
  BY <1>1, <1>2 DEF Quiet, ChainInv
<1>5. \A i, j \in 1..Len(queue') :
        i < j /\ Update(i)' /\ Update(j)' => Before(queue'[i].state, queue'[j].state)
  BY QuietEvents DEF ChainInv
<1>6. \A i \in 1..Len(queue') : Update(i)' =>
        /\ queue'[i].owner \in Calls /\ pc'[queue'[i].owner] = "ledger"
        /\ \E n \in 1..Len(ledger') : /\ ledger'[n] = queue'[i].owner
                                      /\ queue'[i].state = Upto(n)'
  <2> SUFFICES ASSUME NEW i \in 1..Len(queue'), Update(i)'
               PROVE  /\ queue'[i].owner \in Calls /\ pc'[queue'[i].owner] = "ledger"
                      /\ \E n \in 1..Len(ledger) : /\ ledger[n] = queue'[i].owner
                                                   /\ queue'[i].state = Upto(n)
    BY <1>1
  <2>1. i \in 1..Len(queue) /\ Update(i) /\ queue'[i] = queue[i]
    BY QuietEvents
  <2> QED
    BY <1>3, <2>1
<1>7. \A k \in 1..Len(ledgerLog'), i \in 1..Len(queue') :
        Update(i)' => Before(ledgerLog'[k], queue'[i].state)
  BY <1>1, QuietEvents DEF ChainInv
<1>8. /\ \A i, j \in 1..Len(ledger') : ledger'[i] = ledger'[j] => i = j
      /\ \A k \in 1..Len(ledgerLog') : \E n \in 1..Len(ledger') : ledgerLog'[k] = Upto(n)'
  BY <1>1 DEF ChainInv
<1> QED
  BY <1>4, <1>5, <1>6, <1>7, <1>8 DEF ChainInv, Before

LEMMA QuietTold == ASSUME TypeOK, QueueInv, ChainInv, ToldInv, Quiet PROVE ToldInv'
<1>1. UNCHANGED <<ledger, ledgerLog, planning>> /\ \A n : Upto(n)' = Upto(n)
  BY DEF Quiet, Upto
<1>2. \A c \in Calls : Shown(c)' <=> Shown(c)
  BY <1>1 DEF Shown
<1>3. \A c \in Calls : Queued(c) => Recording(c) /\ Queued(c)'
  BY <1>1, QuietEvents DEF Queued, Recording
<1>4. ASSUME NEW c \in Calls, planning[c] # {}
      PROVE  \/ Shown(c) \/ reply'[c] = "error"
             \/ pc'[c] = "ledger" /\ (c \in raised' \/ Queued(c)')
  <2>1. CASE Shown(c) \/ reply[c] = "error"
    BY <2>1 DEF Quiet
  <2>2. CASE pc[c] = "ledger" /\ c \in raised
    BY <2>2 DEF Quiet, Written
  <2>3. CASE pc[c] = "ledger" /\ Queued(c)
    BY <1>3, <2>3 DEF Quiet
  <2> QED
    BY <1>4, <2>1, <2>2, <2>3 DEF ToldInv
<1>5. \A c \in Calls : planning'[c] # {} =>
        \E n \in 1..Len(ledger') : ledger'[n] = c /\ planning'[c] = Upto(n)'
  BY <1>1 DEF ToldInv
<1> QED
  BY <1>1, <1>2, <1>4, <1>5 DEF ToldInv, Quiet

\* A completion adds the longest state so far.
LEMMA CompleteFacts ==
  ASSUME TypeOK, ChainInv, ToldInv, NEW c \in Calls, Complete(c)
  PROVE  /\ \A n \in 1..Len(ledger) : ledger[n] # c /\ ledger[n] \in Calls /\ ledger'[n] = ledger[n]
         /\ Len(ledger) \in Nat /\ Len(ledger') = Len(ledger) + 1 /\ ledger'[Len(ledger')] = c
         /\ \A n \in 1..Len(ledger) :
              /\ Upto(n)' = Upto(n) /\ Upto(n) \subseteq Elements(ledger)
              /\ n \in 1..Len(ledger') /\ n # Len(ledger')
         /\ Upto(Len(ledger))' = State(c)
         /\ c \notin Elements(ledger)
<1>1. At(c, "created") /\ ledger' = Append(ledger, c)
  BY CompleteType
<1>2. ledger \in Seq(Calls)
  BY DEF TypeOK
<1>3. Len(ledger) \in Nat /\ Len(ledger') = Len(ledger) + 1 /\ ledger'[Len(ledger')] = c
  BY <1>1, <1>2
<1>4. \A n \in 1..Len(ledger) : ledger[n] \in Calls /\ ledger'[n] = ledger[n]
  BY <1>1, <1>2
<1>5. \A n \in 1..Len(ledger) : ledger[n] # c
  BY <1>1 DEF ChainInv, At, Late
<1>6. \A n \in 1..Len(ledger) :
        /\ Upto(n)' = Upto(n) /\ Upto(n) \subseteq Elements(ledger)
        /\ n \in 1..Len(ledger') /\ n # Len(ledger')
  BY <1>3, <1>4 DEF Upto, Elements
<1>7. Upto(Len(ledger))' = State(c)
  BY <1>3, <1>4 DEF Upto, State, Elements
<1> QED
  BY <1>3, <1>4, <1>5, <1>6, <1>7 DEF Elements

LEMMA CompleteChain ==
  ASSUME TypeOK, QueueInv, ChainInv, ToldInv, NEW c \in Calls, Complete(c)
  PROVE  ChainInv'
<1> DEFINE last == Len(queue) + 1
<1>1. /\ At(c, "created") /\ ledgerLog' = ledgerLog
      /\ queue' = Append(queue, [owner |-> c, type |-> "planner.ledger.updated",
                                 state |-> State(c)])
      /\ pc'[c] = "ledger" /\ \A d \in Calls \ {c} : pc'[d] = pc[d]
  BY CompleteType DEF fileVars
<1>2. /\ Len(queue) \in Nat /\ Len(queue') = last
      /\ queue'[last].owner = c /\ queue'[last].state = State(c)
      /\ \A i \in 1..Len(queue) : queue'[i] = queue[i]
      /\ \A i \in 1..Len(queue') : i = last \/ i \in 1..Len(queue)
  BY <1>1, AppendQueue
<1>3. \A i \in 1..Len(queue) : Update(i) => queue[i].owner \in Calls \ {c}
  BY <1>1 DEF ChainInv, At
<1>4. \A i \in 1..Len(queue) : Update(i) => Before(queue[i].state, State(c))
  <2>1. \A n \in 1..Len(ledger) : Before(Upto(n), State(c))
    BY CompleteFacts DEF Before, State
  <2> QED
    BY <2>1 DEF ChainInv
<1>5. \A k \in 1..Len(ledgerLog) : Before(ledgerLog[k], State(c))
  <2>1. \A n \in 1..Len(ledger) : Before(Upto(n), State(c))
    BY CompleteFacts DEF Before, State
  <2> QED
    BY <2>1 DEF ChainInv
<1>6. \A i \in 1..Len(queue) : Update(i)' <=> Update(i)
  BY <1>2 DEF Update
<1> HIDE DEF last
<1>7. /\ \A i, j \in 1..Len(ledger') : ledger'[i] = ledger'[j] => i = j
      /\ \A n \in 1..Len(ledger') : pc'[ledger'[n]] \in Late
  <2>1. \A n \in 1..Len(ledger') : n = Len(ledger') \/ n \in 1..Len(ledger)
    BY CompleteFacts
  <2>2. \A i, j \in 1..Len(ledger') : ledger'[i] = ledger'[j] => i = j
    <3> SUFFICES ASSUME NEW i \in 1..Len(ledger'), NEW j \in 1..Len(ledger'),
                        ledger'[i] = ledger'[j]
                 PROVE  i = j
      OBVIOUS
    <3>1. CASE i \in 1..Len(ledger) /\ j \in 1..Len(ledger)
      <4>1. ledger[i] = ledger[j]
        BY <3>1, CompleteFacts
      <4> QED
        BY <3>1, <4>1 DEF ChainInv
    <3>2. ledger'[Len(ledger')] = c /\ \A n \in 1..Len(ledger) : ledger'[n] # c
      BY CompleteFacts
    <3> QED
      BY <2>1, <3>1, <3>2
  <2>3. \A n \in 1..Len(ledger) : pc'[ledger'[n]] \in Late
    <3>1. \A n \in 1..Len(ledger) : ledger'[n] = ledger[n] /\ ledger[n] \in Calls \ {c}
      BY CompleteFacts
    <3> QED
      BY <1>1, <3>1 DEF ChainInv
  <2>4. pc'[ledger'[Len(ledger')]] \in Late
    BY <1>1, CompleteFacts DEF Late
  <2> QED
    BY <2>1, <2>2, <2>3, <2>4
<1>8. \A i \in 1..Len(queue') : Update(i)' =>
        /\ queue'[i].owner \in Calls /\ pc'[queue'[i].owner] = "ledger"
        /\ \E n \in 1..Len(ledger') : /\ ledger'[n] = queue'[i].owner
                                      /\ queue'[i].state = Upto(n)'
  <2>1. /\ Len(ledger') \in 1..Len(ledger') /\ ledger'[Len(ledger')] = queue'[last].owner
        /\ queue'[last].state = Upto(Len(ledger))'
    BY <1>2, CompleteFacts
  <2>2. ASSUME NEW i \in 1..Len(queue), Update(i)
        PROVE  /\ queue'[i].owner \in Calls /\ pc'[queue'[i].owner] = "ledger"
               /\ \E n \in 1..Len(ledger') : /\ ledger'[n] = queue'[i].owner
                                             /\ queue'[i].state = Upto(n)'
    <3>1. queue[i].owner \in Calls \ {c} /\ pc[queue[i].owner] = "ledger"
      BY <1>3, <2>2 DEF ChainInv
    <3>2. PICK n \in 1..Len(ledger) : ledger[n] = queue[i].owner /\ queue[i].state = Upto(n)
      BY <2>2 DEF ChainInv
    <3>3. ledger'[n] = queue'[i].owner /\ queue'[i].state = Upto(n)' /\ n \in 1..Len(ledger')
      BY <1>2, <3>2, CompleteFacts
    <3> QED
      BY <1>1, <1>2, <3>1, <3>3
  <2> QED
    BY <1>1, <1>2, <1>6, <2>1, <2>2
<1>9. \A i, j \in 1..Len(queue') :
        i < j /\ Update(i)' /\ Update(j)' => Before(queue'[i].state, queue'[j].state)
  <2>1. \A i \in 1..Len(queue) : Update(i)' => Before(queue'[i].state, queue'[last].state)
    BY <1>2, <1>4, <1>6
  <2>2. last = Len(queue) + 1
    BY DEF last
  <2>3. \A i, j \in 1..Len(queue) :
          i < j /\ Update(i)' /\ Update(j)' => Before(queue'[i].state, queue'[j].state)
    BY <1>2, <1>6 DEF ChainInv
  <2> SUFFICES ASSUME NEW i \in 1..Len(queue'), NEW j \in 1..Len(queue'),
                      i < j, Update(i)', Update(j)'
               PROVE  Before(queue'[i].state, queue'[j].state)
    OBVIOUS
  <2>4. i \in 1..Len(queue) /\ (j = last \/ j \in 1..Len(queue))
    BY <1>2, <2>2
  <2> QED
    BY <2>1, <2>3, <2>4
<1>10. \A k \in 1..Len(ledgerLog') : \E n \in 1..Len(ledger') : ledgerLog'[k] = Upto(n)'
  <2> SUFFICES ASSUME NEW k \in 1..Len(ledgerLog)
               PROVE  \E n \in 1..Len(ledger') : ledgerLog[k] = Upto(n)'
    BY <1>1
  <2>1. PICK n \in 1..Len(ledger) : ledgerLog[k] = Upto(n)
    BY DEF ChainInv
  <2>2. n \in 1..Len(ledger') /\ Upto(n)' = Upto(n)
    BY CompleteFacts
  <2> QED
    BY <2>1, <2>2
<1>11. \A k \in 1..Len(ledgerLog'), i \in 1..Len(queue') :
         Update(i)' => Before(ledgerLog'[k], queue'[i].state)
  <2> SUFFICES ASSUME NEW k \in 1..Len(ledgerLog), NEW i \in 1..Len(queue'), Update(i)'
               PROVE  Before(ledgerLog[k], queue'[i].state)
    BY <1>1
  <2>1. CASE i = last
    BY <1>2, <1>5, <2>1
  <2>2. CASE i \in 1..Len(queue)
    BY <1>2, <1>6, <2>2 DEF ChainInv
  <2> QED
    BY <1>2, <2>1, <2>2
<1> QED
  BY <1>7, <1>8, <1>9, <1>10, <1>11 DEF ChainInv, Before

LEMMA CompleteTold ==
  ASSUME TypeOK, QueueInv, ChainInv, ToldInv, NEW c \in Calls, Complete(c)
  PROVE  ToldInv'
<1>1. /\ At(c, "created") /\ UNCHANGED <<reply, ledgerLog, raised>>
      /\ queue' = Append(queue, [owner |-> c, type |-> "planner.ledger.updated",
                                 state |-> State(c)])
      /\ planning'[c] \in {State(c), {}} /\ \A d \in Calls \ {c} : planning'[d] = planning[d]
      /\ pc'[c] = "ledger" /\ \A d \in Calls \ {c} : pc'[d] = pc[d]
  BY CompleteType DEF fileVars
<1>2. /\ Len(queue) \in Nat /\ Len(queue') = Len(queue) + 1
      /\ queue'[Len(queue) + 1] = [owner |-> c, type |-> "planner.ledger.updated",
                                   state |-> State(c)]
      /\ \A i \in 1..Len(queue) : queue'[i] = queue[i]
  BY <1>1, AppendQueue
<1>3. planning'[c] # {} => Queued(c)'
  <2> SUFFICES ASSUME planning'[c] = State(c) PROVE Queued(c)'
    BY <1>1
  <2>1. Len(queue) + 1 \in 1..Len(queue')
    BY <1>2
  <2> QED
    BY <1>2, <2>1 DEF Queued, Update
<1>4. \A d \in Calls \ {c} : (Shown(d) => Shown(d)') /\ (Queued(d) => Queued(d)')
  BY <1>1, <1>2 DEF Shown, Queued, Update
<1>5. \A d \in Calls : planning'[d] # {} =>
        \E n \in 1..Len(ledger') : ledger'[n] = d /\ planning'[d] = Upto(n)'
  <2>1. planning'[c] # {} =>
          \E n \in 1..Len(ledger') : ledger'[n] = c /\ planning'[c] = Upto(n)'
    <3>1. Len(ledger') \in 1..Len(ledger') /\ ledger'[Len(ledger')] = c
      BY CompleteFacts
    <3> QED
      BY <1>1, <3>1, CompleteFacts
  <2>2. \A d \in Calls \ {c} : planning'[d] # {} =>
          \E n \in 1..Len(ledger') : ledger'[n] = d /\ planning'[d] = Upto(n)'
    BY <1>1, CompleteFacts DEF ToldInv
  <2> QED
    BY <2>1, <2>2
<1>6. \A d \in Calls : pc'[d] # "replied" => reply'[d] = "none"
  BY <1>1 DEF ToldInv, At
<1> QED
  BY <1>1, <1>3, <1>4, <1>5, <1>6 DEF ToldInv

\* A write takes the oldest event, whose coroutine goes on or has lost it.
LEMMA WriteFacts ==
  ASSUME TypeOK, Write
  PROVE  /\ Len(queue) \in Nat \ {0} /\ 1 \in 1..Len(queue) /\ Len(queue') = Len(queue) - 1
         /\ \A i \in 1..Len(queue') :
              /\ i + 1 \in 1..Len(queue) /\ queue'[i] = queue[i + 1]
              /\ Update(i)' <=> Update(i + 1)
         /\ \A i \in 1..Len(queue) : i = 1 \/ i - 1 \in 1..Len(queue')
         /\ UNCHANGED <<phase, pc, planning, reply, ledger, catalog>>
         /\ \A n : Upto(n)' = Upto(n)
         /\ \/ /\ ledgerLog' = IF Update(1) THEN Append(ledgerLog, queue[1].state)
                                             ELSE ledgerLog
               /\ UNCHANGED <<raised, lost>>
            \/ /\ raised' = raised \cup {queue[1].owner} /\ lost' = lost \cup {queue[1].owner}
               /\ ledgerLog' = ledgerLog
<1>1. queue # <<>> /\ queue' = Tail(queue) /\ UNCHANGED <<phase, pc, planning, reply, ledger, catalog>>
  BY DEF Write, runVars, callVars, planVars
<1>2. /\ Head(queue) = queue[1]
      /\ Len(queue') = Len(queue) - 1 /\ Len(queue) \in Nat \ {0}
      /\ \A i \in 1..Len(queue') : i + 1 \in 1..Len(queue) /\ queue'[i] = queue[i + 1]
      /\ \A i \in 1..Len(queue) : i = 1 \/ i - 1 \in 1..Len(queue')
  BY <1>1, HeadType
<1>3. \A n : Upto(n)' = Upto(n)
  BY <1>1 DEF Upto
<1>4. \/ /\ ledgerLog' = IF Update(1) THEN Append(ledgerLog, queue[1].state) ELSE ledgerLog
         /\ UNCHANGED <<raised, lost>>
      \/ /\ raised' = raised \cup {queue[1].owner} /\ lost' = lost \cup {queue[1].owner}
         /\ ledgerLog' = ledgerLog
  BY <1>2 DEF Write, Update
<1>5. \A i \in 1..Len(queue') : Update(i)' <=> Update(i + 1)
  BY <1>2 DEF Update
<1>6. 1 \in 1..Len(queue)
  BY <1>2
<1> QED
  BY <1>1, <1>2, <1>3, <1>4, <1>5, <1>6

\* The states in the trace: the ones it had, and the one just written.
LEMMA LogFacts ==
  ASSUME TypeOK, Write
  PROVE  /\ \A k \in 1..Len(ledgerLog) : k \in 1..Len(ledgerLog') /\ ledgerLog'[k] = ledgerLog[k]
         /\ \A k \in 1..Len(ledgerLog') :
              \/ k \in 1..Len(ledgerLog)
              \/ /\ k = Len(ledgerLog) + 1 /\ Update(1) /\ ledgerLog'[k] = queue[1].state
                 /\ ledgerLog' = Append(ledgerLog, queue[1].state)
         /\ Update(1) =>
              \/ \E k \in 1..Len(ledgerLog') : ledgerLog'[k] = queue[1].state
              \/ queue[1].owner \in raised'
         /\ raised \subseteq raised'
<1>1. ledgerLog \in Seq(SUBSET Calls)
  BY DEF TypeOK
<1>2. \/ ledgerLog' = ledgerLog /\ (Update(1) => queue[1].owner \in raised')
      \/ ledgerLog' = Append(ledgerLog, queue[1].state) /\ Update(1)
  BY WriteFacts
<1>3. raised \subseteq raised'
  BY WriteFacts
<1>4. CASE ledgerLog' = ledgerLog /\ (Update(1) => queue[1].owner \in raised')
  BY <1>1, <1>3, <1>4
<1>5. CASE ledgerLog' = Append(ledgerLog, queue[1].state) /\ Update(1)
  <2>1. /\ Len(ledgerLog) \in Nat /\ Len(ledgerLog') = Len(ledgerLog) + 1
        /\ ledgerLog'[Len(ledgerLog) + 1] = queue[1].state
        /\ \A k \in 1..Len(ledgerLog) : ledgerLog'[k] = ledgerLog[k]
    BY <1>1, <1>5
  <2>2. Len(ledgerLog) + 1 \in 1..Len(ledgerLog')
    BY <2>1
  <2> QED
    BY <1>3, <1>5, <2>1, <2>2
<1> QED
  BY <1>2, <1>4, <1>5

LEMMA WriteChain == ASSUME TypeOK, ChainInv, Write PROVE ChainInv'
<1>1. /\ \A i, j \in 1..Len(ledger') : ledger'[i] = ledger'[j] => i = j
      /\ \A n \in 1..Len(ledger') : pc'[ledger'[n]] \in Late
  BY WriteFacts DEF ChainInv
<1>2. \A i \in 1..Len(queue') : Update(i)' =>
        /\ queue'[i].owner \in Calls /\ pc'[queue'[i].owner] = "ledger"
        /\ \E n \in 1..Len(ledger') : /\ ledger'[n] = queue'[i].owner
                                      /\ queue'[i].state = Upto(n)'
  BY WriteFacts DEF ChainInv
<1>3. \A i, j \in 1..Len(queue') :
        i < j /\ Update(i)' /\ Update(j)' => Before(queue'[i].state, queue'[j].state)
  <2> SUFFICES ASSUME NEW i \in 1..Len(queue'), NEW j \in 1..Len(queue'),
                      i < j, Update(i)', Update(j)'
               PROVE  Before(queue'[i].state, queue'[j].state)
    OBVIOUS
  <2>1. i + 1 < j + 1 /\ Update(i + 1) /\ Update(j + 1)
    BY WriteFacts
  <2>2. /\ i + 1 \in 1..Len(queue) /\ queue'[i] = queue[i + 1]
        /\ j + 1 \in 1..Len(queue) /\ queue'[j] = queue[j + 1]
    BY WriteFacts
  <2> QED
    BY <2>1, <2>2 DEF ChainInv
<1>4. \A k \in 1..Len(ledgerLog') : \E n \in 1..Len(ledger') : ledgerLog'[k] = Upto(n)'
  <2> SUFFICES ASSUME NEW k \in 1..Len(ledgerLog')
               PROVE  \E n \in 1..Len(ledger) : ledgerLog'[k] = Upto(n)
    BY WriteFacts
  <2>1. CASE k \in 1..Len(ledgerLog)
    <3>1. ledgerLog'[k] = ledgerLog[k]
      BY <2>1, LogFacts
    <3> QED
      BY <2>1, <3>1 DEF ChainInv
  <2>2. CASE Update(1) /\ ledgerLog'[k] = queue[1].state
    <3>1. 1 \in 1..Len(queue)
      BY WriteFacts
    <3> QED
      BY <2>2, <3>1 DEF ChainInv
  <2> QED
    BY <2>1, <2>2, LogFacts
<1>5. \A k \in 1..Len(ledgerLog'), i \in 1..Len(queue') :
        Update(i)' => Before(ledgerLog'[k], queue'[i].state)
  <2> SUFFICES ASSUME NEW k \in 1..Len(ledgerLog'), NEW i \in 1..Len(queue'), Update(i)'
               PROVE  Before(ledgerLog'[k], queue'[i].state)
    OBVIOUS
  <2>1. i + 1 \in 1..Len(queue) /\ Update(i + 1) /\ queue'[i] = queue[i + 1] /\ 1 < i + 1
    BY WriteFacts
  <2>2. CASE k \in 1..Len(ledgerLog)
    BY <2>1, <2>2, LogFacts DEF ChainInv
  <2>3. CASE Update(1) /\ ledgerLog'[k] = queue[1].state
    BY <2>1, <2>3, WriteFacts DEF ChainInv
  <2> QED
    BY <2>2, <2>3, LogFacts
<1> QED
  BY <1>1, <1>2, <1>3, <1>4, <1>5 DEF ChainInv, Before

LEMMA WriteTold == ASSUME TypeOK, ToldInv, Write PROVE ToldInv'
<1>1. \A c \in Calls : Shown(c) => Shown(c)'
  BY WriteFacts, LogFacts DEF Shown
<1>2. \A c \in Calls : Queued(c) => Queued(c)' \/ Shown(c)' \/ c \in raised'
  <2> SUFFICES ASSUME NEW c \in Calls, NEW i \in 1..Len(queue),
                      Update(i), queue[i].owner = c, queue[i].state = planning[c]
               PROVE  Queued(c)' \/ Shown(c)' \/ c \in raised'
    BY DEF Queued
  <2>1. CASE i = 1
    BY <2>1, WriteFacts, LogFacts DEF Shown
  <2>2. CASE i # 1
    <3>1. i - 1 \in 1..Len(queue') /\ (i - 1) + 1 = i
      BY <2>2, WriteFacts
    <3>2. queue'[i - 1] = queue[i] /\ Update(i - 1)'
      BY <3>1, WriteFacts DEF Update
    <3> QED
      BY <3>1, <3>2, WriteFacts DEF Queued, Update
  <2> QED
    BY <2>1, <2>2
<1>3. raised \subseteq raised'
  BY LogFacts
<1> QED
  BY <1>1, <1>2, <1>3, WriteFacts DEF ToldInv

LEMMA StutterHistory ==
  ASSUME ChainInv, ToldInv, UNCHANGED vars
  PROVE  ChainInv' /\ ToldInv'
<1>1. UNCHANGED <<pc, planning, reply, ledger, queue, ledgerLog, raised>>
  BY DEF vars, callVars, planVars, fileVars
<1>2. /\ \A n : Upto(n)' = Upto(n)
      /\ \A i : Update(i)' <=> Update(i)
      /\ \A c : (Shown(c)' <=> Shown(c)) /\ (Queued(c)' <=> Queued(c))
  BY <1>1 DEF Upto, Update, Shown, Queued
<1>3. ChainInv'
  BY <1>1, <1>2 DEF ChainInv, Before
<1>4. ToldInv'
  BY <1>1, <1>2 DEF ToldInv
<1> QED
  BY <1>3, <1>4

LEMMA HistoryStep ==
  TypeOK /\ QueueInv /\ ChainInv /\ ToldInv /\ [Next]_vars => ChainInv' /\ ToldInv'
  BY ToolSteps, PlainQuiet, RunQuiet, QuietChain, QuietTold, CompleteChain, CompleteTold,
     WriteChain, WriteTold, StutterHistory DEF Next
-----------------------------------------------------------------------------
(* The run implements PlanningHistory: the ledger is its history, the      *)
(* states in the trace what is published, and the replies what is told.    *)
LEMMA UptoPrefix ==
  ASSUME NEW n
  PROVE  H!Prefix(n) = Upto(n)
BY DEF H!Prefix, Upto

LEMMA HistoryInitial == Init => H!Init
  BY DEF Init, H!Init, Told

LEMMA TellStep ==
  ASSUME TypeOK, QueueInv, ChainInv, ToldInv, NEW c \in Calls, Plain(c), Tool(c)
  PROVE  [H!Next]_(H!vars)
<1>1. UNCHANGED <<ledger, ledgerLog, planning>> /\ reply[c] = "none" /\ pc[c] # "replied"
  BY DEF Plain, ToldInv
<1>2. \A d \in Calls \ {c} : reply'[d] = reply[d]
  BY ToolOrder
<1>3. Told(c) = {} /\ Told(c)' = IF reply'[c] = "ok" THEN planning[c] ELSE {}
  BY <1>1 DEF Told
<1>4. \A d \in Calls \ {c} : Told(d)' = Told(d)
  BY <1>1, <1>2 DEF Told
<1>5. CASE reply'[c] = "ok" /\ planning[c] # {}
  <2>1. PICK n \in 1..Len(ledger) : ledger[n] = c /\ planning[c] = Upto(n)
    BY <1>5 DEF ToldInv
  <2>2. Shown(c)
    <3>1. pc[c] = "ledger" => c \notin raised /\ ~Queued(c)
      BY <1>5, ToolOrder DEF Written, Recording, Queued
    <3> QED
      BY <1>1, <1>5, <3>1 DEF ToldInv
  <2>3. H!Prefix(n) = planning[c] /\ \E k \in 1..Len(ledgerLog) : ledgerLog[k] = H!Prefix(n)
    BY <2>1, <2>2, UptoPrefix DEF Shown
  <2>4. [d \in Calls |-> Told(d)]' = [[d \in Calls |-> Told(d)] EXCEPT ![c] = H!Prefix(n)]
    BY <1>3, <1>4, <1>5, <2>3
  <2>5. H!Tell(c)
    BY <1>1, <1>3, <2>1, <2>3, <2>4 DEF H!Tell
  <2> QED
    BY <2>5 DEF H!Next
<1>6. CASE ~(reply'[c] = "ok" /\ planning[c] # {})
  <2>1. \A d \in Calls : Told(d)' = Told(d)
    BY <1>3, <1>4, <1>6
  <2> QED
    BY <1>1, <2>1 DEF H!vars
<1> QED
  BY <1>5, <1>6

LEMMA CompleteStep ==
  ASSUME TypeOK, QueueInv, ChainInv, ToldInv, NEW c \in Calls, Complete(c)
  PROVE  H!Next
<1>1. /\ At(c, "created") /\ ledger' = Append(ledger, c) /\ UNCHANGED <<reply, ledgerLog>>
      /\ \A d \in Calls \ {c} : planning'[d] = planning[d]
  BY CompleteType DEF fileVars
<1>2. c \notin H!Prefix(Len(ledger))
  BY CompleteFacts DEF H!Prefix, Elements
<1>3. reply[c] = "none"
  BY <1>1 DEF At, ToldInv
<1>4. \A d \in Calls : Told(d)' = Told(d)
  BY <1>1, <1>3 DEF Told
<1>5. H!Complete(c)
  BY <1>1, <1>2, <1>4 DEF H!Complete
<1> QED
  BY <1>5 DEF H!Next

LEMMA PublishStep ==
  ASSUME TypeOK, QueueInv, ChainInv, ToldInv, Write
  PROVE  [H!Next]_(H!vars)
<1>1. UNCHANGED <<ledger, planning, reply>>
  BY WriteFacts
<1>2. \A d \in Calls : Told(d)' = Told(d)
  BY <1>1 DEF Told
<1>3. CASE ledgerLog' = ledgerLog
  BY <1>1, <1>2, <1>3 DEF H!vars
<1>4. CASE Update(1) /\ ledgerLog' = Append(ledgerLog, queue[1].state)
  <2>1. 1 \in 1..Len(queue)
    BY WriteFacts
  <2>2. queue[1].state \in H!Prefixes
    BY <1>4, <2>1, UptoPrefix DEF ChainInv, H!Prefixes
  <2>3. \A k \in 1..Len(ledgerLog) :
          ledgerLog[k] \subseteq queue[1].state /\ ledgerLog[k] # queue[1].state
    BY <1>4, <2>1 DEF ChainInv, Before
  <2>4. H!Publish(queue[1].state)
    BY <1>1, <1>2, <1>4, <2>2, <2>3 DEF H!Publish
  <2> QED
    BY <2>2, <2>4 DEF H!Next
<1> QED
  BY <1>3, <1>4, WriteFacts

LEMMA QuietStep ==
  ASSUME TypeOK, QueueInv, ToldInv, RunStep
  PROVE  UNCHANGED H!vars
<1>1. UNCHANGED <<ledger, ledgerLog, planning>>
  BY RunQuiet DEF Quiet
<1>2. UNCHANGED reply
  BY DEF RunStep, Initialize, StartTurn, ExhaustTurns, CallModel, ModelAnswers, ModelFails,
         IssueCalls, FinishRun, Return, callVars
<1>3. \A d \in Calls : Told(d)' = Told(d)
  BY <1>1, <1>2 DEF Told
<1> QED
  BY <1>1, <1>3 DEF H!vars

LEMMA HistoryNext ==
  TypeOK /\ QueueInv /\ ChainInv /\ ToldInv /\ [Next]_vars => [H!Next]_(H!vars)
<1> SUFFICES ASSUME TypeOK, QueueInv, ChainInv, ToldInv, [Next]_vars
             PROVE  [H!Next]_(H!vars)
  OBVIOUS
<1>1. CASE UNCHANGED vars
  <2>1. UNCHANGED <<ledger, ledgerLog, planning, reply>>
    BY <1>1 DEF vars, callVars, planVars, fileVars
  <2>2. \A d \in Calls : Told(d)' = Told(d)
    BY <2>1 DEF Told
  <2> QED
    BY <2>1, <2>2 DEF H!vars
<1> QED
  BY <1>1, ToolSteps, TellStep, CompleteStep, PublishStep, QuietStep DEF Next

\* The replies and the trace show the ledger's own history: every state
\* recorded is one it went through, each later one includes the earlier ones,
\* and a reply carries the state of its call's completion, after the trace.
THEOREM HistoryKept == Spec => HistorySpec
<1>1. Spec => [](TypeOK /\ QueueInv /\ ChainInv /\ ToldInv)
  BY TypeInit, TypeStep, QueueInit, QueueStep, HistoryInit, HistoryStep, PTL DEF Spec
<1> QED
  BY <1>1, HistoryInitial, HistoryNext, PTL DEF Spec, HistorySpec, H!Spec
-----------------------------------------------------------------------------
(* The history in the trace.  As long as no completed invocation has lost  *)
(* an event, the trace holds the first states of the ledger, and the queue *)
(* all the others.                                                         *)
Outstanding(n) == \E i \in 1..Len(queue) : Update(i) /\ queue[i].state = Upto(n)

TraceInv ==
  Elements(ledger) \cap lost = {} =>
    /\ Len(ledgerLog) <= Len(ledger)
    /\ \A k \in 1..Len(ledgerLog) : ledgerLog[k] = Upto(k)
    /\ \A n \in 1..Len(ledger) : n > Len(ledgerLog) => Outstanding(n)

LEMMA TraceInit == Init => TraceInv
  BY DEF Init, TraceInv

LEMMA Lengths ==
  ASSUME TypeOK
  PROVE  /\ Len(ledger) \in Nat /\ Len(ledgerLog) \in Nat
         /\ \A m, n \in 1..Len(ledger) : Before(Upto(m), Upto(n)) => m < n
<1>1. Len(ledger) \in Nat /\ Len(ledgerLog) \in Nat
  BY DEF TypeOK
<1>2. \A m, n \in 1..Len(ledger) : n <= m => Upto(n) \subseteq Upto(m)
  BY <1>1 DEF Upto
<1>3. ASSUME NEW m \in 1..Len(ledger), NEW n \in 1..Len(ledger),
             Before(Upto(m), Upto(n)), ~(m < n)
      PROVE  FALSE
  <2>1. n <= m
    BY <1>1, <1>3
  <2>2. Upto(n) \subseteq Upto(m)
    BY <1>2, <2>1
  <2> QED
    BY <1>3, <2>2 DEF Before
<1> QED
  BY <1>1, <1>3

LEMMA QuietTrace == ASSUME TypeOK, TraceInv, Quiet PROVE TraceInv'
<1>1. UNCHANGED <<ledger, ledgerLog, lost>> /\ \A n : Upto(n)' = Upto(n)
  BY DEF Quiet, Upto
<1>2. \A n : Outstanding(n) => Outstanding(n)'
  BY <1>1, QuietEvents DEF Outstanding
<1> QED
  BY <1>1, <1>2 DEF TraceInv, Elements

LEMMA CompleteTrace ==
  ASSUME TypeOK, ChainInv, ToldInv, TraceInv, NEW c \in Calls, Complete(c)
  PROVE  TraceInv'
<1>1. /\ UNCHANGED <<ledgerLog, lost>>
      /\ queue' = Append(queue, [owner |-> c, type |-> "planner.ledger.updated",
                                 state |-> State(c)])
  BY CompleteType DEF fileVars
<1>2. /\ Len(queue) \in Nat /\ Len(queue') = Len(queue) + 1
      /\ queue'[Len(queue) + 1] = [owner |-> c, type |-> "planner.ledger.updated",
                                   state |-> State(c)]
      /\ \A i \in 1..Len(queue) : queue'[i] = queue[i]
  BY <1>1, AppendQueue
<1> SUFFICES ASSUME (Elements(ledger) \cap lost = {})'
             PROVE  /\ Len(ledgerLog) <= Len(ledger')
                    /\ \A k \in 1..Len(ledgerLog) : ledgerLog[k] = Upto(k)'
                    /\ \A n \in 1..Len(ledger') : n > Len(ledgerLog) => Outstanding(n)'
  BY <1>1 DEF TraceInv
<1>3. Elements(ledger) \cap lost = {}
  BY <1>1, CompleteFacts DEF Elements
<1>4. /\ Len(ledgerLog) <= Len(ledger') /\ \A k \in 1..Len(ledgerLog) : k \in 1..Len(ledger)
      /\ \A n \in 1..Len(ledger') : n \in 1..Len(ledger) \/ n = Len(ledger')
  BY <1>3, Lengths, CompleteFacts DEF TraceInv
<1>5. \A k \in 1..Len(ledgerLog) : ledgerLog[k] = Upto(k)'
  BY <1>3, <1>4, CompleteFacts DEF TraceInv
<1>6. \A n \in 1..Len(ledger) : Outstanding(n) => Outstanding(n)'
  BY <1>2, CompleteFacts DEF Outstanding, Update
<1>7. Outstanding(Len(ledger))'
  <2>1. Len(queue) + 1 \in 1..Len(queue')
    BY <1>2
  <2> QED
    BY <1>2, <2>1, CompleteFacts DEF Outstanding, Update
<1>8. \A n \in 1..Len(ledger') : n > Len(ledgerLog) => Outstanding(n)'
  BY <1>3, <1>4, <1>6, <1>7 DEF TraceInv
<1> QED
  BY <1>4, <1>5, <1>8

LEMMA WriteTrace == ASSUME TypeOK, ChainInv, TraceInv, Write PROVE TraceInv'
<1>1. UNCHANGED ledger /\ lost \subseteq lost'
  BY WriteFacts
<1> SUFFICES ASSUME Elements(ledger) \cap lost' = {}
             PROVE  /\ Len(ledgerLog') <= Len(ledger)
                    /\ \A k \in 1..Len(ledgerLog') : ledgerLog'[k] = Upto(k)
                    /\ \A n \in 1..Len(ledger) : n > Len(ledgerLog') => Outstanding(n)'
  BY <1>1, WriteFacts DEF TraceInv, Elements
<1>2. /\ Len(ledgerLog) <= Len(ledger)
      /\ \A k \in 1..Len(ledgerLog) : ledgerLog[k] = Upto(k)
      /\ \A n \in 1..Len(ledger) : n > Len(ledgerLog) => Outstanding(n)
  BY <1>1 DEF TraceInv
<1>3. \A n : \A i \in 1..Len(queue) :
        i # 1 /\ Update(i) /\ queue[i].state = Upto(n) => Outstanding(n)'
  <2> SUFFICES ASSUME NEW n, NEW i \in 1..Len(queue),
                      i # 1, Update(i), queue[i].state = Upto(n)
               PROVE  Outstanding(n)'
    OBVIOUS
  <2>1. i - 1 \in 1..Len(queue') /\ (i - 1) + 1 = i
    BY WriteFacts
  <2>2. queue'[i - 1] = queue[i] /\ Update(i - 1)'
    BY <2>1, WriteFacts DEF Update
  <2> QED
    BY <2>1, <2>2, WriteFacts DEF Outstanding, Update
<1>4. CASE ~Update(1)
  <2>1. ledgerLog' = ledgerLog
    BY <1>4, WriteFacts
  <2>2. \A n : Outstanding(n) => Outstanding(n)'
    BY <1>3, <1>4 DEF Outstanding
  <2> QED
    BY <1>2, <2>1, <2>2
<1>5. CASE Update(1)
  <2>1. PICK n \in 1..Len(ledger) : ledger[n] = queue[1].owner /\ queue[1].state = Upto(n)
    BY <1>5, WriteFacts DEF ChainInv
  <2>2. ledgerLog' = Append(ledgerLog, Upto(n))
    BY <1>5, <2>1, WriteFacts DEF Elements
  <2>3. n > Len(ledgerLog)
    <3>1. \A k \in 1..Len(ledgerLog) : Before(Upto(k), Upto(n)) /\ k \in 1..Len(ledger)
      <4>1. 1 \in 1..Len(queue)
        BY WriteFacts
      <4>2. \A k \in 1..Len(ledgerLog) : Before(ledgerLog[k], queue[1].state)
        BY <1>5, <4>1 DEF ChainInv
      <4> QED
        BY <1>2, <2>1, <4>2, Lengths
    <3> QED
      BY <3>1, Lengths
  <2>4. \A m \in 1..Len(ledger) : m > Len(ledgerLog) /\ m # n => n < m /\ Outstanding(m)'
    <3> SUFFICES ASSUME NEW m \in 1..Len(ledger), m > Len(ledgerLog), m # n
                 PROVE  n < m /\ Outstanding(m)'
      OBVIOUS
    <3>1. PICK i \in 1..Len(queue) : Update(i) /\ queue[i].state = Upto(m)
      BY <1>2 DEF Outstanding
    <3>2. i # 1
      <4>1. CASE i = 1
        <5>1. Upto(m) = Upto(n)
          BY <2>1, <3>1, <4>1
        <5>2. \A j \in 1..Len(ledger) : ledger[j] \in Upto(j)
          BY DEF Upto
        <5>3. m < n => ledger[n] \notin Upto(m)
          BY DEF Upto, ChainInv
        <5>4. n < m => ledger[m] \notin Upto(n)
          BY DEF Upto, ChainInv
        <5>5. m < n \/ n < m
          OBVIOUS
        <5> QED
          BY <5>1, <5>2, <5>3, <5>4, <5>5
      <4> QED
        BY <4>1
    <3>3. Before(Upto(n), Upto(m))
      BY <1>5, <2>1, <3>1, <3>2, WriteFacts DEF ChainInv
    <3> QED
      BY <1>3, <3>1, <3>2, <3>3, Lengths
  <2>5. n = Len(ledgerLog) + 1
    BY <1>2, <2>3, <2>4, Lengths
  <2>6. /\ Len(ledgerLog') = n /\ ledgerLog'[n] = Upto(n)
        /\ \A k \in 1..Len(ledgerLog) : ledgerLog'[k] = ledgerLog[k]
    <3>1. ledgerLog \in Seq(SUBSET Calls)
      BY DEF TypeOK
    <3> QED
      BY <2>2, <2>5, <3>1
  <2> QED
    BY <1>2, <2>4, <2>5, <2>6, Lengths
<1> QED
  BY <1>4, <1>5

LEMMA TraceStep ==
  TypeOK /\ QueueInv /\ ChainInv /\ ToldInv /\ TraceInv /\ [Next]_vars => TraceInv'
<1> SUFFICES ASSUME TypeOK, QueueInv, ChainInv, ToldInv, TraceInv, [Next]_vars
             PROVE  TraceInv'
  OBVIOUS
<1>1. CASE UNCHANGED vars
  <2>1. UNCHANGED <<ledger, ledgerLog, lost, queue>>
    BY <1>1 DEF vars, planVars, fileVars
  <2>2. \A n : Upto(n)' = Upto(n) /\ (Outstanding(n)' <=> Outstanding(n))
    BY <2>1 DEF Outstanding, Upto, Update
  <2> QED
    BY <2>1, <2>2 DEF TraceInv, Elements
<1> QED
  BY <1>1, ToolSteps, PlainQuiet, RunQuiet, QuietTrace, CompleteTrace, WriteTrace DEF Next

LEMMA TraceImplies ==
  TypeOK /\ QueueInv /\ ChainInv /\ TraceInv => HistoryInTrace
<1> SUFFICES ASSUME TypeOK, QueueInv, ChainInv, TraceInv,
                    phase = "done", Elements(ledger) \cap lost = {}, ledger # <<>>
             PROVE  /\ Len(ledgerLog) = Len(ledger)
                    /\ ledgerLog[Len(ledgerLog)] = Elements(ledger)
  BY DEF HistoryInTrace
<1>1. \A n : ~Outstanding(n)
  BY QueueImpliesLast DEF FinishIsLast, Outstanding, Update
<1>2. Len(ledger) \in Nat \ {0}
  BY DEF TypeOK
<1>3. Len(ledgerLog) = Len(ledger)
  BY <1>1, <1>2, Lengths DEF TraceInv
<1>4. ledgerLog[Len(ledgerLog)] = Upto(Len(ledger))
  BY <1>2, <1>3 DEF TraceInv
<1> QED
  BY <1>3, <1>4 DEF Upto, Elements

\* Once the run has returned, the trace shows the whole history of the
\* ledger, no state left out, unless a completed invocation lost an event.
THEOREM TraceWhole == Spec => []HistoryInTrace
  BY TypeInit, TypeStep, QueueInit, QueueStep, HistoryInit, HistoryStep, TraceInit,
     TraceStep, TraceImplies, PTL DEF Spec
-----------------------------------------------------------------------------
(* What the model is told it can use.                                      *)
Summarized == {"ledger", "inspect", "download", "inspected"}

UsableInv ==
  /\ Elements(ledger) \subseteq catalog
  /\ \A c \in Calls : kind[c] # "inspect" =>
       /\ pc[c] \in Summarized => c \in catalog
       /\ reply[c] = "ok" => c \in catalog

LEMMA UsableInit == Init => UsableInv
  BY DEF Init, UsableInv, Summarized, Elements

\* An output is registered before it is summarised and reported.
LEMMA UsableTool ==
  ASSUME TypeOK, ToldInv, UsableInv, NEW c \in Calls, Tool(c), kind[c] # "inspect"
  PROVE  /\ pc'[c] \in Summarized => c \in catalog'
         /\ reply'[c] = "ok" => c \in catalog'
<1>1. reply[c] = "ok" => c \in catalog
  BY DEF UsableInv
<1>2. catalog \subseteq catalog'
  BY ToolSteps, CompleteType DEF Plain
<1>3. CASE Announce(c) \/ Request(c) \/ Select(c) \/ Localize(c) \/ Localized(c)
             \/ StartOperator(c) \/ Run(c) \/ RunSucceeds(c) \/ RunFails(c)
             \/ RecordOutput(c) \/ InspectedUnrecorded(c)
  <2>1. reply' = reply
    BY <1>3 DEF Announce, Request, Select, Localize, Localized, StartOperator, Run,
                RunSucceeds, RunFails, RecordOutput, InspectedUnrecorded
  <2>2. \E label \in Labels \ (Summarized \cup {"replied"}) : Goto(c, label)
    BY <1>3 DEF Announce, Request, Select, Localize, Localized, StartOperator, Run,
                RunSucceeds, RunFails, RecordOutput, InspectedUnrecorded, Await, Labels,
                Summarized
  <2> QED
    BY <1>1, <1>2, <2>1, <2>2, GotoType
<1>4. CASE RejectModel(c) \/ RejectRequest(c) \/ LocalizeFails(c) \/ Fail(c)
  <2>1. Answer(c, "error")
    BY <1>4 DEF RejectModel, RejectRequest, LocalizeFails, Fail
  <2> QED
    BY <2>1, AnswerType DEF Summarized
<1>5. CASE Complete(c) \/ CompleteOperator(c)
  BY <1>5 DEF Complete, CompleteOperator
<1>6. CASE SummarizeCompleted(c) \/ Download(c) \/ DownloadEnds(c) \/ Inspected(c)
  <2>1. pc[c] \in Summarized
    BY <1>6 DEF SummarizeCompleted, Download, DownloadEnds, Inspected, At, Summarized
  <2> QED
    BY <1>2, <2>1 DEF UsableInv
<1> QED
  BY <1>3, <1>4, <1>5, <1>6 DEF Tool

LEMMA UsableTools ==
  ASSUME TypeOK, QueueInv, ToldInv, UsableInv, NEW c \in Calls, Tool(c)
  PROVE  UsableInv'
<1>1. kind' = kind /\ catalog \subseteq catalog'
  BY ToolSteps, CompleteType DEF Plain
<1>2. \A d \in Calls \ {c} : pc'[d] = pc[d] /\ reply'[d] = reply[d]
  BY ToolSteps, ToolOrder, CompleteType
<1>3. Elements(ledger)' \subseteq catalog'
  <2>1. CASE Plain(c)
    BY <1>1, <2>1 DEF Plain, UsableInv, Elements
  <2>2. CASE Complete(c)
    <3>1. catalog' = catalog \cup {c} /\ ledger' = Append(ledger, c)
      BY <2>2, CompleteType
    <3>2. ledger \in Seq(Calls)
      BY DEF TypeOK
    <3>3. Elements(ledger)' \subseteq Elements(ledger) \cup {c}
      BY <3>1, <3>2 DEF Elements
    <3> QED
      BY <1>1, <3>1, <3>3 DEF UsableInv
  <2> QED
    BY <2>1, <2>2, ToolSteps
<1>4. kind[c] # "inspect" => (pc'[c] \in Summarized => c \in catalog')
                             /\ (reply'[c] = "ok" => c \in catalog')
  BY UsableTool
<1> QED
  BY <1>1, <1>2, <1>3, <1>4 DEF UsableInv

LEMMA UsableRun ==
  ASSUME TypeOK, ToldInv, UsableInv, RunStep
  PROVE  UsableInv'
<1>1. CASE IssueCalls
  <2>1. UNCHANGED <<ledger, catalog, reply>>
    BY <1>1, IssueType DEF planVars
  <2>2. \A c \in Calls : \/ pc[c] = "idle" /\ pc'[c] = "called"
                         \/ pc'[c] = pc[c] /\ kind'[c] = kind[c]
    BY <1>1, IssueType
  <2>3. \A c \in Calls : pc[c] = "idle" => reply[c] = "none"
    BY DEF ToldInv
  <2> QED
    BY <2>1, <2>2, <2>3 DEF UsableInv, Summarized, Elements
<1>2. CASE ~IssueCalls
  <2>1. UNCHANGED <<ledger, catalog, reply, pc, kind>>
    BY <1>2 DEF RunStep, Initialize, StartTurn, ExhaustTurns, CallModel, ModelAnswers,
                ModelFails, FinishRun, Return, RecordFinish, callVars, planVars
  <2> QED
    BY <2>1 DEF UsableInv, Elements
<1> QED
  BY <1>1, <1>2

LEMMA UsableStep ==
  TypeOK /\ QueueInv /\ ToldInv /\ UsableInv /\ [Next]_vars => UsableInv'
<1> SUFFICES ASSUME TypeOK, QueueInv, ToldInv, UsableInv, [Next]_vars PROVE UsableInv'
  OBVIOUS
<1>1. CASE Write \/ UNCHANGED vars
  <2>1. UNCHANGED <<ledger, catalog, reply, pc, kind>>
    BY <1>1 DEF Write, vars, callVars, planVars
  <2> QED
    BY <2>1 DEF UsableInv, Elements
<1> QED
  BY <1>1, UsableTools, UsableRun DEF Next

LEMMA UsableImplies == TypeOK /\ ToldInv /\ UsableInv => TellsUsableIds
<1> SUFFICES ASSUME TypeOK, ToldInv, UsableInv, NEW c \in Calls
             PROVE  /\ reply[c] = "ok" /\ kind[c] # "inspect" => c \in catalog
                    /\ Told(c) \subseteq catalog
  BY DEF TellsUsableIds
<1>1. planning[c] \subseteq Elements(ledger)
  BY Lengths DEF ToldInv, Upto, Elements
<1> QED
  BY <1>1 DEF UsableInv, Told

\* Whatever a successful reply tells the model, the catalog resolves.
THEOREM UsableIds == Spec => []TellsUsableIds
  BY TypeInit, TypeStep, QueueInit, QueueStep, HistoryInit, HistoryStep, UsableInit,
     UsableStep, UsableImplies, PTL DEF Spec
-----------------------------------------------------------------------------
(* Spans.  What a coroutine has recorded is in its part of the trace or in *)
(* the queue; it has recorded a start without its end at the labels        *)
(* between the two, if it has lost no event.                               *)
Tally(list, type) == Cardinality({i \in 1..Len(list) : list[i] = type})
Due(o, type) ==
  IF \E i \in 1..Len(queue) : queue[i].owner = o /\ queue[i].type = type THEN 1 ELSE 0
Recordings(o, type) == Count(o, type) + Due(o, type)

Calling == {"start", "model"}
Executing == {"start", "run"}
Inspecting == {"inspect", "download"}

SpanInv ==
  /\ Coordinator \notin lost =>
       Recordings(Coordinator, "planner.llm.start")
         = Recordings(Coordinator, "planner.llm.end") + (IF phase \in Calling THEN 1 ELSE 0)
  /\ \A c \in Calls \ lost :
       /\ Recordings(c, "worker.execution.start")
            = Recordings(c, "worker.execution.end") + (IF pc[c] \in Executing THEN 1 ELSE 0)
       /\ Recordings(c, "artifact.inspect.start")
            = Recordings(c, "artifact.inspect.end") + (IF pc[c] \in Inspecting THEN 1 ELSE 0)

LEMMA TallyType ==
  ASSUME NEW list \in Seq(EventTypes), NEW type
  PROVE  /\ IsFiniteSet({i \in 1..Len(list) : list[i] = type})
         /\ Tally(list, type) \in Nat
<1>1. Len(list) \in Nat
  OBVIOUS
<1>2. IsFiniteSet(1..Len(list))
  BY <1>1, FS_Interval
<1>3. {i \in 1..Len(list) : list[i] = type} \subseteq 1..Len(list)
  OBVIOUS
<1> QED
  BY <1>2, <1>3, FS_Subset, FS_CardinalityType DEF Tally

LEMMA TallyAppend ==
  ASSUME NEW list \in Seq(EventTypes), NEW event \in EventTypes, NEW type
  PROVE  Tally(Append(list, event), type)
           = Tally(list, type) + (IF event = type THEN 1 ELSE 0)
<1> DEFINE S == {i \in 1..Len(list) : list[i] = type}
           longer == Append(list, event)
           T == {i \in 1..Len(longer) : longer[i] = type}
<1>1. /\ Len(list) \in Nat /\ Len(longer) = Len(list) + 1 /\ longer[Len(list) + 1] = event
      /\ \A i \in 1..Len(list) : longer[i] = list[i]
  OBVIOUS
<1>2. Tally(list, type) = Cardinality(S) /\ Tally(longer, type) = Cardinality(T)
  BY DEF Tally
<1>3. IsFiniteSet(S) /\ Cardinality(S) \in Nat
  BY TallyType DEF Tally
<1>4. Len(list) + 1 \notin S
  BY <1>1
<1>5. T = IF event = type THEN S \cup {Len(list) + 1} ELSE S
  <2> HIDE DEF longer
  <2> QED
    BY <1>1
<1> HIDE DEF S, T, longer
<1>6. Tally(longer, type) = Tally(list, type) + (IF event = type THEN 1 ELSE 0)
  <2>1. CASE event = type
    <3>1. T = S \cup {Len(list) + 1}
      BY <1>5, <2>1
    <3>2. Cardinality(T) = Cardinality(S) + 1
      BY <1>3, <1>4, <3>1, FS_AddElement
    <3> QED
      BY <1>2, <2>1, <3>2
  <2>2. CASE event # type
    BY <1>2, <1>3, <1>5, <2>2
  <2> QED
    BY <2>1, <2>2
<1> QED
  BY <1>6 DEF longer

LEMMA RecordingsType ==
  ASSUME TypeOK
  PROVE  \A o \in Coroutines : \A type : /\ Count(o, type) = Tally(trace[o], type)
                                         /\ Count(o, type) \in Nat /\ Due(o, type) \in {0, 1}
<1>1. \A o \in Coroutines : trace[o] \in Seq(EventTypes)
  BY DEF TypeOK
<1>2. \A o, type : Count(o, type) = Tally(trace[o], type) /\ Due(o, type) \in {0, 1}
  BY DEF Count, Tally, Due
<1> QED
  BY <1>1, <1>2, TallyType

LEMMA AppendSpan ==
  ASSUME TypeOK, NEW o \in Coroutines, NEW type, NEW state, ~Recording(o), UNCHANGED trace,
         queue' = Append(queue, [owner |-> o, type |-> type, state |-> state])
  PROVE  \A p \in Coroutines : \A t :
           Recordings(p, t)' = Recordings(p, t) + (IF p = o /\ t = type THEN 1 ELSE 0)
<1>1. /\ Len(queue') = Len(queue) + 1 /\ Len(queue) \in Nat
      /\ queue'[Len(queue) + 1].owner = o /\ queue'[Len(queue) + 1].type = type
      /\ \A i \in 1..Len(queue) : queue'[i] = queue[i]
      /\ \A i \in 1..Len(queue') : i = Len(queue) + 1 \/ i \in 1..Len(queue)
  BY AppendQueue
<1>2. \A p, t : Count(p, t)' = Count(p, t)
  BY DEF Count
<1>3. \A t : Due(o, t) = 0
  BY DEF Due, Recording
<1>4. \A p \in Coroutines : \A t :
        Due(p, t)' = IF p = o /\ t = type THEN 1 ELSE Due(p, t)
  <2> SUFFICES ASSUME NEW p \in Coroutines, NEW t
               PROVE  Due(p, t)' = IF p = o /\ t = type THEN 1 ELSE Due(p, t)
    OBVIOUS
  <2>1. Len(queue) + 1 \in 1..Len(queue')
    BY <1>1
  <2>2. (\E i \in 1..Len(queue') : queue'[i].owner = p /\ queue'[i].type = t)
          <=> \/ p = o /\ t = type
              \/ \E i \in 1..Len(queue) : queue[i].owner = p /\ queue[i].type = t
    BY <1>1, <2>1
  <2> QED
    BY <2>2 DEF Due
<1> QED
  BY <1>2, <1>3, <1>4, RecordingsType DEF Recordings

\* A write moves an event from the queue to the trace, or loses it.
LEMMA WriteSpan ==
  ASSUME TypeOK, QueueInv, Write
  PROVE  /\ lost \subseteq lost'
         /\ \A o \in Coroutines \ lost' : \A t \in EventTypes :
              Recordings(o, t)' = Recordings(o, t)
<1> DEFINE head == queue[1]
<1>1. /\ 1 \in 1..Len(queue)
      /\ \A i \in 1..Len(queue') : i + 1 \in 1..Len(queue) /\ queue'[i] = queue[i + 1]
      /\ \A i \in 1..Len(queue) : i = 1 \/ (i - 1 \in 1..Len(queue') /\ (i - 1) + 1 = i)
      /\ Len(queue) \in Nat
  BY WriteFacts
<1>2. head \in Events /\ head.owner \in Coroutines /\ head.type \in EventTypes
  BY <1>1, Owners DEF Events
<1>3. /\ lost \subseteq lost'
      /\ \/ trace' = [trace EXCEPT ![head.owner] = Append(trace[head.owner], head.type)]
         \/ trace' = trace /\ lost' = lost \cup {head.owner}
  <2>1. queue # <<>> /\ Head(queue) = head
    BY HeadType DEF Write
  <2> QED
    BY <2>1 DEF Write
<1> SUFFICES ASSUME NEW o \in Coroutines \ lost', NEW t \in EventTypes
             PROVE  Recordings(o, t)' = Recordings(o, t)
  BY <1>3
<1>4. (\E i \in 1..Len(queue) : queue[i].owner = o /\ queue[i].type = t)
        <=> \/ head.owner = o /\ head.type = t
            \/ \E i \in 1..Len(queue') : queue'[i].owner = o /\ queue'[i].type = t
  <2>1. ASSUME NEW i \in 1..Len(queue), i # 1, queue[i].owner = o, queue[i].type = t
        PROVE  \E j \in 1..Len(queue') : queue'[j].owner = o /\ queue'[j].type = t
    <3>1. i - 1 \in 1..Len(queue') /\ queue'[i - 1] = queue[i]
      BY <1>1, <2>1
    <3> QED
      BY <2>1, <3>1
  <2>2. ASSUME NEW i \in 1..Len(queue'), queue'[i].owner = o, queue'[i].type = t
        PROVE  \E j \in 1..Len(queue) : queue[j].owner = o /\ queue[j].type = t
    BY <1>1, <2>2
  <2> QED
    BY <1>1, <2>1, <2>2
<1>5. head.owner = o => ~\E i \in 1..Len(queue') : queue'[i].owner = o
  <2> SUFFICES ASSUME head.owner = o, NEW i \in 1..Len(queue'), queue'[i].owner = o
               PROVE  FALSE
    OBVIOUS
  <2>1. i + 1 \in 1..Len(queue) /\ queue[i + 1].owner = o /\ i + 1 # 1
    BY <1>1
  <2> QED
    BY <1>1, <2>1 DEF QueueInv
<1>6. Count(o, t)' = Tally(trace'[o], t) /\ Count(o, t) = Tally(trace[o], t)
  BY DEF Count, Tally
<1>7. Count(o, t) \in Nat
  BY RecordingsType
<1> HIDE DEF head
<1>8. CASE head.owner = o
  <2>1. trace'[o] = Append(trace[o], head.type) /\ trace[o] \in Seq(EventTypes)
    BY <1>3, <1>8 DEF TypeOK
  <2>2. Count(o, t)' = Count(o, t) + (IF head.type = t THEN 1 ELSE 0)
    BY <1>2, <1>6, <2>1, TallyAppend
  <2>3. Due(o, t)' = 0 /\ Due(o, t) = IF head.type = t THEN 1 ELSE 0
    BY <1>4, <1>5, <1>8 DEF Due
  <2> QED
    BY <1>7, <2>2, <2>3 DEF Recordings
<1>9. CASE head.owner # o
  <2>1. trace'[o] = trace[o]
    BY <1>2, <1>3, <1>9 DEF TypeOK
  <2>2. Due(o, t)' = Due(o, t)
    BY <1>4, <1>9 DEF Due
  <2> QED
    BY <1>6, <2>1, <2>2 DEF Recordings
<1> QED
  BY <1>8, <1>9

\* What a step of a coroutine with an event of the given type, or with none,
\* does to one kind of span, which is open before and after it or not.
Moves(type, start, end, before, after) ==
  /\ type = start <=> ~before /\ after
  /\ type = end <=> before /\ ~after

CallMoves(old, new, type) ==
  /\ Moves(type, "worker.execution.start", "worker.execution.end",
           old \in Executing, new \in Executing)
  /\ Moves(type, "artifact.inspect.start", "artifact.inspect.end",
           old \in Inspecting, new \in Inspecting)

LEMMA CallSpan ==
  ASSUME TypeOK, SpanInv, NEW c \in Calls, NEW type, NEW state, ~Recording(c),
         UNCHANGED <<phase, trace, lost>>, \A d \in Calls \ {c} : pc'[d] = pc[d],
         \/ queue' = queue
         \/ queue' = Append(queue, [owner |-> c, type |-> type, state |-> state]),
         queue' = queue => type = "none",
         c \notin lost => CallMoves(pc[c], pc'[c], type)
  PROVE  SpanInv'
<1>1. \A p \in Coroutines : \A t \in EventTypes :
        Recordings(p, t)' = Recordings(p, t) + (IF p = c /\ t = type THEN 1 ELSE 0)
  <2>1. CASE queue' = queue
    <3>1. \A p, t : Recordings(p, t)' = Recordings(p, t)
      BY <2>1 DEF Recordings, Count, Due
    <3>2. type \notin EventTypes
      BY <2>1 DEF EventTypes
    <3>3. \A p \in Coroutines : \A t : Recordings(p, t) \in Nat
      BY RecordingsType DEF Recordings
    <3> QED
      BY <3>1, <3>2, <3>3
  <2>2. CASE queue' = Append(queue, [owner |-> c, type |-> type, state |-> state])
    BY <2>2, AppendSpan
  <2> QED
    BY <2>1, <2>2
<1>2. \A p \in Coroutines : \A t : Recordings(p, t) \in Nat
  BY RecordingsType DEF Recordings
<1>3. /\ {"planner.llm.start", "planner.llm.end", "worker.execution.start",
          "worker.execution.end", "artifact.inspect.start", "artifact.inspect.end"}
           \subseteq EventTypes
      /\ Coordinator # c
  BY DEF EventTypes
<1>4. \A p \in Coroutines \ {c} : \A t \in EventTypes : Recordings(p, t)' = Recordings(p, t)
  BY <1>1, <1>2
<1>5. Coordinator \notin lost' =>
       Recordings(Coordinator, "planner.llm.start")'
         = Recordings(Coordinator, "planner.llm.end")' + (IF phase' \in Calling THEN 1 ELSE 0)
  BY <1>3, <1>4 DEF SpanInv
<1>6. ASSUME NEW d \in Calls \ lost'
      PROVE  /\ Recordings(d, "worker.execution.start")'
                  = Recordings(d, "worker.execution.end")'
                      + (IF pc'[d] \in Executing THEN 1 ELSE 0)
             /\ Recordings(d, "artifact.inspect.start")'
                  = Recordings(d, "artifact.inspect.end")'
                      + (IF pc'[d] \in Inspecting THEN 1 ELSE 0)
  <2>1. CASE d # c
    BY <1>3, <1>4, <2>1 DEF SpanInv
  <2>2. CASE d = c
    <3>1. \A t \in EventTypes :
            Recordings(c, t)' = Recordings(c, t) + (IF t = type THEN 1 ELSE 0)
      BY <1>1
    <3>2. CallMoves(pc[c], pc'[c], type) /\ c \notin lost
      BY <1>6, <2>2
    <3>3. /\ Recordings(c, "worker.execution.start")
               = Recordings(c, "worker.execution.end") + (IF pc[c] \in Executing THEN 1 ELSE 0)
          /\ Recordings(c, "artifact.inspect.start")
               = Recordings(c, "artifact.inspect.end") + (IF pc[c] \in Inspecting THEN 1 ELSE 0)
      BY <3>2 DEF SpanInv
    <3>4. Recordings(c, "worker.execution.start")'
            = Recordings(c, "worker.execution.end")' + (IF pc'[c] \in Executing THEN 1 ELSE 0)
      BY <1>2, <1>3, <3>1, <3>2, <3>3 DEF CallMoves, Moves
    <3>5. Recordings(c, "artifact.inspect.start")'
            = Recordings(c, "artifact.inspect.end")' + (IF pc'[c] \in Inspecting THEN 1 ELSE 0)
      BY <1>2, <1>3, <3>1, <3>2, <3>3 DEF CallMoves, Moves
    <3> QED
      BY <2>2, <3>4, <3>5
  <2> QED
    BY <2>1, <2>2
<1> QED
  BY <1>5, <1>6 DEF SpanInv

\* Every step of a call moves along its spans.
Shifts(c) ==
  \/ \E label \in Labels, type \in EventTypes :
       Await(c, label, type) /\ (c \notin lost => CallMoves(pc[c], label, type))
  \/ \E label \in Labels :
       Goto(c, label) /\ queue' = queue /\ (c \notin lost => CallMoves(pc[c], label, "none"))
  \/ Complete(c)

LEMMA ToolShifts ==
  ASSUME TypeOK, NEW c \in Calls, Tool(c)
  PROVE  Shifts(c)
<1> USE DEF At
<1>0. c \in raised => c \in lost
  BY DEF TypeOK
<1>1. CASE Announce(c) \/ Request(c)
  <2>1. \E label \in Labels, type \in EventTypes :
          Await(c, label, type) /\ CallMoves(pc[c], label, type)
    BY <1>1 DEF Announce, Request, CallMoves, Moves, Executing, Inspecting, Labels, EventTypes
  <2> QED
    BY <2>1 DEF Shifts
<1>2. CASE RejectModel(c) \/ RejectRequest(c) \/ LocalizeFails(c) \/ Inspected(c)
             \/ Localize(c) \/ Run(c) \/ Download(c)
  <2>1. \E label \in Labels :
          Goto(c, label) /\ queue' = queue /\ CallMoves(pc[c], label, "none")
    BY <1>2 DEF RejectModel, RejectRequest, LocalizeFails, Inspected, Localize, Run, Download,
                Answer, CallMoves, Moves, Executing, Inspecting, Labels
  <2> QED
    BY <2>1 DEF Shifts
<1>3. CASE Fail(c) \/ InspectedUnrecorded(c)
  <2>1. c \notin lost => Fail(c) /\ pc[c] = "failed"
    BY <1>0, <1>3 DEF Fail, InspectedUnrecorded
  <2>2. CASE Fail(c)
    <3>1. Goto(c, "replied") /\ queue' = queue
      BY <2>2 DEF Fail, Answer
    <3>2. c \notin lost => CallMoves(pc[c], "replied", "none")
      BY <2>1 DEF CallMoves, Moves, Executing, Inspecting
    <3> QED
      BY <3>1, <3>2 DEF Shifts, Labels
  <2>3. CASE InspectedUnrecorded(c)
    <3>1. Await(c, "failed", "artifact.inspect.end") /\ c \in lost
      BY <1>0, <2>3 DEF InspectedUnrecorded
    <3> QED
      BY <3>1 DEF Shifts, Labels, EventTypes
  <2> QED
    BY <1>3, <2>2, <2>3
<1>4. CASE Select(c) \/ Localized(c) \/ StartOperator(c) \/ RunSucceeds(c) \/ RunFails(c)
             \/ RecordOutput(c) \/ DownloadEnds(c)
  <2>1. \/ \E label \in Labels, type \in EventTypes :
             Await(c, label, type) /\ CallMoves(pc[c], label, type)
        \/ \E label \in Labels :
             Goto(c, label) /\ queue' = queue /\ CallMoves(pc[c], label, "none")
    BY <1>4 DEF Select, Localized, StartOperator, RunSucceeds, RunFails, RecordOutput,
                DownloadEnds, CallMoves, Moves, Executing, Inspecting, Labels, EventTypes
  <2> QED
    BY <2>1 DEF Shifts
<1>5. CASE CompleteOperator(c) \/ SummarizeCompleted(c)
  <2>1. \/ \E label \in Labels, type \in EventTypes :
             Await(c, label, type) /\ CallMoves(pc[c], label, type)
        \/ \E label \in Labels :
             Goto(c, label) /\ queue' = queue /\ CallMoves(pc[c], label, "none")
    BY <1>5 DEF CompleteOperator, SummarizeCompleted, Summarize, Answer, CallMoves, Moves,
                Executing, Inspecting, Labels, EventTypes
  <2> QED
    BY <2>1 DEF Shifts
<1> QED
  BY <1>1, <1>2, <1>3, <1>4, <1>5 DEF Tool, Shifts

LEMMA ToolSpan ==
  ASSUME TypeOK, QueueInv, SpanInv, NEW c \in Calls, Tool(c)
  PROVE  SpanInv'
<1>1. ~Recording(c) /\ UNCHANGED <<phase, trace, lost>>
  <2>1. CASE Plain(c)
    BY <2>1 DEF Plain, Written, Waiting, Recorded, QueueInv, Recording, runVars
  <2>2. CASE Complete(c)
    BY <2>2 DEF Complete, At, Written, runVars, fileVars
  <2> QED
    BY <2>1, <2>2, ToolSteps
<1>2. CASE \E label \in Labels, type \in EventTypes :
             Await(c, label, type) /\ (c \notin lost => CallMoves(pc[c], label, type))
  <2>1. PICK label \in Labels, type \in EventTypes :
          Await(c, label, type) /\ (c \notin lost => CallMoves(pc[c], label, type))
    BY <1>2
  <2>2. /\ pc'[c] = label /\ \A d \in Calls \ {c} : pc'[d] = pc[d]
        /\ queue' = Append(queue, [owner |-> c, type |-> type, state |-> {}])
    BY <2>1, AwaitType
  <2>3. queue' # queue
    BY <2>2, AppendQueue
  <2> QED
    BY <1>1, <2>1, <2>2, <2>3, CallSpan
<1>3. CASE \E label \in Labels :
             Goto(c, label) /\ queue' = queue /\ (c \notin lost => CallMoves(pc[c], label, "none"))
  <2>1. PICK label \in Labels :
          Goto(c, label) /\ queue' = queue /\ (c \notin lost => CallMoves(pc[c], label, "none"))
    BY <1>3
  <2>2. pc'[c] = label /\ \A d \in Calls \ {c} : pc'[d] = pc[d]
    BY <2>1, GotoType
  <2> QED
    BY <1>1, <2>1, <2>2, CallSpan
<1>4. CASE Complete(c)
  <2>1. /\ pc[c] = "created" /\ pc'[c] = "ledger" /\ \A d \in Calls \ {c} : pc'[d] = pc[d]
        /\ queue' = Append(queue, [owner |-> c, type |-> "planner.ledger.updated",
                                   state |-> State(c)])
    BY <1>4, CompleteType DEF At
  <2>2. queue' # queue
    BY <2>1, AppendQueue
  <2>3. CallMoves(pc[c], pc'[c], "planner.ledger.updated")
    BY <2>1 DEF CallMoves, Moves, Executing, Inspecting
  <2> QED
    BY <1>1, <2>1, <2>2, <2>3, CallSpan
<1> QED
  BY <1>2, <1>3, <1>4, ToolShifts DEF Shifts

LEMMA EntersSpan ==
  ASSUME TypeOK, SpanInv, NEW p \in {"initialize", "start", "answer", "pending", "finish"},
         Enters(p), ~Recording(Coordinator), UNCHANGED <<trace, lost>>,
         Coordinator \notin lost =>
           Moves(Expected(p), "planner.llm.start", "planner.llm.end",
                 phase \in Calling, p \in Calling)
  PROVE  SpanInv'
<1>1. /\ phase' = p /\ UNCHANGED pc
      /\ queue' = Append(queue, [owner |-> Coordinator, type |-> Expected(p), state |-> {}])
  BY EntersType DEF callVars
<1>2. \A o \in Coroutines : \A t : Recordings(o, t)' =
        Recordings(o, t) + (IF o = Coordinator /\ t = Expected(p) THEN 1 ELSE 0)
  BY <1>1, AppendSpan
<1>3. \A o \in Coroutines : \A t : Recordings(o, t) \in Nat
  BY RecordingsType DEF Recordings
<1>4. \A c \in Calls : \A t : Recordings(c, t)' = Recordings(c, t)
  BY <1>2, <1>3
<1>5. Coordinator \notin lost' =>
       Recordings(Coordinator, "planner.llm.start")'
         = Recordings(Coordinator, "planner.llm.end")' + (IF phase' \in Calling THEN 1 ELSE 0)
  <2>1. \A t : Recordings(Coordinator, t)' =
                 Recordings(Coordinator, t) + (IF t = Expected(p) THEN 1 ELSE 0)
    BY <1>2
  <2> QED
    BY <1>1, <1>3, <2>1 DEF SpanInv, Moves
<1>6. \A c \in Calls \ lost' :
       /\ Recordings(c, "worker.execution.start")'
            = Recordings(c, "worker.execution.end")' + (IF pc'[c] \in Executing THEN 1 ELSE 0)
       /\ Recordings(c, "artifact.inspect.start")'
            = Recordings(c, "artifact.inspect.end")' + (IF pc'[c] \in Inspecting THEN 1 ELSE 0)
  BY <1>1, <1>4 DEF SpanInv
<1> QED
  BY <1>5, <1>6 DEF SpanInv

LEMMA KeepsSpan ==
  ASSUME SpanInv, UNCHANGED <<queue, trace, lost>>,
         phase' \in Calling <=> phase \in Calling,
         \A c \in Calls : /\ pc'[c] \in Executing <=> pc[c] \in Executing
                          /\ pc'[c] \in Inspecting <=> pc[c] \in Inspecting
  PROVE  SpanInv'
<1>1. \A o, t : Recordings(o, t)' = Recordings(o, t)
  BY DEF Recordings, Count, Due
<1> QED
  BY <1>1 DEF SpanInv

LEMMA RunSpan == ASSUME TypeOK, QueueInv, SpanInv, RunStep PROVE SpanInv'
<1>1. /\ phase \in {"idle", "model", "tools"} => ~Recording(Coordinator)
      /\ Coordinator \in raised => ~Recording(Coordinator) /\ Coordinator \in lost
      /\ TurnReady => ~Recording(Coordinator) /\ phase \notin Calling
  BY DEF QueueInv, Recording, TurnReady, Written, TypeOK, Calling
<1>2. UNCHANGED <<trace, lost>>
  BY DEF RunStep, Initialize, StartTurn, ExhaustTurns, CallModel, ModelAnswers, ModelFails,
         IssueCalls, FinishRun, Return, fileVars
<1>3. CASE CallModel \/ Return
  <2>1. /\ UNCHANGED <<queue, pc>>
        /\ phase \in Calling <=> phase' \in Calling
    BY <1>3 DEF CallModel, Return, Enter, callVars, Calling
  <2> QED
    BY <1>2, <2>1, KeepsSpan
<1>4. CASE IssueCalls
  <2>1. /\ UNCHANGED queue /\ phase = "answer" /\ phase' = "tools"
        /\ \A c \in Calls : (pc[c] = "idle" /\ pc'[c] = "called") \/ pc'[c] = pc[c]
    BY <1>4, IssueType
  <2> QED
    BY <1>2, <2>1, KeepsSpan DEF Calling, Executing, Inspecting
<1>5. ASSUME Enters("finish"), FinishRun PROVE SpanInv'
  <2>1. ~Recording(Coordinator) /\ (Coordinator \notin lost => phase \notin Calling)
    BY <1>1, <1>5 DEF FinishRun, Written, Calling
  <2>2. Coordinator \notin lost =>
          Moves(Expected("finish"), "planner.llm.start", "planner.llm.end",
                phase \in Calling, "finish" \in Calling)
    BY <2>1 DEF Moves, Expected, Calling
  <2> QED
    BY <1>2, <1>5, <2>1, <2>2, EntersSpan
<1>6. ASSUME NEW p \in {"initialize", "start", "finish"}, Enters(p),
             ~Recording(Coordinator), phase \notin Calling
      PROVE  SpanInv'
  <2>1. Moves(Expected(p), "planner.llm.start", "planner.llm.end",
              phase \in Calling, p \in Calling)
    BY <1>6 DEF Moves, Expected, Calling
  <2> QED
    BY <1>2, <1>6, <2>1, EntersSpan
<1>7. ASSUME NEW p \in {"answer", "pending"}, Enters(p), phase = "model"
      PROVE  SpanInv'
  <2>1. Moves(Expected(p), "planner.llm.start", "planner.llm.end",
              phase \in Calling, p \in Calling)
    BY <1>7 DEF Moves, Expected, Calling
  <2> QED
    BY <1>1, <1>2, <1>7, <2>1, EntersSpan
<1>8. "idle" \notin Calling
  BY DEF Calling
<1> QED
  BY <1>1, <1>3, <1>4, <1>5, <1>6, <1>7, <1>8, RunSteps

LEMMA SpanInit == Init => SpanInv
<1> SUFFICES ASSUME Init PROVE SpanInv
  OBVIOUS
<1>1. ASSUME NEW o \in Coroutines, NEW t PROVE Recordings(o, t) = 0
  <2>1. Len(trace[o]) = 0 /\ Len(queue) = 0
    BY DEF Init
  <2>2. {i \in 1..Len(trace[o]) : trace[o][i] = t} = {} /\ 1..Len(queue) = {}
    BY <2>1
  <2>3. Count(o, t) = 0 /\ Due(o, t) = 0
    BY <2>2, FS_EmptySet DEF Count, Due
  <2> QED
    BY <2>3 DEF Recordings
<1>2. phase \notin Calling /\ \A c \in Calls : pc[c] \notin Executing \cup Inspecting
  BY DEF Init, Calling, Executing, Inspecting
<1> QED
  BY <1>1, <1>2 DEF SpanInv

LEMMA SpanStep == TypeOK /\ QueueInv /\ SpanInv /\ [Next]_vars => SpanInv'
<1> SUFFICES ASSUME TypeOK, QueueInv, SpanInv, [Next]_vars PROVE SpanInv'
  OBVIOUS
<1>1. CASE UNCHANGED vars
  <2>1. UNCHANGED <<queue, trace, lost, phase, pc>>
    BY <1>1 DEF vars, runVars, callVars, fileVars
  <2> QED
    BY <2>1, KeepsSpan
<1>2. CASE Write
  <2>1. UNCHANGED <<phase, pc>> /\ lost \subseteq lost'
    BY <1>2, WriteFacts, WriteSpan
  <2>2. \A o \in Coroutines \ lost' : \A t \in EventTypes :
          Recordings(o, t)' = Recordings(o, t)
    BY <1>2, WriteSpan
  <2>3. {"planner.llm.start", "planner.llm.end", "worker.execution.start",
         "worker.execution.end", "artifact.inspect.start", "artifact.inspect.end"}
           \subseteq EventTypes
    BY DEF EventTypes
  <2> QED
    BY <2>1, <2>2, <2>3 DEF SpanInv
<1> QED
  BY <1>1, <1>2, ToolSpan, RunSpan DEF Next

LEMMA SpanImplies == TypeOK /\ QueueInv /\ SpanInv => SpansClosed
<1> SUFFICES ASSUME TypeOK, QueueInv, SpanInv, phase = "done" PROVE SpansClosed
  BY DEF SpansClosed
<1>1. /\ \A c \in Calls : pc[c] \notin Executing \cup Inspecting
      /\ \A i \in 1..Len(queue) : queue[i].type = "planner.finish"
  BY QueueImpliesLast DEF FinishIsLast, Settled, Executing, Inspecting
<1>2. \A o \in Coroutines : \A t : t # "planner.finish" => Recordings(o, t) = Count(o, t)
  BY <1>1, RecordingsType DEF Recordings, Due
<1>3. \A o \in Coroutines : \A t : Count(o, t) \in Nat
  BY RecordingsType
<1> QED
  BY <1>1, <1>2, <1>3 DEF SpanInv, SpansClosed, Calling

\* When a run has returned, every model call, execution and inspection whose
\* start is in the trace has its end there, however it ended, unless its
\* coroutine lost an event.
THEOREM SpansEnd == Spec => []SpansClosed
  BY TypeInit, TypeStep, QueueInit, QueueStep, SpanInit, SpanStep, SpanImplies, PTL DEF Spec
============================================================================
