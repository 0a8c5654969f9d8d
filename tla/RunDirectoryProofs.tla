------------------------ MODULE RunDirectoryProofs ------------------------
(***************************************************************************)
(* Proofs about the directory of a run, for any set of processes and any   *)
(* faults.                                                                 *)
(***************************************************************************)
EXTENDS RunDirectory, TLAPS

USE RunDirectoryAssumption
USE DEF Destinations, Owning, Saving, Entering, Final
-----------------------------------------------------------------------------
(* Types.                                                                  *)

LEMMA GotoType ==
  ASSUME TypeOK, NEW p \in Procs,
         NEW s \in Entering \cup Owning \cup Final, Goto(p, s)
  PROVE  /\ stage' \in [Procs -> Entering \cup Owning \cup Final]
         /\ step' \in [Procs -> {"write", "replace", "record", "clean"}]
BY DEF TypeOK, Goto

LEMMA RaiseType ==
  ASSUME TypeOK, NEW p \in Procs, Raise(p)
  PROVE  /\ stage' \in [Procs -> Entering \cup Owning \cup Final]
         /\ step' \in [Procs -> {"write", "replace", "record", "clean"}]
BY DEF TypeOK, Goto, Raise

\* The steps within a run append a line or none, and lead to the next stage or
\* to the handler; nothing else changes.
LEMMA PerformSteps ==
  ASSUME TypeOK, NEW p \in Procs, Perform(p)
  PROVE  /\ stage[p] \in {"preflight", "bind", "bound", "run"}
         /\ \/ UNCHANGED events
            \/ \E line \in Lines : /\ line.by = p /\ line.event # "run.end"
                                  /\ events' = Append(events, line)
         /\ \/ \E s \in {"bind", "bound", "plan", "run", "success"} : Goto(p, s)
            \/ Raise(p)
         /\ \/ UNCHANGED late
            \/ /\ stage[p] = "run" /\ Raise(p)
               /\ \E n \in 0..(Branches - 1) :
                    late' = [late EXCEPT ![p] = n] /\ (n > 0 => IsSweep)
         /\ UNCHANGED <<pathVars, files, temps>>
<1>1. \A name \in {"bind.start", "bind.end", "work"} :
         LET line == [by |-> p, event |-> name]
         IN line \in Lines /\ line.by = p /\ line.event # "run.end"
  BY DEF Lines
<1>2. CASE Preflight(p)
  BY <1>2 DEF Preflight, fileVars
<1>3. CASE Upload(p)
  BY <1>3 DEF Upload, AfterInputs, fileVars
<1>4. CASE StartBind(p)
  BY <1>1, <1>4 DEF StartBind, Event
<1>5. CASE EndBind(p)
  BY <1>1, <1>5 DEF EndBind, Event, AfterInputs
<1>6. CASE Work(p)
  <2>1. \/ Goto(p, "success") /\ UNCHANGED late
        \/ /\ Raise(p)
           /\ \E n \in 0..(Branches - 1) :
                late' = [late EXCEPT ![p] = n] /\ (n > 0 => IsSweep)
    <3>1. CASE IsSweep
      BY <1>6, <3>1 DEF Work
    <3>2. CASE ~IsSweep
      <4>1. 0..0 \subseteq 0..(Branches - 1)
        OBVIOUS
      <4>2. \A n \in 0..0 : ~(n > 0)
        OBVIOUS
      <4> QED
        BY <1>6, <3>2, <4>1, <4>2 DEF Work
    <3> QED
      BY <3>1, <3>2
  <2>2. stage[p] = "run" /\ UNCHANGED <<pathVars, files, temps>>
    BY <1>6 DEF Work
  <2>3. Event(p, "work") \/ UNCHANGED events
    BY <1>6 DEF Work
  <2> QED
    BY <1>1, <2>1, <2>2, <2>3 DEF Event
<1> QED
  BY <1>2, <1>3, <1>4, <1>5, <1>6 DEF Perform

\* Such a step moves its own process only, and never to an end of a run.
LEMMA PerformMoves ==
  ASSUME TypeOK, NEW p \in Procs, Perform(p)
  PROVE  /\ \A q \in Procs \ {p} : stage'[q] = stage[q]
         /\ stage'[p] \in Owning \cup {"raised"} /\ step'[p] = "write"
         /\ stage[p] = "run" /\ Raise(p) => stage'[p] = "failure"
<1>1. (\E s \in {"bind", "bound", "plan", "run", "success"} : Goto(p, s)) \/ Raise(p)
  BY PerformSteps
<1>2. stage[p] \in {"preflight", "bind", "bound", "run"}
  BY PerformSteps
<1>3. \A q \in Procs \ {p} : stage'[q] = stage[q]
  BY <1>1 DEF TypeOK, Goto, Raise
<1>4. stage'[p] \in Owning \cup {"raised"} /\ step'[p] = "write"
  BY <1>1 DEF TypeOK, Goto, Raise
<1>5. stage[p] = "run" /\ Raise(p) => stage'[p] = "failure"
  BY DEF TypeOK, Goto, Raise, Uncaught
<1> QED
  BY <1>3, <1>4, <1>5

\* A branch that outlives its workflow appends a line or none.
LEMMA BranchSteps ==
  ASSUME TypeOK, NEW p \in Procs, FinishBranch(p)
  PROVE  /\ late[p] > 0 /\ late' \in [Procs -> 0..(Branches - 1)]
         /\ \A q \in Procs : late'[q] > 0 => late[q] > 0
         /\ \/ UNCHANGED events
            \/ \E line \in Lines : /\ line.by = p /\ line.event # "run.end"
                                  /\ events' = Append(events, line)
         /\ Event(p, "work") \/ UNCHANGED events
         /\ UNCHANGED <<pathVars, files, temps, procVars>>
<1>1. LET line == [by |-> p, event |-> "work"]
      IN line \in Lines /\ line.by = p /\ line.event # "run.end"
  BY DEF Lines
<1>2. late[p] \in 1..(Branches - 1) /\ late[p] - 1 \in 0..(Branches - 1)
  BY DEF FinishBranch, TypeOK
<1>3. late' = [late EXCEPT ![p] = late[p] - 1]
  BY DEF FinishBranch
<1>4. late' \in [Procs -> 0..(Branches - 1)] /\ \A q \in Procs : late'[q] > 0 => late[q] > 0
  BY <1>2, <1>3 DEF TypeOK
<1> QED
  BY <1>1, <1>2, <1>4 DEF FinishBranch, Event

\* What an end is recorded by.
LEMMA EndRecorded ==
  ASSUME TypeOK, NEW line \in Lines, events' = Append(events, line)
  PROVE  Ended' <=> Ended \/ line.event = "run.end"
<1>1. events \in Seq(Lines)
  BY DEF TypeOK
<1>2. /\ DOMAIN events' = 1..(Len(events) + 1) /\ DOMAIN events = 1..Len(events)
      /\ events'[Len(events) + 1] = line
      /\ \A i \in 1..Len(events) : events'[i] = events[i]
  BY <1>1
<1>3. Len(events) \in Nat
  BY <1>1
<1> QED
  BY <1>2, <1>3 DEF Ended

LEMMA SavedContents ==
  ASSUME NEW p \in Procs, NEW s \in Saving
  PROVE  /\ [by |-> p, says |-> Says(s)] \in Contents
         /\ Destination(s) \in Destinations
BY DEF Says, Contents, Destination

LEMMA TypeInit == Init => TypeOK
<1>1. ASSUME Init PROVE events \in Seq(Lines)
  <2> DEFINE line == [by |-> "earlier", event |-> "run.start"]
  <2>1. line \in Lines
    BY DEF Lines
  <2>2. <<line>> \in Seq(Lines) /\ <<>> \in Seq(Lines)
    BY <2>1
  <2> QED
    BY <1>1, <2>2 DEF Init
<1>2. ASSUME Init PROVE files \in [Destinations -> Contents \cup {Nothing}]
  BY <1>2 DEF Init, Contents
<1> QED
  BY <1>1, <1>2 DEF Init, TypeOK

LEMMA TypeStep == TypeOK /\ [Next]_vars => TypeOK'
<1> SUFFICES ASSUME TypeOK, [Next]_vars PROVE TypeOK'
  OBVIOUS
<1> USE DEF pathVars, fileVars
<1>0. UNCHANGED driver
  BY DEF Next, vars
<1>1. ASSUME NEW p \in Procs, Reserve(p), UNCHANGED late PROVE TypeOK'
  <2>1. CASE MakeDirectory(p)
    BY <1>0, <1>1, <2>1 DEF MakeDirectory, TypeOK, Goto
  <2>2. CASE InspectDirectory(p)
    <3>1. Goto(p, "touch") \/ Goto(p, "rejected")
      BY <2>2, Zenon DEF InspectDirectory
    <3> QED
      BY <1>0, <1>1, <2>2, <3>1 DEF InspectDirectory, TypeOK, Goto
  <2>3. CASE TouchTrace(p)
    BY <1>0, <1>1, <2>3 DEF TouchTrace, TypeOK, Goto
  <2> QED
    BY <1>1, <2>1, <2>2, <2>3 DEF Reserve
<1>2. ASSUME NEW p \in Procs, Save(p), UNCHANGED late PROVE TypeOK'
  <2>1. CASE WriteTemporary(p)
    <3>0. <<p, Destination(stage[p])>> \in Procs \X Destinations
      BY <1>2, <2>1 DEF WriteTemporary, Destination
    <3>1. temps' \subseteq Procs \X Destinations
      BY <2>1, <3>0 DEF WriteTemporary, TypeOK
    <3>2. step' \in [Procs -> {"write", "replace", "record", "clean"}]
      BY <1>2, <2>1 DEF WriteTemporary, TypeOK
    <3> QED
      BY <1>0, <1>2, <2>1, <3>1, <3>2 DEF WriteTemporary, TypeOK
  <2>2. CASE ReplaceFile(p)
    BY <1>0, <1>2, <2>2, SavedContents, GotoType DEF ReplaceFile, TypeOK, Goto
  <2>3. CASE ReplaceFails(p)
    BY <1>0, <1>2, <2>3 DEF ReplaceFails, TypeOK
  <2>4. CASE RemoveTemporary(p)
    BY <1>0, <1>2, <2>4, RaiseType DEF RemoveTemporary, TypeOK
  <2>5. CASE RecordEvent(p)
    <3>1. [by |-> p, event |-> IF stage[p] = "start" THEN "run.start" ELSE "run.end"] \in Lines
      BY <1>2 DEF Lines
    <3>2. events' \in Seq(Lines)
      BY <2>5, <3>1 DEF RecordEvent, TypeOK
    <3> QED
      BY <1>0, <1>2, <2>5, <3>2 DEF RecordEvent, TypeOK, Goto, After
  <2>6. CASE RecordFails(p)
    BY <1>0, <1>2, <2>6, RaiseType DEF RecordFails, TypeOK
  <2> QED
    BY <1>2, <2>1, <2>2, <2>3, <2>4, <2>5, <2>6 DEF Save
<1>3. ASSUME NEW p \in Procs, Perform(p) PROVE TypeOK'
  <2>1. events' \in Seq(Lines)
    <3>1. events \in Seq(Lines)
      BY DEF TypeOK
    <3>2. \A line \in Lines : Append(events, line) \in Seq(Lines)
      BY <3>1
    <3> QED
      BY <1>3, <3>1, <3>2, PerformSteps
  <2>2. /\ stage' \in [Procs -> Entering \cup Owning \cup Final]
        /\ step' \in [Procs -> {"write", "replace", "record", "clean"}]
    BY <1>3, PerformSteps, GotoType, RaiseType
  <2>3. late' \in [Procs -> 0..(Branches - 1)]
    <3>1. late' = late \/ \E n \in 0..(Branches - 1) : late' = [late EXCEPT ![p] = n]
      BY <1>3, PerformSteps
    <3> QED
      BY <3>1 DEF TypeOK
  <2> QED
    BY <1>0, <1>3, <2>1, <2>2, <2>3, PerformSteps DEF TypeOK
<1>4. ASSUME NEW p \in Procs, Die(p) PROVE TypeOK'
  <2>1. late' \in [Procs -> 0..(Branches - 1)]
    BY <1>4 DEF Die, TypeOK
  <2> QED
    BY <1>0, <1>4, <2>1, GotoType DEF Die, TypeOK
<1>6. ASSUME NEW p \in Procs, CompletedRow(p), UNCHANGED late PROVE TypeOK'
  <2>1. Goto(p, "skipped") \/ Goto(p, "claim")
    BY <1>6, Zenon DEF CompletedRow
  <2> QED
    BY <1>0, <1>6, <2>1, GotoType DEF CompletedRow, TypeOK
<1>7. ASSUME NEW p \in Procs, FinishBranch(p) PROVE TypeOK'
  <2>1. events' \in Seq(Lines)
    <3>1. events \in Seq(Lines)
      BY DEF TypeOK
    <3>2. \A line \in Lines : Append(events, line) \in Seq(Lines)
      BY <3>1
    <3>3. UNCHANGED events \/ \E line \in Lines : events' = Append(events, line)
      BY <1>7, BranchSteps, Zenon
    <3> QED
      BY <3>1, <3>2, <3>3
  <2> QED
    BY <1>0, <1>7, <2>1, BranchSteps DEF TypeOK, procVars
<1>5. CASE UNCHANGED vars
  BY <1>5 DEF TypeOK, vars
<1> QED
  BY <1>1, <1>2, <1>3, <1>4, <1>5, <1>6, <1>7 DEF Next, Proceed

\* Every variable keeps its type.
THEOREM TypeCorrect == Spec => []TypeOK
  BY TypeInit, TypeStep, PTL DEF Spec
-----------------------------------------------------------------------------
(* Who owns the directory.  A process works in it only after it created    *)
(* trace.jsonl, and it can create it only where nothing is: an empty       *)
(* directory stays empty while processes stand between their look at it    *)
(* and their touch, because whoever writes has touched first.  Branches    *)
(* are left running by a sweep only, in a run of its own that has failed.  *)
LateInv ==
  \A p \in Procs : late[p] > 0 => IsSweep /\ stage[p] \in {"failure", "failed", "raised"}

OwnerInv ==
  /\ LateInv
  /\ \A p \in Procs :
       stage[p] \in Owning \cup {"returned", "failed", "raised"} => reserved = p
  /\ \A p \in Procs :
       stage[p] = "touch" => kind = "directory" /\ (reserved = "nobody" => IsEmpty)
  /\ kind = "absent" => IsEmpty
  /\ reserved = "nobody" => events = <<>>
  /\ \A i \in DOMAIN events : events[i].by = reserved
  /\ \A d \in Destinations :
       files[d] # Nothing =>
         files[d].by = IF reserved = "nobody" THEN "earlier" ELSE reserved
  /\ \A t \in temps : t[1] = reserved

LEMMA OwnerInit == Init => OwnerInv
  BY DEF Init, OwnerInv, LateInv, IsEmpty, Nothing

LEMMA LateStep == TypeOK /\ LateInv /\ [Next]_vars => LateInv'
<1> SUFFICES ASSUME TypeOK, LateInv, [Next]_vars PROVE LateInv'
  OBVIOUS
<1>0. IsSweep' <=> IsSweep
  BY DEF Next, vars, IsSweep
<1>1. ASSUME NEW p \in Procs, Reserve(p), UNCHANGED late PROVE LateInv'
  <2>1. stage[p] \in Entering /\ \E s \in {"touch", "start", "inspect", "rejected"} : Goto(p, s)
    <3>1. CASE MakeDirectory(p)
      BY <3>1 DEF MakeDirectory
    <3>2. CASE InspectDirectory(p)
      BY <3>2, Zenon DEF InspectDirectory
    <3>3. CASE TouchTrace(p)
      BY <3>3 DEF TouchTrace
    <3> QED
      BY <1>1, <3>1, <3>2, <3>3 DEF Reserve
  <2> QED
    BY <1>0, <1>1, <2>1 DEF LateInv, Goto, TypeOK
<1>2. ASSUME NEW p \in Procs, Save(p), UNCHANGED late PROVE LateInv'
  <2>1. \/ UNCHANGED stage
        \/ stage[p] # "failure" /\ \E s \in Owning \cup Final : Goto(p, s)
        \/ stage[p] = "failure" /\ (Goto(p, "failed") \/ Goto(p, "raised"))
    BY <1>2 DEF Save, WriteTemporary, ReplaceFile, ReplaceFails, RemoveTemporary,
                RecordEvent, RecordFails, Raise, Uncaught, After
  <2>2. stage[p] \notin {"failed", "raised"}
    BY <1>2 DEF Save, WriteTemporary, ReplaceFile, ReplaceFails, RemoveTemporary,
                RecordEvent, RecordFails
  <2> QED
    BY <1>0, <1>2, <2>1, <2>2 DEF LateInv, Goto, TypeOK
<1>3. ASSUME NEW p \in Procs, Perform(p) PROVE LateInv'
  <2>1. stage[p] \in {"preflight", "bind", "bound", "run"}
    BY <1>3, PerformSteps
  <2>2. ~(late[p] > 0)
    BY <2>1 DEF LateInv
  <2>3. \/ UNCHANGED late
        \/ /\ stage[p] = "run" /\ Raise(p)
           /\ \E n \in 0..(Branches - 1) :
                late' = [late EXCEPT ![p] = n] /\ (n > 0 => IsSweep)
    BY <1>3, PerformSteps
  <2>4. \A q \in Procs \ {p} : stage'[q] = stage[q] /\ late'[q] = late[q]
    BY <1>3, <2>3, PerformMoves DEF TypeOK
  <2>5. late'[p] > 0 => IsSweep /\ stage'[p] = "failure"
    BY <1>3, <2>2, <2>3, PerformMoves DEF TypeOK
  <2> QED
    BY <1>0, <2>4, <2>5 DEF LateInv
<1>7. ASSUME NEW p \in Procs, FinishBranch(p) PROVE LateInv'
  BY <1>0, <1>7, BranchSteps DEF LateInv, procVars
<1>6. ASSUME NEW p \in Procs, CompletedRow(p), UNCHANGED late PROVE LateInv'
  <2>1. stage[p] = "look" /\ (Goto(p, "skipped") \/ Goto(p, "claim"))
    BY <1>6, Zenon DEF CompletedRow
  <2> QED
    BY <1>0, <1>6, <2>1 DEF LateInv, Goto, TypeOK
<1>4. ASSUME NEW p \in Procs, Die(p) PROVE LateInv'
  BY <1>0, <1>4 DEF Die, LateInv, Goto, TypeOK
<1>5. CASE UNCHANGED vars
  BY <1>0, <1>5 DEF LateInv, vars
<1> QED
  BY <1>1, <1>2, <1>3, <1>4, <1>5, <1>6, <1>7 DEF Next, Proceed

\* A process that goes on without touching the directory of another.
LEMMA OwnerStep == TypeOK /\ OwnerInv /\ [Next]_vars => OwnerInv'
<1> SUFFICES ASSUME TypeOK, OwnerInv, [Next]_vars, LateInv' PROVE OwnerInv'
  BY LateStep DEF OwnerInv
<1> USE DEF pathVars, fileVars
<1>1. ASSUME NEW p \in Procs, Reserve(p) PROVE OwnerInv'
  <2>1. CASE MakeDirectory(p)
    BY <1>1, <2>1 DEF MakeDirectory, TypeOK, OwnerInv, IsEmpty, Goto
  <2>2. CASE InspectDirectory(p)
    <3>1. (kind = "directory" /\ IsEmpty /\ Goto(p, "touch")) \/ Goto(p, "rejected")
      BY <2>2, Zenon DEF InspectDirectory
    <3> QED
      BY <1>1, <2>2, <3>1 DEF InspectDirectory, TypeOK, OwnerInv, IsEmpty, Goto
  <2>3. CASE TouchTrace(p)
    <3>1. CASE reserved = "nobody"
      <4>1. reserved' = p /\ Goto(p, "start") /\ IsEmpty
        BY <1>1, <2>3, <3>1 DEF TouchTrace, OwnerInv
      <4>2. events = <<>> /\ \A q \in Procs : stage[q] \notin Owning \cup {"returned", "failed", "raised"}
        BY <3>1 DEF OwnerInv
      <4>3. p # "nobody"
        BY <1>1
      <4>4. \A q \in Procs : stage'[q] \in Owning \cup {"returned", "failed", "raised"} => q = p
        BY <4>1, <4>2 DEF TypeOK, Goto
      <4>5. events' = <<>> /\ temps' = {} /\ \A d \in Destinations : files'[d] = Nothing
        BY <2>3, <4>1, <4>2 DEF TouchTrace, IsEmpty
      <4>6. kind' = "directory"
        BY <1>1, <2>3 DEF TouchTrace, OwnerInv
      <4> QED
        BY <4>1, <4>3, <4>4, <4>5, <4>6 DEF OwnerInv, IsEmpty
    <3>2. CASE reserved # "nobody"
      BY <1>1, <2>3, <3>2 DEF TouchTrace, TypeOK, OwnerInv, IsEmpty, Goto
    <3> QED
      BY <3>1, <3>2
  <2> QED
    BY <1>1, <2>1, <2>2, <2>3 DEF Reserve
<1>2. ASSUME NEW p \in Procs, Save(p) PROVE OwnerInv'
  <2>0. reserved = p /\ stage[p] \in Saving
    BY <1>2 DEF Save, OwnerInv, WriteTemporary, ReplaceFile, ReplaceFails,
                RemoveTemporary, RecordEvent, RecordFails
  <2>1. CASE WriteTemporary(p)
    BY <1>2, <2>0, <2>1 DEF WriteTemporary, TypeOK, OwnerInv, IsEmpty
  <2>2. CASE ReplaceFile(p)
    BY <1>2, <2>0, <2>2, SavedContents DEF ReplaceFile, TypeOK, OwnerInv, IsEmpty, Goto
  <2>3. CASE ReplaceFails(p)
    BY <1>2, <2>0, <2>3 DEF ReplaceFails, TypeOK, OwnerInv, IsEmpty
  <2>4. CASE RemoveTemporary(p)
    BY <1>2, <2>0, <2>4 DEF RemoveTemporary, TypeOK, OwnerInv, IsEmpty, Raise, Goto
  <2>5. CASE RecordEvent(p)
    <3>1. [by |-> p, event |-> IF stage[p] = "start" THEN "run.start" ELSE "run.end"] \in Lines
      BY <1>2 DEF Lines
    <3>2. \A i \in DOMAIN events' : events'[i].by = reserved
      BY <2>0, <2>5, <3>1 DEF RecordEvent, TypeOK, OwnerInv, IsEmpty
    <3> QED
      BY <1>2, <2>0, <2>5, <3>2 DEF RecordEvent, TypeOK, OwnerInv, IsEmpty, Goto, After
  <2>6. CASE RecordFails(p)
    BY <1>2, <2>0, <2>6 DEF RecordFails, TypeOK, OwnerInv, IsEmpty, Raise, Goto
  <2> QED
    BY <1>2, <2>1, <2>2, <2>3, <2>4, <2>5, <2>6 DEF Save
<1>3. ASSUME NEW p \in Procs, Perform(p) PROVE OwnerInv'
  <2>1. reserved = p
    BY <1>3, PerformSteps DEF OwnerInv
  <2>2. \A i \in DOMAIN events' : events'[i].by = reserved
    <3>1. events \in Seq(Lines) /\ \A i \in DOMAIN events : events[i].by = reserved
      BY DEF TypeOK, OwnerInv
    <3>2. ASSUME NEW line \in Lines, line.by = p, events' = Append(events, line)
          PROVE  \A i \in DOMAIN events' : events'[i].by = reserved
      BY <2>1, <3>1, <3>2
    <3> QED
      BY <1>3, <3>1, <3>2, PerformSteps
  <2>3. \A q \in Procs \ {p} : stage'[q] = stage[q]
    BY <1>3, PerformMoves
  <2>4. stage'[p] # "touch"
    BY <1>3, PerformMoves
  <2>5. p # "nobody"
    BY <1>3
  <2> QED
    BY <1>3, <2>1, <2>2, <2>3, <2>4, <2>5, PerformSteps DEF TypeOK, OwnerInv, IsEmpty
<1>7. ASSUME NEW p \in Procs, FinishBranch(p) PROVE OwnerInv'
  <2>1. reserved = p /\ UNCHANGED <<pathVars, files, temps, procVars>>
    BY <1>7, BranchSteps DEF OwnerInv, LateInv
  <2>2. \A i \in DOMAIN events' : events'[i].by = reserved
    <3>1. events \in Seq(Lines) /\ \A i \in DOMAIN events : events[i].by = reserved
      BY DEF TypeOK, OwnerInv
    <3>2. ASSUME NEW line \in Lines, line.by = p, events' = Append(events, line)
          PROVE  \A i \in DOMAIN events' : events'[i].by = reserved
      BY <2>1, <3>1, <3>2
    <3> QED
      BY <1>7, <3>1, <3>2, BranchSteps
  <2>3. p # "nobody"
    BY <1>7
  <2> QED
    BY <2>1, <2>2, <2>3 DEF OwnerInv, IsEmpty, procVars
<1>6. ASSUME NEW p \in Procs, CompletedRow(p) PROVE OwnerInv'
  <2>1. Goto(p, "skipped") \/ Goto(p, "claim")
    BY <1>6, Zenon DEF CompletedRow
  <2> QED
    BY <1>6, <2>1 DEF CompletedRow, TypeOK, OwnerInv, IsEmpty, Goto
<1>4. ASSUME NEW p \in Procs, Die(p) PROVE OwnerInv'
  BY <1>4 DEF Die, TypeOK, OwnerInv, IsEmpty, Goto
<1>5. CASE UNCHANGED vars
  BY <1>5 DEF OwnerInv, IsEmpty, vars
<1> QED
  BY <1>1, <1>2, <1>3, <1>4, <1>5, <1>6, <1>7 DEF Next, Proceed

LEMMA OwnerImpliesSingle == TypeOK /\ OwnerInv => SingleWriter
<1> SUFFICES ASSUME TypeOK, OwnerInv
             PROVE  Writers \subseteq {IF reserved = "nobody" THEN "earlier" ELSE reserved}
  BY DEF SingleWriter
<1>1. \A i \in DOMAIN events : events[i].by = reserved /\ reserved # "nobody"
  BY DEF OwnerInv
<1>2. \A t \in temps : t[1] = reserved /\ reserved # "nobody"
  BY DEF OwnerInv, TypeOK
<1> QED
  BY <1>1, <1>2 DEF OwnerInv, Writers

\* However many processes race for a run id, one writes in its directory, and
\* none writes where an earlier run did.
THEOREM OneWriter == Spec => []SingleWriter
  BY TypeInit, TypeStep, OwnerInit, OwnerStep, OwnerImpliesSingle, PTL DEF Spec
-----------------------------------------------------------------------------
(* The end.  Who records run.end stops owning the directory in that step,  *)
(* and nobody else owns it, so that no file changes and no end follows.    *)
EndInv == Ended => \A p \in Procs : stage[p] \notin Owning

InTheEnd == TypeOK /\ OwnerInv /\ EndInv

LEMMA EndInit == Init => EndInv
  BY DEF Init, EndInv, Ended

\* Who changes a file owns the directory, and who appends to the events, but
\* for the branches that a sweep left running.
LEMMA ChangesAreOwned ==
  ASSUME TypeOK, [Next]_vars
  PROVE  \/ UNCHANGED <<events, files>>
         \/ \E p \in Procs : stage[p] \in Owning
         \/ UNCHANGED files /\ \E p \in Procs : late[p] > 0 /\ Event(p, "work")
<1>1. ASSUME NEW p \in Procs, Reserve(p) PROVE UNCHANGED <<events, files>>
  BY <1>1 DEF Reserve, MakeDirectory, InspectDirectory, TouchTrace, fileVars
<1>2. ASSUME NEW p \in Procs, Save(p) PROVE stage[p] \in Owning
  BY <1>2 DEF Save, WriteTemporary, ReplaceFile, ReplaceFails,
              RemoveTemporary, RecordEvent, RecordFails
<1>3. ASSUME NEW p \in Procs, Perform(p) PROVE stage[p] \in Owning
  BY <1>3, PerformSteps
<1>7. ASSUME NEW p \in Procs, FinishBranch(p)
      PROVE  UNCHANGED files /\ (UNCHANGED events \/ (late[p] > 0 /\ Event(p, "work")))
  BY <1>7, BranchSteps
<1>4. ASSUME NEW p \in Procs, Die(p) PROVE UNCHANGED <<events, files>>
  BY <1>4 DEF Die, fileVars
<1>6. ASSUME NEW p \in Procs, CompletedRow(p) PROVE UNCHANGED <<events, files>>
  BY <1>6 DEF CompletedRow, fileVars
<1>5. CASE UNCHANGED vars
  BY <1>5 DEF vars
<1> QED
  BY <1>1, <1>2, <1>3, <1>4, <1>5, <1>6, <1>7 DEF Next, Proceed

LEMMA EndStep == InTheEnd /\ [Next]_vars => EndInv'
<1> SUFFICES ASSUME TypeOK, OwnerInv, EndInv, [Next]_vars PROVE EndInv'
  BY DEF InTheEnd
<1>1. ASSUME NEW p \in Procs, Reserve(p) PROVE EndInv'
  <2>1. UNCHANGED events
    BY <1>1 DEF Reserve, MakeDirectory, InspectDirectory, TouchTrace, fileVars
  <2>2. CASE Ended
    <3>1. reserved # "nobody"
      BY <2>2 DEF Ended, OwnerInv
    <3>2. Goto(p, "touch") \/ Goto(p, "inspect") \/ Goto(p, "rejected")
      <4>1. CASE MakeDirectory(p)
        BY <4>1 DEF MakeDirectory
      <4>2. CASE InspectDirectory(p)
        BY <4>2, Zenon DEF InspectDirectory
      <4>3. CASE TouchTrace(p)
        BY <3>1, <4>3 DEF TouchTrace
      <4> QED
        BY <1>1, <4>1, <4>2, <4>3 DEF Reserve
    <3>3. \A q \in Procs : stage'[q] \notin Owning
      BY <1>1, <2>2, <3>2 DEF EndInv, Goto, TypeOK
    <3> QED
      BY <3>3 DEF EndInv
  <2>3. CASE ~Ended
    BY <2>1, <2>3 DEF Ended, EndInv
  <2> QED
    BY <2>2, <2>3
<1>2. ASSUME NEW p \in Procs, Save(p) PROVE EndInv'
  <2>1. stage[p] \in Saving /\ ~Ended /\ reserved = p
    BY <1>2 DEF Save, WriteTemporary, ReplaceFile, ReplaceFails, RemoveTemporary,
                RecordEvent, RecordFails, EndInv, OwnerInv
  <2>2. CASE ~RecordEvent(p)
    <3>1. UNCHANGED events
      BY <1>2, <2>2 DEF Save, WriteTemporary, ReplaceFile, ReplaceFails,
                        RemoveTemporary, RecordFails, fileVars
    <3> QED
      BY <2>1, <3>1 DEF Ended, EndInv
  <2>3. CASE RecordEvent(p) /\ stage[p] = "start"
    <3> DEFINE line == [by |-> p, event |-> "run.start"]
    <3>1. line \in Lines /\ line.event # "run.end"
      BY <1>2 DEF Lines
    <3>2. events' = Append(events, line)
      BY <2>3 DEF RecordEvent
    <3>3. ~Ended'
      BY <2>1, <3>1, <3>2, EndRecorded
    <3> QED
      BY <3>3 DEF EndInv
  <2>4. CASE RecordEvent(p) /\ stage[p] # "start"
    <3>1. Goto(p, "returned") \/ Goto(p, "failed") \/ Goto(p, "raised")
      BY <2>1, <2>4 DEF RecordEvent, After
    <3>2. \A q \in Procs : stage[q] \in Owning => q = p
      BY <2>1 DEF OwnerInv
    <3>3. stage'[p] \notin Owning /\ \A q \in Procs \ {p} : stage'[q] = stage[q]
      BY <1>2, <3>1 DEF Goto, TypeOK
    <3>4. \A q \in Procs : stage'[q] \notin Owning
      BY <3>2, <3>3, Zenon
    <3> QED
      BY <3>4 DEF EndInv
  <2> QED
    BY <2>2, <2>3, <2>4
<1>3. ASSUME NEW p \in Procs, Perform(p) PROVE EndInv'
  <2>1. ~Ended
    BY <1>3, PerformSteps DEF EndInv
  <2>2. ASSUME NEW line \in Lines, line.event # "run.end", events' = Append(events, line)
        PROVE  EndInv'
    <3>1. ~Ended'
      BY <2>1, <2>2, EndRecorded
    <3> QED
      BY <3>1 DEF EndInv
  <2>3. CASE events' = events
    BY <2>1, <2>3 DEF Ended, EndInv
  <2> QED
    BY <1>3, <2>2, <2>3, PerformSteps
<1>7. ASSUME NEW p \in Procs, FinishBranch(p) PROVE EndInv'
  <2>1. Ended' <=> Ended
    BY <1>7, BranchSteps, EndRecorded DEF Ended
  <2> QED
    BY <1>7, <2>1, BranchSteps DEF EndInv, procVars
<1>6. ASSUME NEW p \in Procs, CompletedRow(p) PROVE EndInv'
  <2>1. Goto(p, "skipped") \/ Goto(p, "claim")
    BY <1>6, Zenon DEF CompletedRow
  <2> QED
    BY <1>6, <2>1 DEF CompletedRow, EndInv, Ended, Goto, TypeOK, fileVars
<1>4. ASSUME NEW p \in Procs, Die(p) PROVE EndInv'
  BY <1>4 DEF Die, EndInv, Ended, Goto, TypeOK, fileVars
<1>5. CASE UNCHANGED vars
  BY <1>5 DEF EndInv, Ended, vars
<1> QED
  BY <1>1, <1>2, <1>3, <1>4, <1>5, <1>6, <1>7 DEF Next, Proceed
-----------------------------------------------------------------------------
(* Sweeps.  A result that is there was the last thing the owner's sweep    *)
(* wrote but for run.end; what a sweep took over is a result that is       *)
(* there.                                                                  *)
SweepInv ==
  /\ \A p \in Procs : stage[p] \in {"look", "skipped"} => IsSweep
  /\ \A p \in Procs : stage[p] = "skipped" => files["result"] # Nothing
  /\ IsSweep /\ files["result"] # Nothing =>
       \A p \in Procs :
         stage[p] \in Owning => stage[p] \in {"success", "failure"} /\ step[p] = "record"

TakenOver == TypeOK /\ OwnerInv /\ SweepInv

LEMMA SweepInit == Init => SweepInv
  BY DEF Init, SweepInv

LEMMA SweepStep == TakenOver /\ [Next]_vars => SweepInv'
<1> SUFFICES ASSUME TypeOK, OwnerInv, SweepInv, [Next]_vars PROVE SweepInv'
  BY DEF TakenOver
<1> USE DEF pathVars, fileVars
<1>0. UNCHANGED driver /\ (IsSweep' <=> IsSweep)
  BY DEF Next, vars, IsSweep
<1>1. ASSUME NEW p \in Procs, Reserve(p) PROVE SweepInv'
  <2>0. UNCHANGED files
    BY <1>1 DEF Reserve, MakeDirectory, InspectDirectory, TouchTrace
  <2>1. \/ \E s \in {"touch", "inspect", "rejected"} : Goto(p, s)
        \/ Goto(p, "start") /\ files["result"] = Nothing
    <3>1. CASE MakeDirectory(p)
      BY <3>1 DEF MakeDirectory
    <3>2. CASE InspectDirectory(p)
      BY <3>2, Zenon DEF InspectDirectory
    <3>3. CASE TouchTrace(p)
      BY <3>3 DEF TouchTrace, OwnerInv, IsEmpty
    <3> QED
      BY <1>1, <3>1, <3>2, <3>3 DEF Reserve
  <2> QED
    BY <1>0, <1>1, <2>0, <2>1 DEF SweepInv, TypeOK, Goto
<1>2. ASSUME NEW p \in Procs, Save(p) PROVE SweepInv'
  <2>0. reserved = p /\ stage[p] \in Saving
    BY <1>2 DEF Save, OwnerInv, WriteTemporary, ReplaceFile, ReplaceFails,
                RemoveTemporary, RecordEvent, RecordFails
  <2>1. \A q \in Procs : stage[q] \in Owning => q = p
    BY <2>0 DEF OwnerInv
  <2>2. CASE WriteTemporary(p)
    BY <1>0, <1>2, <2>1, <2>2 DEF WriteTemporary, SweepInv, TypeOK
  <2>3. CASE ReplaceFile(p)
    <3>1. CASE stage[p] \in {"start", "plan"}
      BY <1>0, <1>2, <2>1, <2>3, <3>1
      DEF ReplaceFile, SweepInv, TypeOK, Destination, Goto
    <3>2. CASE stage[p] \in {"success", "failure"}
      <4>1. UNCHANGED stage /\ step' = [step EXCEPT ![p] = "record"]
        BY <2>3, <3>2 DEF ReplaceFile
      <4>2. p # "nobody" /\ files'["result"] = [by |-> p, says |-> Says(stage[p])]
        BY <1>2, <2>3, <3>2 DEF ReplaceFile, TypeOK, Destination
      <4>3. files'["result"] # Nothing
        BY <4>2 DEF Nothing
      <4> QED
        BY <1>0, <2>1, <3>2, <4>1, <4>3 DEF SweepInv, TypeOK
    <3> QED
      BY <2>0, <3>1, <3>2
  <2>4. CASE ReplaceFails(p)
    BY <1>0, <1>2, <2>1, <2>4 DEF ReplaceFails, SweepInv, TypeOK
  <2>5. CASE RemoveTemporary(p)
    BY <1>0, <1>2, <2>1, <2>5 DEF RemoveTemporary, SweepInv, TypeOK, Raise, Goto
  <2>6. CASE RecordEvent(p)
    BY <1>0, <1>2, <2>1, <2>6 DEF RecordEvent, SweepInv, TypeOK, After, Goto
  <2>7. CASE RecordFails(p)
    BY <1>0, <1>2, <2>1, <2>7 DEF RecordFails, SweepInv, TypeOK, Raise, Uncaught, Goto
  <2> QED
    BY <1>2, <2>2, <2>3, <2>4, <2>5, <2>6, <2>7 DEF Save
<1>3. ASSUME NEW p \in Procs, Perform(p) PROVE SweepInv'
  <2>1. stage[p] \in Owning \ Saving /\ UNCHANGED files
    BY <1>3, PerformSteps
  <2>2. \E s \in Owning \cup {"raised"} : Goto(p, s)
    BY <1>3, PerformSteps DEF Raise
  <2> QED
    BY <1>0, <1>3, <2>1, <2>2 DEF SweepInv, TypeOK, Goto
<1>7. ASSUME NEW p \in Procs, FinishBranch(p) PROVE SweepInv'
  BY <1>0, <1>7, BranchSteps DEF SweepInv, procVars
<1>4. ASSUME NEW p \in Procs, Die(p) PROVE SweepInv'
  BY <1>0, <1>4 DEF Die, SweepInv, TypeOK, Goto
<1>5. ASSUME NEW p \in Procs, CompletedRow(p) PROVE SweepInv'
  <2>1. \/ Goto(p, "skipped") /\ files["result"] # Nothing
        \/ Goto(p, "claim")
    BY <1>5, Zenon DEF CompletedRow
  <2> QED
    BY <1>0, <1>5, <2>1 DEF CompletedRow, SweepInv, TypeOK, Goto
<1>6. CASE UNCHANGED vars
  BY <1>0, <1>6 DEF SweepInv, vars
<1> QED
  BY <1>1, <1>2, <1>3, <1>4, <1>5, <1>6, <1>7 DEF Next, Proceed

\* Nothing is written to a result that a sweep has taken over.
LEMMA TakenOverStands ==
  ASSUME TypeOK, SweepInv, [Next]_vars
  PROVE  (\E p \in Procs : stage[p] = "skipped") => files'["result"] = files["result"]
<1> SUFFICES ASSUME NEW p \in Procs, stage[p] = "skipped"
             PROVE  files'["result"] = files["result"]
  OBVIOUS
<1>1. IsSweep /\ files["result"] # Nothing
  BY DEF SweepInv
<1>2. ASSUME NEW q \in Procs, Save(q) PROVE files'["result"] = files["result"]
  <2>1. ~(stage[q] \in Saving /\ step[q] = "replace")
    BY <1>1, <1>2 DEF SweepInv
  <2> QED
    BY <1>2, <2>1 DEF Save, WriteTemporary, ReplaceFile, ReplaceFails, RemoveTemporary,
                      RecordEvent, RecordFails, fileVars
<1>3. ASSUME NEW q \in Procs,
             CompletedRow(q) \/ Reserve(q) \/ Perform(q) \/ FinishBranch(q) \/ Die(q)
      PROVE  files' = files
  BY <1>3, PerformSteps, BranchSteps
  DEF CompletedRow, Reserve, MakeDirectory, InspectDirectory, TouchTrace, Die, fileVars
<1>4. CASE UNCHANGED vars
  BY <1>4 DEF vars
<1> QED
  BY <1>2, <1>3, <1>4 DEF Next, Proceed

\* The result that a sweep took over from a run is the last word on that run.
THEOREM SkippedResultsStand == Spec => SkippedStands
<1>1. Init => TakenOver
  BY TypeInit, OwnerInit, SweepInit DEF TakenOver
<1>2. TakenOver /\ [Next]_vars => TakenOver'
  BY TypeStep, OwnerStep, SweepStep DEF TakenOver
<1>3. TakenOver /\ [Next]_vars =>
        [(\E p \in Procs : stage[p] = "skipped") => files'["result"] = files["result"]]_vars
  BY TakenOverStands DEF TakenOver
<1> QED
  BY <1>1, <1>2, <1>3, PTL DEF Spec, SkippedStands
-----------------------------------------------------------------------------
(* Refusals.  What a process was refused for stays: a file keeps its name, *)
(* a reservation its owner, and a saved file is never removed.             *)
Cause == kind = "file" \/ reserved # "nobody" \/ \E d \in Destinations : files[d] # Nothing

CauseInv ==
  /\ \A p \in Procs : stage[p] = "inspect" => kind # "absent"
  /\ \A p \in Procs : stage[p] = "rejected" => Cause

Refusing == TypeOK /\ OwnerInv /\ CauseInv

LEMMA CauseStays ==
  ASSUME TypeOK, [Next]_vars
  PROVE  (Cause => Cause') /\ (kind # "absent" => kind' # "absent")
<1> USE DEF pathVars, fileVars
<1>1. ASSUME NEW p \in Procs, Reserve(p)
      PROVE  (Cause => Cause') /\ (kind # "absent" => kind' # "absent")
  BY <1>1 DEF Reserve, MakeDirectory, InspectDirectory, TouchTrace, Cause
<1>2. ASSUME NEW p \in Procs, Save(p)
      PROVE  (Cause => Cause') /\ (kind # "absent" => kind' # "absent")
  <2>1. CASE ReplaceFile(p)
    <3> DEFINE saved == [by |-> p, says |-> Says(stage[p])]
               d == Destination(stage[p])
    <3>1. saved # Nothing /\ d \in Destinations /\ files' = [files EXCEPT ![d] = saved]
      BY <1>2, <2>1, SavedContents DEF ReplaceFile, Nothing
    <3>2. \A e \in Destinations : files[e] # Nothing => files'[e] # Nothing
      BY <3>1 DEF TypeOK
    <3> QED
      BY <2>1, <3>2 DEF ReplaceFile, Cause
  <2>2. CASE ~ReplaceFile(p)
    BY <1>2, <2>2 DEF Save, WriteTemporary, ReplaceFails, RemoveTemporary,
                      RecordEvent, RecordFails, Cause
  <2> QED
    BY <2>1, <2>2
<1>3. ASSUME NEW p \in Procs, CompletedRow(p) \/ Perform(p) \/ FinishBranch(p) \/ Die(p)
      PROVE  (Cause => Cause') /\ (kind # "absent" => kind' # "absent")
  BY <1>3, PerformSteps, BranchSteps DEF CompletedRow, Die, Cause
<1>4. CASE UNCHANGED vars
  BY <1>4 DEF vars, Cause
<1> QED
  BY <1>1, <1>2, <1>3, <1>4 DEF Next, Proceed

LEMMA CauseInit == Init => CauseInv
  BY DEF Init, CauseInv

LEMMA CauseStep == Refusing /\ [Next]_vars => CauseInv'
<1> SUFFICES ASSUME TypeOK, OwnerInv, CauseInv, [Next]_vars PROVE CauseInv'
  BY DEF Refusing
<1>0. (Cause => Cause') /\ (kind # "absent" => kind' # "absent")
  BY CauseStays
<1>1. ASSUME NEW p \in Procs, Reserve(p) PROVE CauseInv'
  <2>1. \/ Goto(p, "touch") \/ Goto(p, "start")
        \/ Goto(p, "inspect") /\ kind # "absent"
        \/ Goto(p, "rejected") /\ Cause
    <3>1. CASE MakeDirectory(p)
      BY <3>1 DEF MakeDirectory
    <3>2. CASE InspectDirectory(p)
      <4>1. Goto(p, "touch") \/ (Goto(p, "rejected") /\ ~(kind = "directory" /\ IsEmpty))
        BY <3>2, Zenon DEF InspectDirectory
      <4>2. kind # "absent"
        BY <3>2, <1>1 DEF InspectDirectory, CauseInv
      <4>3. temps # {} => reserved # "nobody"
        BY DEF OwnerInv, TypeOK
      <4>4. kind = "directory" /\ ~IsEmpty => Cause
        BY <4>3 DEF IsEmpty, Cause
      <4>5. ~(kind = "directory" /\ IsEmpty) => Cause
        BY <4>2, <4>4 DEF TypeOK, Cause
      <4> QED
        BY <4>1, <4>5
    <3>3. CASE TouchTrace(p)
      BY <3>3 DEF TouchTrace, Cause
    <3> QED
      BY <1>1, <3>1, <3>2, <3>3 DEF Reserve
  <2> QED
    BY <1>0, <1>1, <2>1 DEF CauseInv, TypeOK, Goto
<1>2. ASSUME NEW p \in Procs, Save(p)
      PROVE  CauseInv'
  <2>1. stage' = stage \/ \E s \in Owning \cup (Final \ {"rejected"}) : Goto(p, s)
    BY <1>2 DEF Save, WriteTemporary, ReplaceFile, ReplaceFails, RemoveTemporary,
                RecordEvent, RecordFails, Raise, After
  <2> QED
    BY <1>0, <1>2, <2>1 DEF CauseInv, TypeOK, Goto
<1>3. ASSUME NEW p \in Procs, Perform(p) PROVE CauseInv'
  BY <1>0, <1>3, PerformSteps DEF CauseInv, TypeOK, Goto, Raise
<1>7. ASSUME NEW p \in Procs, FinishBranch(p) PROVE CauseInv'
  BY <1>0, <1>7, BranchSteps DEF CauseInv, procVars
<1>4. ASSUME NEW p \in Procs, Die(p) PROVE CauseInv'
  BY <1>0, <1>4 DEF Die, CauseInv, TypeOK, Goto
<1>5. ASSUME NEW p \in Procs, CompletedRow(p) PROVE CauseInv'
  <2>1. Goto(p, "skipped") \/ Goto(p, "claim")
    BY <1>5, Zenon DEF CompletedRow
  <2> QED
    BY <1>0, <1>5, <2>1 DEF CauseInv, TypeOK, Goto
<1>6. CASE UNCHANGED vars
  BY <1>0, <1>6 DEF CauseInv, vars
<1> QED
  BY <1>1, <1>2, <1>3, <1>4, <1>5, <1>6, <1>7 DEF Next, Proceed

LEMMA CauseImpliesRejected == CauseInv => RejectedForCause
<1>1. reserved # "nobody" => reserved \in Writers
  BY DEF Writers
<1>2. \A d \in Destinations : files[d] # Nothing => files[d].by \in Writers
  BY DEF Writers
<1>3. Cause => kind = "file" \/ Writers # {}
  BY <1>1, <1>2 DEF Cause
<1> QED
  BY <1>3 DEF CauseInv, RejectedForCause

\* Nobody is refused a directory in which, now too, nothing is.
THEOREM RefusedForCause == Spec => []RejectedForCause
<1>1. Init => Refusing
  BY TypeInit, OwnerInit, CauseInit DEF Refusing
<1>2. Refusing /\ [Next]_vars => Refusing'
  BY TypeStep, OwnerStep, CauseStep DEF Refusing
<1>3. Refusing => RejectedForCause
  BY CauseImpliesRejected DEF Refusing
<1> QED
  BY <1>1, <1>2, <1>3, PTL DEF Spec
-----------------------------------------------------------------------------
(* The outcome.  A process that is about to record run.end has saved the   *)
(* result of its stage, and no other can have saved one since: they do not *)
(* own the directory.                                                      *)
ResultIs(p, s) == files["result"] = [by |-> p, says |-> s]
Over == {"returned", "failed", "raised"}

OutcomeInv ==
  /\ \A p \in Procs : \A s \in {"success", "failure"} :
       stage[p] = s /\ step[p] = "record" => ResultIs(p, s)
  /\ ResultTellsOutcome

Telling == TypeOK /\ OwnerInv /\ EndInv /\ OutcomeInv

LEMMA OutcomeInit == Init => OutcomeInv
  BY DEF Init, OutcomeInv, ResultTellsOutcome, Ended

\* The steps of a process that leave the directory alone, and it too.
LEMMA IdleStep ==
  ASSUME TypeOK, OutcomeInv, NEW p \in Procs, UNCHANGED <<events, files>>,
         NEW s \in (Entering \cup Owning \cup Final) \ Over, Goto(p, s)
  PROVE  OutcomeInv'
<1>1. /\ stage' = [stage EXCEPT ![p] = s]
      /\ step'[p] = "write"
      /\ \A q \in Procs \ {p} : stage'[q] = stage[q] /\ step'[q] = step[q]
  BY DEF Goto, TypeOK
<1>2. Ended' <=> Ended
  BY DEF Ended
<1>3. stage'[p] = s /\ s \notin Over
  BY <1>1 DEF TypeOK
<1>4. ASSUME NEW q \in Procs, NEW t \in {"success", "failure"},
             stage'[q] = t, step'[q] = "record"
      PROVE  ResultIs(q, t)'
  <2>1. q # p
    BY <1>1, <1>4
  <2> QED
    BY <1>1, <1>4, <2>1 DEF OutcomeInv, ResultIs
<1>5. ResultTellsOutcome'
  BY <1>1, <1>2, <1>3 DEF OutcomeInv, ResultTellsOutcome, Over
<1> QED
  BY <1>4, <1>5 DEF OutcomeInv

\* A step of the owner that does not record run.end: nobody has ended, and
\* nobody else is to write a result.
LEMMA OwnersStep ==
  ASSUME TypeOK, OwnerInv, TypeOK', OwnerInv', NEW p \in Procs, reserved = p,
         reserved' = reserved, ~Ended', stage'[p] \notin {"returned", "failed"},
         \A q \in Procs \ {p} : stage'[q] = stage[q],
         \A s \in {"success", "failure"} :
           stage'[p] = s /\ step'[p] = "record" => ResultIs(p, s)'
  PROVE  OutcomeInv'
<1>1. \A q \in Procs \ {p} : stage'[q] \notin Owning \cup Over
  BY DEF OwnerInv, Over
<1>2. ASSUME NEW q \in Procs, NEW t \in {"success", "failure"},
             stage'[q] = t, step'[q] = "record"
      PROVE  ResultIs(q, t)'
  BY <1>1, <1>2
<1>3. ResultTellsOutcome'
  BY <1>1 DEF ResultTellsOutcome, Over
<1> QED
  BY <1>2, <1>3 DEF OutcomeInv

LEMMA OutcomeStep == Telling /\ [Next]_vars => OutcomeInv'
<1> SUFFICES ASSUME TypeOK, OwnerInv, EndInv, OutcomeInv, [Next]_vars,
                    TypeOK', OwnerInv'
             PROVE  OutcomeInv'
  BY TypeStep, OwnerStep DEF Telling
<1> USE DEF pathVars, fileVars
<1>1. ASSUME NEW p \in Procs, Reserve(p) PROVE OutcomeInv'
  <2>1. \E s \in {"touch", "start", "inspect", "rejected"} : Goto(p, s)
    <3>1. CASE MakeDirectory(p)
      BY <3>1 DEF MakeDirectory
    <3>2. CASE InspectDirectory(p)
      BY <3>2, Zenon DEF InspectDirectory
    <3>3. CASE TouchTrace(p)
      BY <3>3 DEF TouchTrace
    <3> QED
      BY <1>1, <3>1, <3>2, <3>3 DEF Reserve
  <2>2. UNCHANGED <<events, files>>
    BY <1>1 DEF Reserve, MakeDirectory, InspectDirectory, TouchTrace
  <2> QED
    BY <1>1, <2>1, <2>2, IdleStep DEF Over
<1>2. ASSUME NEW p \in Procs, Save(p) PROVE OutcomeInv'
  <2>1. stage[p] \in Saving /\ reserved = p /\ reserved' = reserved /\ ~Ended
    BY <1>2 DEF Save, WriteTemporary, ReplaceFile, ReplaceFails, RemoveTemporary,
                RecordEvent, RecordFails, OwnerInv, EndInv
  <2>2. \A q \in Procs \ {p} : stage'[q] = stage[q]
    BY <1>2 DEF Save, WriteTemporary, ReplaceFile, ReplaceFails, RemoveTemporary,
                RecordEvent, RecordFails, Raise, Goto, TypeOK
  <2>3. CASE WriteTemporary(p) \/ ReplaceFails(p)
    <3>1. stage' = stage /\ step'[p] # "record" /\ ~Ended'
      BY <1>2, <2>1, <2>3 DEF WriteTemporary, ReplaceFails, TypeOK, Ended
    <3> QED
      BY <1>2, <2>1, <2>2, <3>1, OwnersStep
  <2>4. CASE ReplaceFile(p)
    <3>1. ~Ended'
      BY <2>1, <2>4 DEF ReplaceFile, Ended
    <3>2. CASE stage[p] = "plan"
      BY <1>2, <2>1, <2>2, <2>4, <3>1, <3>2, OwnersStep DEF ReplaceFile, Goto, TypeOK
    <3>3. CASE stage[p] # "plan"
      <4>1. stage' = stage
        BY <2>4, <3>3 DEF ReplaceFile
      <4>2. \A s \in {"success", "failure"} : stage[p] = s => ResultIs(p, s)'
        BY <2>4 DEF ReplaceFile, TypeOK, Destination, Says, ResultIs
      <4> QED
        BY <1>2, <2>1, <2>2, <3>1, <4>1, <4>2, OwnersStep
    <3> QED
      BY <3>2, <3>3
  <2>5. CASE RemoveTemporary(p) \/ RecordFails(p)
    <3>1. ~Ended' /\ Raise(p)
      BY <2>1, <2>5 DEF RemoveTemporary, RecordFails, Ended
    <3>2. stage'[p] \in {"raised", "failure"} /\ step'[p] = "write"
      BY <1>2, <3>1 DEF Raise, Goto, TypeOK
    <3> QED
      BY <1>2, <2>1, <2>2, <3>1, <3>2, OwnersStep
  <2>6. CASE RecordEvent(p)
    <3> DEFINE event == IF stage[p] = "start" THEN "run.start" ELSE "run.end"
               line == [by |-> p, event |-> event]
    <3>1. line \in Lines /\ line.event = event
      BY <1>2 DEF Lines
    <3>2. events' = Append(events, line)
      BY <2>6 DEF RecordEvent
    <3>3. Ended' <=> stage[p] # "start"
      BY <2>1, <3>1, <3>2, EndRecorded
    <3>4. /\ stage'[p] = After(stage[p]) /\ step'[p] = "write"
          /\ stage[p] \in {"start", "success", "failure"} /\ step[p] = "record"
          /\ UNCHANGED files
      BY <1>2, <2>6 DEF RecordEvent, Goto, TypeOK
    <3>5. CASE stage[p] = "start"
      <4>1. stage'[p] \in {"bind", "preflight"}
        BY <3>4, <3>5 DEF After
      <4> QED
        BY <1>2, <2>1, <2>2, <3>3, <3>5, <4>1, OwnersStep
    <3>6. CASE stage[p] \in {"success", "failure"}
      <4>1. files'["result"] = [by |-> p, says |-> stage[p]]
        BY <1>2, <3>4, <3>6 DEF OutcomeInv, ResultIs
      <4>2. \A q \in Procs \ {p} : stage'[q] \notin Owning \cup Over
        BY <2>1, <2>2 DEF OwnerInv, Over
      <4>3. stage'[p] \in Over
            /\ (stage'[p] = "returned" <=> stage[p] = "success")
        BY <3>4, <3>6 DEF After, Over
      <4>4. files'["result"] # Nothing
        BY <1>2, <4>1 DEF Nothing
      <4>5. ResultTellsOutcome'
        BY <3>3, <3>6, <4>1, <4>2, <4>3, <4>4 DEF ResultTellsOutcome, Over
      <4>6. \A q \in Procs : stage'[q] \notin {"success", "failure"}
        BY <4>2, <4>3 DEF Over
      <4> QED
        BY <4>5, <4>6 DEF OutcomeInv
    <3> QED
      BY <3>4, <3>5, <3>6
  <2> QED
    BY <1>2, <2>3, <2>4, <2>5, <2>6 DEF Save
<1>3. ASSUME NEW p \in Procs, Perform(p) PROVE OutcomeInv'
  <2>1. reserved = p /\ reserved' = reserved /\ ~Ended
    BY <1>3, PerformSteps DEF OwnerInv, EndInv
  <2>2. /\ \A q \in Procs \ {p} : stage'[q] = stage[q]
        /\ stage'[p] \notin {"returned", "failed"} /\ step'[p] = "write"
    BY <1>3, PerformMoves
  <2>3. ~Ended'
    <3>1. ASSUME NEW line \in Lines, line.event # "run.end", events' = Append(events, line)
          PROVE  ~Ended'
      BY <2>1, <3>1, EndRecorded
    <3>2. CASE events' = events
      BY <2>1, <3>2 DEF Ended
    <3> QED
      BY <1>3, <3>1, <3>2, PerformSteps
  <2> QED
    BY <1>3, <2>1, <2>2, <2>3, OwnersStep
<1>7. ASSUME NEW p \in Procs, FinishBranch(p) PROVE OutcomeInv'
  <2>1. Ended' <=> Ended
    BY <1>7, BranchSteps, EndRecorded DEF Ended
  <2>2. UNCHANGED <<files, stage, step>>
    BY <1>7, BranchSteps DEF procVars
  <2> QED
    BY <2>1, <2>2 DEF OutcomeInv, ResultTellsOutcome, ResultIs
<1>4. ASSUME NEW p \in Procs, Die(p) PROVE OutcomeInv'
  BY <1>4, IdleStep DEF Die, Over
<1>5. ASSUME NEW p \in Procs, CompletedRow(p) PROVE OutcomeInv'
  <2>1. Goto(p, "skipped") \/ Goto(p, "claim")
    BY <1>5, Zenon DEF CompletedRow
  <2> QED
    BY <1>5, <2>1, IdleStep DEF CompletedRow, Over
<1>6. CASE UNCHANGED vars
  BY <1>6 DEF OutcomeInv, ResultTellsOutcome, ResultIs, Ended, vars
<1> QED
  BY <1>1, <1>2, <1>3, <1>4, <1>5, <1>6, <1>7 DEF Next, Proceed

\* Once the trace says that a run ended, the result tells how its process did:
\* a process that returned left its success, one that raised its failure.
THEOREM OutcomeTold == Spec => []ResultTellsOutcome
<1>1. Init => Telling
  BY TypeInit, OwnerInit, EndInit, OutcomeInit DEF Telling
<1>2. Telling /\ [Next]_vars => Telling'
  BY TypeStep, OwnerStep, EndStep, OutcomeStep DEF Telling, InTheEnd
<1>3. Telling => ResultTellsOutcome
  BY DEF Telling, OutcomeInv
<1> QED
  BY <1>1, <1>2, <1>3, PTL DEF Spec

\* A branch that still runs after run.end is one of a failed run of a sweep: its
\* process has failed or raised, and the result says so.
LEMMA LateAfterEnd ==
  ASSUME Telling, Ended, NEW p \in Procs, late[p] > 0
  PROVE  IsSweep /\ files["result"].says = "failure"
<1>1. IsSweep /\ stage[p] \in {"failure", "failed", "raised"}
  BY DEF Telling, OwnerInv, LateInv
<1>2. stage[p] \in {"failed", "raised"}
  BY <1>1 DEF Telling, EndInv
<1>3. files["result"] = [by |-> p, says |-> "failure"]
  BY <1>2 DEF Telling, OutcomeInv, ResultTellsOutcome
<1> QED
  BY <1>1, <1>3

\* After run.end no file is rewritten and no second end recorded, and only what
\* a failed run of a sweep left running adds to the trace.
THEOREM EndIsFinal == Spec => EndStands
<1>1. Init => Telling
  BY TypeInit, OwnerInit, EndInit, OutcomeInit DEF Telling
<1>2. Telling /\ [Next]_vars => Telling'
  BY TypeStep, OwnerStep, EndStep, OutcomeStep DEF Telling, InTheEnd
<1>3. Telling /\ [Next]_vars =>
        [Ended => /\ UNCHANGED files
                  /\ \/ UNCHANGED events
                     \/ /\ IsSweep /\ files["result"].says = "failure"
                        /\ \E p \in Procs : late[p] > 0 /\ Event(p, "work")]_vars
  <2> SUFFICES ASSUME Telling, [Next]_vars, Ended
               PROVE  /\ UNCHANGED files
                      /\ \/ UNCHANGED events
                         \/ /\ IsSweep /\ files["result"].says = "failure"
                            /\ \E p \in Procs : late[p] > 0 /\ Event(p, "work")
    OBVIOUS
  <2>1. \A p \in Procs : stage[p] \notin Owning
    BY DEF Telling, EndInv
  <2>2. CASE UNCHANGED <<events, files>>
    BY <2>2
  <2>3. ASSUME UNCHANGED files, NEW p \in Procs, late[p] > 0, Event(p, "work")
        PROVE  IsSweep /\ files["result"].says = "failure"
    BY <2>3, LateAfterEnd
  <2> QED
    BY <2>1, <2>2, <2>3, ChangesAreOwned DEF Telling
<1> QED
  BY <1>1, <1>2, <1>3, PTL DEF Spec, EndStands
============================================================================
