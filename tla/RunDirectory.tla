--------------------------- MODULE RunDirectory ---------------------------
(***************************************************************************)
(* The directory of one run (tracing/recorder.py) and the processes that   *)
(* want it, on one file system: calls of run_blind_experiment              *)
(* (experiment.py) with the same run id, or invocations of the sweep of    *)
(* calibration.py, whose run ids are fixed and which takes over the result *)
(* that an earlier invocation has left.  A process reserves the directory, *)
(* writes config.yaml and result.json through temporaries, and appends to  *)
(* trace.jsonl.  Writes may fail and processes may die; branches of a      *)
(* sweep's workflow outlive it when one of them fails, and go on recording *)
(* in the trace of the run.                                                *)
(*                                                                         *)
(* Of a file the model keeps who wrote it and what it says; of the inputs  *)
(* of a run, and of the events of its workflow, it keeps one.              *)
(***************************************************************************)
EXTENDS Naturals, Sequences

CONSTANTS Procs,    \* the processes started with this run id
          Branches, \* how many branches a reference workflow runs at a time
          Faults    \* a subset of {"io", "crash"}

VARIABLES driver,     \* the program: "experiment" or "calibration"
          kind,       \* what the path of the run is: "absent", "file" or "directory"
          reserved,   \* who created trace.jsonl, or "nobody"
          events,     \* the lines of trace.jsonl
          files,      \* the contents of config.yaml and result.json
          temps,      \* the temporary files: <<process, destination>>
          stage,      \* where each process is
          step,       \* and, in a stage that saves a file, how far
          late        \* the branches that the failed workflow of a process left

pathVars == <<kind, reserved>>
fileVars == <<events, files, temps>>
procVars == <<stage, step>>
vars == <<driver, kind, reserved, events, files, temps, stage, step, late>>

ASSUME RunDirectoryAssumption ==
  /\ {"nobody", "earlier"} \cap Procs = {}
  /\ Branches \in Nat \ {0}
  /\ Faults \subseteq {"io", "crash"}

Destinations == {"config", "result"}
Nothing == [by |-> "nobody", says |-> "nothing"]
Contents == [by : Procs \cup {"earlier"}, says : {"initial", "ledger", "success", "failure"}]
Lines == [by : Procs \cup {"earlier"}, event : {"run.start", "bind.start", "bind.end",
                                                    "work", "run.end"}]

\* The stages that save a file; the handler of exceptions is "failure".
Saving == {"start", "plan", "success", "failure"}
\* The stages of the process that owns the directory.
Owning == Saving \cup {"preflight", "bind", "bound", "run"}
Entering == {"look", "claim", "inspect", "touch"}
\* A sweep goes on with its next run from "returned", "failed" and "skipped";
\* "raised" and "rejected" end it.
Final == {"returned", "failed", "raised", "rejected", "skipped", "dead"}

Destination(s) == IF s \in {"start", "plan"} THEN "config" ELSE "result"
Says(s) == CASE s = "start" -> "initial"
             [] s = "plan"  -> "ledger"
             [] OTHER       -> s

Fails(fault) == fault \in Faults

IsSweep == driver = "calibration"

\* There is nothing in the directory.
IsEmpty ==
  /\ reserved = "nobody"
  /\ \A d \in Destinations : files[d] = Nothing
  /\ temps = {}

Goto(p, s) ==
  /\ stage' = [stage EXCEPT ![p] = s]
  /\ step' = [step EXCEPT ![p] = "write"]

\* The directory starts absent, empty, or with what an earlier run left; or a
\* plain file has its name.
Init ==
  /\ driver \in {"experiment", "calibration"}
  /\ kind \in {"absent", "file", "directory"}
  /\ reserved \in {"nobody", "earlier"}
  /\ events \in {<<>>, <<[by |-> "earlier", event |-> "run.start"]>>}
  /\ files \in [Destinations -> {Nothing, [by |-> "earlier", says |-> "failure"]}]
  /\ kind # "directory" =>
       reserved = "nobody" /\ files = [d \in Destinations |-> Nothing]
  /\ reserved = "nobody" => events = <<>>
  /\ temps = {}
  /\ stage = [p \in Procs |-> IF IsSweep THEN "look" ELSE "claim"]
  /\ step = [p \in Procs |-> "write"]
  /\ late = [p \in Procs |-> 0]
-----------------------------------------------------------------------------
(* A sweep takes over the result of a run that has one, whatever it says;  *)
(* nobody but the owner of trace.jsonl writes a result.                    *)
CompletedRow(p) ==
  /\ stage[p] = "look"
  /\ Goto(p, IF files["result"] # Nothing /\ reserved # "nobody"
             THEN "skipped" ELSE "claim")
  /\ UNCHANGED <<pathVars, fileVars>>

(* Reservation: three calls to the file system, with other processes'      *)
(* calls in between.                                                       *)

MakeDirectory(p) ==
  /\ stage[p] = "claim"
  /\ IF kind = "absent"
       THEN kind' = "directory" /\ Goto(p, "touch")
       ELSE UNCHANGED kind /\ Goto(p, "inspect")
  /\ UNCHANGED <<reserved, fileVars>>

\* Bug variant: an existing directory is refused, empty or not.
InspectDirectoryBug(p) ==
  /\ stage[p] = "inspect"
  /\ Goto(p, "rejected")
  /\ UNCHANGED <<pathVars, fileVars>>

InspectDirectory(p) ==
  /\ stage[p] = "inspect"
  /\ Goto(p, IF kind = "directory" /\ IsEmpty THEN "touch" ELSE "rejected")
  /\ UNCHANGED <<pathVars, fileVars>>

\* Bug variant: trace.jsonl is created without asking that it is new.
TouchTraceBug(p) ==
  /\ stage[p] = "touch"
  /\ reserved' = IF reserved = "nobody" THEN p ELSE reserved
  /\ Goto(p, "start")
  /\ UNCHANGED <<kind, fileVars>>

TouchTrace(p) ==
  /\ stage[p] = "touch"
  /\ IF reserved = "nobody"
       THEN reserved' = p /\ Goto(p, "start")
       ELSE UNCHANGED reserved /\ Goto(p, "rejected")
  /\ UNCHANGED <<kind, fileVars>>
-----------------------------------------------------------------------------
(* The recorder.  An exception reaches the handler of run_blind_experiment *)
(* from every stage but "start", which precedes the try, and from the      *)
(* handler itself.  A sweep ends a run outside its try, well or not.       *)

Uncaught == {"start", "failure"} \cup IF IsSweep THEN {"success"} ELSE {}

\* Bug variant: the sweep ends a run inside its try.
RaiseBug(p) ==
  Goto(p, IF stage[p] \in {"start", "failure"} THEN "raised" ELSE "failure")

Raise(p) == Goto(p, IF stage[p] \in Uncaught THEN "raised" ELSE "failure")

After(s) == CASE s = "start"   -> IF IsSweep THEN "bind" ELSE "preflight"
              [] s = "success" -> "returned"
              [] s = "failure" -> IF IsSweep THEN "failed" ELSE "raised"

WriteTemporary(p) ==
  /\ stage[p] \in Saving /\ step[p] = "write"
  /\ temps' = temps \cup {<<p, Destination(stage[p])>>}
  /\ \/ step' = [step EXCEPT ![p] = "replace"]
     \/ Fails("io") /\ step' = [step EXCEPT ![p] = "clean"]
  /\ UNCHANGED <<pathVars, events, files, stage>>

ReplaceFile(p) ==
  /\ stage[p] \in Saving /\ step[p] = "replace"
  /\ files' = [files EXCEPT ![Destination(stage[p])] =
                 [by |-> p, says |-> Says(stage[p])]]
  /\ temps' = temps \ {<<p, Destination(stage[p])>>}
  /\ IF stage[p] = "plan" THEN Goto(p, "run")
     ELSE step' = [step EXCEPT ![p] = "record"] /\ UNCHANGED stage
  /\ UNCHANGED <<pathVars, events>>

ReplaceFails(p) ==
  /\ Fails("io")
  /\ stage[p] \in Saving /\ step[p] = "replace"
  /\ step' = [step EXCEPT ![p] = "clean"]
  /\ UNCHANGED <<pathVars, fileVars, stage>>

\* Bug variant: a file that cannot be saved is not an error.
RemoveTemporaryBug(p) ==
  /\ stage[p] \in Saving /\ step[p] = "clean"
  /\ temps' = temps \ {<<p, Destination(stage[p])>>}
  /\ IF stage[p] = "plan" THEN Goto(p, "run")
     ELSE step' = [step EXCEPT ![p] = "record"] /\ UNCHANGED stage
  /\ UNCHANGED <<pathVars, events, files>>

RemoveTemporary(p) ==
  /\ stage[p] \in Saving /\ step[p] = "clean"
  /\ temps' = temps \ {<<p, Destination(stage[p])>>}
  /\ Raise(p)
  /\ UNCHANGED <<pathVars, events, files>>

\* Bug variant: something that can fail follows run.end inside the try.
RecordEventBug(p) ==
  /\ stage[p] \in Saving \ {"plan"} /\ step[p] = "record"
  /\ events' = Append(events,
       [by |-> p, event |-> IF stage[p] = "start" THEN "run.start" ELSE "run.end"])
  /\ Goto(p, After(stage[p])) \/ Raise(p)
  /\ UNCHANGED <<pathVars, files, temps>>

RecordEvent(p) ==
  /\ stage[p] \in Saving \ {"plan"} /\ step[p] = "record"
  /\ events' = Append(events,
       [by |-> p, event |-> IF stage[p] = "start" THEN "run.start" ELSE "run.end"])
  /\ Goto(p, After(stage[p]))
  /\ UNCHANGED <<pathVars, files, temps>>

RecordFails(p) ==
  /\ Fails("io")
  /\ stage[p] \in Saving /\ step[p] = "record"
  /\ Raise(p)
  /\ UNCHANGED <<pathVars, fileVars>>

Save(p) ==
  \/ WriteTemporary(p) \/ ReplaceFile(p) \/ ReplaceFails(p)
  \/ RemoveTemporary(p) \/ RecordEvent(p) \/ RecordFails(p)
-----------------------------------------------------------------------------
(* A run.  Every Worker has to answer as the one it is taken for.  A sweep *)
(* has made sure of that before its first run.                             *)
Preflight(p) ==
  /\ stage[p] = "preflight"
  /\ Goto(p, "bind") \/ Raise(p)
  /\ UNCHANGED <<pathVars, fileVars, late>>

Event(p, name) == events' = Append(events, [by |-> p, event |-> name])
AfterInputs == IF IsSweep THEN "run" ELSE "plan"

(* The inputs are uploaded to their Workers, of which nothing is recorded. *)
Upload(p) ==
  /\ stage[p] = "bind"
  /\ Goto(p, AfterInputs) \/ Raise(p)
  /\ UNCHANGED <<pathVars, fileVars, late>>

(* Or a Worker imports a file it has; the end is recorded of an error,     *)
(* too.                                                                    *)
StartBind(p) ==
  /\ stage[p] = "bind" /\ ~IsSweep
  /\ \/ Event(p, "bind.start") /\ Goto(p, "bound")
     \/ Fails("io") /\ UNCHANGED events /\ Raise(p)
  /\ UNCHANGED <<pathVars, files, temps, late>>

EndBind(p) ==
  /\ stage[p] = "bound"
  /\ \/ Event(p, "bind.end") /\ (Goto(p, AfterInputs) \/ Raise(p))
     \/ Fails("io") /\ UNCHANGED events /\ Raise(p)
  /\ UNCHANGED <<pathVars, files, temps, late>>

\* The Coordinator's run, or the reference workflow of a sweep: events, and
\* then the next stage or an exception.  The workflow gathers its branches, and
\* the first of them to fail leaves the others running.
Work(p) ==
  /\ stage[p] = "run"
  /\ Event(p, "work") \/ UNCHANGED events
  /\ \/ Goto(p, "success") /\ UNCHANGED late
     \/ /\ Raise(p)
        /\ \E n \in 0..(IF IsSweep THEN Branches - 1 ELSE 0) :
             late' = [late EXCEPT ![p] = n]
  /\ UNCHANGED <<pathVars, files, temps>>

\* A branch that was left running goes on with its requests and its transfers,
\* and ends: at the latest when the program does, which cancels it.
FinishBranch(p) ==
  /\ late[p] > 0
  /\ late' = [late EXCEPT ![p] = @ - 1]
  /\ Event(p, "work") \/ UNCHANGED events
  /\ UNCHANGED <<pathVars, files, temps, procVars>>

\* A process dies, or is interrupted by what its handler does not catch.
Die(p) ==
  /\ Fails("crash")
  /\ stage[p] \notin Final
  /\ Goto(p, "dead")
  /\ late' = [late EXCEPT ![p] = 0]
  /\ UNCHANGED <<pathVars, fileVars>>

Reserve(p) == MakeDirectory(p) \/ InspectDirectory(p) \/ TouchTrace(p)

Perform(p) == Preflight(p) \/ Upload(p) \/ StartBind(p) \/ EndBind(p) \/ Work(p)

Proceed(p) ==
  \/ (CompletedRow(p) \/ Reserve(p) \/ Save(p)) /\ UNCHANGED late
  \/ Perform(p)

Next ==
  /\ \E p \in Procs : Proceed(p) \/ FinishBranch(p) \/ Die(p)
  /\ UNCHANGED driver

Spec == Init /\ [][Next]_vars

\* A process that can take a step takes it.
FairSpec == Spec /\ \A p \in Procs : WF_vars(Proceed(p) /\ UNCHANGED driver)
-----------------------------------------------------------------------------
(* Properties.                                                             *)

TypeOK ==
  /\ driver \in {"experiment", "calibration"}
  /\ kind \in {"absent", "file", "directory"}
  /\ reserved \in Procs \cup {"nobody", "earlier"}
  /\ events \in Seq(Lines)
  /\ files \in [Destinations -> Contents \cup {Nothing}]
  /\ temps \subseteq Procs \X Destinations
  /\ stage \in [Procs -> Entering \cup Owning \cup Final]
  /\ step \in [Procs -> {"write", "replace", "record", "clean"}]
  /\ late \in [Procs -> 0..(Branches - 1)]

\* Everything in the directory comes from the process that reserved it, and an
\* earlier run's files are alone in theirs: "runs are never appended or
\* silently reused".
Writers ==
  {events[i].by : i \in DOMAIN events}
    \cup {files[d].by : d \in {e \in Destinations : files[e] # Nothing}}
    \cup {t[1] : t \in temps}
    \cup ({reserved} \ {"nobody"})

SingleWriter == \A a, b \in Writers : a = b

\* A process is refused the run only when something is there.
RejectedForCause ==
  \A p \in Procs : stage[p] = "rejected" => kind = "file" \/ Writers # {}

Ended == \E i \in DOMAIN events : events[i].event = "run.end"

\* The result tells how the process that owns the run ended, once the trace
\* says that it did: a success only if it returned.
ResultTellsOutcome ==
  \A p \in Procs :
    /\ stage[p] = "returned" =>
         Ended /\ files["result"] = [by |-> p, says |-> "success"]
    /\ stage[p] = "failed" => Ended
    /\ stage[p] \in {"raised", "failed"} /\ Ended =>
         files["result"] = [by |-> p, says |-> "failure"]
    /\ Ended => files["result"] # Nothing

\* After run.end no file is rewritten and no second end is recorded.  The trace
\* of an experiment, and of a run that did well, is complete, so that its sums
\* (_trace_totals) are those of the run; only the branches that a failed run of
\* a sweep left behind add to it.
EndStands ==
  [][Ended => /\ UNCHANGED files
              /\ \/ UNCHANGED events
                 \/ /\ IsSweep /\ files["result"].says = "failure"
                    /\ \E p \in Procs : late[p] > 0 /\ Event(p, "work")]_vars

\* The result that a sweep took over from a run is the last word on that run,
\* even if the invocation that wrote it has not recorded run.end, or fails to.
SkippedStands ==
  [][(\E p \in Procs : stage[p] = "skipped") => files'["result"] = files["result"]]_vars

\* Processes that race for an unused directory do not all turn each other away,
\* unless one of them dies on its way in.
SomeoneRuns ==
  kind # "file" /\ IsEmpty ~>
    \E p \in Procs : reserved = p \/ stage[p] = "dead"
============================================================================
