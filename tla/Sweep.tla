------------------------------- MODULE Sweep -------------------------------
(***************************************************************************)
(* A reference sweep: every workflow of every task and world is measured   *)
(* once as a warm-up and then a number of times, one run after the other.  *)
(* A row per attempt is appended to raw_runs.jsonl; an invocation skips    *)
(* what the rows of its series say is completed, so that a sweep that      *)
(* failed or was killed is resumed by invoking it again.  The drivers of   *)
(* calibration_v0.py, scope_expansion_v0.py and longbench_v2.py share this *)
(* loop; the lines named in the map are those of scope_expansion_v0.py     *)
(* where the three do not differ.                                          *)
(*                                                                         *)
(* Of a run the model keeps its result.json and the run.end events of its  *)
(* trace.  One invocation at a time uses an output directory.              *)
(***************************************************************************)
EXTENDS Naturals, Sequences, FiniteSets

CONSTANTS Series,     \* run prefixes that share an output directory
          Groups,     \* number of pairs of a task and a world
          Flows,      \* number of workflows
          Repeats,    \* number of measured attempts
          Faults,     \* a subset of {"error", "crash", "torn", "separator"}
          MaxFaults   \* bound: how many faults there are

VARIABLES rows,       \* the rows of raw_runs.jsonl
          tail,       \* of the file: "clean", "open" (its last line has no newline)
                      \* or "broken" (it has a line that is not JSON)
          runs,       \* the runs so far, with their results and traces
          stage,      \* where the invocation is, or how the last one ended
          series,     \* the series of the invocation
          position,   \* the position in the schedule
          completed,  \* the keys known to be completed
          written,    \* the number of rows of this invocation
          faults      \* the number of faults so far

fileVars == <<rows, tail>>
sessionVars == <<series, position, completed, written>>
vars == <<rows, tail, runs, stage, series, position, completed, written, faults>>

ASSUME SweepAssumption ==
  /\ Series # {}
  /\ Groups \in Nat \ {0} /\ Flows \in Nat \ {0} /\ Repeats \in Nat \ {0}
  /\ Faults \subseteq {"error", "crash", "torn", "separator"}
  /\ MaxFaults \in Nat

Ended == {"idle", "returned", "raised", "unreadable", "dead"}
\* The stages after a run ended well and after it raised; both end its trace.
Closing == {"succeeded", "failed"}
\* The stages that append a row.
Appending == {"row.completed", "row.failed"}
Active == {"preflight", "loop", "workflow", "analysis", "succeeded.end",
           "failed.end"} \cup Closing \cup Appending

Attempts == 0..Repeats    \* 0 is the warm-up
Cells == [group : 1..Groups, attempt : Attempts, flow : 1..Flows]

\* Bug variant: the workflows of a group are measured one after the other.
CellBug(n) ==
  LET k == n - 1 IN
  [group   |-> 1 + (k \div (Flows * (Repeats + 1))),
   flow    |-> 1 + ((k \div (Repeats + 1)) % Flows),
   attempt |-> k % (Repeats + 1)]

\* The schedule: groups, then attempts, then workflows.
Cell(n) ==
  LET k == n - 1 IN
  [group   |-> 1 + (k \div (Flows * (Repeats + 1))),
   attempt |-> (k \div Flows) % (Repeats + 1),
   flow    |-> 1 + (k % Flows)]
Last == Groups * (Repeats + 1) * Flows

\* Bug variant: rows of every series count.
CompletedKeysBug(s) ==
  {runs[rows[i].run].cell : i \in {j \in DOMAIN rows : rows[j].status = "completed"}}

CompletedKeys(s) ==
  {runs[rows[i].run].cell : i \in
     {j \in DOMAIN rows :
        rows[j].status = "completed" /\ runs[rows[j].run].series = s}}

Fails(fault) ==
  /\ fault \in Faults
  /\ faults < MaxFaults
  /\ faults' = faults + 1

Init ==
  /\ rows = <<>>
  /\ tail = "clean"
  /\ runs = <<>>
  /\ stage = "idle"
  /\ series \in Series
  /\ position = 1
  /\ completed = {}
  /\ written = 0
  /\ faults = 0
-----------------------------------------------------------------------------
\* Bug variant: an invocation starts from nothing.
StartBug(s) ==
  /\ stage \in Ended
  /\ series' = s
  /\ position' = 1
  /\ written' = 0
  /\ stage' = IF tail = "broken" THEN "unreadable" ELSE "preflight"
  /\ completed' = {}
  /\ UNCHANGED <<fileVars, runs, faults>>

(* An invocation reads the rows, and raises if a line is not JSON.         *)
Start(s) ==
  /\ stage \in Ended
  /\ series' = s
  /\ position' = 1
  /\ written' = 0
  /\ IF tail = "broken"
       THEN stage' = "unreadable" /\ completed' = {}
       ELSE stage' = "preflight" /\ completed' = CompletedKeys(s)
  /\ UNCHANGED <<fileVars, runs, faults>>

\* What is not caught within an attempt ends the invocation.
Raise == Fails("error") /\ stage' = "raised"

Preflight ==
  /\ stage = "preflight"
  /\ \/ stage' = "loop" /\ UNCHANGED faults
     \/ Raise
  /\ UNCHANGED <<fileVars, runs, sessionVars>>

Skip ==
  /\ stage = "loop" /\ position <= Last
  /\ Cell(position) \in completed
  /\ position' = position + 1
  /\ UNCHANGED <<fileVars, runs, stage, series, completed, written, faults>>

\* A run with a new id reserves a directory and records run.start.
OpenRun ==
  /\ stage = "loop" /\ position <= Last
  /\ Cell(position) \notin completed
  /\ runs' = Append(runs, [series |-> series, cell |-> Cell(position),
                           result |-> "none", ends |-> <<>>])
  /\ \/ stage' = "workflow" /\ UNCHANGED faults
     \/ Raise
  /\ UNCHANGED <<fileVars, sessionVars>>

Finish ==
  /\ stage = "loop" /\ position > Last
  /\ stage' = "returned"
  /\ UNCHANGED <<fileVars, runs, sessionVars, faults>>
-----------------------------------------------------------------------------
(* An attempt: the inputs are bound, the workflow is executed, the answer  *)
(* is downloaded.  What raises leads to the handler, which ends the trace  *)
(* with a failure; what raises in the handler ends the invocation.         *)

\* The workflow, or the analysis of its trace after run.end.
Perform ==
  /\ stage \in {"workflow", "analysis"}
  /\ \/ /\ stage' = IF stage = "workflow" THEN "succeeded" ELSE "row.completed"
        /\ UNCHANGED faults
     \/ Fails("error") /\ stage' = "failed"
  /\ UNCHANGED <<fileVars, runs, sessionVars>>

Current == Len(runs)
Verdict == IF stage \in {"succeeded", "succeeded.end"} THEN "success" ELSE "failure"
Handled == IF Verdict = "success" THEN "failed" ELSE "raised"

\* Bug variant: the result of a run is kept once it is there.
SaveResultBug ==
  /\ stage \in Closing
  /\ \/ /\ runs' = [runs EXCEPT ![Current].result =
                      IF @ = "none" THEN Verdict ELSE @]
        /\ stage' = IF Verdict = "success" THEN "succeeded.end" ELSE "failed.end"
        /\ UNCHANGED faults
     \/ /\ Fails("error") /\ stage' = Handled
        /\ UNCHANGED runs
  /\ UNCHANGED <<fileVars, sessionVars>>

SaveResult ==
  /\ stage \in Closing
  /\ \/ /\ runs' = [runs EXCEPT ![Current].result = Verdict]
        /\ stage' = IF Verdict = "success" THEN "succeeded.end" ELSE "failed.end"
        /\ UNCHANGED faults
     \/ /\ Fails("error") /\ stage' = Handled
        /\ UNCHANGED runs
  /\ UNCHANGED <<fileVars, sessionVars>>

RecordEnd ==
  /\ stage \in {"succeeded.end", "failed.end"}
  /\ \/ /\ runs' = [runs EXCEPT ![Current].ends = Append(@, Verdict)]
        /\ stage' = IF Verdict = "success" THEN "analysis" ELSE "row.failed"
        /\ UNCHANGED faults
     \/ /\ Fails("error") /\ stage' = Handled
        /\ UNCHANGED runs
  /\ UNCHANGED <<fileVars, sessionVars>>
-----------------------------------------------------------------------------
(* The row of the attempt.                                                 *)

Status == IF stage = "row.completed" THEN "completed" ELSE "failed"
Row == [run |-> Current, status |-> Status]

\* Bug variant: an attempt counts as done whatever its status.
AppendRowBug ==
  /\ stage \in Appending
  /\ rows' = Append(rows, Row)
  /\ \/ /\ tail' = IF tail = "open" THEN "broken" ELSE tail
        /\ UNCHANGED faults
     \/ Fails("separator") /\ tail' = "broken"
  /\ completed' = completed \cup {Cell(position)}
  /\ written' = written + 1
  /\ position' = position + 1
  /\ stage' = "loop"
  /\ UNCHANGED <<runs, series>>

\* A row after one without a newline makes a line that is not JSON.  So does a
\* row whose texts, an answer for instance, hold a line separator of Unicode: it
\* is written as it is, and the reader takes it for the end of a line.
AppendRow ==
  /\ stage \in Appending
  /\ rows' = Append(rows, Row)
  /\ \/ /\ tail' = IF tail = "open" THEN "broken" ELSE tail
        /\ UNCHANGED faults
     \/ Fails("separator") /\ tail' = "broken"
  /\ completed' = IF Status = "completed" THEN completed \cup {Cell(position)}
                                          ELSE completed
  /\ written' = written + 1
  /\ position' = position + 1
  /\ stage' = "loop"
  /\ UNCHANGED <<runs, series>>

AppendFails ==
  /\ stage \in Appending
  /\ Raise
  /\ UNCHANGED <<fileVars, runs, sessionVars>>

\* The append stops half-way: the process dies or the disk is full.  A row that
\* lacks only its newline can still be read.
AppendTorn ==
  /\ stage \in Appending
  /\ Fails("torn")
  /\ \/ tail' = "broken" /\ UNCHANGED rows
     \/ /\ rows' = Append(rows, Row)
        /\ tail' = IF tail = "clean" THEN "open" ELSE "broken"
  /\ stage' \in {"raised", "dead"}
  /\ UNCHANGED <<runs, sessionVars>>

Die ==
  /\ stage \in Active
  /\ Fails("crash")
  /\ stage' = "dead"
  /\ UNCHANGED <<fileVars, runs, sessionVars>>

Advance ==
  \/ Preflight \/ Skip \/ OpenRun \/ Finish
  \/ Perform \/ SaveResult \/ RecordEnd
  \/ AppendRow \/ AppendFails \/ AppendTorn

Next == Advance \/ Die \/ \E s \in Series : Start(s)

Spec == Init /\ [][Next]_vars

(* An invocation that runs goes on, as every request to a Worker has a     *)
(* timeout, and every series is invoked again and again by its user.       *)
FairSpec ==
  /\ Spec
  /\ WF_vars(Advance)
  /\ \A s \in Series : SF_vars(Start(s))
-----------------------------------------------------------------------------
TypeOK ==
  /\ rows \in Seq([run : Nat \ {0}, status : {"completed", "failed"}])
  /\ \A i \in DOMAIN rows : rows[i].run \in DOMAIN runs
  /\ tail \in {"clean", "open", "broken"}
  /\ runs \in Seq([series : Series, cell : Cells,
                   result : {"none", "success", "failure"},
                   ends : Seq({"success", "failure"})])
  /\ stage \in Ended \cup Active
  /\ series \in Series
  /\ position \in 1..(Last + 1)
  /\ completed \subseteq Cells
  /\ written \in 0..Len(rows)
  /\ faults \in 0..MaxFaults

RunOf(i) == runs[rows[i].run]

\* The cells that the file says are completed in a series.
Measured(s) ==
  {c \in Cells : \E i \in DOMAIN rows :
     rows[i].status = "completed" /\ RunOf(i).series = s /\ RunOf(i).cell = c}

(* A cell of a series is measured once: the file never has two rows that   *)
(* say the same attempt was completed, however often the sweep was resumed.*)
OneCompletedRow ==
  \A i, j \in DOMAIN rows :
    /\ rows[i].status = "completed" /\ rows[j].status = "completed"
    /\ RunOf(i).series = RunOf(j).series /\ RunOf(i).cell = RunOf(j).cell
    => i = j

(* The row of an attempt agrees with the directory of its run: result.json *)
(* and the last run.end say what the row says, although a run that ended   *)
(* well can still be turned into a failure by the analysis of its trace.   *)
RowTellsResult ==
  \A i \in DOMAIN rows :
    LET run == RunOf(i) IN
    IF rows[i].status = "completed"
      THEN run.result = "success" /\ run.ends = <<"success">>
      ELSE run.result = "failure" /\ run.ends[Len(run.ends)] = "failure"

(* An invocation that returns leaves no cell out: each one is completed in *)
(* the file, now or before, or this invocation reports it as failed; and   *)
(* the count it returns is the number of completed cells in the file.      *)
Reported == {i \in DOMAIN rows : i > Len(rows) - written}
Accounted ==
  stage = "returned" =>
    /\ \A c \in Cells \ Measured(series) :
         \E i \in Reported : RunOf(i).cell = c /\ rows[i].status = "failed"
    /\ Cardinality(completed) = Cardinality(Measured(series))

(* No measured attempt is in the file before the warm-ups of all the       *)
(* workflows of its group have been tried, in this invocation or before.   *)
WarmUpFirst ==
  \A i \in DOMAIN rows : RunOf(i).cell.attempt > 0 =>
    \A w \in 1..Flows : \E j \in 1..(i - 1) :
      /\ RunOf(j).series = RunOf(i).series
      /\ RunOf(j).cell =
           [group |-> RunOf(i).cell.group, attempt |-> 0, flow |-> w]

(* A sweep that is invoked again after each fault is measured completely,  *)
(* unless a row that was torn, or that the reader cuts, has made the file  *)
(* unreadable.                                                             *)
EventuallyMeasured ==
  \A s \in Series : <>(Measured(s) = Cells \/ tail = "broken")

(* A sweep can always be resumed.                                          *)
Resumable == stage # "unreadable"
=============================================================================
