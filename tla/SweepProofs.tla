---------------------------- MODULE SweepProofs ----------------------------
(***************************************************************************)
(* Proofs about the reference sweeps, for any number of series, groups,    *)
(* workflows and attempts, and for any faults, as many as there may be.    *)
(***************************************************************************)
EXTENDS Sweep, TLAPS

\* The stages in which an attempt is under way.
InRun == {"workflow", "analysis", "succeeded.end", "failed.end"} \cup Closing \cup Appending

USE DEF Ended, Closing, Appending, Active, InRun

\* What the file and the runs are, with no bound on the cells.
Runs == [series : Series, cell : {Cell(n) : n \in Nat},
         result : {"none", "success", "failure"}, ends : Seq({"success", "failure"})]
FileInv ==
  /\ rows \in Seq([run : Nat \ {0}, status : {"completed", "failed"}])
  /\ runs \in Seq(Runs)
  /\ \A i \in DOMAIN rows : rows[i].run \in DOMAIN runs
  /\ stage \in Ended \cup Active
  /\ series \in Series
  /\ position \in Nat

\* An invocation knows what is completed, and is at work on a cell that is not,
\* in a run that has no row yet.
SessionInv ==
  /\ stage \in Active => completed = CompletedKeys(series)
  /\ stage \in InRun =>
       /\ Len(runs) > 0
       /\ runs[Len(runs)].series = series
       /\ runs[Len(runs)].cell = Cell(position)
       /\ Cell(position) \notin completed
       /\ \A i \in DOMAIN rows : rows[i].run # Len(runs)

\* What the directory of the run under way says, stage by stage.
RunInv ==
  stage \in InRun =>
    LET run == runs[Len(runs)] IN
    /\ stage \in {"workflow", "succeeded", "succeeded.end"} => run.ends = <<>>
    /\ stage = "succeeded.end" => run.result = "success"
    /\ stage \in {"analysis", "row.completed"} =>
         run.result = "success" /\ run.ends = <<"success">>
    /\ stage = "failed.end" => run.result = "failure"
    /\ stage = "row.failed" =>
         /\ run.result = "failure"
         /\ run.ends # <<>> /\ run.ends[Len(run.ends)] = "failure"

Inv == FileInv /\ SessionInv /\ RunInv /\ OneCompletedRow /\ RowTellsResult
-----------------------------------------------------------------------------
LEMMA InitInv == Init => Inv
BY SweepAssumption
DEF Init, Inv, FileInv, SessionInv, RunInv, OneCompletedRow, RowTellsResult

\* Rows and runs determine the completed keys, and what the rows tell.
LEMMA SameFile ==
  ASSUME UNCHANGED <<rows, runs>>
  PROVE  /\ \A s : CompletedKeys(s)' = CompletedKeys(s)
         /\ OneCompletedRow' <=> OneCompletedRow
         /\ RowTellsResult' <=> RowTellsResult
BY DEF CompletedKeys, OneCompletedRow, RowTellsResult, RunOf

LEMMA StartInv ==
  ASSUME Inv, NEW s \in Series, Start(s)
  PROVE  Inv'
<1>1. UNCHANGED <<rows, runs>> /\ series' = s
  BY DEF Start, fileVars
<1>2. CompletedKeys(s)' = CompletedKeys(s)
  BY <1>1, SameFile
<1>3. FileInv'
  BY <1>1 DEF Inv, FileInv, Start
<1>4. SessionInv'
  BY <1>1, <1>2 DEF SessionInv, Start
<1>5. RunInv'
  BY DEF RunInv, Start
<1> QED
  BY <1>1, <1>3, <1>4, <1>5, SameFile DEF Inv

\* Steps that change neither the file nor the runs, nor what the invocation
\* knows: they keep the invariant if they keep what RunInv says of the stage.
LEMMA QuietInv ==
  ASSUME Inv, UNCHANGED <<rows, runs, series, position, completed>>,
         stage' \in Ended \cup Active,
         stage' \in Active => stage \in Active,
         stage' \in InRun => stage \in InRun,
         RunInv'
  PROVE  Inv'
<1>1. FileInv'
  BY DEF Inv, FileInv
<1>2. CompletedKeys(series)' = CompletedKeys(series)
  BY SameFile
<1>3. SessionInv'
  BY <1>2 DEF Inv, SessionInv
<1> QED
  BY <1>1, <1>3, SameFile DEF Inv

LEMMA PreflightInv == Inv /\ Preflight => Inv'
<1> SUFFICES ASSUME Inv, Preflight PROVE Inv'
  OBVIOUS
<1> USE DEF Preflight, Raise, Fails, fileVars, sessionVars
<1>1. RunInv'
  BY DEF RunInv
<1> QED
  BY <1>1, QuietInv

LEMMA EndInv == Inv /\ (Finish \/ AppendFails \/ Die) => Inv'
<1> SUFFICES ASSUME Inv, Finish \/ AppendFails \/ Die PROVE Inv'
  OBVIOUS
<1> USE DEF Finish, AppendFails, Die, Raise, Fails, fileVars, sessionVars
<1>1. RunInv'
  BY DEF RunInv
<1> QED
  BY <1>1, QuietInv

LEMMA PerformInv == Inv /\ Perform => Inv'
<1> SUFFICES ASSUME Inv, Perform PROVE Inv'
  OBVIOUS
<1> USE DEF Perform, Fails, fileVars, sessionVars
<1>1. RunInv'
  BY DEF Inv, RunInv
<1> QED
  BY <1>1, QuietInv

LEMMA SkipInv == Inv /\ Skip => Inv'
<1> SUFFICES ASSUME Inv, Skip PROVE Inv'
  OBVIOUS
<1> USE DEF Skip, fileVars
<1>1. FileInv'
  BY DEF Inv, FileInv
<1>2. SessionInv'
  BY SameFile DEF Inv, SessionInv
<1>3. RunInv'
  BY DEF RunInv
<1> QED
  BY <1>1, <1>2, <1>3, SameFile DEF Inv
-----------------------------------------------------------------------------
\* Rows that exist are about runs that exist, so neither a new run nor a change
\* to a run without a row changes what the rows tell.
LEMMA SameRows ==
  ASSUME rows' = rows,
         \A i \in DOMAIN rows : runs'[rows[i].run] = runs[rows[i].run]
  PROVE  /\ \A s : CompletedKeys(s)' = CompletedKeys(s)
         /\ OneCompletedRow' <=> OneCompletedRow
         /\ RowTellsResult' <=> RowTellsResult
<1>1. \A i \in DOMAIN rows : RunOf(i)' = RunOf(i)
  BY DEF RunOf
<1>2. ASSUME NEW s PROVE CompletedKeys(s)' = CompletedKeys(s)
  BY <1>1 DEF CompletedKeys, RunOf
<1>3. OneCompletedRow' <=> OneCompletedRow
  BY <1>1 DEF OneCompletedRow
<1>4. RowTellsResult' <=> RowTellsResult
  BY <1>1 DEF RowTellsResult
<1> QED
  BY <1>2, <1>3, <1>4

LEMMA OpenRunInv == Inv /\ OpenRun => Inv'
<1> SUFFICES ASSUME Inv, OpenRun PROVE Inv'
  OBVIOUS
<1> DEFINE run == [series |-> series, cell |-> Cell(position),
                   result |-> "none", ends |-> <<>>]
<1>1. run \in Runs
  BY DEF Inv, FileInv, Runs
<1>2. /\ rows' = rows /\ runs' = Append(runs, run)
      /\ UNCHANGED <<series, position, completed>>
      /\ stage = "loop" /\ stage' \in {"workflow", "raised"}
      /\ Cell(position) \notin completed
  BY DEF OpenRun, Raise, Fails, fileVars, sessionVars
<1>3. /\ runs' \in Seq(Runs) /\ Len(runs') = Len(runs) + 1
      /\ runs'[Len(runs')] = run
      /\ \A n \in DOMAIN runs : n \in DOMAIN runs' /\ runs'[n] = runs[n]
      /\ Len(runs') \notin DOMAIN runs
  BY <1>1, <1>2 DEF Inv, FileInv
<1>4. \A i \in DOMAIN rows : rows[i].run \in DOMAIN runs
  BY DEF Inv, FileInv
<1>5. /\ CompletedKeys(series)' = CompletedKeys(series)
      /\ OneCompletedRow' /\ RowTellsResult'
  BY <1>2, <1>3, <1>4, SameRows DEF Inv
<1>6. FileInv'
  BY <1>2, <1>3, <1>4 DEF Inv, FileInv
<1>7. SessionInv'
  BY <1>2, <1>3, <1>4, <1>5 DEF Inv, SessionInv, FileInv
<1>8. RunInv'
  BY <1>2, <1>3 DEF RunInv
<1> QED
  BY <1>5, <1>6, <1>7, <1>8 DEF Inv

\* Ending the trace of the run under way.
LEMMA UpdateInv ==
  ASSUME Inv, stage \in InRun, NEW run \in Runs,
         rows' = rows, runs' = [runs EXCEPT ![Len(runs)] = run],
         run.series = runs[Len(runs)].series, run.cell = runs[Len(runs)].cell,
         UNCHANGED <<series, position, completed>>,
         stage' \in InRun, RunInv'
  PROVE  Inv'
<1>1. Len(runs) \in DOMAIN runs /\ runs \in Seq(Runs)
  BY DEF Inv, FileInv, SessionInv
<1>2. /\ runs' \in Seq(Runs) /\ Len(runs') = Len(runs)
      /\ runs'[Len(runs)] = run
      /\ \A n \in DOMAIN runs : n # Len(runs) => runs'[n] = runs[n]
  BY <1>1
<1>3. \A i \in DOMAIN rows : rows[i].run \in DOMAIN runs /\ rows[i].run # Len(runs)
  BY DEF Inv, FileInv, SessionInv
<1>4. /\ CompletedKeys(series)' = CompletedKeys(series)
      /\ OneCompletedRow' /\ RowTellsResult'
  BY <1>2, <1>3, SameRows DEF Inv
<1>5. FileInv'
  BY <1>2, <1>3 DEF Inv, FileInv
<1>6. SessionInv'
  BY <1>2, <1>4 DEF Inv, SessionInv
<1> QED
  BY <1>4, <1>5, <1>6 DEF Inv

LEMMA SaveResultInv == Inv /\ SaveResult => Inv'
<1> SUFFICES ASSUME Inv, SaveResult PROVE Inv'
  OBVIOUS
<1> USE DEF SaveResult, Fails, Handled, Verdict, Current, fileVars, sessionVars
<1>1. CASE stage' = Handled /\ UNCHANGED runs
  <2>1. RunInv'
    BY <1>1 DEF Inv, RunInv
  <2> QED
    BY <1>1, <2>1, QuietInv
<1>2. CASE /\ runs' = [runs EXCEPT ![Current].result = Verdict]
           /\ stage' = IF Verdict = "success" THEN "succeeded.end" ELSE "failed.end"
  <2> DEFINE run == [runs[Len(runs)] EXCEPT !.result = Verdict]
  <2>1. Len(runs) \in DOMAIN runs /\ runs \in Seq(Runs) /\ runs[Len(runs)] \in Runs
    BY DEF Inv, FileInv, SessionInv
  <2>2. /\ run \in Runs /\ runs' = [runs EXCEPT ![Len(runs)] = run]
        /\ run.series = runs[Len(runs)].series /\ run.cell = runs[Len(runs)].cell
        /\ run.ends = runs[Len(runs)].ends /\ run.result = Verdict
    BY <1>2, <2>1 DEF Runs
  <2>3. runs'[Len(runs')] = run
    BY <2>1, <2>2
  <2>4. RunInv'
    BY <1>2, <2>2, <2>3 DEF Inv, RunInv
  <2>5. rows' = rows /\ UNCHANGED <<series, position, completed>> /\ stage' \in InRun
    BY <1>2
  <2> QED
    BY <2>2, <2>4, <2>5, UpdateInv
<1> QED
  BY <1>1, <1>2

LEMMA RecordEndInv == Inv /\ RecordEnd => Inv'
<1> SUFFICES ASSUME Inv, RecordEnd PROVE Inv'
  OBVIOUS
<1> USE DEF RecordEnd, Fails, Handled, Verdict, Current, fileVars, sessionVars
<1>1. CASE stage' = Handled /\ UNCHANGED runs
  <2>1. RunInv'
    BY <1>1 DEF Inv, RunInv
  <2> QED
    BY <1>1, <2>1, QuietInv
<1>2. CASE /\ runs' = [runs EXCEPT ![Current].ends = Append(@, Verdict)]
           /\ stage' = IF Verdict = "success" THEN "analysis" ELSE "row.failed"
  <2> DEFINE ends == runs[Len(runs)].ends
             run == [runs[Len(runs)] EXCEPT !.ends = Append(ends, Verdict)]
  <2>1. Len(runs) \in DOMAIN runs /\ runs \in Seq(Runs) /\ runs[Len(runs)] \in Runs
    BY DEF Inv, FileInv, SessionInv
  <2>2. ends \in Seq({"success", "failure"})
    BY <2>1 DEF Runs
  <2>3. /\ Append(ends, Verdict) \in Seq({"success", "failure"})
        /\ Len(Append(ends, Verdict)) = Len(ends) + 1
        /\ Append(ends, Verdict)[Len(ends) + 1] = Verdict
        /\ ends = <<>> => Append(ends, Verdict) = <<Verdict>>
    <3>1. Verdict \in {"success", "failure"}
      OBVIOUS
    <3> HIDE DEF ends, Verdict
    <3>2. ends = <<>> => Append(ends, Verdict) = <<Verdict>>
      OBVIOUS
    <3> QED
      BY <2>2, <3>1, <3>2
  <2>4. /\ run \in Runs /\ runs' = [runs EXCEPT ![Len(runs)] = run]
        /\ run.series = runs[Len(runs)].series /\ run.cell = runs[Len(runs)].cell
        /\ run.ends = Append(ends, Verdict) /\ run.result = runs[Len(runs)].result
    BY <1>2, <2>1, <2>3 DEF Runs
  <2>5. runs'[Len(runs')] = run
    BY <2>1, <2>4
  <2>6. RunInv'
    <3>1. CASE Verdict = "success"
      BY <1>2, <2>3, <2>4, <2>5, <3>1 DEF Inv, RunInv
    <3>2. CASE Verdict = "failure"
      <4> HIDE DEF run, ends
      <4>1. run.ends # <<>> /\ run.ends[Len(run.ends)] = "failure"
        BY <2>2, <2>3, <2>4, <3>2
      <4>2. run.result = "failure" /\ stage' = "row.failed"
        BY <1>2, <2>4, <3>2 DEF Inv, RunInv
      <4> QED
        BY <2>5, <4>1, <4>2 DEF RunInv
    <3> QED
      BY <3>1, <3>2
  <2>7. rows' = rows /\ UNCHANGED <<series, position, completed>> /\ stage' \in InRun
    BY <1>2
  <2> QED
    BY <2>4, <2>6, <2>7, UpdateInv
<1> QED
  BY <1>1, <1>2
-----------------------------------------------------------------------------
\* A new row: it is the first one of its run and, if it says that the attempt
\* was completed, the first one that says so of its cell.
LEMMA NewRow ==
  ASSUME Inv, stage \in Appending, rows' = Append(rows, Row), runs' = runs,
         series' = series
  PROVE  /\ rows' \in Seq([run : Nat \ {0}, status : {"completed", "failed"}])
         /\ \A i \in DOMAIN rows' : rows'[i].run \in DOMAIN runs
         /\ OneCompletedRow' /\ RowTellsResult'
         /\ CompletedKeys(series)' =
              IF Status = "completed" THEN CompletedKeys(series) \cup {Cell(position)}
                                      ELSE CompletedKeys(series)
<1>1. /\ Len(runs) \in DOMAIN runs /\ Len(runs) \in Nat \ {0}
      /\ runs[Len(runs)].series = series /\ runs[Len(runs)].cell = Cell(position)
      /\ Cell(position) \notin CompletedKeys(series)
      /\ \A i \in DOMAIN rows : rows[i].run \in DOMAIN runs
      /\ rows \in Seq([run : Nat \ {0}, status : {"completed", "failed"}])
  BY DEF Inv, FileInv, SessionInv
<1>2. /\ Row = [run |-> Len(runs), status |-> Status]
      /\ Status \in {"completed", "failed"}
  BY DEF Row, Current, Status
<1>3. /\ rows' \in Seq([run : Nat \ {0}, status : {"completed", "failed"}])
      /\ DOMAIN rows' = DOMAIN rows \cup {Len(rows) + 1}
      /\ Len(rows) + 1 \notin DOMAIN rows
      /\ \A i \in DOMAIN rows : rows'[i] = rows[i]
      /\ rows'[Len(rows) + 1] = Row
  BY <1>1, <1>2
<1>4. \A i \in DOMAIN rows : RunOf(i)' = RunOf(i)
  BY <1>3 DEF RunOf
<1>5. rows'[Len(rows) + 1].run = Len(runs) /\ rows'[Len(rows) + 1].status = Status
  BY <1>2, <1>3
<1>6. OneCompletedRow'
  <2>1. \A i \in DOMAIN rows :
          rows[i].status = "completed" /\ runs[rows[i].run].series = series
            => runs[rows[i].run].cell # Cell(position)
    BY <1>1 DEF CompletedKeys
  <2>2. SUFFICES ASSUME NEW i \in DOMAIN rows', NEW j \in DOMAIN rows', i # j,
                        rows'[i].status = "completed", rows'[j].status = "completed",
                        runs[rows'[i].run].series = runs[rows'[j].run].series,
                        runs[rows'[i].run].cell = runs[rows'[j].run].cell
                 PROVE  FALSE
    BY DEF OneCompletedRow, RunOf
  <2>3. i \in DOMAIN rows \/ j \in DOMAIN rows
    BY <1>3, <2>2
  <2>4. CASE i \in DOMAIN rows /\ j \in DOMAIN rows
    BY <1>3, <2>2, <2>4 DEF Inv, OneCompletedRow, RunOf
  <2>5. CASE i \in DOMAIN rows /\ j \notin DOMAIN rows
    BY <1>1, <1>3, <1>5, <2>1, <2>2, <2>5
  <2>6. CASE i \notin DOMAIN rows /\ j \in DOMAIN rows
    BY <1>1, <1>3, <1>5, <2>1, <2>2, <2>6
  <2> QED
    BY <2>3, <2>4, <2>5, <2>6
<1>7. RowTellsResult'
  <2>1. ASSUME NEW i \in DOMAIN rows
        PROVE  LET run == runs[rows[i].run] IN
               IF rows[i].status = "completed"
                 THEN run.result = "success" /\ run.ends = <<"success">>
                 ELSE run.result = "failure" /\ run.ends[Len(run.ends)] = "failure"
    BY <2>1 DEF Inv, RowTellsResult, RunOf
  <2>2. LET run == runs[Len(runs)] IN
        IF Status = "completed"
          THEN run.result = "success" /\ run.ends = <<"success">>
          ELSE run.result = "failure" /\ run.ends[Len(run.ends)] = "failure"
    BY DEF Inv, RunInv, Status
  <2>3. ASSUME NEW i \in DOMAIN rows'
        PROVE  LET run == runs[rows'[i].run] IN
               IF rows'[i].status = "completed"
                 THEN run.result = "success" /\ run.ends = <<"success">>
                 ELSE run.result = "failure" /\ run.ends[Len(run.ends)] = "failure"
    <3>1. CASE i \in DOMAIN rows
      BY <1>3, <2>1, <3>1
    <3>2. CASE i = Len(rows) + 1
      BY <1>5, <2>2, <3>2
    <3> QED
      BY <1>3, <2>3, <3>1, <3>2
  <2> QED
    BY <2>3 DEF RowTellsResult, RunOf
<1>8. CompletedKeys(series)' =
        IF Status = "completed" THEN CompletedKeys(series) \cup {Cell(position)}
                                ELSE CompletedKeys(series)
  <2> DEFINE Says(i, c) == /\ rows[i].status = "completed"
                           /\ runs[rows[i].run].series = series
                           /\ runs[rows[i].run].cell = c
             SaysNow(i, c) == /\ rows'[i].status = "completed"
                              /\ runs[rows'[i].run].series = series
                              /\ runs[rows'[i].run].cell = c
  <2>1. \A c : c \in CompletedKeys(series) <=> \E i \in DOMAIN rows : Says(i, c)
    BY DEF CompletedKeys
  <2>2. \A c : c \in CompletedKeys(series)' <=> \E i \in DOMAIN rows' : SaysNow(i, c)
    BY DEF CompletedKeys
  <2>3. \A c : \A i \in DOMAIN rows : SaysNow(i, c) <=> Says(i, c)
    BY <1>3
  <2>4. \A c : SaysNow(Len(rows) + 1, c) <=> Status = "completed" /\ c = Cell(position)
    BY <1>1, <1>5
  <2> HIDE DEF Says, SaysNow
  <2>5. \A c : c \in CompletedKeys(series)' <=>
                 \/ c \in CompletedKeys(series)
                 \/ Status = "completed" /\ c = Cell(position)
    BY <1>3, <2>1, <2>2, <2>3, <2>4
  <2>6. Status = "completed" =>
          CompletedKeys(series)' = CompletedKeys(series) \cup {Cell(position)}
    BY <2>5
  <2>7. Status # "completed" => CompletedKeys(series)' = CompletedKeys(series)
    BY <2>5
  <2> QED
    BY <2>6, <2>7
<1> QED
  BY <1>1, <1>3, <1>5, <1>6, <1>7, <1>8

LEMMA AppendRowInv == Inv /\ AppendRow => Inv'
<1> SUFFICES ASSUME Inv, AppendRow PROVE Inv'
  OBVIOUS
<1>1. /\ stage \in Appending /\ rows' = Append(rows, Row) /\ runs' = runs
      /\ series' = series /\ stage' = "loop" /\ position' = position + 1
      /\ completed' = IF Status = "completed" THEN completed \cup {Cell(position)}
                                              ELSE completed
  BY DEF AppendRow
<1>2. /\ rows' \in Seq([run : Nat \ {0}, status : {"completed", "failed"}])
      /\ \A i \in DOMAIN rows' : rows'[i].run \in DOMAIN runs
      /\ OneCompletedRow' /\ RowTellsResult'
      /\ CompletedKeys(series)' =
           IF Status = "completed" THEN CompletedKeys(series) \cup {Cell(position)}
                                   ELSE CompletedKeys(series)
  BY <1>1, NewRow
<1>3. FileInv'
  BY <1>1, <1>2 DEF Inv, FileInv
<1>4. SessionInv'
  BY <1>1, <1>2 DEF Inv, SessionInv
<1>5. RunInv'
  BY <1>1 DEF RunInv
<1> QED
  BY <1>2, <1>3, <1>4, <1>5 DEF Inv

LEMMA AppendTornInv == Inv /\ AppendTorn => Inv'
<1> SUFFICES ASSUME Inv, AppendTorn PROVE Inv'
  OBVIOUS
<1>1. /\ stage \in Appending /\ UNCHANGED <<runs, series, position, completed>>
      /\ stage' \in {"raised", "dead"}
  BY DEF AppendTorn, sessionVars
<1>2. RunInv' /\ SessionInv'
  BY <1>1 DEF RunInv, SessionInv
<1>3. CASE UNCHANGED rows
  BY <1>1, <1>2, <1>3, QuietInv
<1>4. CASE rows' = Append(rows, Row)
  <2>1. /\ rows' \in Seq([run : Nat \ {0}, status : {"completed", "failed"}])
        /\ \A i \in DOMAIN rows' : rows'[i].run \in DOMAIN runs
        /\ OneCompletedRow' /\ RowTellsResult'
    BY <1>1, <1>4, NewRow
  <2>2. FileInv'
    BY <1>1, <2>1 DEF Inv, FileInv
  <2> QED
    BY <1>2, <2>1, <2>2 DEF Inv
<1> QED
  BY <1>3, <1>4 DEF AppendTorn

LEMMA StutterInv == Inv /\ UNCHANGED vars => Inv'
<1> SUFFICES ASSUME Inv, UNCHANGED vars PROVE Inv'
  OBVIOUS
<1> USE DEF vars
<1>1. RunInv'
  BY DEF Inv, RunInv
<1>2. stage \in Ended \cup Active
  BY DEF Inv, FileInv
<1> QED
  BY <1>1, <1>2, QuietInv

LEMMA NextInv == Inv /\ [Next]_vars => Inv'
<1> SUFFICES ASSUME Inv, [Next]_vars PROVE Inv'
  OBVIOUS
<1>1. ASSUME NEW s \in Series, Start(s) PROVE Inv'
  BY <1>1, StartInv
<1>2. CASE Advance
  BY <1>2, PreflightInv, SkipInv, OpenRunInv, EndInv, PerformInv, SaveResultInv,
     RecordEndInv, AppendRowInv, AppendTornInv DEF Advance
<1>3. CASE Die
  BY <1>3, EndInv
<1>4. CASE UNCHANGED vars
  BY <1>4, StutterInv
<1> QED
  BY <1>1, <1>2, <1>3, <1>4 DEF Next

LEMMA Invariant == Spec => []Inv
BY InitInv, NextInv, PTL DEF Spec

(* However often a sweep fails, dies and is invoked again, the file never  *)
(* says twice that the same attempt of a series was completed.             *)
THEOREM MeasuredOnce == Spec => []OneCompletedRow
<1>1. Inv => OneCompletedRow
  BY DEF Inv
<1> QED
  BY <1>1, Invariant, PTL

(* Every row says what the directory of its run says.                      *)
THEOREM RowsTellResults == Spec => []RowTellsResult
<1>1. Inv => RowTellsResult
  BY DEF Inv
<1> QED
  BY <1>1, Invariant, PTL
-----------------------------------------------------------------------------
(* The schedule.  Its positions are cells: the divisions in Cell stay in   *)
(* the ranges of groups, attempts and workflows.                           *)

LEMMA Division ==
  ASSUME NEW k \in Nat, NEW d \in Nat \ {0}
  PROVE  k \div d \in Nat /\ k % d \in 0..(d - 1) /\ k = d * (k \div d) + (k % d)
<1>1. k \div d \in Nat
  OBVIOUS
<1>2. k % d \in 0..(d - 1)
  OBVIOUS
<1>3. k = d * (k \div d) + (k % d)
  OBVIOUS
<1> QED
  BY <1>1, <1>2, <1>3

LEMMA Quotient ==
  ASSUME NEW k \in Nat, NEW d \in Nat \ {0}, NEW g \in Nat, k < g * d
  PROVE  k \div d \in 0..(g - 1)
<1> DEFINE q == k \div d
<1>1. q \in Nat /\ d * q <= k
  BY Division
<1>2. SUFFICES ASSUME q >= g PROVE FALSE
  BY <1>1
<1>3. PICK r \in Nat : q = g + r
  <2>1. q - g \in Nat /\ q = g + (q - g)
    BY <1>1, <1>2
  <2> QED
    BY <2>1
<1>4. d * q = d * g + d * r /\ d * r >= 0 /\ d * g = g * d
  BY <1>3
<1> QED
  BY <1>1, <1>4

LEMMA Schedule ==
  /\ Last \in Nat
  /\ \A n \in 1..Last : Cell(n) \in Cells
<1>0. Groups \in Nat \ {0} /\ Flows \in Nat \ {0} /\ Repeats \in Nat \ {0}
  BY SweepAssumption
<1> DEFINE d == Flows * (Repeats + 1)
<1>1. d \in Nat \ {0} /\ Last = Groups * d /\ Last \in Nat
  BY <1>0 DEF Last
<1>2. ASSUME NEW n \in 1..Last PROVE Cell(n) \in Cells
  <2> DEFINE k == n - 1
  <2>1. k \in Nat /\ k < Groups * d
    BY <1>1, <1>2
  <2>2. k \div d \in 0..(Groups - 1)
    BY <1>0, <1>1, <2>1, Quotient
  <2>3. 1 + (k \div d) \in 1..Groups
    BY <1>0, <2>2
  <2>4. k \div Flows \in Nat /\ k % Flows \in 0..(Flows - 1)
    BY <1>0, <2>1, Division
  <2>5. 1 + (k % Flows) \in 1..Flows
    BY <1>0, <2>4
  <2>6. (k \div Flows) % (Repeats + 1) \in 0..Repeats
    BY <1>0, <2>4, Division
  <2> QED
    BY <2>3, <2>5, <2>6 DEF Cell, Cells, Attempts
<1> QED
  BY <1>1, <1>2
-----------------------------------------------------------------------------
(* Types.  While an attempt is under way the position is one of the        *)
(* schedule, so that the next one is at most one past its end.             *)

RunType == [series : Series, cell : Cells, result : {"none", "success", "failure"},
            ends : Seq({"success", "failure"})]
RowType == [run : Nat \ {0}, status : {"completed", "failed"}]
OnSchedule == stage \in InRun => position \in 1..Last
Typed == TypeOK /\ OnSchedule

LEMMA TypeInit == Init => Typed
<1> SUFFICES ASSUME Init PROVE Typed
  OBVIOUS
<1>1. Last \in Nat /\ MaxFaults \in Nat
  BY Schedule, SweepAssumption
<1> QED
  BY <1>1 DEF Init, TypeOK, Typed, OnSchedule

LEMMA TypeFacts ==
  ASSUME TypeOK
  PROVE  /\ rows \in Seq(RowType) /\ runs \in Seq(RunType)
         /\ \A i \in DOMAIN rows : rows[i].run \in DOMAIN runs
BY DEF TypeOK, RowType, RunType

\* What is completed is a set of cells of runs.
LEMMA CompletedCells ==
  ASSUME TypeOK, NEW s \in Series
  PROVE  CompletedKeys(s) \subseteq Cells
<1>1. ASSUME NEW i \in DOMAIN rows PROVE runs[rows[i].run].cell \in Cells
  <2>1. rows[i].run \in DOMAIN runs /\ runs \in Seq(RunType)
    BY <1>1, TypeFacts
  <2>2. runs[rows[i].run] \in RunType
    BY <2>1
  <2> QED
    BY <2>2 DEF RunType
<1> QED
  BY <1>1 DEF CompletedKeys

\* A changed run keeps its type.
LEMMA ChangedRun ==
  ASSUME TypeOK, Len(runs) > 0,
         \/ runs' = [runs EXCEPT ![Current].result = Verdict]
         \/ runs' = [runs EXCEPT ![Current].ends = Append(@, Verdict)]
  PROVE  runs' \in Seq(RunType) /\ DOMAIN runs' = DOMAIN runs
<1>1. runs \in Seq(RunType) /\ Verdict \in {"success", "failure"} /\ Current \in DOMAIN runs
  BY TypeFacts DEF Verdict, Current
<1> DEFINE r == runs[Current]
<1>2. r \in RunType
  BY <1>1
<1>3. r.ends \in Seq({"success", "failure"})
  BY <1>2 DEF RunType
<1>4. Append(r.ends, Verdict) \in Seq({"success", "failure"})
  BY <1>1, <1>3
<1>5. [r EXCEPT !.result = Verdict] \in RunType
  BY <1>1, <1>2 DEF RunType
<1>6. [r EXCEPT !.ends = Append(r.ends, Verdict)] \in RunType
  BY <1>2, <1>4 DEF RunType
<1>7. \/ runs' = [runs EXCEPT ![Current] = [r EXCEPT !.result = Verdict]]
      \/ runs' = [runs EXCEPT ![Current] = [r EXCEPT !.ends = Append(r.ends, Verdict)]]
  OBVIOUS
<1>8. \E v \in RunType : runs' = [runs EXCEPT ![Current] = v]
  BY <1>5, <1>6, <1>7, Zenon
<1> HIDE DEF r
<1> QED
  BY <1>1, <1>8

LEMMA TypeStep == Typed /\ Inv /\ [Next]_vars => Typed'
<1> SUFFICES ASSUME Typed, Inv, [Next]_vars PROVE Typed'
  OBVIOUS
<1> USE DEF fileVars, sessionVars
<1>0. /\ TypeOK /\ OnSchedule /\ MaxFaults \in Nat /\ Last \in Nat
      /\ \A f \in {"error", "crash", "torn", "separator"} : Fails(f) => faults' \in 0..MaxFaults
      /\ \A n \in 1..Last : Cell(n) \in Cells
  BY Schedule, SweepAssumption DEF Fails, TypeOK, Typed
<1>1. ASSUME NEW s \in Series, Start(s) PROVE Typed'
  <2>1. completed' \subseteq Cells /\ written' = 0 /\ position' = 1
    BY <1>0, <1>1, CompletedCells DEF Start
  <2> QED
    BY <1>0, <1>1, <2>1 DEF Start, TypeOK, Typed, OnSchedule
<1>2. ASSUME Preflight \/ Finish \/ AppendFails \/ Perform \/ Die PROVE Typed'
  BY <1>0, <1>2
  DEF Preflight, Finish, AppendFails, Perform, Die, Raise, TypeOK, Typed, OnSchedule
<1>3. CASE Skip
  BY <1>0, <1>3 DEF Skip, TypeOK, Typed, OnSchedule
<1>4. CASE OpenRun
  <2> DEFINE new == [series |-> series, cell |-> Cell(position), result |-> "none", ends |-> <<>>]
  <2>1. position \in 1..Last
    BY <1>0, <1>4 DEF OpenRun, TypeOK
  <2>2. new \in RunType
    BY <1>0, <2>1 DEF TypeOK, RunType
  <2>3. runs \in Seq(RunType) /\ runs' = Append(runs, new)
    BY <1>0, <1>4, TypeFacts DEF OpenRun
  <2>4. runs' \in Seq(RunType)
    BY <2>2, <2>3
  <2>5. DOMAIN runs \subseteq DOMAIN runs'
    BY <2>2, <2>3
  <2>6. OnSchedule' /\ position' \in 1..(Last + 1)
    BY <1>0, <1>4, <2>1 DEF OpenRun, OnSchedule
  <2>7. faults' \in 0..MaxFaults /\ stage' \in Ended \cup Active
    BY <1>0, <1>4 DEF OpenRun, Raise, TypeOK
  <2> QED
    BY <1>0, <1>4, <2>4, <2>5, <2>6, <2>7 DEF OpenRun, TypeOK, Typed, RunType
<1>5. ASSUME SaveResult \/ RecordEnd PROVE Typed'
  <2>1. stage \in InRun /\ Len(runs) > 0
    BY <1>5 DEF SaveResult, RecordEnd, Inv, SessionInv
  <2>2. \/ runs' = runs
        \/ runs' = [runs EXCEPT ![Current].result = Verdict]
        \/ runs' = [runs EXCEPT ![Current].ends = Append(@, Verdict)]
    BY <1>5 DEF SaveResult, RecordEnd
  <2>3. runs' \in Seq(RunType) /\ DOMAIN runs' = DOMAIN runs
    BY <1>0, <2>1, <2>2, ChangedRun, TypeFacts
  <2>4. stage' \in Active \cup Ended /\ faults' \in 0..MaxFaults
    BY <1>0, <1>5 DEF SaveResult, RecordEnd, Handled, TypeOK
  <2>5. OnSchedule'
    BY <1>0, <1>5, <2>1 DEF SaveResult, RecordEnd, OnSchedule
  <2> QED
    BY <1>0, <1>5, <2>3, <2>4, <2>5 DEF SaveResult, RecordEnd, TypeOK, Typed, RunType
<1>6. ASSUME AppendRow \/ AppendTorn PROVE Typed'
  <2>1. stage \in InRun /\ Len(runs) > 0
    BY <1>6 DEF AppendRow, AppendTorn, Inv, SessionInv
  <2>2. Row \in RowType /\ Row.run \in DOMAIN runs
    <3>1. Current \in Nat \ {0} /\ Current \in DOMAIN runs
      BY <1>0, <2>1, TypeFacts DEF Current
    <3> QED
      BY <3>1 DEF Row, Status, RowType
  <2>3. rows \in Seq(RowType) /\ (rows' = rows \/ rows' = Append(rows, Row)) /\ runs' = runs
    BY <1>0, <1>6, TypeFacts DEF AppendRow, AppendTorn
  <2>4. rows' \in Seq(RowType)
    BY <2>2, <2>3
  <2>5. Len(rows') >= Len(rows) /\ (rows' = Append(rows, Row) => Len(rows') = Len(rows) + 1)
    BY <2>2, <2>3
  <2>6. \A i \in DOMAIN rows' : rows'[i].run \in DOMAIN runs
    <3>1. CASE rows' = rows
      BY <1>0, <3>1, TypeFacts
    <3>2. CASE rows' = Append(rows, Row)
      BY <1>0, <2>2, <2>3, <3>2, TypeFacts
    <3> QED
      BY <2>3, <3>1, <3>2
  <2>7. CASE AppendRow
    <3>1. position \in 1..Last /\ position' \in 1..(Last + 1)
      BY <1>0, <2>1, <2>7 DEF AppendRow, OnSchedule
    <3>2. completed' \subseteq Cells
      BY <1>0, <2>7, <3>1 DEF AppendRow, TypeOK
    <3>3. written' \in 0..Len(rows')
      BY <1>0, <2>3, <2>5, <2>7 DEF AppendRow, TypeOK
    <3> QED
      BY <1>0, <2>3, <2>4, <2>6, <2>7, <3>1, <3>2, <3>3
      DEF AppendRow, TypeOK, Typed, OnSchedule, RowType
  <2>8. CASE AppendTorn
    <3>1. written' \in 0..Len(rows')
      BY <1>0, <2>4, <2>5, <2>8, TypeFacts DEF AppendTorn, TypeOK
    <3> QED
      BY <1>0, <2>3, <2>4, <2>6, <2>8, <3>1 DEF AppendTorn, TypeOK, Typed, OnSchedule, RowType
  <2> QED
    BY <1>6, <2>7, <2>8
<1>7. CASE UNCHANGED vars
  BY <1>0, <1>7 DEF vars, TypeOK, Typed, OnSchedule
<1> QED
  BY <1>1, <1>2, <1>3, <1>4, <1>5, <1>6, <1>7 DEF Next, Advance

(* Every variable keeps its type; in particular the position stays in the  *)
(* schedule, or one past it, and what is taken to be completed is a set of *)
(* cells of the schedule.                                                  *)
THEOREM TypeCorrect == Spec => []TypeOK
<1>1. Typed => TypeOK
  BY DEF Typed
<1> QED
  BY <1>1, TypeInit, TypeStep, Invariant, PTL DEF Spec
-----------------------------------------------------------------------------
(* The order of the schedule: every cell has a position, and the warm-ups *)
(* of a group have positions before its measured attempts.                 *)

\* What divides with a rest is the quotient.
LEMMA DivisionUnique ==
  ASSUME NEW d \in Nat \ {0}, NEW q \in Nat, NEW r \in 0..(d - 1)
  PROVE  (d * q + r) \div d = q /\ (d * q + r) % d = r
<1> DEFINE k == d * q + r
           p == k \div d
           s == k % d
<1>1. k \in Nat /\ p \in Nat /\ s \in 0..(d - 1) /\ k = d * p + s
  <2>1. k \in Nat
    OBVIOUS
  <2> QED
    BY <2>1, Division
<1> HIDE DEF p, s
<1>2. d * p + s = d * q + r
  BY <1>1
<1>3. ASSUME p > q PROVE FALSE
  <2>1. PICK e \in Nat : p = q + 1 + e
    <3>1. p - q - 1 \in Nat /\ p = q + 1 + (p - q - 1)
      BY <1>1, <1>3
    <3> QED
      BY <3>1
  <2>2. d * p = d * q + d + d * e /\ d * e >= 0
    BY <2>1
  <2> QED
    BY <1>1, <1>2, <2>2
<1>4. ASSUME p < q PROVE FALSE
  <2>1. PICK e \in Nat : q = p + 1 + e
    <3>1. q - p - 1 \in Nat /\ q = p + 1 + (q - p - 1)
      BY <1>1, <1>4
    <3> QED
      BY <3>1
  <2>2. d * q = d * p + d + d * e /\ d * e >= 0
    BY <1>1, <2>1
  <2> QED
    BY <1>1, <1>2, <2>2
<1>5. p = q
  BY <1>1, <1>3, <1>4
<1>6. s = r
  BY <1>1, <1>2, <1>5
<1> QED
  BY <1>5, <1>6 DEF p, s

Place(g, a, w) == (g - 1) * (Flows * (Repeats + 1)) + a * Flows + w

LEMMA CellAt ==
  ASSUME NEW g \in 1..Groups, NEW a \in Attempts, NEW w \in 1..Flows
  PROVE  /\ Place(g, a, w) \in 1..Last
         /\ Cell(Place(g, a, w)) = [group |-> g, attempt |-> a, flow |-> w]
<1>0. /\ Groups \in Nat \ {0} /\ Flows \in Nat \ {0} /\ Repeats \in Nat \ {0}
      /\ g \in Nat /\ a \in 0..Repeats /\ w \in Nat /\ g >= 1 /\ w >= 1
      /\ g <= Groups /\ w <= Flows
  BY SweepAssumption DEF Attempts
<1> DEFINE m == Repeats + 1
           d == Flows * m
           h == g - 1
           k == Place(g, a, w) - 1
<1>1. /\ m \in Nat \ {0} /\ h \in Nat /\ d \in Nat \ {0}
      /\ w - 1 \in 0..(Flows - 1) /\ a \in 0..(m - 1)
  BY <1>0
<1>2. k = d * h + (a * Flows + (w - 1))
  BY <1>0, <1>1 DEF Place
<1>3. a * Flows + (w - 1) \in 0..(d - 1)
  <2>1. PICK e \in Nat : Repeats = a + e
    <3>1. Repeats - a \in Nat /\ Repeats = a + (Repeats - a)
      BY <1>0
    <3> QED
      BY <3>1
  <2>2. d = a * Flows + e * Flows + Flows
    BY <1>0, <2>1
  <2>3. a * Flows >= 0 /\ e * Flows >= 0 /\ a * Flows \in Nat /\ e * Flows \in Nat
    BY <1>0, <2>1
  <2> QED
    BY <1>0, <1>1, <2>2, <2>3
<1>4. k \div d = h
  BY <1>1, <1>2, <1>3, DivisionUnique
<1>5. k = Flows * (m * h + a) + (w - 1) /\ m * h + a \in Nat
  BY <1>0, <1>1, <1>2
<1>6. k \div Flows = m * h + a /\ k % Flows = w - 1
  <2> DEFINE b == m * h + a
  <2>1. Flows \in Nat \ {0} /\ b \in Nat /\ w - 1 \in 0..(Flows - 1)
    BY <1>0, <1>1, <1>5
  <2>2. k = Flows * b + (w - 1)
    BY <1>5
  <2> HIDE DEF b, k
  <2>3. k \div Flows = b /\ k % Flows = w - 1
    BY <2>1, <2>2, DivisionUnique
  <2> QED
    BY <2>3 DEF b
<1>7. (m * h + a) % m = a
  BY <1>1, DivisionUnique
<1>8. Cell(Place(g, a, w)) = [group |-> g, attempt |-> a, flow |-> w]
  <2> HIDE DEF k, d, m
  <2>1. Cell(Place(g, a, w)) =
          [group |-> 1 + (k \div d), attempt |-> (k \div Flows) % m,
           flow |-> 1 + (k % Flows)]
    BY DEF Cell, k, d, m
  <2>2. 1 + h = g /\ 1 + (w - 1) = w
    BY <1>0
  <2> QED
    BY <1>4, <1>6, <1>7, <2>1, <2>2
<1>9. Place(g, a, w) \in 1..Last
  <2>1. PICK e \in Nat : Groups = h + 1 + e
    <3>1. Groups - g \in Nat /\ Groups = h + 1 + (Groups - g)
      BY <1>0
    <3> QED
      BY <3>1
  <2>2. Last = Groups * d
    BY <1>0 DEF Last
  <2> HIDE DEF d, h
  <2>3. Groups * d = d * h + d + d * e /\ d * e \in Nat /\ d * h \in Nat
    BY <1>1, <2>1
  <2>4. k + 1 = Place(g, a, w)
    BY <1>0 DEF Place
  <2> HIDE DEF k
  <2> QED
    BY <1>1, <1>2, <1>3, <2>2, <2>3, <2>4
<1> QED
  BY <1>8, <1>9

\* Before a measured attempt the schedule has the warm-ups of its group.
LEMMA WarmUpsPrecede ==
  ASSUME NEW n \in 1..Last, Cell(n).attempt > 0, NEW w \in 1..Flows
  PROVE  /\ Cell(n).group \in 1..Groups
         /\ Place(Cell(n).group, 0, w) \in 1..(n - 1)
<1>0. /\ Groups \in Nat \ {0} /\ Flows \in Nat \ {0} /\ Repeats \in Nat \ {0}
      /\ Last \in Nat /\ 0 \in Attempts
  BY Schedule, SweepAssumption DEF Attempts
<1> DEFINE d == Flows * (Repeats + 1)
           k == n - 1
           h == k \div d
           r == k % d
<1>1. Cell(n) \in Cells
  BY Schedule
<1>2. /\ d \in Nat \ {0} /\ k \in Nat
      /\ h \in Nat /\ r \in 0..(d - 1) /\ k = d * h + r
  <2>1. d \in Nat \ {0} /\ k \in Nat
    BY <1>0
  <2> HIDE DEF d, k
  <2> QED
    BY <2>1, Division
<1>3. Cell(n).group = 1 + h /\ 1 + h \in 1..Groups
  BY <1>1 DEF Cell, Cells
<1> HIDE DEF d, k, h, r
<1>4. \A v \in 1..Flows : Place(1 + h, 0, v) = d * h + v
  <2> SUFFICES ASSUME NEW v \in 1..Flows PROVE Place(1 + h, 0, v) = d * h + v
    OBVIOUS
  <2>1. (1 + h) - 1 = h /\ 0 * Flows = 0
    BY <1>0, <1>2
  <2> QED
    BY <1>0, <1>2, <2>1 DEF Place, d
<1>5. ASSUME r < Flows PROVE FALSE
  <2>1. r + 1 \in 1..Flows
    BY <1>0, <1>2, <1>5
  <2>2. n = Place(1 + h, 0, r + 1)
    BY <1>2, <1>4, <2>1 DEF k
  <2>3. Cell(n).attempt = 0
    BY <1>0, <1>3, <2>1, <2>2, CellAt
  <2> QED
    BY <2>3
<1>6. Place(1 + h, 0, w) = d * h + w /\ d * h \in Nat
  BY <1>2, <1>4
<1>7. r >= Flows
  BY <1>0, <1>2, <1>5
<1>8. d * h + w \in 1..(n - 1)
  BY <1>0, <1>2, <1>6, <1>7 DEF k
<1> QED
  BY <1>3, <1>6, <1>8
-----------------------------------------------------------------------------
(* What an invocation leaves behind it.  Each position it has passed is of *)
(* a cell that was completed before, or by now, or it has reported that    *)
(* the attempt failed; so that it never gets to a measured attempt of a    *)
(* group without rows for the warm-ups, and at the end has left none out.  *)

Passed(n) ==
  \/ Cell(n) \in completed
  \/ \E i \in Reported : /\ RunOf(i).series = series /\ RunOf(i).cell = Cell(n)
                         /\ rows[i].status = "failed"
DoneInv ==
  stage \in Active \cup {"returned"} =>
    /\ completed = CompletedKeys(series)
    /\ \A n \in 1..(position - 1) : Passed(n)
    /\ stage = "returned" => position > Last

Progress == Typed /\ Inv /\ DoneInv /\ WarmUpFirst

\* Whatever is passed has a row.
LEMMA PassedHasRow ==
  ASSUME completed = CompletedKeys(series), NEW n, Passed(n)
  PROVE  \E j \in DOMAIN rows : RunOf(j).series = series /\ RunOf(j).cell = Cell(n)
BY DEF Passed, CompletedKeys, Reported, RunOf

\* With the rows, all they tell stays as it is, whatever becomes of runs
\* without a row.
LEMMA SamePast ==
  ASSUME UNCHANGED <<rows, written, series, completed>>,
         \A i \in DOMAIN rows : runs'[rows[i].run] = runs[rows[i].run],
         rows \in Seq(RowType)
  PROVE  /\ CompletedKeys(series)' = CompletedKeys(series)
         /\ \A n : Passed(n)' <=> Passed(n)
         /\ WarmUpFirst' <=> WarmUpFirst
<1>1. \A i \in DOMAIN rows : RunOf(i)' = RunOf(i)
  BY DEF RunOf
<1>2. CompletedKeys(series)' = CompletedKeys(series)
  BY <1>1 DEF CompletedKeys, RunOf
<1>3. ASSUME NEW n PROVE Passed(n)' <=> Passed(n)
  <2>1. Reported' = Reported /\ Reported \subseteq DOMAIN rows
    BY DEF Reported
  <2> QED
    BY <1>1, <2>1 DEF Passed, Cell
<1>4. \A i \in DOMAIN rows : \A j \in 1..(i - 1) : RunOf(j)' = RunOf(j)
  BY <1>1
<1>5. WarmUpFirst' <=> WarmUpFirst
  BY <1>1, <1>4 DEF WarmUpFirst
<1> QED
  BY <1>2, <1>3, <1>5

\* A step that only changes runs without a row, and no position.
LEMMA SamePlace ==
  ASSUME Progress,
         UNCHANGED <<rows, written, series, completed, position>>,
         \A i \in DOMAIN rows : runs'[rows[i].run] = runs[rows[i].run],
         stage' \in Active => stage \in Active,
         stage' = "returned" => stage \in Active \cup {"returned"} /\ position > Last
  PROVE  DoneInv' /\ WarmUpFirst'
<1>1. rows \in Seq(RowType)
  BY TypeFacts DEF Progress, Typed
<1>2. /\ CompletedKeys(series)' = CompletedKeys(series)
      /\ \A n : Passed(n)' <=> Passed(n)
      /\ WarmUpFirst'
  BY <1>1, SamePast DEF Progress
<1>3. Last' = Last
  BY DEF Last
<1>4. ASSUME stage' \in Active \cup {"returned"}
      PROVE  /\ completed = CompletedKeys(series)
             /\ \A n \in 1..(position - 1) : Passed(n)
  BY <1>4 DEF Progress, DoneInv
<1> QED
  BY <1>2, <1>3, <1>4 DEF DoneInv

\* The row appended for a measured attempt comes after those of its warm-ups.
LEMMA AppendKeepsOrder ==
  ASSUME Progress, stage \in Appending, rows' = Append(rows, Row), runs' = runs
  PROVE  /\ WarmUpFirst'
         /\ \A i \in DOMAIN rows : i \in DOMAIN rows' /\ rows'[i] = rows[i]
         /\ Len(rows') = Len(rows) + 1
         /\ rows'[Len(rows) + 1] = Row
         /\ Len(rows) \in Nat
         /\ runs[Row.run].series = series /\ runs[Row.run].cell = Cell(position)
         /\ position \in 1..Last
<1>1. /\ rows \in Seq(RowType) /\ DOMAIN rows = 1..Len(rows) /\ Len(rows) \in Nat
      /\ position \in 1..Last
  BY TypeFacts DEF Progress, Typed, OnSchedule
<1>2. /\ Len(rows') = Len(rows) + 1
      /\ DOMAIN rows' = 1..(Len(rows) + 1)
      /\ \A i \in DOMAIN rows : rows'[i] = rows[i]
      /\ rows'[Len(rows) + 1] = Row
  BY <1>1
<1>3. runs[Row.run].series = series /\ runs[Row.run].cell = Cell(position)
  BY DEF Progress, Inv, SessionInv, Row, Current
<1>4. \A i \in DOMAIN rows : RunOf(i)' = RunOf(i)
  BY <1>2 DEF RunOf
<1>5. \A i : i = Len(rows) + 1 => RunOf(i)' = runs[Row.run]
  BY <1>2 DEF RunOf
<1>6. ASSUME NEW i \in DOMAIN rows', RunOf(i)'.cell.attempt > 0, NEW w \in 1..Flows
      PROVE  \E j \in 1..(i - 1) :
               /\ RunOf(j)'.series = RunOf(i)'.series
               /\ RunOf(j)'.cell =
                    [group |-> RunOf(i)'.cell.group, attempt |-> 0, flow |-> w]
  <2>1. CASE i \in DOMAIN rows
    <3>1. PICK j \in 1..(i - 1) :
            /\ RunOf(j).series = RunOf(i).series
            /\ RunOf(j).cell =
                 [group |-> RunOf(i).cell.group, attempt |-> 0, flow |-> w]
      BY <1>4, <1>6, <2>1 DEF Progress, WarmUpFirst
    <3>2. j \in DOMAIN rows
      BY <1>1, <2>1, <3>1
    <3> QED
      BY <1>4, <2>1, <3>1, <3>2
  <2>2. CASE i = Len(rows) + 1
    <3> DEFINE g == Cell(position).group
    <3>1. RunOf(i)'.series = series /\ RunOf(i)'.cell = Cell(position)
      BY <1>3, <1>5, <2>2
    <3>2. g \in 1..Groups /\ Place(g, 0, w) \in 1..(position - 1)
      <4>1. position \in 1..Last /\ Cell(position).attempt > 0
        BY <1>1, <1>6, <3>1
      <4> QED
        BY <4>1, WarmUpsPrecede
    <3>3. Cell(Place(g, 0, w)) = [group |-> g, attempt |-> 0, flow |-> w]
      <4>1. 0 \in Attempts
        BY SweepAssumption DEF Attempts
      <4> QED
        BY <3>2, <4>1, CellAt
    <3>4. completed = CompletedKeys(series) /\ Passed(Place(g, 0, w))
      BY <3>2 DEF Progress, DoneInv
    <3>5. PICK j \in DOMAIN rows :
            RunOf(j).series = series /\ RunOf(j).cell = Cell(Place(g, 0, w))
      BY <3>4, PassedHasRow
    <3>6. j \in 1..(i - 1)
      BY <1>1, <2>2, <3>5
    <3> QED
      BY <1>4, <3>1, <3>3, <3>5, <3>6
  <2> QED
    BY <1>1, <1>2, <2>1, <2>2
<1>7. WarmUpFirst'
  BY <1>6 DEF WarmUpFirst
<1> QED
  BY <1>1, <1>2, <1>3, <1>7

LEMMA AppendRowDone ==
  ASSUME Progress, AppendRow
  PROVE  DoneInv' /\ WarmUpFirst'
<1>1. /\ stage \in Appending /\ rows' = Append(rows, Row) /\ runs' = runs
      /\ series' = series /\ stage' = "loop"
      /\ position' = position + 1 /\ written' = written + 1
      /\ completed' = IF Status = "completed" THEN completed \cup {Cell(position)}
                                              ELSE completed
  BY DEF AppendRow
<1>2. /\ WarmUpFirst'
      /\ \A i \in DOMAIN rows : i \in DOMAIN rows' /\ rows'[i] = rows[i]
      /\ Len(rows') = Len(rows) + 1 /\ rows'[Len(rows) + 1] = Row /\ Len(rows) \in Nat
      /\ runs[Row.run].series = series /\ runs[Row.run].cell = Cell(position)
      /\ position \in 1..Last
  BY <1>1, AppendKeepsOrder
<1>3. /\ completed = CompletedKeys(series)
      /\ \A n \in 1..(position - 1) : Passed(n)
      /\ written \in Nat
  BY <1>1 DEF Progress, DoneInv, Typed, TypeOK
<1>4. completed' = CompletedKeys(series)'
  BY <1>1, <1>3, NewRow DEF Progress
<1>5. /\ \A i \in Reported : i \in DOMAIN rows /\ i \in Reported'
      /\ \A i : i = Len(rows) + 1 => i \in Reported'
  <2>1. rows \in Seq(RowType) /\ rows' \in Seq(RowType)
    <3>1. rows' \in Seq([run : Nat \ {0}, status : {"completed", "failed"}])
      BY <1>1, NewRow DEF Progress
    <3> QED
      BY <3>1, TypeFacts DEF Progress, Typed, RowType
  <2> QED
    BY <1>1, <1>2, <1>3, <2>1 DEF Reported
<1>6. ASSUME NEW n, Passed(n) PROVE Passed(n)'
  <2>1. CASE Cell(n) \in completed
    BY <1>1, <2>1 DEF Passed, Cell
  <2>2. CASE Cell(n) \notin completed
    <3>1. PICK i \in Reported : /\ RunOf(i).series = series /\ RunOf(i).cell = Cell(n)
                                /\ rows[i].status = "failed"
      BY <1>6, <2>2 DEF Passed
    <3>2. RunOf(i)' = RunOf(i) /\ rows'[i] = rows[i] /\ i \in Reported'
      BY <1>1, <1>2, <1>5, <3>1 DEF RunOf
    <3> QED
      BY <1>1, <3>1, <3>2 DEF Passed, Cell
  <2> QED
    BY <2>1, <2>2
<1>7. ASSUME NEW n, n = position PROVE Passed(n)'
  <2>1. CASE Status = "completed"
    BY <1>1, <1>7, <2>1 DEF Passed, Cell
  <2>2. CASE Status # "completed"
    <3>1. rows'[Len(rows) + 1].status = "failed"
      BY <1>2, <2>2 DEF Row, Status
    <3>2. \A i : i = Len(rows) + 1 => RunOf(i)' = runs[Row.run]
      BY <1>1, <1>2 DEF RunOf
    <3>3. \A i : i = Len(rows) + 1 =>
            /\ i \in Reported' /\ RunOf(i)'.series = series'
            /\ RunOf(i)'.cell = Cell(n) /\ rows'[i].status = "failed"
      BY <1>1, <1>2, <1>5, <1>7, <3>1, <3>2
    <3> QED
      BY <3>3 DEF Passed, Cell
  <2> QED
    BY <2>1, <2>2
<1>8. \A n \in 1..(position' - 1) : Passed(n)'
  <2>1. \A n \in 1..(position' - 1) : n \in 1..(position - 1) \/ n = position
    BY <1>1, <1>2
  <2> QED
    BY <1>3, <1>6, <1>7, <2>1
<1> QED
  BY <1>1, <1>2, <1>4, <1>8 DEF DoneInv

LEMMA SkipDone ==
  ASSUME Progress, Skip
  PROVE  DoneInv' /\ WarmUpFirst'
<1>1. /\ UNCHANGED <<rows, runs, written, series, completed, stage>>
      /\ stage = "loop" /\ position' = position + 1 /\ Cell(position) \in completed
      /\ position \in Nat
  BY DEF Skip, fileVars, Progress, Inv, FileInv
<1>2. /\ CompletedKeys(series)' = CompletedKeys(series)
      /\ \A n : Passed(n)' <=> Passed(n)
      /\ WarmUpFirst'
  BY <1>1, SamePast, TypeFacts DEF Progress, Typed
<1>3. completed = CompletedKeys(series) /\ \A n \in 1..(position - 1) : Passed(n)
  BY <1>1 DEF Progress, DoneInv
<1>4. Passed(position)
  BY <1>1 DEF Passed
<1>5. \A n \in 1..(position' - 1) : n \in 1..(position - 1) \/ n = position
  BY <1>1
<1> QED
  BY <1>1, <1>2, <1>3, <1>4, <1>5 DEF DoneInv

LEMMA StartDone ==
  ASSUME Progress, NEW s \in Series, Start(s)
  PROVE  DoneInv' /\ WarmUpFirst'
<1>1. UNCHANGED <<rows, runs>> /\ series' = s /\ position' = 1
      /\ \/ stage' = "unreadable"
         \/ stage' = "preflight" /\ completed' = CompletedKeys(s)
  BY DEF Start, fileVars
<1>2. CompletedKeys(s)' = CompletedKeys(s)
  BY <1>1, SameFile
<1>3. WarmUpFirst'
  BY <1>1 DEF Progress, WarmUpFirst, RunOf
<1> QED
  BY <1>1, <1>2, <1>3 DEF DoneInv

LEMMA ProgressStep == Progress /\ [Next]_vars => Progress'
<1> SUFFICES ASSUME Progress, [Next]_vars PROVE DoneInv' /\ WarmUpFirst'
  BY TypeStep, NextInv DEF Progress
<1> USE DEF fileVars, sessionVars
<1>1. ASSUME NEW s \in Series, Start(s) PROVE DoneInv' /\ WarmUpFirst'
  BY <1>1, StartDone
<1>2. CASE Skip
  BY <1>2, SkipDone
<1>3. CASE AppendRow
  BY <1>3, AppendRowDone
<1>4. CASE AppendTorn
  <2>1. /\ stage \in Appending /\ UNCHANGED <<runs, written, series, completed, position>>
        /\ stage' \in {"raised", "dead"}
    BY <1>4 DEF AppendTorn
  <2>2. CASE UNCHANGED rows
    BY <2>1, <2>2, SamePlace
  <2>3. CASE rows' = Append(rows, Row)
    BY <2>1, <2>3, AppendKeepsOrder DEF DoneInv
  <2> QED
    BY <1>4, <2>2, <2>3 DEF AppendTorn
<1>5. ASSUME Preflight \/ Perform \/ AppendFails \/ Die \/ Finish
      PROVE  DoneInv' /\ WarmUpFirst'
  <2>1. /\ UNCHANGED <<rows, runs, written, series, completed, position>>
        /\ stage' \in Active => stage \in Active
        /\ stage' = "returned" => stage \in Active /\ position > Last
    BY <1>5 DEF Preflight, Perform, AppendFails, Die, Finish, Raise, Fails
  <2> QED
    BY <2>1, SamePlace
<1>6. CASE OpenRun
  <2>1. /\ UNCHANGED <<rows, written, series, completed, position>>
        /\ stage = "loop" /\ stage' \in {"workflow", "raised"}
        /\ \E run : runs' = Append(runs, run)
    BY <1>6 DEF OpenRun, Raise, Fails
  <2>2. \A i \in DOMAIN rows : rows[i].run \in DOMAIN runs
    BY TypeFacts DEF Progress, Typed
  <2>3. \A n \in DOMAIN runs : runs'[n] = runs[n]
    BY <2>1, TypeFacts DEF Progress, Typed
  <2> QED
    BY <2>1, <2>2, <2>3, SamePlace
<1>7. ASSUME SaveResult \/ RecordEnd PROVE DoneInv' /\ WarmUpFirst'
  <2>1. /\ UNCHANGED <<rows, written, series, completed, position>>
        /\ stage \in InRun /\ stage' \in Active \cup {"raised"}
        /\ \E run : runs' = runs \/ runs' = [runs EXCEPT ![Len(runs)] = run]
    <3>1. UNCHANGED <<rows, written, series, completed, position>>
      BY <1>7 DEF SaveResult, RecordEnd
    <3>2. stage \in InRun /\ stage' \in Active \cup {"raised"}
      BY <1>7 DEF SaveResult, RecordEnd, Handled
    <3>3. \/ runs' = runs
          \/ runs' = [runs EXCEPT ![Len(runs)] = [runs[Len(runs)] EXCEPT !.result = Verdict]]
          \/ runs' = [runs EXCEPT ![Len(runs)] =
                        [runs[Len(runs)] EXCEPT !.ends = Append(runs[Len(runs)].ends, Verdict)]]
      BY <1>7 DEF SaveResult, RecordEnd, Current
    <3> QED
      BY <3>1, <3>2, <3>3, Zenon
  <2>2. \A i \in DOMAIN rows : rows[i].run \in DOMAIN runs /\ rows[i].run # Len(runs)
    BY <2>1 DEF Progress, Inv, FileInv, SessionInv
  <2>3. \A n \in DOMAIN runs : n # Len(runs) => runs'[n] = runs[n]
    BY <2>1
  <2> QED
    BY <2>1, <2>2, <2>3, SamePlace
<1>8. CASE UNCHANGED vars
  <2>1. /\ UNCHANGED <<rows, runs, written, series, completed, position, stage>>
        /\ stage = "returned" => position > Last
    BY <1>8 DEF vars, Progress, DoneInv
  <2> QED
    BY <2>1, SamePlace
<1> QED
  BY <1>1, <1>2, <1>3, <1>4, <1>5, <1>6, <1>7, <1>8 DEF Next, Advance

LEMMA ProgressInvariant == Spec => []Progress
<1>1. Init => Progress
  BY InitInv, TypeInit DEF Init, Progress, DoneInv, WarmUpFirst
<1> QED
  BY <1>1, ProgressStep, PTL DEF Spec

(* However a sweep was interrupted and resumed, no measured attempt is in  *)
(* the file before every workflow of its group has been warmed up.         *)
THEOREM WarmedUp == Spec => []WarmUpFirst
<1>1. Progress => WarmUpFirst
  BY DEF Progress
<1> QED
  BY <1>1, ProgressInvariant, PTL

\* What the invocation takes to be completed is what the file says.
LEMMA KeysMeasured ==
  ASSUME TypeOK, NEW s \in Series
  PROVE  CompletedKeys(s) = Measured(s)
<1>1. CompletedKeys(s) \subseteq Cells
  BY CompletedCells
<1>2. \A c : c \in CompletedKeys(s) <=>
               \E i \in DOMAIN rows :
                 rows[i].status = "completed" /\ RunOf(i).series = s /\ RunOf(i).cell = c
  BY DEF CompletedKeys, RunOf
<1> QED
  BY <1>1, <1>2 DEF Measured

(* An invocation that returns has left no cell of the schedule out, and    *)
(* counts as completed what the file says is.                              *)
THEOREM NothingLeftOut == Spec => []Accounted
<1>1. Progress => Accounted
  <2> SUFFICES ASSUME Progress, stage = "returned"
               PROVE  /\ \A c \in Cells \ Measured(series) :
                           \E i \in Reported : RunOf(i).cell = c /\ rows[i].status = "failed"
                      /\ Cardinality(completed) = Cardinality(Measured(series))
    BY DEF Accounted
  <2>1. TypeOK /\ series \in Series /\ position \in Nat /\ Last \in Nat
    BY Schedule DEF Progress, Typed, TypeOK, Inv, FileInv
  <2>2. completed = Measured(series)
    BY <2>1, KeysMeasured DEF Progress, DoneInv
  <2>3. \A n \in 1..Last : Passed(n)
    BY <2>1 DEF Progress, DoneInv
  <2>4. ASSUME NEW c \in Cells \ Measured(series)
        PROVE  \E i \in Reported : RunOf(i).cell = c /\ rows[i].status = "failed"
    <3> DEFINE n == Place(c.group, c.attempt, c.flow)
    <3>1. /\ c.group \in 1..Groups /\ c.attempt \in Attempts /\ c.flow \in 1..Flows
          /\ c = [group |-> c.group, attempt |-> c.attempt, flow |-> c.flow]
      BY <2>4 DEF Cells
    <3>2. n \in 1..Last /\ Cell(n) = c
      BY <3>1, CellAt
    <3> QED
      BY <2>2, <2>3, <2>4, <3>2 DEF Passed
  <2> QED
    BY <2>2, <2>4
<1> QED
  BY <1>1, ProgressInvariant, PTL
=============================================================================
