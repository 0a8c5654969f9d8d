SPECIFICATION FairSpec
CONSTANTS
  p1 = p1
  p2 = p2
  p3 = p3
  Procs = {p1, p2, p3}
  Branches = 3
  Faults = {"io", "crash"}
INVARIANTS SingleWriter RejectedForCause ResultTellsOutcome
PROPERTIES EndStands SkippedStands SomeoneRuns
CHECK_DEADLOCK FALSE
