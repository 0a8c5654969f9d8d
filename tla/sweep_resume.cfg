SPECIFICATION FairSpec
CONSTANTS
  s1 = s1
  s2 = s2
  Series = {s1, s2}
  Groups = 1
  Flows = 2
  Repeats = 1
  Faults = {"error", "crash", "torn", "separator"}
  MaxFaults = 2
INVARIANTS OneCompletedRow RowTellsResult Accounted WarmUpFirst
PROPERTIES EventuallyMeasured
CHECK_DEADLOCK FALSE
