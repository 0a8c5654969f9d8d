SPECIFICATION FairSpec
CONSTANTS
  c1 = c1
  c2 = c2
  c3 = c3
  c4 = c4
  f = f
  g = g
  n = n
  Calls = {c1, c2, c3, c4}
  Tracked = {f}
  New = {n}
  Tools = {"search", "test", "patch", "submit"}
  Parallel = 2
  Budget = 1
  Faults = {"timeout", "reject"}
INVARIANTS BudgetHeld ObservationsFedOnce LabelsNameContents FreshStart
PROPERTIES AtomicSpec HandlersAnswer CallsReturn
CHECK_DEADLOCK FALSE
