SPECIFICATION Spec
CONSTANTS
  c1 = c1
  c2 = c2
  c3 = c3
  c4 = c4
  f = f
  g = g
  n = n
  Calls = {c1, c2, c3}
  Tracked = {f}
  New = {n}
  Tools = {"patch", "submit"}
  Parallel = 1
  Budget = 1
  Faults = {}
PROPERTY SubmitsSolution
CHECK_DEADLOCK FALSE
