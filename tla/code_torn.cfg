SPECIFICATION Spec
CONSTANTS
  c1 = c1
  c2 = c2
  c3 = c3
  c4 = c4
  f = f
  g = g
  n = n
  Calls = {c1, c2, c3}
  Tracked = {f, g}
  New = {}
  Tools = {"patch", "submit"}
  Parallel = 2
  Budget = 1
  Faults = {}
INVARIANT WholePatches
CHECK_DEADLOCK FALSE
