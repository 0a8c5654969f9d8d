SPECIFICATION Spec
CONSTANTS
  s1 = s1
  s2 = s2
  Series = {s1}
  Groups = 1
  Flows = 1
  Repeats = 1
  Faults = {"crash", "torn", "separator"}
  MaxFaults = 1
INVARIANTS Resumable
CHECK_DEADLOCK FALSE
