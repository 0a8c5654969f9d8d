SPECIFICATION Spec
CONSTANTS
  c1 = c1
  c2 = c2
  c3 = c3
  i1 = i1
  Calls = {c1}
  Inputs = {i1}
  NoArtifact = NoArtifact
  Kinds = {"delegate"}
  MaxTurns = 1
  Coordinator = Coordinator
  PlannerHarness = "stateful"
  Faults = {}
INVARIANTS StatefulReturnsLedger
CHECK_DEADLOCK FALSE
