SPECIFICATION FairSpec
CONSTANTS
  c1 = c1
  c2 = c2
  c3 = c3
  i1 = i1
  Calls = {c1, c2}
  Inputs = {i1}
  NoArtifact = NoArtifact
  Kinds = {"spawn", "process", "media", "inspect"}
  MaxTurns = 2
  Coordinator = Coordinator
  PlannerHarness = "stateful"
  Faults = {"trace"}
INVARIANTS TellsUsableIds SpansClosed FinishIsLast HistoryInTrace
PROPERTIES HistorySpec RunReturns
CHECK_DEADLOCK FALSE
