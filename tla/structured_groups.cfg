SPECIFICATION Spec
CONSTANTS
  Alphabet <- MCAlphabet
  Replicas <- MCReplicas
  Assigned <- MCAssigned
  WorkerOrder <- MCWorkerOrder
  Site <- MCSite
  Links <- MCLinks
  Tasks <- GroupTasks
  ShardWorkers <- MCShardWorkers
  ReasoningWorker = "strong"
  LocalModel = "local"
  FinalModel = "final"
  Accepts <- MCAccepts
  Operators <- MCOperators
  SizeOf <- MCSizeOf
  MaxBranches = 3
  MaxFaults = 1
INVARIANT TopKLimitsGroups
CHECK_DEADLOCK FALSE
