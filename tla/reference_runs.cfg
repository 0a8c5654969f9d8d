SPECIFICATION FairSpec
CONSTANTS
  Alphabet <- MCAlphabet
  Replicas <- MCReplicas
  Assigned <- MCAssigned
  WorkerOrder <- MCWorkerOrder
  Site <- MCSite
  Links <- MCLinks
  Tasks <- MCTasks
  ShardWorkers <- MCShardWorkers
  ReasoningWorker = "strong"
  LocalModel = "local"
  FinalModel = "final"
  Accepts <- MCAccepts
  Operators <- MCOperators
  SizeOf <- MCSizeOf
  MaxBranches = 3
  MaxFaults = 1
INVARIANTS InputsPresent ReplicasBalanced AnsweredIsQuiet EvidenceComplete LineageTrue KeepsTheBest GroupsAddUp
PROPERTY Settles
CHECK_DEADLOCK FALSE
