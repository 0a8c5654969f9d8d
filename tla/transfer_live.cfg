SPECIFICATION FairSpec
CONSTANTS
  t1 = t1
  t2 = t2
  t3 = t3
  r1 = r1
  r2 = r2
  a1 = a1
  wa = wa
  wb = wb
  wc = wc
  x = x
  NoWorker = NoWorker
  Tasks = {t1, t2, t3}
  Refs = {r1, r2}
  Artifacts = {a1}
  Workers = {wa, wb, wc}
  Clients = {wa, wb, wc}
  ArtifactOf <- MCArtifactOf
  InitLocations <- CorruptLocations
  InitStore <- CorruptStore
  Faults = {"timeout", "trace"}
INVARIANT WrongSizeIsTransient
PROPERTIES EveryCallReturns LossIsLate
CHECK_DEADLOCK FALSE
