SPECIFICATION Spec
CONSTANTS
  t1 = t1
  t2 = t2
  t3 = t3
  r1 = r1
  r2 = r2
  a1 = a1
  wa = wa
  wb = wb
  wc = wc
  x = x
  NoWorker = NoWorker
  Tasks = {t1, t2, t3}
  Refs = {r1, r2}
  Artifacts = {a1}
  Workers = {wa, wb, wc, x}
  Clients = {wa, wb, wc}
  ArtifactOf <- MCArtifactOf
  InitLocations <- IntactLocations
  InitStore <- IntactStore
  Faults = {"timeout", "crash", "trace"}
SYMMETRY CallSymmetry
INVARIANTS OneTransferAtATime BytesMoveOnce LocationSound AnswerRecorded
PROPERTIES PlacementSpec
CHECK_DEADLOCK FALSE
