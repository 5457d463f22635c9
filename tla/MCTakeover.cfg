SPECIFICATION Spec
CONSTANTS
  p1 = p1
  p2 = p2
  p3 = p3
  w1 = w1
  w2 = w2
  Procs = {p1, p2, p3}
  WorkerIds = {w1, w2}
  Settings <- TakeoverSettings
  Jobs = {1}
  JobKind <- JustSemantic
  JobConfig <- AllLive
  Rejects <- NoRejects
  Rounds = 1
  Supervised = {}
  Timely = FALSE
  MaxFaults = 1
  None = None
SYMMETRY TwinSymmetry
INVARIANTS IInv OneEngine NoAbandonedJob
