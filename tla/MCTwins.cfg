SPECIFICATION Spec
CONSTANTS
  p1 = p1
  p2 = p2
  p3 = p3
  w1 = w1
  w2 = w2
  Procs = {p1, p2}
  WorkerIds = {w1, w2}
  Settings <- TwinSettings
  Jobs = {1, 2}
  JobKind <- SmokeThenSemantic
  JobConfig <- AllLive
  Rejects <- RejectsFirst
  Rounds = 1
  Supervised = {}
  Timely = FALSE
  MaxFaults = 2
  None = None
PROPERTY LifecycleSpec
