SPECIFICATION Spec
CONSTANTS
  p1 = p1
  p2 = p2
  p3 = p3
  w1 = w1
  w2 = w2
  Procs = {p1, p2}
  WorkerIds = {w1, w2}
  Settings <- EvaluationSettings
  Jobs = {1, 2}
  JobKind <- ChatThenChat
  JobConfig <- AllLive
  Rejects <- RejectsFirst
  Rounds = 1
  Supervised = {}
  Timely = TRUE
  MaxFaults = 1
  None = None
INVARIANT LiveInv
PROPERTY LiveJobIsSpared
