SPECIFICATION FairSpec
CONSTANTS
  p1 = p1
  p2 = p2
  p3 = p3
  w1 = w1
  w2 = w2
  Procs = {p1}
  WorkerIds = {w1, w2}
  Settings <- SoloSettings
  Jobs = {1, 2}
  JobKind <- ResearchThenSmoke
  JobConfig <- AllLive
  Rejects <- AllRejectFirst
  Rounds = 1
  Supervised = {p1}
  Timely = TRUE
  MaxFaults = 0
  None = None
PROPERTY QueueDrains
