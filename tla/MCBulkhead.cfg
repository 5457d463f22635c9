SPECIFICATION FairSpec
CONSTANTS
  p1 = p1
  p2 = p2
  p3 = p3
  w1 = w1
  w2 = w2
  Procs = {p1, p2}
  WorkerIds = {w1, w2}
  Settings <- SmokeOnlySettings
  Jobs = {1, 2}
  JobKind <- ResearchThenSmoke
  JobConfig <- AllLive
  Rejects <- AllRejectFirst
  Rounds = 1
  Supervised = {p1, p2}
  Timely = TRUE
  MaxFaults = 1
  None = None
PROPERTY QueueDrains
