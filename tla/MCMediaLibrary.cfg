SPECIFICATION Spec
CONSTANTS
  x = x
  y = y
  worker = worker
  manual = manual
  Syncs = {worker, manual}
  ours = ours
  own = own
  Collectors = {theirs, ours}
  Captures = {capture}
  Urls = {x, y}
  Src = src
  Natives = {own}
  Site <- SiteOf
  Nobody = nobody
  MaxRuns = 2
  MaxVisits = 1
  MaxEdits = 1
  MaxFaults = 1
  MaxEvents = 2
CHECK_DEADLOCK FALSE
CONSTRAINTS FewEvents WithoutLossOfGenerality
INVARIANTS IInv LiveRunIsSpared AtMostOneRunning ShownIsLastSnapshot HiddenBySuccess EveryDeadlockHasACollector
PROPERTIES RunsEndOnce FrozenIsCurrent EverythingEnds
