SPECIFICATION FairSpec
CONSTANTS
  wa = wa
  wb = wb
  ta = ta
  tb = tb
  Workers = {wa}
  Targets = {ta, tb}
  AttemptLimit = 2
  MaxFaults = 2
  MaxLostAcks = 0
INVARIANT RetriesFollowFailure
PROPERTIES TerminalIsFinal EveryJobEnds
CHECK_DEADLOCK FALSE
