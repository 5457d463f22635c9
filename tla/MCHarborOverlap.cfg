SPECIFICATION Spec
CONSTANTS
  wa = wa
  wb = wb
  ta = ta
  tb = tb
  Workers = {wa, wb}
  Targets = {ta, tb}
  AttemptLimit = 2
  MaxFaults = 0
  MaxLostAcks = 0
PROPERTY FailedStaysFailed
CHECK_DEADLOCK FALSE
