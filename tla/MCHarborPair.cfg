SPECIFICATION Spec
CONSTANTS
  wa = wa
  wb = wb
  ta = ta
  tb = tb
  Workers = {wa, wb}
  Targets = {ta, tb}
  AttemptLimit = 2
  MaxFaults = 1
  MaxLostAcks = 1
SYMMETRY Symmetry
INVARIANTS TypeOK OneAttemptAtATime SuccessIsReal
CHECK_DEADLOCK FALSE
