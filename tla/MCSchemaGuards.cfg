SPECIFICATION Spec
CONSTANTS
  Full = 2
  s1 = s1
  s2 = s2
  p1 = p1
  p2 = p2
  Sessions = {s1, s2}
  Parents = {p1, p2}
CONSTRAINT OneAtATime
SYMMETRY Alike
INVARIANTS IInv ClosedIsComplete RoundsInOrder FailedIsEmpty
PROPERTIES ClosedIsFrozen
