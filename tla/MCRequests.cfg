SPECIFICATION Spec
CONSTANTS
  a = a
  b = b
  c1 = c1
  c2 = c2
  Clients = {a, b}
  Configs = {c1, c2}
  Original = c1
  Budget = 1
  Scripts <- AllScripts
CONSTRAINT OnlyWhatIsSeen
INVARIANTS IInv NothingHalfDone EverythingThere OnlyTheseCollide OnlySessionsDeadlock ReadsAreWhole OnlyTheseRaise
PROPERTIES NoRivalWhenCommitted EveryRequestAnswered
