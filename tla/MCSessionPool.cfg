CONSTANTS
  c1 = c1
  c2 = c2
  Calls = {c1, c2}
  Sessions = {s1, s2}
  NoSession = NoSession
  MaxSize = 2
  RetryCount <- OneRetries
  OuterTimed = {c2}
  MayClose = TRUE
  FailureThreshold = 2
  Cooldown = 0
INIT Init
NEXT Next
SYMMETRY SessionSymmetry
CONSTRAINT NotDrifted
INVARIANTS TypeOK TrippedIffAtThreshold SlotAccounting NotClosedInUse
PROPERTIES BreakerUsed
CHECK_DEADLOCK FALSE
