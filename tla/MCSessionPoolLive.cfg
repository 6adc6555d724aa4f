CONSTANTS
  c1 = c1
  c2 = c2
  Calls = {c1, c2}
  Sessions = {s1, s2}
  NoSession = NoSession
  MaxSize = 1
  RetryCount <- NoRetries
  OuterTimed = {}
  MayClose = FALSE
  FailureThreshold = 1
  Cooldown = 1
SPECIFICATION Spec
INVARIANTS SessionExclusive
PROPERTIES CallsAnswer FailFastEnds
CHECK_DEADLOCK FALSE
