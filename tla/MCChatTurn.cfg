CONSTANTS
  c0 = c0
  c1 = c1
  c2 = c2
  s1 = s1
  B = B
  Chats = {c0, c1, c2}
  Reused = {c1}
  Before = {c0}
  Asked <- ItAgain
  Nothing = Nothing
  TimeToLive = 1
  MaxRequests = 1
  Window = 1
  Retries = 1
  MaxTokens = 1
  LlmCalls = {1}
  MaxRounds = 1
  MaxTime = 2
  MaxGraph = 1
  MaxFaults = 1
SPECIFICATION Spec
CONSTRAINT TwoAttempts
INVARIANTS TypeOK ClientSeesAnswer CachedForSameQuestion TokensOwn ExchangeInOrder LimitExact
PROPERTIES CacheRefined
CHECK_DEADLOCK FALSE
