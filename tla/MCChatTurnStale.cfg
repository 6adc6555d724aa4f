CONSTANTS
  c0 = c0
  c1 = c1
  c2 = c2
  s1 = s1
  B = B
  Chats = {c0, c1, c2}
  Reused = {c1}
  Before = {c0}
  Asked <- ItAgain
  Nothing = Nothing
  TimeToLive = 1
  MaxRequests = 1
  Window = 1
  Retries = 1
  MaxTokens = 1
  LlmCalls = {1}
  MaxRounds = 1
  MaxTime = 1
  MaxGraph = 1
  MaxFaults = 0
SPECIFICATION Spec
CONSTRAINT TwoAttempts
PROPERTIES ReindexInvalidates
CHECK_DEADLOCK FALSE
