CONSTANTS
  None = None
  A = A
  B = B
  Names = {A, B}
  Queries <- SmallQueries
  Contexts <- SmallContexts
  ModelIntents <- SmallIntents
  Evidences <- SmallEvidences
  Budgets = {0, 1, 2, 3, 4, 5, 6, 7, 8}
  MaxDeltas = 1
  CharsPerToken = 2
  MinSnippetChars = 3
  Suffix <- SmallSuffix
  MaxTrimRounds = 8
  NeighborKeep = 3
  Overhead = 1
  MaxSchemaAttempts = 2
  JevRetries = 1
SPECIFICATION Spec
CONSTRAINT OnePrompt
INVARIANTS PlanServesQuestion OverrunBounded
CHECK_DEADLOCK FALSE
