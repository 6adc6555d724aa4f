CONSTANTS
  Workers = {w1, w2}
  MaxTurns = 5
  TurnTokens = {1, 2}
  SummaryTokens = {0, 3}
  TokenBudget = 4
  ContextBudgets = {2, 9}
  RecentTurnsToKeep = 2
INIT Init
NEXT Next
SYMMETRY WorkerSymmetry
INVARIANTS TypeOK SummaryOnce FoldedIsPrefix RecentStayVerbatim ContextDisjoint
