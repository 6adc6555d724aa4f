CONSTANTS
  t1 = t1
  t2 = t2
  Terms = {t1, t2}
  Classes = {t2}
  InitialPlans <- Plans
  DefaultCandidates = 2
  RefinementCap = 1
  MaxIterations = 2
  RequestDeadline = 7
  PlanDeadline = 3
  SynthesisReserve = 4
  SafetyMargin = 2
  SynthesisTimeout = 3
  AgentTimeout <- Timeouts
  CancelGrace = 1
  Reserves = {4, 5}
  TokenBudget = 2
SPECIFICATION Spec
INVARIANTS TypeOK SynthesisHasTime AnsweredInTime AnalystUsesCoordinates
PROPERTIES EvidenceKept QuestionAnswered
CHECK_DEADLOCK FALSE
