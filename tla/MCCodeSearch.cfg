CONSTANTS
  None = None
  MaxHops = 4
  ResultLimit = 2
  BranchLimit = 2
  TraceDepth = 2
  TopK = 1
  LocalPackage = "p"
  Repositories <- SmallRepositories
  Names <- AskedNames
  Concepts <- AskedConcepts
  Depths = {0, 3}
  FactoryNames = {"k"}
  MaxListItems = 1
SPECIFICATION Spec
INVARIANTS DependentsAreCallers NeighborsComplete FoundComplete PatternsComplete
CHECK_DEADLOCK FALSE
