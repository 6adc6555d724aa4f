CONSTANTS
  Jobs = {j1}
  OldReport = OldReport
  NoReport = NoReport
  Refused = Refused
  MaxRestarts = 2
SPECIFICATION Spec
PROPERTIES JobEnds
CHECK_DEADLOCK FALSE
