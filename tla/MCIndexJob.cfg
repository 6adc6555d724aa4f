CONSTANTS
  Jobs = {j1, j2}
  OldReport = OldReport
  NoReport = NoReport
  Refused = Refused
  MaxRestarts = 0
INIT Init
NEXT Next
SYMMETRY JobSymmetry
CONSTRAINT NotFaulty
INVARIANTS TypeOK FreshReport
CHECK_DEADLOCK FALSE
