SPECIFICATION Spec
CONSTANTS
  None = None
  Job = {job}
  User = {home}
  Tab = {pageA}
  Order = {first, second}
  Hours = {1, 2}
  AutoLimit = 2
  Window = 1
  Forever = 6
  MaxClock = 1
  MaxGiven = 2
SYMMETRY OrderSymmetry
INVARIANTS TypeOK ApprovedWasLocked AutoNeverReviewed NeverBeyondGiven
