SPECIFICATION FairSpec
CONSTANTS
  Routes = {i1}
  Runners = {r1, r2}
  None = None
  MaxLate = 1
INVARIANTS
  RetryIsNotUndone
CHECK_DEADLOCK FALSE
