SPECIFICATION FairSpec
CONSTANTS
  Routes = {i1}
  Runners = {r1}
  None = None
  MaxLate = 1
PROPERTIES
  SlotIsReleased
CHECK_DEADLOCK FALSE
