SPECIFICATION Spec
CONSTANTS
  Routes = {i1}
  Runners = {r1, r2}
  None = None
  MaxLate = 1
INVARIANTS
  TypeOK
  NoOrphanProcess
  NoOrphanChild
  NoMissedTerminal
  ExitIsReported
CHECK_DEADLOCK FALSE
