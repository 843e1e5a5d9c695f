SPECIFICATION Spec
CONSTANTS
  Daemon = daemon
  Locals = {tui}
  None = None
  MaxRev = 3
  MaxDisruptions = 3
INVARIANTS
  PairAtRest
  RecoverySucceeds
PROPERTIES
  StepwiseHistory
  SucceededIsKept
CHECK_DEADLOCK FALSE
