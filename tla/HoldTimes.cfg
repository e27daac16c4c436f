SPECIFICATION Spec
CONSTANTS
  None = None
  Hold <- MCHold
  HoldFalse <- MCHoldFalse
  MaxTime = 6
  MaxBurst = 2
CHECK_DEADLOCK FALSE
INVARIANTS
  
  HoldNotRestarted
PROPERTIES
  NotBeforeHold
  
