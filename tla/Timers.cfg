SPECIFICATION Spec
CONSTANTS
  DayLen = 6
  YearLen = 20
  Sunset <- MCSunset
  Triggers <- MCTriggers
  Startup = {43, 45, 47}
  MaxTime = 66
  MaxDelay = 1
  Changes = {"none", "back", "forward"}
  ChangeAt = 53
CHECK_DEADLOCK FALSE
INVARIANTS
  
  WatchOnTime
  WatchRunsWhenActive
