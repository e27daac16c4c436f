SPECIFICATION FairSpec
CONSTANTS
  UserTask = {t1, t2}
  OuterTask = {o1}
  Name = {n1}
  Callback = {c1}
  Removable = {}
  Swallower = {t1}
  NoTask = NoTask
  Exit = Exit
  MaxQueue = 2
CHECK_DEADLOCK FALSE
PROPERTIES
  CancelIsServed
