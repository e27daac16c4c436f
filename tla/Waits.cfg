SPECIFICATION Spec
CONSTANTS
  g1 = g1
  w1 = w1
  w2 = w2
  TrigInfo = {g1}
  Waiter = {w1, w2}
  Asks <- MCAsks
  Failing = {"mqtt", "webhook"}
  None = None
  MaxMessages = 3
CHECK_DEADLOCK FALSE
INVARIANTS
  HeardWhileWaiting
  LeftNothing
  NoOrphanListener
