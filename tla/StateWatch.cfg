SPECIFICATION Spec
CONSTANTS
  x = x
  y = y
  q1 = q1
  q2 = q2
  Var = {x, y}
  Val = {on, off}
  on = on
  off = off
  Pyscript = {x}
  Queue = {q1, q2}
  NamesOf <- MCNamesOf
  MaxChange = 3
  Gone = Gone
  NoAttr = NoAttr
  NoKey = NoKey
  Nothing = Nothing
  Unset = Unset
CHECK_DEADLOCK FALSE
SYMMETRY MCSymmetry
INVARIANTS
  NoChangeMissed
  OwnChangeSeen
  NeverOlder
  LastIsFresh
  Unregistered
