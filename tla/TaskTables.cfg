SPECIFICATION Spec
CONSTANTS
  UserTask = {t1, t2}
  OuterTask = {o1}
  Name = {n1, n2}
  Callback = {c1}
  Removable = {c1}
  Swallower = {}
  NoTask = NoTask
  Exit = Exit
  MaxQueue = 2
CHECK_DEADLOCK FALSE
SYMMETRY Symmetry
INVARIANTS
  TypeOK
  NameMapsAgree
  OwnersAreOurs
  OneLiveClaimant
  
  
PROPERTIES
  NamesFreedByTheirOwner
