SPECIFICATION Spec
CONSTANTS
  p1 = p1
  p2 = p2
  p3 = p3
  p4 = p4
  x1 = x1
  x2 = x2
  Provider = {p1, p2, p3, p4}
  Service = {s1, s2}
  Context = {x1, x2}
  ContextOf <- MCContextOf
  NoContext = NoContext
  NoProvider = NoProvider
INVARIANTS
  CountExact
  OwnerAgrees
  CallableWhileProvided
PROPERTIES
  ImplementsNames
