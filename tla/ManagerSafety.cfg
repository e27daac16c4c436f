SPECIFICATION Spec
CONSTANTS
  f1 = f1
  f2 = f2
  f3 = f3
  c1 = c1
  c2 = c2
  v1 = v1
  v2 = v2
  k1 = k1
  k2 = k2
  x1 = x1
  x2 = x2
  Function = {f1, f2, f3}
  Ctx = {c1, c2}
  Key = {k1, k2}
  Context = {x1, x2}
  CtxOf <- MCCtxOf
  VarOf <- MCVarOf
  ContextOf <- TwoNames
  Decorators <- MixedDecorators
  Failing = {"mqtt", "service"}
  NoContext = NoContext
  NoFunction = NoFunction
CHECK_DEADLOCK FALSE
INVARIANTS
  TypeOK
  HeldOnlyWhileRunning
  OwnedOrStopping
  StartedOnlyValid
  RunningIsComplete
  ServiceTablesAgree
PROPERTIES
  ImplementsRegistry
