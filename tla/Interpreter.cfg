SPECIFICATION Spec
CONSTANTS
  Programs <- MCPrograms
  Times = {0, 2}
CHECK_DEADLOCK FALSE
INVARIANTS
  LikePython
  ScopesBalanced
