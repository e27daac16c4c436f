SPECIFICATION Spec
CONSTANTS
  app = app
  part = part
  pkg = pkg
  lib = lib
  Name = {app, pkg, part, lib}
  Place <- MCPlace
  Autoload = {app}
  Root <- MCRoot
  Modules = {pkg, part, lib}
  Imports <- MCImports
  Shutdown = {app}
  Process = {1, 2}
  None = None
  All = All
  Unload = Unload
  Calls = {None, All, part, Unload}
  Raising = {pkg}
  MaxEdits = 1
  MaxLoads = 3
CHECK_DEADLOCK FALSE
INVARIANTS
  StartedAfterReload
