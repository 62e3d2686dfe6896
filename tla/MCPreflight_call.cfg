SPECIFICATION CallSpec
CONSTANTS
  a1 = a1
  a2 = a2
  Args = {a1, a2}
  Garbage = Garbage
  Unprojectable = {a2}
  StartHooks = 3
  PermissionHooks = 2
  maxInputUpdates = 3
INVARIANTS
  DenyStands
  RunsWithConsent
  OrderIrrelevant
PROPERTIES
  Decides
