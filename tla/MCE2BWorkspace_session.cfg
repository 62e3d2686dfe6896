SPECIFICATION Spec
CONSTANTS
  e1 = e1
  e2 = e2
  Edits = {e1}
  RetainRecent = 1
  RetainDaily = 2
  RetainBytes = 1
  RetainCopies = 1
  SizeOf <- OneEach
  ActiveFor = 1
  IdleFor = 1
  RecoverFor = 2
  Grace = 1
  MaxTime = 2
  MaxBoxes = 2
  MaxEntries = 4
  MaxFaults = 1
  MaxCrashes = 1
CHECK_DEADLOCK FALSE
INVARIANTS
  Restorable
  EditsReserved
PROPERTIES
  OpensCurrent
  UnsavedKept
  HeartbeatEnds
