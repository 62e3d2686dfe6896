SPECIFICATION Spec
CONSTANTS
  c1 = c1
  c2 = c2
  w1 = w1
  w2 = w2
  l1 = l1
  k1 = k1
  k2 = k2
  k3 = k3
  t1 = t1
  t2 = t2
  Conversations = {c1, c2}
  Keys = {k1, k2}
  Calls = {}
  Workspaces = {w1, w2}
  Locks = {l1}
  WorkspaceOf <- HostDirectory
  LockOf <- HostDirectoryLock
  MaxTime = 3
  MaxAccepted = 3
  MaxNotes = 0
SYMMETRY KeySymmetry
INVARIANTS
  NoOvertaking
  KeyNamesOneSubmission
  RunsExclude
PROPERTIES
  EndIsFinal
  ImplementsQueue
