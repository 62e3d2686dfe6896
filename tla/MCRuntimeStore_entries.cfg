SPECIFICATION Spec
CONSTANTS
  c1 = c1
  c2 = c2
  w1 = w1
  w2 = w2
  l1 = l1
  k1 = k1
  k2 = k2
  k3 = k3
  t1 = t1
  t2 = t2
  Conversations = {c1}
  Keys = {k1, k2}
  Calls = {t1}
  Workspaces = {w1}
  Locks = {l1}
  WorkspaceOf <- OneWorkspace
  LockOf <- OneLock
  MaxTime = 1
  MaxAccepted = 2
  MaxNotes = 2
SYMMETRY KeySymmetry
INVARIANTS
  RebuildExact
  RunEntriesBracketed
  ReplayAgrees
  NoStrandedCall
