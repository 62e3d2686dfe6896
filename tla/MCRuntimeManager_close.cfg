SPECIFICATION ServingSpec
CONSTANTS
  c1 = c1
  s1 = s1
  s2 = s2
  w1 = w1
  NoRun = NoRun
  Conversations = {c1}
  ConvOf <- Pair
  Submissions = {s1, s2}
  Workspaces = {w1}
  LockFor <- Shared
  WorkspaceFor <- Shared
  MaxConcurrent = 1
  Restored = {w1}
  MaxErrors = 1
INVARIANTS
  SlotsExact
  ManagerInv
  StopAcknowledged
  CloseWaits
PROPERTIES
  EveryMessageRuns
  CancellationEnds
