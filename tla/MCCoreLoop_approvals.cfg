SPECIFICATION Spec
CONSTANTS
  k1 = k1
  Keys = {k1}
  MaxTurns = 2
  DenialLimit = 3
  MaxCalls = 2
  MaxSinkErrors = 0
INVARIANTS
  ApprovalsSuppressed
