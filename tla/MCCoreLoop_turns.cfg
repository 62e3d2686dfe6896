SPECIFICATION Spec
CONSTANTS
  k1 = k1
  Keys = {k1}
  MaxTurns = 3
  DenialLimit = 2
  MaxCalls = 2
  MaxSinkErrors = 1
INVARIANTS
  IntentDurable
  OutcomeTrue
  NothingRunsAfterCancel
  ClosedTruly
  AnswerStands
PROPERTIES
  StopHalts
  ImplementsContract
