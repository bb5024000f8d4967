SPECIFICATION Spec
CONSTANTS
  Items = {i1}
  NoItem = NoItem
  Workers = {w1, w2, w3}
  Reapers = {r1}
  Crashable = {w1, w2, w3}
  Deletable = {}
  CallCodes = {"TIMEOUT", "UNEXPECTED_ERROR"}
  MaxAttempts = 2
  Cutoffs = {1}
  AgeCap = 2
SYMMETRY InterchangeableRequests
INVARIANTS
  TypeOK
  AuditTrailIsTheHistory
  EveryCallIsAnAttempt
  ResultProvenance
  ErrorIsExplained
  RetryOvershootBound
  CallsInFlightBounded
  OnlyReapedCallsAnswerLate
  SuccessLostOnlyToReaper
  OfferedIsAccepted
PROPERTIES
  OperatorDecisionStands
  HistoryOnlyGrows
