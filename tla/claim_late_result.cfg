SPECIFICATION Spec
CONSTANTS
  Items = {i1}
  NoItem = NoItem
  Workers = {w1, w2}
  Reapers = {r1}
  Crashable = {}
  Deletable = {}
  CallCodes = {"UNEXPECTED_ERROR"}
  MaxAttempts = 2
  Cutoffs = {1}
  AgeCap = 2
INVARIANTS
  LateResultNeverResurrects
