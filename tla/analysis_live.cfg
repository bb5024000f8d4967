SPECIFICATION LiveSpec
CONSTANTS
  Items = {i1, i2}
  NoItem = NoItem
  Workers = {w1, w2}
  Reapers = {r1}
  Crashable = {w1}
  Deletable = {i1}
  CallCodes = {"TIMEOUT", "UNEXPECTED_ERROR"}
  MaxAttempts = 1
  Cutoffs = {0}
  AgeCap = 1
PROPERTIES
  NoItemStranded
  EveryCallIsRecorded
  ImplementsLifecycle
