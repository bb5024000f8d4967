SPECIFICATION FormReaperSpec
CONSTANTS
  Items = {i1}
  NoItem = NoItem
  Workers = {w1, w2}
  Reapers = {r1}
  Crashable = {w1, w2}
  Deletable = {}
  CallCodes = {"UNEXPECTED_ERROR"}
  MaxAttempts = 2
  Cutoffs = {0}
  AgeCap = 1
  Administrators = {a1}
  MaxSaves = 1
INVARIANTS
  FormTypeOK
  ReviewedResultIsRecorded
  CallsInFlightBounded
PROPERTIES
  NoItemStranded
