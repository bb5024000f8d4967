SPECIFICATION Spec
CONSTANTS
  Ids = {i1, i2}
  NoId = NoId
  Nothing = Nothing
  Raw <- Texts
  strip <- Stripped
  Submissions <- Sent
  Workers = {w1, w2}
  Deletable = {i1, i2}
  Edits <- Typed
SYMMETRY Interchangeable
INVARIANTS
  TypeOK
  OneItemPerExternalId
  AnswersAreTruthful
  SameItemForEveryReplay
PROPERTIES
  ImplementsContract
