SPECIFICATION Spec
CONSTANTS
  Emails = {e1, e2}
  Ids = {u1, u2}
  Nothing = Nothing
  Secrets = {s1}
  Workers = {w1, w2}
  Administrators = {a1}
  PerSecond = 2
  OTPExpiry = 1
  AccessLifetime = 1
  RefreshLifetime = 2
  MaxNow = 2
  MaxCodes = 2
  MaxTokens = 3
  MaxForms = 1
  MaxRequests = 4
SYMMETRY Interchangeable
INVARIANTS
  TypeOK
  OneUserPerEmail
  CodesAreSpentTogether
  PasswordAndDateTogether
  RefusalIsExplained
PROPERTIES
  NobodyActiveUnverified
  NoBlockIsLost
CHECK_DEADLOCK FALSE
