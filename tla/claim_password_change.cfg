SPECIFICATION Spec
CONSTANTS
  Emails = {e1}
  Ids = {u1}
  Nothing = Nothing
  Secrets = {s1}
  Workers = {w1}
  Administrators = {}
  PerSecond = 2
  OTPExpiry = 1
  AccessLifetime = 1
  RefreshLifetime = 2
  MaxNow = 2
  MaxCodes = 1
  MaxTokens = 4
  MaxForms = 0
  MaxRequests = 3
INVARIANT
  PasswordChangeEndsSessions
CHECK_DEADLOCK FALSE
