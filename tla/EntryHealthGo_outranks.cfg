\* A report and a single check on one account.
SPECIFICATION Spec
CONSTANTS
  a1 = a1  s1 = s1  s2 = s2  c1 = c1  r1 = r1  NoOne = NoOne  Gone = Gone
  Kind = "account"
  Sweepers <- Nobody
  Callers <- MCCallers
  Reporters <- MCReporters
  Admins <- Nobody
  ClaimCanFail = FALSE
  AutoDisableAfter = 3
  DisableAfterReports = 2
  MaxFailures = 3
PROPERTIES SuccessOutranksReport
