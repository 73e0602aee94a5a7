\* One sweep worker and two reports against one account.
SPECIFICATION Spec
CONSTANTS
  a1 = a1  s1 = s1  c1 = c1  r1 = r1  r2 = r2  NoOne = NoOne
  Kind = "account"
  Sweepers <- MCSweepers
  Callers <- Nobody
  Reporters <- MCReporters2
  Admins <- Nobody
  AutoDisableAfter = 3
  DisableAfterReports = 2
  MaxFailures = 3
  MaxClock = 4
SYMMETRY MCSymmetry
INVARIANTS ThresholdsDisable SingleReportProbe
PROPERTIES FreshSuccessOutranksReport
