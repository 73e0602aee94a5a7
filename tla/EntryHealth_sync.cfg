\* A report, a sweep and the instance sync against one API instance.
SPECIFICATION Spec
CONSTANTS
  a1 = a1  s1 = s1  c1 = c1  r1 = r1  r2 = r2  NoOne = NoOne
  Kind = "api"
  Sweepers <- MCSweepers
  Callers <- MCCallers
  Reporters <- MCReporters1
  Admins <- Nobody
  AutoDisableAfter = 3
  DisableAfterReports = 2
  MaxFailures = 3
  MaxClock = 3
PROPERTIES FreshSuccessOutranksReport
