\* A sweep worker, a caller (a check, a submission or the sync) and a report against one API instance.
SPECIFICATION Spec
CONSTANTS
  a1 = a1  s1 = s1  c1 = c1  r1 = r1  r2 = r2  NoOne = NoOne
  Kind = "api"
  Sweepers <- MCSweepers
  Callers <- MCCallers
  Reporters <- MCReporters1
  Admins <- MCAdmins
  AutoDisableAfter = 3
  DisableAfterReports = 2
  MaxFailures = 3
  MaxClock = 3
INVARIANTS ServableIsPremium
PROPERTIES ImplementsPolicy
