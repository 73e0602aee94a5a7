\* A sweep that may run unguarded, a caller and a report against one API instance.
SPECIFICATION FairSpec
CONSTANTS
  a1 = a1  s1 = s1  s2 = s2  c1 = c1  r1 = r1  NoOne = NoOne  Gone = Gone
  Kind = "api"
  Sweepers <- MCSweeper
  Callers <- MCCallers
  Reporters <- MCReporters
  Admins <- Nobody
  ClaimCanFail = TRUE
  AutoDisableAfter = 3
  DisableAfterReports = 2
  MaxFailures = 3
INVARIANTS ServableIsPremium
PROPERTIES ParkedIsReverified
