\* Two sweeps under the lease, and an administrator, are the only ones at work.
SPECIFICATION Spec
CONSTANTS
  a1 = a1  s1 = s1  s2 = s2  c1 = c1  r1 = r1  NoOne = NoOne  Gone = Gone
  Kind = "account"
  Sweepers <- MCSweepers
  Callers <- Nobody
  Reporters <- Nobody
  Admins <- MCAdmins
  ClaimCanFail = FALSE
  AutoDisableAfter = 3
  DisableAfterReports = 2
  MaxFailures = 3
SYMMETRY MCSymmetry
PROPERTIES ImplementsPolicy
