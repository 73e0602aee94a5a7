\* The same instance: a Go claim or a signed review closes a circle of waiting processes.
SPECIFICATION Spec
CONSTANTS
  k1 = k1  k2 = k2  k3 = k3  r1 = r1  q1 = q1  w1 = w1  w2 = w2  NoOne = NoOne
  Users <- MCUsers
  Github <- MCGithub
  Admins <- MCAdmins
  Keys <- MCKeys
  Requests <- MCRequest
  Claims <- MCClaims
  Workers <- MCWorkers
  MaxKeys = 1
SYMMETRY MCSymmetry
INVARIANTS NoCircle
