\* One request at a time, three keys and a key request.
SPECIFICATION Spec
CONSTANTS
  k1 = k1  k2 = k2  k3 = k3  r1 = r1  q1 = q1  w1 = w1  w2 = w2  NoOne = NoOne
  Users <- MCUsers
  Github <- MCGithub
  Admins <- MCAdmins
  Keys <- MCKeys3
  Requests <- MCRequest
  Claims <- MCClaims
  Workers <- MCWorker
  MaxKeys = 1
INVARIANTS NoSecondReveal
