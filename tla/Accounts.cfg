\* Two requests at a time on either server, two keys and a key request.
SPECIFICATION Spec
CONSTANTS
  k1 = k1  k2 = k2  k3 = k3  r1 = r1  q1 = q1  w1 = w1  w2 = w2  NoOne = NoOne
  Users <- MCUsers
  Github <- MCGithub
  Admins <- MCAdmins
  Keys <- MCKeys
  Requests <- MCRequest
  Claims <- MCClaims
  Workers <- MCWorkers
  MaxKeys = 1
SYMMETRY MCSymmetry
INVARIANTS NoOrphanKey ClaimsEndInLiveAccount ApprovedClaimMoved NoKeyLeftBehind NoLockCycle
PROPERTIES ProofHoldsAtTransfer MintsForApproved
