\* A lease rotates the refresh token while a health check is between its read and its write.
SPECIFICATION Spec
CONSTANTS
  Leases = {l1, l2}
  Checks = {c1}
  NoOne = NoOne
  LoserTries = 2
  MaxBackoff = 1
  MaxGrants = 2
PROPERTIES RotationIsKept
