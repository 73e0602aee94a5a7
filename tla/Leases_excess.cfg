\* Two requests of one key whose leases overlap once.
SPECIFICATION FairSpec
CONSTANTS
  Accounts = {1, 2, 3}
  Instances = {}
  Premium = {1, 2, 3}
  Keys = {k1}
  NoKey = NoKey
  Requests = {r1, r2}
  PerCategory = 1
  LeaseTTL = 3
  MaxExpired = 0
  MaxFaults = 0
  MaxOverlaps = 1
PROPERTIES ExcessAgesOut
