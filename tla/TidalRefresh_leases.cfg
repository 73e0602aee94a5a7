\* Two requests that keep leasing the account.
SPECIFICATION RequestsSpec
CONSTANTS
  Leases = {l1, l2}
  Checks = {}
  NoOne = NoOne
  LoserTries = 2
  MaxBackoff = 3
  MaxGrants = 2
INVARIANTS PostsHonoured
PROPERTIES RotationIsKept BackoffIsKept RefreshIsRetried
