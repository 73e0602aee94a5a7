\* Two rows whose check keeps answering "pending", and a batch that has room for two.
SPECIFICATION FairSpec
CONSTANTS
  Rows = {1, 2, 3}
  Workers = {w1, w2}
  Parkers = {1, 2}
  Limit = 2
  AttemptMax = 3
  FetchBudget = 3
  PerEntryFetchMax = 2
  MaxPasses = 5
  MaxOutside = 0
PROPERTIES TailIsReached
