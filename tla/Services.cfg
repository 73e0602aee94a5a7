\* Each of the smaller parts on an instance of its own.
SPECIFICATION ServicesSpec
CONSTANTS
  Readers <- MCReaders
  Publishers <- MCPublishers
  CacheTTL = 2
  SnapshotTTL = 1
  Undated = FALSE
  MaxVersion = 3
  MaxClock = 3
  Empty = Empty
  NoOne = NoOne
\* Two requests at a time of one key, two accounts and an instance.
  Accounts = {1, 2}
  PoolInstances = {4}
  Premium = {1, 2}
  ReadKeys = {"k1"}
  NoKey = "none"
  Requests = {"r1", "r2"}
  PerCategory = 1
  LeaseTTL = 1
  MaxExpired = 1
  MaxFaults = 1
  MaxOverlaps = 1
\* A lease and a health check, which writes the payload back first.
  LeaseCallers = {"l1"}
  CheckCallers = {"c1"}
  LoserTries = 2
  MaxBackoff = 1
  MaxGrants = 2
\* A check of every kind of source.
  Sources = {"api", "amazonInstance", "deezerInstance", "tidal", "qobuz", "deezer", "apple", "amazon"}
  Zeros = {"absent", "0", "'0'"}
  DevTokens = {"none", "good"}
  Tabs <- MCTabs
  BrowserOf <- MCBrowserOf
  Identities = {7, 8}
  Candidates <- MCCandidates
  Names = {"octo", "gh_octo", "octo_2"}
  Legacy = {"octo"}
  Servers = {"ts", "go"}
  SignupLimit = 2
  MaxStarts = 3
\* A page that asks for a code twice.
  MaxCodes = 2
\* Two workers, and one interference.
  Rows <- MCRows
  Workers = {"w1", "w2"}
  Parkers = {}
  BatchLimit = 2
  AttemptMax = 3
  FetchBudget = 4
  PerEntryFetchMax = 2
  MaxPasses = 5
  MaxOutside = 1
\* Room for one bucket.
  Ids = {"feed", "login"}
  RequestLimit <- MCRequestLimit
  Window <- MCWindow
  MaxBuckets = 1
  MaxTime = 4
  MaxAllowed = 4
INVARIANTS NoWaiterStranded ReplacementIsEarned SingleFlight VerdictIsEarned WaitingIsPolled DoneMeansAll WindowHolds
PROPERTIES FeedIsBounded OwnAccountOrCause NoTaintedVerdict
CHECK_DEADLOCK FALSE
