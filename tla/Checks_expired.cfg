\* An expired developer token is still in the cache.
SPECIFICATION Spec
CONSTANTS
  Sources = {"api", "amazonInstance", "deezerInstance", "tidal", "qobuz", "deezer", "apple", "amazon"}
  Zeros = {"absent", "0", "'0'"}
  DevTokens = {"expired"}
INVARIANTS DeadIsEarned
CHECK_DEADLOCK FALSE
