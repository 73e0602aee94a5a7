\* What must go on for ever, each part on its own small instance.
SPECIFICATION BackgroundSpec
CONSTANTS
  r1 = r1  r2 = r2  t1 = t1  t2 = t2  t3 = t3  NoOne = NoOne
  Runners <- MCRunners
  Tokens <- MCTokens
  TTL = 3
  w1 = w1  w2 = w2
INVARIANTS RunsExclude
PROPERTIES JobIsGrantedAgain TailIsReached RotationReachesAll RevivedAgain
CHECK_DEADLOCK FALSE
