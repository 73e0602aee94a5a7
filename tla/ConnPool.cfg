\* Four callers for two connections.
SPECIFICATION FairSpec
CONSTANTS
  p1 = p1  p2 = p2  p3 = p3  p4 = p4  c1 = c1  c2 = c2  None = None
  Callers <- MCCallers
  Conns <- MCConns
  MaxConns = 2
INVARIANTS SlotsAccounted OneOwner IdleIsClean NoLostWakeup
PROPERTIES QueuedIsWoken
