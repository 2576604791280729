\* As many stale appends as the pool has clients.
SPECIFICATION FairSpec
CONSTANTS
  None = None
  Worker = {w1, w2}
  Event = {e1, e2}
  Partition = {p1}
  Nonceless = {}
  Forged = {}
  OutOfScope = {}
  MaxRetries = 1
  PoolSize = 2
  MaxCalls = 2
PROPERTIES
  EveryCallReturns
CHECK_DEADLOCK FALSE
