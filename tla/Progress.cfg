\* Two workers on one record; the calls end with MaxCalls.
SPECIFICATION FairSpec
CONSTANTS
  None = None
  Worker = {w1, w2}
  Event = {e1, e2}
  Key = {k1, k2}
  Unknown = {k2}
  MaxRetries = 1
  PoolSize = 2
  MaxVersion = 2
  MaxCalls = 3
INVARIANTS TypeOK NoLostAdvance ConflictIsReal
PROPERTIES ImplementsPromise EveryCallReturns
CHECK_DEADLOCK FALSE
