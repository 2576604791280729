\* Two workers, two partitions and one out of scope; the appends end with MaxCalls, so TLC may stop.
SPECIFICATION Spec
CONSTANTS
  None = None
  Worker = {w1, w2}
  Event = {e1, e2, f}
  Partition = {p1, p2, p3}
  Nonceless = {}
  Forged = {f}
  OutOfScope = {p3}
  MaxRetries = 1
  PoolSize = 3
  MaxCalls = 3
SYMMETRY Interchangeable
INVARIANTS TypeOK Gapless ChainFollowsClaims AnswerIsTrue NobodyStuck
PROPERTIES ImplementsPromise
CHECK_DEADLOCK FALSE
