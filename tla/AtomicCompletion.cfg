\* A handle that pins the ledger key and one that does not; the calls end with MaxCalls.
SPECIFICATION Spec
CONSTANTS
  w1 = w1  w2 = w2  e1 = e1  e2 = e2  o1 = o1
  p1 = p1  p2 = p2  r1 = r1  r2 = r2  k1 = k1
  None = None
  Worker = {w1, w2}
  Event = {e1, e2}
  OtherEvent = {o1}
  Partition = {p1, p2}
  Recipient = {r1, r2}
  CoarseKey = {k1}
  Input <- Contended
  Nonceless = {}
  Forged = {}
  OptedOut = {w2}
  MaxRetries = 1
  PoolSize = 2
  MaxCalls = 2
  MaxOthers = 1
INVARIANTS TypeOK AllOrNothing PaidOnce AnswerIsTrue FollowsClaimedTip NobodyStuck
CHECK_DEADLOCK FALSE
