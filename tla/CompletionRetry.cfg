\* A caller that retries until its completion is parked; one fault.
SPECIFICATION RetryingSpec
CONSTANTS
  c1 = c1  c2 = c2  c3 = c3  c4 = c4  p1 = p1  r1 = r1  r2 = r2
  None = None
  Aliases <- Short
  MaxFaults = 1
  Worker = {w1}
  Completion = {c1, c2, c3, c4}
  Clock = {1, 2}
  Partition = {p1}
  Recipient = {r1}
  Address = {a1}
  Input <- DeferredAndNone
PROPERTIES CompletionIsParked
