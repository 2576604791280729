\* Two processes that number their grants alike; the calls end with MaxCalls.
SPECIFICATION FairSpec
CONSTANTS
  p1 = p1  p2 = p2  c1 = c1  c2 = c2  r1 = r1  r2 = r2
  Process = {p1, p2}
  Caller = {c1, c2}
  Home <- TwoProcesses
  Event = {e1, e2}
  Recipient = {r1, r2}
  None = None
  Unresolvable = {r2}
  FailingGrants <- TransientOfR1
  SimulatedFailures = {"grant", "query"}
  MaxAttempts = 3
  MaxCalls = 4
  MaxFaults = 1
  MaxRestarts = 1
INVARIANTS TypeOK OutcomeIsTrue
PROPERTIES ImplementsPromise EveryCallReturns
CHECK_DEADLOCK FALSE
