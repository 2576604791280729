\* Two callers, one partition; every call may be repeated without end.
SPECIFICATION Spec
CONSTANTS
  c1 = c1  c2 = c2  c3 = c3  c4 = c4  p1 = p1  r1 = r1  r2 = r2
  None = None
  Aliases <- Short
  MaxFaults = 1
  Worker = {w1, w2}
  Completion = {c1, c2, c3, c4}
  Clock = {1}
  Partition = {p1}
  Recipient = {r1, r2}
  Address = {a1, a2}
  Input <- OneOfEach
SYMMETRY Interchangeable
VIEW ButOutcome
INVARIANTS TypeOK PendingFollowsCompletion RewardMatchesCompletion
PROPERTIES OutcomeIsTrue CreditsCurrentAddress
