\* Two requests at a time, of every kind, and restarts without end.
SPECIFICATION Spec
CONSTANTS
  a = a  b = b  d = d
  None = None
  TokenSkew = 0
  Freshness = 0
  FutureSkew = 0
  Client = {c1, c2}
  Identity = {a, b}
  Discord = {d}
  PartitionOrder <- Partitions
  Sent <- Everything
  Config <- Environments
  MaxTime = 1
SYMMETRY Interchangeable
VIEW ButReply
INVARIANTS TypeOK OneBadge NeverStuck
PROPERTIES AuthorizedGrants AnswerIsTrue PageIsHonest
