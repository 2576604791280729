\* One client that sends the same completion again and again.
SPECIFICATION Spec
CONSTANTS
  a = a  b = b  d = d
  None = None
  TokenSkew = 0
  Freshness = 0
  FutureSkew = 0
  Client = {c1}
  Identity = {a, b}
  Discord = {d}
  PartitionOrder <- Partitions
  Sent <- OneVerification
  Config <- Environments
  MaxTime = 1
INVARIANTS ReplayIsRecognised
