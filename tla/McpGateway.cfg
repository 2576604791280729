\* Two calls at a time, a clock that is set back, and a second process.
SPECIFICATION Spec
CONSTANTS
  None = None
  alice = alice  bob = bob
  Client = {c1, c2}
  Caller = {alice, bob}
  Request <- Requests
  KeyRings <- Rings
  CursorSecret = "g1"
  Skew = 0
  Window = 1
  ColdStart = 1
  MaxEntries = 2
  Capacity = 1
  RefillRate = 2
  AuditCapacity = 1
  MaxTime = 2
  MaxServed = 4
  MaxLives = 2
SYMMETRY Interchangeable
INVARIANTS TypeOK ServedOnce RateIsHonest
