\* Two snapshots, of two environments and two keys.
SPECIFICATION BadgeSpec
CONSTANTS
  None = None
  TokenSkew = 0
  Freshness = 0
  FutureSkew = 0
  w1 = w1  w2 = w2  w3 = w3  w4 = w4  w5 = w5
  Wallet <- Wallets
  Listing <- Listings
  Key = {k1, k2}
  Environment = {"production", "staging"}
  environmentId = "production"
  MaxSnapshots = 2
INVARIANTS MembersOnly MembersAlways
