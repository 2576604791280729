--------------------------- MODULE MCBadgeGrants ---------------------------
(* Instances of BadgeGrants for TLC. *)
EXTENDS BadgeGrants, TLC

CONSTANTS w1, w2, w3, w4, w5

Lower(address) == [address |-> address, spelling |-> "lower"]

Wallets ==
  {Lower(w) : w \in {w1, w2, w3, w4, w5, None}}
    \union {[address |-> w1, spelling |-> "checksum"]}

\* One leaf, two in both orders, and trees with an odd node on one level or on two.
Listings ==
  {[i \in DOMAIN l |-> Lower(l[i])] :
     l \in {<<w1>>, <<w3>>, <<w1, w2>>, <<w2, w1>>, <<w3, w1, w2>>, <<w4, w3, w2, w1>>,
            <<w2, w4, w1, w5, w3>>}}
=============================================================================
