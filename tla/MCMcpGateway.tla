---------------------------- MODULE MCMcpGateway ----------------------------
(* Instances of McpGateway for TLC. *)
EXTENDS McpGateway, TLC

CONSTANTS alice, bob

Good(jti, sub) ==
  [jti |-> jti, sub |-> sub, alg |-> "Ed25519", typ |-> "freeside-mcp-token",
   aud |-> {"freeside-activities"}, kid |-> "k1", signed |-> TRUE, iat |-> 0, exp |-> MaxTime + 1,
   scope |-> [tag |-> "single", worlds |-> {"mibera"}], permissions |-> {"getBadges"}]

Ask(token) == [token |-> token, tool |-> "getBadges", world |-> "mibera", cursors |-> {}]

\* The second page of what was asked for, good until a time.
Cursor(secret, tool, until) ==
  signCursor([tool |-> tool, world_scope |-> "mibera", caller_identity |-> alice,
              filters_hash |-> "all", expires_at |-> until, page_position |-> "p2"], secret)

Page(token, cursor) == [Ask(token) EXCEPT !.cursors = {cursor}]

Bad == Good("j0", bob)

\* Three tokens of one caller, for a first page, for one whose cursor expires and for
\* one whose cursor another gateway signed, and, bad in their own ways, those of
\* another; the one of a kid that is rotated out is good for one unit of time only.
Requests ==
  {Ask(Good("j1", alice)), Page(Good("j2", alice), Cursor("g1", "getBadges", 1)),
   Page(Good("j3", alice), Cursor("g0", "getBadges", MaxTime + 1)),
   Ask([Bad EXCEPT !.alg = "none"]), Ask([Bad EXCEPT !.kid = "k2", !.iat = 1, !.exp = 2]),
   [Ask(Bad) EXCEPT !.world = "global", !.tool = "getProgress"]}

\* Before and after a rotation of keys.
Rings ==
  {[k \in {"k1", "k2"} |->
      IF k = "k1" THEN [state |-> "active", expires |-> MaxTime + 1]
      ELSE [state |-> "grace", expires |-> 2]],
   [k \in {"k1", "k2"} |->
      IF k = "k1" THEN [state |-> "active", expires |-> MaxTime + 1]
      ELSE [state |-> "revoked", expires |-> MaxTime + 1]]}

Interchangeable == Permutations(Client)
=============================================================================
