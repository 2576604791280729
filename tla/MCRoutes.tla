------------------------------ MODULE MCRoutes ------------------------------
(* Instances of Routes for TLC. *)
EXTENDS Routes, TLC

CONSTANTS a, b, d

\* Two identities: the second one only as somebody else the account is linked to.
Partitions ==
  <<<<a, "act_firstlight", "step_firstlight">>, <<a, "act_verify", "step_verify">>,
    <<b, "act_firstlight", "step_firstlight">>, <<b, "act_verify", "step_verify">>>>

\* A process with everything, one with its gates only, and one whose secrets were
\* rotated but for one that is missing now.
Production ==
  [TENANT_CUBQUEST_DATABASE_URL |-> None, DATABASE_URL |-> "postgres",
   IDENTITY_API_JWT_SECRET |-> "s1", IDENTITY_API_ISSUER |-> None,
   IDENTITY_API_AUDIENCE |-> "freeside", IDENTITY_API_URL |-> "https",
   ACTIVITIES_READ_TOKEN |-> "reads", ACTIVITIES_VERIFY_WRITE_TOKEN |-> "verifies",
   ACTIVITIES_ADMIN_GRANT_TOKEN |-> "grants", ACTIVITIES_WORLD_ALLOWLIST |-> {"mibera", ""}]

Unbound ==
  [Production EXCEPT !.DATABASE_URL = None, !.IDENTITY_API_URL = "",
                     !.ACTIVITIES_WORLD_ALLOWLIST = None]

Rotated ==
  [Production EXCEPT !.TENANT_CUBQUEST_DATABASE_URL = "postgres",
                     !.IDENTITY_API_JWT_SECRET = "s2", !.ACTIVITIES_READ_TOKEN = ""]

Environments == {Production, Unbound, Rotated}

Token(sub) ==
  [sub |-> sub, segments |-> 3, decodable |-> TRUE, alg |-> "HS256", signedWith |-> "s1",
   iss |-> "identity-api", aud |-> {"freeside"}, exp |-> 0, nbf |-> None, tenant |-> "mibera"]

Bearer(token) == "authorization" :> [scheme |-> "bearer", credentials |-> token]

Service(secret) == SERVICE_TOKEN_HEADER :> secret

Http(method, path, headers, body) ==
  [method |-> method, path |-> path, headers |-> headers, query |-> <<>>,
   payload |-> "wellFormed", body |-> body]

Post(activity, route, headers, body) ==
  Http("POST", <<"v1", "activities", activity, route>>, headers, body)

Get(path, headers) == Http("GET", path, headers, None)

As(r, type) == [r EXCEPT !.headers = @ @@ ("content-type" :> type)]

Attestation(identity, issued) ==
  [identity_id |-> identity, discord_user_id |-> d, world |-> "mibera",
   verify_event_id |-> "v", idempotency_key |-> <<"b2", identity, "v">>, issued_at |-> issued]

Grant(identity, weight) == [identity_id |-> identity, weight |-> weight]

\* The body names somebody else, whom nobody asks.
Complete ==
  Post("act_verify", "complete", Bearer(Token(a)), [identity_id |-> b, step_id |-> "step_verify"])

TheStep == [step_id |-> "step_verify"]

Completes ==
  {Complete,
   Post("act_firstlight", "complete", Bearer(Token(a)), [step_id |-> "step_firstlight"]),
   Post("act_verify", "complete", Bearer(Token(a)), [step_id |-> "step_other"]),
   Post("act_verify", "complete", Bearer(Token(a)), None),
   Post("act_verify", "complete", Bearer(Token("ID_A")), TheStep),
   Post("act_verify", "complete", Bearer([Token(a) EXCEPT !.signedWith = "s0"]), TheStep),
   Post("act_verify", "complete", Bearer([Token(a) EXCEPT !.aud = {}]), TheStep),
   Post("act_verify", "complete", Bearer([Token(a) EXCEPT !.alg = "none"]), TheStep),
   Post("act_verify", "complete", Bearer([Token(a) EXCEPT !.tenant = None]), TheStep),
   Post("act_verify", "complete", "authorization" :> [scheme |-> "basic", credentials |-> Token(a)],
        TheStep)}

Attested ==
  {Post("act_verify", "complete-attested", Service("verifies"), Attestation(a, 0)),
   Post("act_verify", "complete-attested", Service("reads"), Attestation(a, 0)),
   Post("act_firstlight", "complete-attested", Service("verifies"), Attestation(a, 0)),
   Post("act_verify", "complete-attested", Service("verifies"), [identity_id |-> a])}

Admin ==
  {Post("act_firstlight", "complete-admin", Service("grants"), Grant(a, 2)),
   Post("act_firstlight", "complete-admin", Service("grants"), Grant(a, 3)),
   Post("act_firstlight", "complete-admin", Service("grants"), Grant("ID_A", 1)),
   Post("act_verify", "complete-admin", Service("grants"), Grant(a, 1)),
   Post("act_firstlight", "complete-admin", Service("verifies"), Grant(a, 1)),
   Post("act_firstlight", "complete-admin", Service("grants"), [weight |-> 1])}

Self == Bearer(Token(a))

Queries ==
  {Get(<<"v1", "badges">>, Self),
   [Get(<<"v1", "badges">>, Self) EXCEPT !.query = [limit |-> 1]],
   [Get(<<"v1", "activities">>, Self) EXCEPT !.query = [limit |-> 0]],
   [Get(<<"v1", "activities">>, Self) EXCEPT !.query = [activity_id |-> "act_verify"]],
   Get(<<"v1", "activities">>, Bearer(Token("ID_A"))),
   Get(<<"v1", "badges">>, Bearer(Token("ID_A"))),
   Get(<<"v1", "identities", a, "badges">>, Service("reads")),
   Get(<<"v1", "identities", a, "badges">>, Service("grants")),
   [Get(<<"v1", "progress">>, Self) EXCEPT !.query = [activity_id |-> "act_verify"]],
   Get(<<"v1", "progress">>, Self),
   Get(<<"v1", "raffle-entries">>, Self),
   Get(<<"v1", "kinds">>, Self),
   Get(<<"health">>, <<>>)}

\* What the framework answers itself, and what it brings to a handler all the same.
Odd ==
  {[Complete EXCEPT !.headers = "x-http-method" :> "GET"],
   [Get(<<"v1", "badges">>, Self) EXCEPT !.query = [_method |-> "POST"]],
   [Complete EXCEPT !.method = "PUT"],
   [Complete EXCEPT !.path = <<"v1", "activities", "act_verify">>],
   [Complete EXCEPT !.payload = "oversized"],
   [Complete EXCEPT !.payload = "malformed"],
   As(Complete, "form"),
   As(Complete, "text"),
   [As(Complete, "multipart") EXCEPT !.payload = "malformed"],
   [As(Complete, "binary") EXCEPT !.payload = "oversized"],
   [Get(<<"v1", "badges">>, Self) EXCEPT !.method = "HEAD"],
   [Get(<<"health">>, <<>>) EXCEPT !.payload = "malformed"]}

Everything == Completes \union Attested \union Admin \union Queries \union Odd

Interchangeable == Permutations(Client)

\* No step looks at the last reply.
ButReply == <<store, world, call, pc, acked>>

\* One verification, sent again and again.
OneVerification == {Complete}
=============================================================================
