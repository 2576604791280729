-------------------------------- MODULE Auth --------------------------------
(***************************************************************************)
(* Who may call the runtime (apps/runtime/src/auth): the identity tokens   *)
(* issued by identity-api, checked offline, and the three service tokens,  *)
(* one per scope.  Configuration comes from the environment once, when the *)
(* process starts; whatever is not configured refuses every caller.        *)
(*                                                                         *)
(* An environment is a record of variables, None where one is not set, and *)
(* the headers of a request are a function from the names of those it has. *)
(* A token is a record of its header and its claims, None where a claim is *)
(* absent or of the wrong type, with the set of its audiences; a signature *)
(* is the secret it was made with.  Which 401 code a refusal carries is    *)
(* left out.                                                               *)
(***************************************************************************)
EXTENDS Naturals

CONSTANTS
  None,
  TokenSkew  \* clockToleranceSec, in units of the model's clock

ASSUME TokenSkewOK == TokenSkew \in Nat

\* req.headers.get
header(headers, name) == IF name \in DOMAIN headers THEN headers[name] ELSE None

\* Unset or empty.
Missing(value) == value \in {None, ""}

-----------------------------------------------------------------------------

resolveAuthConfig(env) ==
  [secret   |-> env.IDENTITY_API_JWT_SECRET,
   issuer   |-> IF env.IDENTITY_API_ISSUER = None THEN "identity-api" ELSE env.IDENTITY_API_ISSUER,
   audience |-> env.IDENTITY_API_AUDIENCE]

\* /^Bearer[ ]+(.+)$/i: the credentials of that scheme alone.
bearerFrom(headers) ==
  LET h == header(headers, "authorization")
  IN  IF h # None /\ h.scheme = "bearer" THEN h.credentials ELSE None

\* now > payload.exp + skew, the other way round.
Unexpired(token, now) == token.exp # None => now <= token.exp + TokenSkew

Started(token, now) == token.nbf # None => now + TokenSkew >= token.nbf

\* Array.isArray(aud) ? aud.includes(audience) : aud === audience.
AudienceMatches(token, audience) == audience # None => audience \in token.aud

\* verifyIdentityToken: every step that may throw, in one conjunction.
verifyIdentityToken(token, config, now) ==
  /\ token.segments = 3 /\ token.decodable
  /\ token.alg = "HS256"
  /\ token.signedWith = config.secret
  /\ Unexpired(token, now)
  /\ Started(token, now)
  /\ token.iss = config.issuer
  /\ AudienceMatches(token, config.audience)
  /\ ~Missing(token.sub)
  /\ ~Missing(token.tenant)

\* makeRequireIdentity: no secret, no token and every failure of the verification
\* are a 401.
Identified(headers, env, now) ==
  LET config == resolveAuthConfig(env)
      token  == bearerFrom(headers)
  IN  /\ ~Missing(config.secret)
      /\ token # None
      /\ verifyIdentityToken(token, config, now)

-----------------------------------------------------------------------------

\* ServiceTokenScope.
Scope == {"read", "verify-write", "admin-grant"}

SCOPE_ENV ==
  [s \in Scope |-> CASE s = "read"         -> "ACTIVITIES_READ_TOKEN"
                     [] s = "verify-write" -> "ACTIVITIES_VERIFY_WRITE_TOKEN"
                     [] s = "admin-grant"  -> "ACTIVITIES_ADMIN_GRANT_TOKEN"]

resolveServiceTokenConfig(scope, env) == [scope |-> scope, secret |-> env[SCOPE_ENV[scope]]]

SERVICE_TOKEN_HEADER == "x-service-token"

\* makeRequireServiceToken: the gate of one scope knows one secret.
Served(scope, headers, env) ==
  LET config   == resolveServiceTokenConfig(scope, env)
      provided == header(headers, SERVICE_TOKEN_HEADER)
  IN  /\ ~Missing(config.secret)
      /\ ~Missing(provided)
      /\ provided = config.secret
=============================================================================
