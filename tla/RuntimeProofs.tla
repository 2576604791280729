---------------------------- MODULE RuntimeProofs ---------------------------
(***************************************************************************)
(* What Routes and BadgeGrants promise: the completions the runtime takes, *)
(* and the badges it grants without one.                                   *)
(*                                                                         *)
(* Routes, for any number of requests, identities, accounts, environments  *)
(* and restarts: an identity completes an activity once, no completion is  *)
(* stored without its authority, a client can rely on the answer it is     *)
(* given, and a page shows what it should.  BadgeGrants, for any           *)
(* snapshots, wallets, keys and environments: the badge goes to the        *)
(* wallets on the signed lists, to all of them and to nobody else.         *)
(***************************************************************************)
EXTENDS Routes, BadgeGrants, FiniteSetTheorems, FunctionTheorems, SequenceTheorems,
        WellFoundedInduction, TLAPS

\* The partition of a request's completion.
Place(r, identity) ==
  IF r.route = "complete" THEN <<identityOf(r), "act_verify", "step_verify">>
  ELSE IF r.route = "attested" THEN <<identity, "act_verify", "step_verify">>
  ELSE <<r.body.identity_id, "act_firstlight", "step_firstlight">>

\* The caller may complete what it asks for: what stays of the checks once the clock and
\* the accounts have moved on.
Granted(c) ==
  LET r == asked[c] IN
  \/ /\ r.route = "complete" /\ identityOf(r) \in Identity
     /\ bearerFrom(r.headers).signedWith = config.IDENTITY_API_JWT_SECRET
     /\ r.body.step_id = "step_verify"
  \/ /\ r.route = "attested" /\ AttestedRefused(r) = None
     /\ resolved[c] = r.body.identity_id /\ resolved[c] \in Identity /\ confirmed[c]
     /\ r.body.world \in config.ACTIVITIES_WORLD_ALLOWLIST
     /\ r.body.issued_at \in -Freshness .. MaxTime + FutureSkew
  \/ r.route = "admin" /\ AdminRefused(r) = None

\* What is asked of the store: the completion of the request, in a partition of its own,
\* which is claimed to be empty.
Requested(c) ==
  /\ request[c].event \in Events
  /\ request[c].partition = Place(asked[c], resolved[c])
  /\ request[c].event.identity = request[c].partition[1]
  /\ request[c].event.activity = request[c].partition[2]
  /\ request[c].expected = None

\* A handler is past the checks of its route, and only one that was granted its
\* completion has come to the store.
FlowInv(c) ==
  /\ waiting[c] => ~Idle(c)
  /\ Idle(c) <=> asked[c] = NoRequestAsked
  /\ phase[c] # "idle" => pc[c] = "append" /\ Requested(c)
  /\ pc[c] \in {"resolve", "grade"} =>
       asked[c].route = "attested" /\ AttestedRefused(asked[c]) = None
  /\ pc[c] \in {"record", "append"} => Granted(c)

\* An account that is the identity's while a handler waits for identity-api, or was when
\* it answered, is confirmed.
ConfirmedInv(c) ==
  LET about == asked[c].body IN
  /\ pc[c] = "resolve" /\ link[about.discord_user_id] = about.identity_id => confirmed[c]
  /\ pc[c] = "grade" /\ resolved[c] # None /\ resolved[c] = about.identity_id => confirmed[c]

\* Only a request that has come to the store has stored an event, and only then is it
\* told so.
WroteInv(c) ==
  /\ wrote[c] => pc[c] = "append"
  /\ answer[c] = "Appended" => wrote[c]

ClientInv(c) == FlowInv(c) /\ ConfirmedInv(c) /\ WroteInv(c)

Codes == {0, 200, 400, 401, 404, 409, 413, 422, 500, 503, 504}

WorldInv ==
  /\ log \in [Partition -> Seq(Events)]
  /\ clock \in 0 .. MaxTime
  /\ config \in Config /\ draining \in BOOLEAN
  /\ link \in [Discord -> Identity \union {None}]
  /\ reply.status \in Codes
  /\ acked \subseteq Partition

Domains ==
  /\ pc \in [Client -> {"idle", "resolve", "grade", "record", "append", "query"}]
  /\ asked \in [Client -> Asked \union {NoRequestAsked}]
  /\ waiting \in [Client -> BOOLEAN]
  /\ resolved \in [Client -> Identity \union {None}]
  /\ confirmed \in [Client -> BOOLEAN]
  /\ wrote \in [Client -> BOOLEAN]
  /\ due \in [Client -> SUBSET Partition]
  /\ phase \in [Client -> {"idle", "open", "refused"}]
  /\ answer \in [Client -> {"none", "Appended", "CASFailed", "DuplicateEvent"}]
  /\ DOMAIN request = Client

TypeInv == WorldInv /\ Domains /\ \A c \in Client : ClientInv(c)

\* A partition belongs to one identity and one activity, and holds at most the one
\* completion.
PartitionInv ==
  \A p \in Partition :
    /\ Len(log[p]) <= 1
    /\ \A k \in DOMAIN log[p] : log[p][k].identity = p[1] /\ log[p][k].activity = p[2]

-----------------------------------------------------------------------------
\* Numbers, lists and sorting.

\* Induction, over a set of numbers instead of a predicate: the provers instantiate a
\* set.
LEMMA Induction ==
  ASSUME NEW T, 0 \in T, \A n \in Nat : n \in T => n + 1 \in T
  PROVE  Nat \subseteq T
<1>1. SUFFICES ASSUME Nat \ T # {} PROVE FALSE
  OBVIOUS
<1>2. PICK n \in Nat \ T : \A m \in Nat \ T : <<m, n>> \notin OpToRel(<, Nat)
  BY <1>1, NatLessThanWellFounded, WFMin
<1>3. n \in Nat /\ n \notin T
  OBVIOUS
<1>4. n # 0
  BY <1>3
<1>5. n - 1 \in Nat /\ n - 1 < n /\ n - 1 + 1 = n
  BY <1>3, <1>4
<1>. HIDE DEF OpToRel
<1>6. n - 1 \in T
  <2>1. <<n - 1, n>> \in OpToRel(<, Nat)
    BY <1>3, <1>5 DEF OpToRel
  <2>. QED
    BY <2>1, <1>2, <1>5
<1>7. n - 1 + 1 \in T
  BY <1>5, <1>6
<1>. QED
  BY <1>3, <1>5, <1>7

\* A sequence, of whatever its elements are.
IsList(s) == s \in Seq(ToSet(s))

\* A function on 1 .. n is a sequence of length n.
LEMMA ListIs ==
  ASSUME NEW n \in Nat, NEW s, s = [i \in 1 .. n |-> s[i]]
  PROVE  IsList(s) /\ Len(s) = n
<1>. DEFINE T == ToSet(s)
<1>1. s \in [1 .. n -> T]
  BY DEF ToSet
<1>2. s \in Seq(T)
  BY <1>1 DEF T
<1>. QED
  BY <1>1, <1>2 DEF IsList

\* A set of numbers has a least one.
LEMMA LeastNat ==
  ASSUME NEW S \in SUBSET Nat, S # {}
  PROVE  \E n \in S : \A m \in S : n <= m
<1>1. PICK n \in S : \A m \in S : <<m, n>> \notin OpToRel(<, Nat)
  BY NatLessThanWellFounded, WFMin
<1>2. ASSUME NEW m \in S PROVE n <= m
  <2>1. n \in Nat /\ m \in Nat
    OBVIOUS
  <2>2. m < n => <<m, n>> \in OpToRel(<, Nat)
    BY <2>1 DEF OpToRel
  <2>. HIDE DEF OpToRel
  <2>3. ~(m < n)
    BY <2>2, <1>1
  <2>. QED
    BY <2>1, <2>3
<1>. QED
  BY <1>2

\* A strict order of all of S.
Orders(B, S) ==
  /\ \A x \in S : <<x, x>> \notin B
  /\ \A x, y, z \in S : <<x, y>> \in B /\ <<y, z>> \in B => <<x, z>> \in B
  /\ \A x, y \in S : x # y => <<x, y>> \in B \/ <<y, x>> \in B

\* How many come before x.
Rank(x, S, B) == Cardinality({y \in S : <<y, x>> \in B})

\* None comes before the first, and all but one before the last.
LEMMA RankBound ==
  ASSUME NEW S, IsFiniteSet(S), NEW B, Orders(B, S), NEW x \in S
  PROVE  Rank(x, S, B) \in 0 .. Cardinality(S) - 1
<1>. DEFINE U == {y \in S : <<y, x>> \in B}
<1>1. U \in SUBSET (S \ {x})
  BY DEF Orders
<1>2. IsFiniteSet(S \ {x}) /\ Cardinality(S \ {x}) = Cardinality(S) - 1
  BY FS_RemoveElement
<1>3. IsFiniteSet(U) /\ Cardinality(U) <= Cardinality(S \ {x})
  BY <1>1, <1>2, FS_Subset
<1>. HIDE DEF U
<1>4. Cardinality(U) \in Nat /\ Cardinality(S) \in Nat
  BY <1>3, FS_CardinalityType
<1>. QED
  BY <1>2, <1>3, <1>4 DEF Rank, U

\* More come before what comes later.
LEMMA RankGrows ==
  ASSUME NEW S, IsFiniteSet(S), NEW B, Orders(B, S), NEW x \in S, NEW y \in S, <<x, y>> \in B
  PROVE  Rank(x, S, B) < Rank(y, S, B)
<1>. DEFINE U == {z \in S : <<z, x>> \in B}
            V == {z \in S : <<z, y>> \in B}
<1>1. x \notin U /\ U \union {x} \in SUBSET V
  BY DEF Orders
<1>2. IsFiniteSet(U) /\ IsFiniteSet(V)
  BY FS_Subset
<1>. HIDE DEF U, V
<1>3. Cardinality(U \union {x}) = Cardinality(U) + 1
  BY <1>1, <1>2, FS_AddElement
<1>4. Cardinality(U \union {x}) <= Cardinality(V)
  BY <1>1, <1>2, FS_Subset
<1>5. Cardinality(U) \in Nat /\ Cardinality(V) \in Nat
  BY <1>2, FS_CardinalityType
<1>6. Rank(x, S, B) = Cardinality(U) /\ Rank(y, S, B) = Cardinality(V)
  BY DEF Rank, U, V
<1>. QED
  BY <1>3, <1>4, <1>5, <1>6

\* As many ranks as there are elements: each is taken.
LEMMA RanksAreTaken ==
  ASSUME NEW S, IsFiniteSet(S), NEW B, Orders(B, S), NEW n \in 1 .. Cardinality(S)
  PROVE  \E x \in S : Rank(x, S, B) = n - 1
<1>. DEFINE m == Cardinality(S)
            f == [x \in S |-> Rank(x, S, B)]
<1>1. m \in Nat /\ m # 0
  BY FS_CardinalityType
<1>2. IsFiniteSet(0 .. m - 1) /\ Cardinality(0 .. m - 1) = m
  <2>1. 0 \in Int /\ m - 1 \in Int
    BY <1>1
  <2>2. IsFiniteSet(0 .. m - 1) /\ Cardinality(0 .. m - 1) = IF 0 > m - 1 THEN 0 ELSE m - 1 - 0 + 1
    BY <2>1, FS_Interval
  <2>. QED
    BY <1>1, <2>2
<1>3. f \in [S -> 0 .. m - 1]
  BY RankBound
<1>4. \A x, y \in S : f[x] = f[y] => x = y
  <2>. SUFFICES ASSUME NEW x \in S, NEW y \in S, f[x] = f[y], x # y PROVE FALSE
    OBVIOUS
  <2>1. Rank(x, S, B) < Rank(y, S, B) \/ Rank(y, S, B) < Rank(x, S, B)
    BY RankGrows DEF Orders
  <2>2. Rank(x, S, B) \in 0 .. m - 1 /\ Rank(y, S, B) \in 0 .. m - 1
    BY RankBound
  <2>. QED
    BY <1>1, <2>1, <2>2
<1>. HIDE DEF f
<1>5. f \in Injection(S, 0 .. m - 1)
  BY <1>3, <1>4 DEF Injection, IsInjective
<1>6. f \in Surjection(S, 0 .. m - 1)
  BY <1>2, <1>5, FS_Injection
<1>7. n - 1 \in 0 .. m - 1
  BY <1>1
<1>8. PICK x \in S : f[x] = n - 1
  BY <1>6, <1>7 DEF Surjection
<1>. QED
  BY <1>8 DEF f

\* A list that is sorted by rank is one of all the elements.
LEMMA RankedIsAll ==
  ASSUME NEW S, IsFiniteSet(S), NEW B, Orders(B, S), NEW s,
         s = [n \in 1 .. Cardinality(S) |-> s[n]],
         \A n \in 1 .. Cardinality(S) : s[n] \in S /\ Rank(s[n], S, B) = n - 1
  PROVE  s \in Seq(S) /\ Len(s) = Cardinality(S) /\ ToSet(s) = S
<1>1. Cardinality(S) \in Nat
  BY FS_CardinalityType
<1>2. s \in [1 .. Cardinality(S) -> S]
  OBVIOUS
<1>3. s \in Seq(S) /\ Len(s) = Cardinality(S)
  BY <1>1, <1>2
<1>4. ASSUME NEW x \in S PROVE x \in ToSet(s)
  <2>. DEFINE n == Rank(x, S, B) + 1
  <2>1. Rank(x, S, B) \in 0 .. Cardinality(S) - 1
    BY RankBound
  <2>2. n \in 1 .. Cardinality(S) /\ n - 1 = Rank(x, S, B)
    BY <1>1, <2>1
  <2>. HIDE DEF n
  <2>3. s[n] \in S /\ Rank(s[n], S, B) = Rank(x, S, B)
    BY <2>2
  <2>4. s[n] = x
    <3>1. SUFFICES ASSUME s[n] # x PROVE FALSE
      OBVIOUS
    <3>2. Rank(s[n], S, B) < Rank(x, S, B) \/ Rank(x, S, B) < Rank(s[n], S, B)
      BY <2>3, <3>1, RankGrows DEF Orders
    <3>. QED
      BY <2>1, <2>3, <3>2
  <2>. QED
    BY <1>3, <2>2, <2>4 DEF ToSet
<1>. QED
  BY <1>2, <1>3, <1>4 DEF ToSet

\* The lesser and the greater of two numbers.
LEMMA MinOfTwo ==
  ASSUME NEW a \in Int, NEW b \in Int
  PROVE  Min({a, b}) = IF a <= b THEN a ELSE b
<1>. DEFINE m == IF a <= b THEN a ELSE b
<1>1. m \in {a, b} /\ \A y \in {a, b} : m =< y
  OBVIOUS
<1>2. \A x \in {a, b} : (\A y \in {a, b} : x =< y) => x = m
  OBVIOUS
<1>. HIDE DEF m
<1>3. Min({a, b}) \in {a, b} /\ \A y \in {a, b} : Min({a, b}) =< y
  BY <1>1 DEF Min
<1>. QED
  BY <1>2, <1>3 DEF m

LEMMA MaxOfTwo ==
  ASSUME NEW a \in Int, NEW b \in Int
  PROVE  Max({a, b}) = IF a >= b THEN a ELSE b
<1>. DEFINE m == IF a >= b THEN a ELSE b
<1>1. m \in {a, b} /\ \A y \in {a, b} : m >= y
  OBVIOUS
<1>2. \A x \in {a, b} : (\A y \in {a, b} : x >= y) => x = m
  OBVIOUS
<1>. HIDE DEF m
<1>3. Max({a, b}) \in {a, b} /\ \A y \in {a, b} : Max({a, b}) >= y
  BY <1>1 DEF Max
<1>. QED
  BY <1>2, <1>3 DEF m

-----------------------------------------------------------------------------
\* What the requests and the activities are.

LEMMA Activities ==
  /\ VERIFY_ACTIVITY.id = "act_verify" /\ FIRST_LIGHT_ACTIVITY.id = "act_firstlight"
  /\ VERIFY_ACTIVITY.steps = {Step("step_verify", "ManualCurator", "verify")}
  /\ TheVerifyStep = Step("step_verify", "ManualCurator", "verify")
  /\ TheFirstLightStep = Step("step_firstlight", "ManualCurator", "first-light")
  /\ TheVerifyStep.step_id = "step_verify" /\ TheFirstLightStep.step_id = "step_firstlight"
<1>1. VERIFY_ACTIVITY.steps = {Step("step_verify", "ManualCurator", "verify")}
  BY DEF VERIFY_ACTIVITY
<1>2. FIRST_LIGHT_ACTIVITY.steps = {Step("step_firstlight", "ManualCurator", "first-light")}
  BY DEF FIRST_LIGHT_ACTIVITY
<1>3. TheVerifyStep = Step("step_verify", "ManualCurator", "verify")
  BY <1>1 DEF TheVerifyStep, isVerifyStep, Step
<1>4. TheFirstLightStep = Step("step_firstlight", "ManualCurator", "first-light")
  BY <1>2 DEF TheFirstLightStep, isFirstLightStep, Step
<1>. QED
  BY <1>1, <1>3, <1>4 DEF VERIFY_ACTIVITY, FIRST_LIGHT_ACTIVITY, Step

\* A request that is asked has more than a route.
LEMMA AskedIsReal == \A r \in Asked : r # NoRequestAsked
<1>1. \A r : DOMAIN Arguments(r) # {"route"}
  BY DEF Arguments
<1>2. DOMAIN NoRequestAsked = {"route"}
  BY DEF NoRequestAsked
<1>. QED
  BY <1>1, <1>2 DEF Asked

\* What is decoded has the fields of the body.
LEMMA AttestationFields ==
  ASSUME NEW r, VerifyAttestation(r) # None
  PROVE  /\ VerifyAttestation(r).identity_id = r.body.identity_id
         /\ VerifyAttestation(r).discord_user_id = r.body.discord_user_id
         /\ VerifyAttestation(r).world = r.body.world
         /\ VerifyAttestation(r).issued_at = r.body.issued_at
         /\ VerifyAttestation(r).idempotency_key = r.body.idempotency_key
  BY DEF VerifyAttestation, decode, Restrict

LEMMA GrantFields ==
  ASSUME NEW r, AdminGrantRequest(r) # None
  PROVE  AdminGrantRequest(r).identity_id = r.body.identity_id
  BY DEF AdminGrantRequest, decode, Restrict

LEMMA RequestFields ==
  ASSUME NEW r, CompleteRequest(r) # None
  PROVE  CompleteRequest(r).step_id = r.body.step_id
  BY DEF CompleteRequest, decode, Restrict

\* The checks of the three routes, once they have let a request pass.
LEMMA CompleteAdmits ==
  ASSUME NEW r, CompleteRefused(r) = None
  PROVE  /\ identityOf(r) \in Identity
         /\ bearerFrom(r.headers).signedWith = config.IDENTITY_API_JWT_SECRET
         /\ r.body.step_id = "step_verify"
<1>1. /\ Identified(r.headers, config, clock)
      /\ identityOf(r) \in Identity
      /\ CompleteRequest(r) # None
      /\ Eligible(VERIFY_ACTIVITY, CompleteRequest(r).step_id, {}, <<>>, None)
  BY ResponsesOK DEF CompleteRefused, NotCompleted
<1>2. bearerFrom(r.headers).signedWith = config.IDENTITY_API_JWT_SECRET
  BY <1>1 DEF Identified, verifyIdentityToken, resolveAuthConfig
<1>3. PICK step \in VERIFY_ACTIVITY.steps : step.step_id = CompleteRequest(r).step_id
  BY <1>1 DEF Eligible, resolveStep
<1>4. step.step_id = "step_verify"
  BY <1>3, Activities DEF Step
<1>. QED
  BY <1>1, <1>2, <1>3, <1>4, RequestFields

LEMMA AttestedAdmits ==
  ASSUME NEW r, AttestedRefused(r) = None
  PROVE  /\ Served("verify-write", r.headers, config)
         /\ VerifyAttestation(r) # None
  BY ResponsesOK DEF AttestedRefused, NotCompleted

LEMMA AdminAdmits ==
  ASSUME NEW r, AdminRefused(r) = None
  PROVE  /\ Served("admin-grant", r.headers, config)
         /\ r.body.identity_id \in Identity
<1>1. /\ Served("admin-grant", r.headers, config)
      /\ AdminGrantRequest(r) # None
      /\ AdminGrantRequest(r).identity_id \in Identity
  BY ResponsesOK DEF AdminRefused, NotCompleted
<1>. QED
  BY <1>1, GrantFields

LEMMA AttestationAdmits ==
  ASSUME NEW c \in Client, WorldInv, Domains, asked[c] \in Asked, asked[c].route = "attested",
         VerifyAttestation(asked[c]) # None, AttestationRefused(c) = None
  PROVE  /\ resolved[c] = asked[c].body.identity_id /\ resolved[c] \in Identity
         /\ resolved[c] # None
         /\ asked[c].body.world \in config.ACTIVITIES_WORLD_ALLOWLIST
         /\ asked[c].body.issued_at \in -Freshness .. MaxTime + FutureSkew
<1>1. /\ AttestationApproved(VerifyAttestation(asked[c]), resolved[c], TheVerifyStep,
                             worldAllowlist(config), clock)
      /\ resolved[c] \in Identity
  BY ResponsesOK DEF AttestationRefused, NotCompleted
<1>2. /\ resolved[c] = asked[c].body.identity_id /\ resolved[c] # None
      /\ asked[c].body.world \in worldAllowlist(config)
      /\ asked[c].body.issued_at # None
      /\ asked[c].body.issued_at <= clock + FutureSkew
      /\ clock <= asked[c].body.issued_at + Freshness
  BY <1>1, AttestationFields DEF AttestationApproved, Correlated, Fresh
<1>3. asked[c].body.issued_at \in Int
  BY <1>2, RequestsOK
<1>4. asked[c].body.world \in config.ACTIVITIES_WORLD_ALLOWLIST
  BY <1>2 DEF worldAllowlist
<1>5. clock \in Int /\ 0 <= clock /\ clock <= MaxTime /\ MaxTime \in Nat
      /\ Freshness \in Nat /\ FutureSkew \in Nat
  BY RoutesOK, WindowsOK DEF WorldInv
<1>. QED
  BY <1>1, <1>2, <1>3, <1>4, <1>5

\* An event is its own id.
LEMMA EventIsItsId ==
  ASSUME NEW activity, NEW identity, NEW ts, NEW nonce \in Nonces
  PROVE  CompletionEvent(activity, identity, ts, nonce) =
           [kind |-> "activity-completed", activity |-> activity.id, identity |-> identity,
            ts |-> ts, nonce |-> nonce]
<1>. DEFINE event == [kind |-> "activity-completed", activity |-> activity.id,
                      identity |-> identity, ts |-> ts, nonce |-> nonce]
<1>1. event.nonce # None
  BY RequestsOK
<1>2. DOMAIN event \ {"event_id"} = DOMAIN event
  OBVIOUS
<1>3. extractPreimage(event) = [x \in DOMAIN event |-> event[x]]
  BY <1>2 DEF extractPreimage, Restrict
<1>4. [x \in DOMAIN event |-> event[x]] = event
  OBVIOUS
<1>. QED
  BY <1>1, <1>3, <1>4 DEF CompletionEvent, computeEventId

LEMMA EventTyped ==
  ASSUME NEW activity, NEW identity \in Identity, NEW nonce \in Nonces,
         NEW ts \in -Freshness .. MaxTime + FutureSkew, NEW p \in Partition, p[2] = activity.id
  PROVE  LET e == CompletionEvent(activity, identity, ts, nonce)
         IN  e \in Events /\ e.identity = identity /\ e.activity = activity.id
  BY EventIsItsId DEF Events

LEMMA ClockInRange ==
  WorldInv => clock \in -Freshness .. MaxTime + FutureSkew
  BY RoutesOK, WindowsOK DEF WorldInv

\* A granted completion has a partition, and its event is one of that partition.
LEMMA CompletionFits ==
  ASSUME WorldInv, NEW c \in Client, asked[c] \in Asked, Granted(c)
  PROVE  /\ Place(asked[c], resolved[c]) \in Partition
         /\ Completion(c).partition = Place(asked[c], resolved[c])
         /\ Completion(c).event \in Events
         /\ Completion(c).event.identity = Completion(c).partition[1]
         /\ Completion(c).event.activity = Completion(c).partition[2]
<1>. DEFINE r == asked[c]
<1>1. CASE r.route = "complete"
  <2>1. identityOf(r) \in Identity /\ r.body.step_id = "step_verify"
    BY <1>1 DEF Granted
  <2>. DEFINE p == <<identityOf(r), "act_verify", "step_verify">>
  <2>2. p \in Partition /\ <<"verify", p>> \in Nonces
    BY <2>1, RoutesOK, Activities DEF Nonces
  <2>3. resolveStep(VERIFY_ACTIVITY, r.body.step_id) = {Step("step_verify", "ManualCurator", "verify")}
    BY <2>1, Activities DEF resolveStep, Step
  <2>4. encodeCompositePartition(identityOf(r), VERIFY_ACTIVITY,
                                 Step("step_verify", "ManualCurator", "verify")) = p
    BY Activities DEF encodeCompositePartition, Step
  <2>5. (CHOOSE s \in {Step("step_verify", "ManualCurator", "verify")} : TRUE)
          = Step("step_verify", "ManualCurator", "verify")
    OBVIOUS
  <2>6. /\ Completion(c).partition = p
        /\ Completion(c).event = CompletionEvent(VERIFY_ACTIVITY, identityOf(r), clock, <<"verify", p>>)
    BY <1>1, <2>3, <2>4, <2>5 DEF Completion
  <2>7. p[1] = identityOf(r) /\ p[2] = VERIFY_ACTIVITY.id
    BY Activities
  <2>8. LET e == CompletionEvent(VERIFY_ACTIVITY, identityOf(r), clock, <<"verify", p>>)
        IN  e \in Events /\ e.identity = identityOf(r) /\ e.activity = VERIFY_ACTIVITY.id
    <3>. HIDE DEF p
    <3>. QED
      BY <2>1, <2>2, <2>7, EventTyped, ClockInRange
  <2>. QED
    BY <1>1, <2>2, <2>6, <2>7, <2>8 DEF Place
<1>2. CASE r.route = "attested"
  <2>1. /\ resolved[c] \in Identity /\ VerifyAttestation(r) # None
        /\ r.body.issued_at \in -Freshness .. MaxTime + FutureSkew
    BY <1>2, AttestedAdmits DEF Granted
  <2>. DEFINE p == <<resolved[c], "act_verify", "step_verify">>
  <2>2. p \in Partition /\ r.body.idempotency_key \in Nonces
    BY <1>2, <2>1, RoutesOK, Activities DEF Nonces
  <2>3. encodeCompositePartition(resolved[c], VERIFY_ACTIVITY, TheVerifyStep) = p
    BY Activities DEF encodeCompositePartition
  <2>4. /\ Completion(c).partition = p
        /\ Completion(c).event = CompletionEvent(VERIFY_ACTIVITY, resolved[c], r.body.issued_at,
                                                 r.body.idempotency_key)
    BY <1>2, <2>3 DEF Completion
  <2>5. p[1] = resolved[c] /\ p[2] = VERIFY_ACTIVITY.id
    BY Activities
  <2>6. LET e == CompletionEvent(VERIFY_ACTIVITY, resolved[c], r.body.issued_at,
                                 r.body.idempotency_key)
        IN  e \in Events /\ e.identity = resolved[c] /\ e.activity = VERIFY_ACTIVITY.id
    <3>. HIDE DEF p
    <3>. QED
      BY <2>1, <2>2, <2>5, EventTyped
  <2>. QED
    BY <1>2, <2>2, <2>4, <2>5, <2>6 DEF Place
<1>3. CASE r.route = "admin"
  <2>1. r.body.identity_id \in Identity
    BY <1>3, AdminAdmits DEF Granted
  <2>. DEFINE i == r.body.identity_id
              p == <<i, "act_firstlight", "step_firstlight">>
  <2>2. p \in Partition /\ <<"firstlight", i>> \in Nonces
    BY <2>1, RoutesOK, Activities DEF Nonces
  <2>3. encodeCompositePartition(i, FIRST_LIGHT_ACTIVITY, TheFirstLightStep) = p
    BY Activities DEF encodeCompositePartition
  <2>4. /\ Completion(c).partition = p
        /\ Completion(c).event = CompletionEvent(FIRST_LIGHT_ACTIVITY, i, clock, <<"firstlight", i>>)
    BY <1>3, <2>3 DEF Completion
  <2>5. p[1] = i /\ p[2] = FIRST_LIGHT_ACTIVITY.id
    BY Activities
  <2>6. LET e == CompletionEvent(FIRST_LIGHT_ACTIVITY, i, clock, <<"firstlight", i>>)
        IN  e \in Events /\ e.identity = i /\ e.activity = FIRST_LIGHT_ACTIVITY.id
    <3>. HIDE DEF p
    <3>. QED
      BY <2>1, <2>2, <2>5, EventTyped, ClockInRange
  <2>. QED
    BY <1>3, <2>2, <2>4, <2>5, <2>6 DEF Place
<1>. QED
  BY <1>1, <1>2, <1>3 DEF Granted

-----------------------------------------------------------------------------
\* What a step leaves of a request.

\* Another request, and one that the step has nothing to do with.
Untouched(c) ==
  /\ pc'[c] = pc[c] /\ asked'[c] = asked[c] /\ resolved'[c] = resolved[c]
  /\ (waiting'[c] => waiting[c]) /\ (confirmed[c] => confirmed'[c])
  /\ wrote'[c] = wrote[c]
  /\ phase'[c] = phase[c] /\ request'[c] = request[c] /\ answer'[c] = answer[c]

LEMMA KeptGranted ==
  ASSUME NEW c \in Client, Granted(c), config' = config,
         asked'[c] = asked[c], resolved'[c] = resolved[c], confirmed[c] => confirmed'[c]
  PROVE  Granted(c)'
  BY DEF Granted, AttestedRefused, AdminRefused

LEMMA KeptFlow ==
  ASSUME NEW c \in Client, FlowInv(c), WroteInv(c), Untouched(c), config' = config
  PROVE  FlowInv(c)' /\ WroteInv(c)'
<1>1. pc[c] \in {"record", "append"} => Granted(c)'
  BY KeptGranted DEF Untouched, FlowInv
<1>2. AttestedRefused(asked[c]) = None => AttestedRefused(asked[c])' = None
  BY DEF Untouched, AttestedRefused
<1>3. Requested(c) => Requested(c)'
  BY DEF Untouched, Requested, Place
<1>. QED
  BY <1>1, <1>2, <1>3 DEF Untouched, FlowInv, WroteInv, Idle

LEMMA KeptClient ==
  ASSUME NEW c \in Client, ClientInv(c), Untouched(c), config' = config, link' = link
  PROVE  ClientInv(c)'
<1>1. ConfirmedInv(c)'
  BY DEF ClientInv, ConfirmedInv, Untouched
<1>. QED
  BY <1>1, KeptFlow DEF ClientInv

\* A request that is over asks for nothing.
LEMMA OverClient ==
  ASSUME NEW c \in Client, pc'[c] = "idle", asked'[c] = NoRequestAsked, waiting'[c] = FALSE,
         wrote'[c] = FALSE, phase'[c] = "idle", answer'[c] # "Appended"
  PROVE  ClientInv(c)'
  BY DEF ClientInv, FlowInv, ConfirmedInv, WroteInv, Idle

LEMMA Replied ==
  ASSUME TypeInv, NEW c \in Client, NEW response, response.status \in Codes, Reply(c, response),
         UNCHANGED <<log, request, phase, world>>, phase[c] = "idle",
         acked' \in SUBSET Partition,
         \/ answer' = [answer EXCEPT ![c] = "none"]
         \/ answer' = answer /\ answer[c] # "Appended"
  PROVE  TypeInv'
<1>. USE DEF TypeInv
<1>1. /\ config' = config /\ link' = link /\ clock' = clock /\ draining' = draining
      /\ log' = log /\ request' = request /\ phase' = phase
  BY DEF world
<1>2. reply'.status \in Codes
  BY DEF Reply, NoReply, Status, Codes
<1>3. WorldInv'
  BY <1>1, <1>2 DEF WorldInv
<1>4. Domains'
  BY <1>1 DEF Reply, Domains
<1>5. ClientInv(c)'
  <2>1. pc'[c] = "idle" /\ asked'[c] = NoRequestAsked /\ waiting'[c] = FALSE /\ wrote'[c] = FALSE
    BY DEF Reply, Domains
  <2>2. phase'[c] = "idle" /\ answer'[c] # "Appended"
    BY <1>1 DEF Domains
  <2>. QED
    BY <2>1, <2>2, OverClient
<1>6. ASSUME NEW d \in Client, d # c PROVE ClientInv(d)'
  <2>1. Untouched(d)
    BY <1>1, <1>6 DEF Reply, Domains, Untouched
  <2>. QED
    BY <1>1, <2>1, KeptClient
<1>. QED
  BY <1>3, <1>4, <1>5, <1>6

LEMMA RefusalStatus ==
  ASSUME NEW r
  PROVE  /\ CompleteRefused(r) # None => CompleteRefused(r).status \in Codes
         /\ AttestedRefused(r) # None => AttestedRefused(r).status \in Codes
         /\ AdminRefused(r) # None => AdminRefused(r).status \in Codes
         /\ ReadRefused(r) # None => ReadRefused(r).status \in Codes
         /\ ReadReply(r).status \in Codes
<1>1. \A code \in Codes : Status(code).status \in Codes
  BY DEF Status
<1>2. NotCompleted.status \in Codes
  BY DEF NotCompleted, Status, Codes
<1>3. degraded.status \in Codes /\ degradedRecord.status \in Codes /\ Failed.status \in Codes
  BY DEF degraded, degradedRecord, Failed, Status, Codes
<1>4. CompleteRefused(r) # None => CompleteRefused(r).status \in Codes
  BY <1>1, <1>2 DEF CompleteRefused, Codes
<1>5. AttestedRefused(r) # None => AttestedRefused(r).status \in Codes
  BY <1>1, <1>2 DEF AttestedRefused, Codes
<1>6. AdminRefused(r) # None => AdminRefused(r).status \in Codes
  BY <1>1, <1>2 DEF AdminRefused, Codes
<1>7. ReadRefused(r) # None => ReadRefused(r).status \in Codes
  BY <1>1, <1>3 DEF ReadRefused, Codes
<1>8. ReadReply(r).status \in Codes
  BY DEF ReadReply, Status, Codes
<1>. QED
  BY <1>4, <1>5, <1>6, <1>7, <1>8

LEMMA FrameworkStatus ==
  ASSUME NEW r
  PROVE  handleRequest(r) \in Codes
  BY DEF handleRequest, asHyperError, HyperError, Codes

\* What an append comes to: its event is acknowledged, or the client may try again.
LEMMA WriteStatus ==
  ASSUME NEW a \in {"none", "Appended", "CASFailed", "DuplicateEvent"}
  PROVE  /\ a = "Appended" => runWrite(a).completed /\ runWrite(a).status = 200
         /\ a # "Appended" => ~runWrite(a).completed /\ runWrite(a).status = 503
<1>1. \A cause : statusForError("DeferredRecordingFailed", cause) = 503
  BY DEF statusForError, HTTP_FOR_TAG
<1>2. CASE a = "Appended"
  BY <1>2 DEF runWrite, Status
<1>3. CASE a # "Appended"
  <2>1. PICK cause : runWrite(a) = [Status(503) EXCEPT !.cause = cause]
    BY <1>1, <1>3 DEF runWrite
  <2>. QED
    BY <1>3, <2>1 DEF Status
<1>. QED
  BY <1>2, <1>3

-----------------------------------------------------------------------------
\* Each action keeps the invariant.

LEMMA NothingStored ==
  ASSUME NEW c \in Client, ClientInv(c), pc[c] # "append"
  PROVE  answer[c] # "Appended" /\ wrote[c] # TRUE /\ phase[c] = "idle"
  BY DEF ClientInv, WroteInv, FlowInv

LEMMA TurnTyped ==
  ASSUME TypeInv, NEW c \in Client, NEW r \in Sent, Turn(c, r)
  PROVE  TypeInv'
<1>1. Status(handleRequest(r)).status \in Codes
  BY FrameworkStatus DEF Status
<1>2. answer[c] # "Appended" /\ phase[c] = "idle"
  BY NothingStored DEF TypeInv, Turn, Idle
<1>3. /\ Reply(c, Status(handleRequest(r)))
      /\ UNCHANGED <<log, request, phase, answer, world, acked>>
  BY DEF Turn, store
<1>. QED
  BY <1>1, <1>2, <1>3, Replied DEF TypeInv, WorldInv

\* A request that is let in waits for identity-api, for the store or for a page.
LEMMA ReceiveTyped ==
  ASSUME TypeInv, NEW c \in Client, NEW r \in Asked, NEW refused,
         NEW step \in {"record", "resolve", "query"}, Receive(c, r, refused, step),
         refused # None => refused.status \in Codes,
         refused = None /\ step = "resolve" => r.route = "attested" /\ AttestedRefused(r) = None,
         refused = None /\ step = "record" =>
           \/ /\ r.route = "complete" /\ identityOf(r) \in Identity
              /\ bearerFrom(r.headers).signedWith = config.IDENTITY_API_JWT_SECRET
              /\ r.body.step_id = "step_verify"
           \/ r.route = "admin" /\ AdminRefused(r) = None
  PROVE  TypeInv'
<1>1. pc[c] = "idle" /\ UNCHANGED <<log, request, phase, answer, world, acked>>
  BY DEF Receive, Idle, store
<1>2. answer[c] # "Appended" /\ phase[c] = "idle" /\ wrote[c] # TRUE
  BY <1>1, NothingStored DEF TypeInv
<1>3. CASE refused # None
  <2>1. Reply(c, refused)
    BY <1>3 DEF Receive
  <2>. QED
    BY <1>1, <1>2, <1>3, <2>1, Replied DEF TypeInv, WorldInv
<1>4. CASE refused = None
  <2>1. /\ pc' = [pc EXCEPT ![c] = step]
        /\ waiting' = [waiting EXCEPT ![c] = TRUE]
        /\ asked' = [asked EXCEPT ![c] = r]
        /\ confirmed' = [confirmed EXCEPT ![c] =
             r.route = "attested" /\ link[r.body.discord_user_id] = r.body.identity_id]
        /\ due' = [due EXCEPT ![c] =
             IF step = "query" THEN {p \in acked : About(r, p)} ELSE {}]
        /\ reply' = NoReply
        /\ resolved' = resolved /\ wrote' = wrote
    BY <1>4 DEF Receive, Silent
  <2>2. /\ config' = config /\ link' = link /\ clock' = clock /\ draining' = draining
        /\ log' = log /\ request' = request /\ phase' = phase /\ answer' = answer /\ acked' = acked
    BY <1>1 DEF world
  <2>3. WorldInv'
    BY <2>1, <2>2 DEF TypeInv, WorldInv, NoReply, Status, Codes
  <2>4. Domains'
    BY <2>1, <2>2 DEF TypeInv, WorldInv, Domains
  <2>5. ClientInv(c)'
    <3>1. /\ pc'[c] = step /\ asked'[c] = r /\ phase'[c] = "idle" /\ wrote'[c] # TRUE
          /\ answer'[c] # "Appended"
      BY <1>2, <2>1, <2>2 DEF TypeInv, Domains
    <3>2. r # NoRequestAsked
      BY AskedIsReal
    <3>3. step = "record" => Granted(c)'
      BY <1>4, <2>2, <3>1 DEF Granted, AdminRefused
    <3>4. step = "resolve" => r.route = "attested" /\ AttestedRefused(asked[c])' = None
      BY <1>4, <2>2, <3>1 DEF AttestedRefused
    <3>5. FlowInv(c)'
      BY <3>1, <3>2, <3>3, <3>4 DEF FlowInv, Idle
    <3>6. step = "resolve" /\ link[r.body.discord_user_id] = r.body.identity_id => confirmed'[c]
      BY <2>1, <3>4 DEF TypeInv, Domains
    <3>7. ConfirmedInv(c)'
      BY <2>2, <3>1, <3>6 DEF ConfirmedInv
    <3>. QED
      BY <3>1, <3>5, <3>7 DEF ClientInv, WroteInv
  <2>6. ASSUME NEW d \in Client, d # c PROVE ClientInv(d)'
    <3>1. Untouched(d)
      BY <2>1, <2>2, <2>6 DEF TypeInv, Domains, Untouched
    <3>. QED
      BY <2>2, <3>1, KeptClient DEF TypeInv
  <2>. QED
    BY <2>3, <2>4, <2>5, <2>6 DEF TypeInv
<1>. QED
  BY <1>3, <1>4

LEMMA ReceivesTyped ==
  ASSUME TypeInv, NEW c \in Client, NEW r \in Asked,
         ReceiveComplete(c, r) \/ ReceiveAttested(c, r) \/ ReceiveAdmin(c, r) \/ ReceiveRead(c, r)
  PROVE  TypeInv'
<1>1. CASE ReceiveComplete(c, r)
  BY <1>1, ReceiveTyped, RefusalStatus, CompleteAdmits DEF ReceiveComplete
<1>2. CASE ReceiveAttested(c, r)
  BY <1>2, ReceiveTyped, RefusalStatus DEF ReceiveAttested
<1>3. CASE ReceiveAdmin(c, r)
  BY <1>3, ReceiveTyped, RefusalStatus DEF ReceiveAdmin
<1>4. CASE ReceiveRead(c, r)
  BY <1>4, ReceiveTyped, RefusalStatus DEF ReceiveRead
<1>. QED
  BY <1>1, <1>2, <1>3, <1>4

\* The client is not waited for any longer.
LEMMA LeftTyped ==
  ASSUME TypeInv, NEW c \in Client, TimedOut(c) \/ Hangup(c)
  PROVE  TypeInv'
<1>1. /\ waiting' = [waiting EXCEPT ![c] = FALSE]
      /\ reply' = Status(504) \/ reply' = NoReply
      /\ UNCHANGED <<store, world, asked, resolved, confirmed, wrote, due, pc, acked>>
  BY DEF TimedOut, Hangup, Silent
<1>2. WorldInv'
  BY <1>1 DEF TypeInv, WorldInv, store, world, NoReply, Status, Codes
<1>3. Domains'
  BY <1>1 DEF TypeInv, Domains, store
<1>4. \A d \in Client : Untouched(d)
  BY <1>1 DEF TypeInv, Domains, Untouched, store
<1>. QED
  BY <1>1, <1>2, <1>3, <1>4, KeptClient DEF TypeInv, world

LEMMA ResolvedTyped ==
  ASSUME TypeInv, NEW c \in Client, ResolveAnswered(c) \/ ResolveFailed(c)
  PROVE  TypeInv'
<1>. DEFINE about == asked[c].body
<1>1. /\ pc[c] = "resolve" /\ ClientInv(c)
  BY DEF ResolveAnswered, ResolveFailed, ResolvedTo, TypeInv
<1>2. /\ asked[c] \in Asked /\ asked[c].route = "attested" /\ AttestedRefused(asked[c]) = None
      /\ asked[c] # NoRequestAsked
  BY <1>1 DEF ClientInv, FlowInv, TypeInv, Domains, Idle
<1>3. about.discord_user_id \in Discord
  BY <1>2, AttestedAdmits, RequestsOK
<1>4. PICK identity \in Identity \union {None} :
        ResolvedTo(c, identity) /\ identity \in {None, link[about.discord_user_id]}
  BY <1>3 DEF ResolveAnswered, ResolveFailed, TypeInv, WorldInv
<1>5. /\ pc' = [pc EXCEPT ![c] = "grade"] /\ resolved' = [resolved EXCEPT ![c] = identity]
      /\ reply' = NoReply
      /\ UNCHANGED <<store, world, asked, waiting, confirmed, wrote, due, acked>>
  BY <1>4 DEF ResolvedTo, Silent
<1>6. WorldInv'
  BY <1>5 DEF TypeInv, WorldInv, store, world, NoReply, Status, Codes
<1>7. Domains'
  BY <1>5 DEF TypeInv, Domains, store
<1>8. ClientInv(c)'
  <2>1. /\ pc'[c] = "grade" /\ resolved'[c] = identity /\ asked'[c] = asked[c]
        /\ wrote'[c] = wrote[c] /\ confirmed'[c] = confirmed[c] /\ phase'[c] = phase[c]
        /\ answer'[c] = answer[c] /\ config' = config
    BY <1>5 DEF TypeInv, Domains, store, world
  <2>2. AttestedRefused(asked[c])' = None
    BY <1>2, <2>1 DEF AttestedRefused
  <2>3. FlowInv(c)'
    BY <1>1, <1>2, <2>1, <2>2, NothingStored DEF FlowInv, Idle
  <2>4. ConfirmedInv(c)'
    BY <1>1, <1>4, <2>1 DEF ClientInv, ConfirmedInv
  <2>5. WroteInv(c)'
    BY <1>1, <2>1, NothingStored DEF WroteInv, ClientInv
  <2>. QED
    BY <2>3, <2>4, <2>5 DEF ClientInv
<1>9. ASSUME NEW d \in Client, d # c PROVE ClientInv(d)'
  <2>1. Untouched(d) /\ config' = config /\ link' = link
    BY <1>5, <1>9 DEF TypeInv, Domains, Untouched, store, world
  <2>. QED
    BY <2>1, KeptClient DEF TypeInv
<1>. QED
  BY <1>6, <1>7, <1>8, <1>9 DEF TypeInv

\* An attestation is granted for the identity that identity-api named, which was confirmed.
LEMMA GradeTyped ==
  ASSUME TypeInv, NEW c \in Client, Grade(c)
  PROVE  TypeInv'
<1>1. /\ pc[c] = "grade" /\ ClientInv(c)
      /\ UNCHANGED <<log, request, phase, answer, world, acked>>
  BY DEF Grade, TypeInv, store
<1>2. /\ asked[c] \in Asked /\ asked[c].route = "attested" /\ AttestedRefused(asked[c]) = None
      /\ asked[c] # NoRequestAsked /\ VerifyAttestation(asked[c]) # None
  BY <1>1, AttestedAdmits DEF ClientInv, FlowInv, TypeInv, Domains, Idle
<1>3. answer[c] # "Appended" /\ phase[c] = "idle" /\ wrote[c] # TRUE
  BY <1>1, NothingStored
<1>4. CASE AttestationRefused(c) # None
  <2>1. Reply(c, AttestationRefused(c))
    BY <1>4 DEF Grade
  <2>2. AttestationRefused(c).status \in Codes
    BY <1>4 DEF AttestationRefused, NotCompleted, Status, Codes
  <2>. QED
    BY <1>1, <1>3, <2>1, <2>2, Replied DEF TypeInv, WorldInv
<1>5. CASE AttestationRefused(c) = None
  <2>1. /\ pc' = [pc EXCEPT ![c] = "record"] /\ reply' = NoReply
        /\ UNCHANGED <<asked, waiting, resolved, confirmed, wrote, due>>
    BY <1>5 DEF Grade, Silent, call
  <2>2. /\ config' = config /\ link' = link /\ clock' = clock /\ draining' = draining
        /\ log' = log /\ request' = request /\ phase' = phase /\ answer' = answer /\ acked' = acked
    BY <1>1 DEF world
  <2>3. WorldInv'
    BY <2>1, <2>2 DEF TypeInv, WorldInv, NoReply, Status, Codes
  <2>4. Domains'
    BY <2>1, <2>2 DEF TypeInv, Domains
  <2>5. ClientInv(c)'
    <3>1. /\ resolved[c] = asked[c].body.identity_id /\ resolved[c] \in Identity
          /\ resolved[c] # None
          /\ asked[c].body.world \in config.ACTIVITIES_WORLD_ALLOWLIST
          /\ asked[c].body.issued_at \in -Freshness .. MaxTime + FutureSkew
      BY <1>2, <1>5, AttestationAdmits DEF TypeInv
    <3>2. confirmed[c]
      BY <1>1, <3>1 DEF ClientInv, ConfirmedInv
    <3>3. Granted(c)
      BY <1>2, <3>1, <3>2 DEF Granted
    <3>4. Granted(c)'
      BY <2>1, <2>2, <3>3, KeptGranted
    <3>5. pc'[c] = "record"
      BY <2>1 DEF TypeInv, Domains
    <3>. QED
      BY <1>2, <1>3, <2>1, <2>2, <3>4, <3>5 DEF ClientInv, FlowInv, ConfirmedInv, WroteInv, Idle
  <2>6. ASSUME NEW d \in Client, d # c PROVE ClientInv(d)'
    <3>1. Untouched(d)
      BY <2>1, <2>2, <2>6 DEF TypeInv, Domains, Untouched
    <3>. QED
      BY <2>2, <3>1, KeptClient DEF TypeInv
  <2>. QED
    BY <2>3, <2>4, <2>5, <2>6 DEF TypeInv
<1>. QED
  BY <1>4, <1>5

\* What is submitted is the completion that was granted, unless the pool is closed.
LEMMA RecordTyped ==
  ASSUME TypeInv, NEW c \in Client, Record(c)
  PROVE  TypeInv'
<1>1. /\ pc[c] = "record" /\ ClientInv(c) /\ pc' = [pc EXCEPT ![c] = "append"]
      /\ reply' = NoReply
      /\ UNCHANGED <<world, asked, waiting, resolved, confirmed, wrote, due, acked>>
  BY DEF Record, TypeInv, Silent, call
<1>2. asked[c] \in Asked /\ asked[c] # NoRequestAsked /\ Granted(c)
  BY <1>1 DEF ClientInv, FlowInv, TypeInv, Domains, Idle
<1>3. answer[c] # "Appended" /\ phase[c] = "idle" /\ wrote[c] # TRUE
  BY <1>1, NothingStored
<1>. DEFINE asks == [event |-> Completion(c).event, partition |-> Completion(c).partition,
                     expected |-> ExpectedTip(Completion(c).partition)]
<1>4. \/ /\ answer' = [answer EXCEPT ![c] = "none"] /\ request' = request /\ phase' = phase
      \/ /\ phase' = [phase EXCEPT ![c] = "open"] /\ request' = [request EXCEPT ![c] = asks]
         /\ answer' = answer
  BY DEF Record, Reject, Submit
<1>5. log' = log
  BY DEF Record, Reject, Submit
<1>6. WorldInv'
  BY <1>1, <1>5 DEF TypeInv, WorldInv, world, NoReply, Status, Codes
<1>7. Domains'
  BY <1>1, <1>4 DEF TypeInv, Domains
<1>8. ClientInv(c)'
  <2>1. /\ pc'[c] = "append" /\ asked'[c] = asked[c] /\ resolved'[c] = resolved[c]
        /\ confirmed'[c] = confirmed[c] /\ wrote'[c] = wrote[c] /\ config' = config
    BY <1>1 DEF TypeInv, Domains, world
  <2>2. Granted(c)'
    BY <1>2, <2>1, KeptGranted
  <2>3. answer'[c] # "Appended"
    BY <1>3, <1>4 DEF TypeInv, Domains
  <2>4. phase'[c] # "idle" => request'[c] = asks
    BY <1>3, <1>4 DEF TypeInv, Domains
  <2>5. phase'[c] # "idle" => Requested(c)'
    <3>1. /\ Completion(c).partition = Place(asked[c], resolved[c])
          /\ Completion(c).event \in Events
          /\ Completion(c).event.identity = Completion(c).partition[1]
          /\ Completion(c).event.activity = Completion(c).partition[2]
      BY <1>2, CompletionFits DEF TypeInv
    <3>2. Place(asked[c], resolved[c])' = Place(asked[c], resolved[c])
      BY <2>1 DEF Place
    <3>. QED
      BY <2>4, <3>1, <3>2 DEF Requested, ExpectedTip
  <2>. QED
    BY <1>2, <1>3, <2>1, <2>2, <2>3, <2>5 DEF ClientInv, FlowInv, ConfirmedInv, WroteInv, Idle
<1>9. ASSUME NEW d \in Client, d # c PROVE ClientInv(d)'
  <2>1. Untouched(d) /\ config' = config /\ link' = link
    BY <1>1, <1>4, <1>9 DEF TypeInv, Domains, Untouched, world
  <2>. QED
    BY <2>1, KeptClient DEF TypeInv
<1>. QED
  BY <1>6, <1>7, <1>8, <1>9 DEF TypeInv

LEMMA CompletionAnsweredTyped ==
  ASSUME TypeInv, NEW c \in Client, CompletionAnswered(c)
  PROVE  TypeInv'
<1>1. /\ pc[c] = "append" /\ phase[c] = "idle" /\ Reply(c, runWrite(answer[c]))
      /\ answer' = [answer EXCEPT ![c] = "none"]
      /\ UNCHANGED <<log, request, phase, world>>
  BY DEF CompletionAnswered
<1>2. runWrite(answer[c]).status \in Codes
  BY WriteStatus DEF TypeInv, Domains, Codes
<1>3. acked' \subseteq Partition
  <2>1. asked[c] \in Asked /\ Granted(c)
    BY <1>1 DEF ClientInv, FlowInv, TypeInv, Domains, Idle
  <2>2. Completion(c).partition \in Partition
    BY <2>1, CompletionFits DEF TypeInv
  <2>. QED
    BY <2>2 DEF CompletionAnswered, TypeInv, WorldInv
<1>. QED
  BY <1>1, <1>2, <1>3, Replied

LEMMA QueryTyped ==
  ASSUME TypeInv, NEW c \in Client, QueryAnswered(c) \/ QueryFails(c)
  PROVE  TypeInv'
<1>1. /\ pc[c] = "query"
      /\ Reply(c, ReadReply(asked[c])) \/ Reply(c, Failed)
      /\ UNCHANGED <<log, request, phase, answer, world, acked>>
  BY DEF QueryAnswered, QueryFails, store
<1>2. answer[c] # "Appended" /\ phase[c] = "idle"
  BY <1>1, NothingStored DEF TypeInv
<1>3. ReadReply(asked[c]).status \in Codes /\ Failed.status \in Codes
  BY RefusalStatus DEF Failed, Status, Codes
<1>. QED
  BY <1>1, <1>2, <1>3, Replied DEF TypeInv, WorldInv

\* What the store is asked of it can do.
LEMMA RequestOf ==
  ASSUME TypeInv, NEW c \in Client, phase[c] # "idle"
  PROVE  /\ pc[c] = "append" /\ Requested(c) /\ Granted(c) /\ asked[c] \in Asked
         /\ request[c].partition \in Partition /\ request[c].event \in Events
<1>1. pc[c] = "append" /\ Requested(c) /\ Granted(c) /\ asked[c] \in Asked
  BY DEF TypeInv, ClientInv, FlowInv, Domains, Idle
<1>. QED
  BY <1>1, CompletionFits DEF Requested, TypeInv

\* The effect of an append: the one event of a partition that was empty.
LEMMA Applied ==
  ASSUME TypeInv, NEW c \in Client, Apply(c)
  PROVE  /\ log[request[c].partition] = <<>>
         /\ log' = [log EXCEPT ![request[c].partition] = <<request[c].event>>]
         /\ log' \in [Partition -> Seq(Events)]
<1>. DEFINE p == request[c].partition
            e == request[c].event
<1>1. /\ p \in Partition /\ e \in Events /\ request[c].expected = None
  BY RequestOf DEF Apply, Requested
<1>2. TipOf(p) = None /\ log' = [log EXCEPT ![p] = Append(log[p], e)]
  BY <1>1 DEF Apply
<1>3. log[p] \in Seq(Events) /\ log \in [Partition -> Seq(Events)]
  BY <1>1 DEF TypeInv, WorldInv
<1>4. log[p] = <<>>
  <2>1. SUFFICES ASSUME log[p] # <<>> PROVE FALSE
    OBVIOUS
  <2>2. log[p][Len(log[p])] = None
    BY <1>2, <2>1 DEF TipOf
  <2>3. Len(log[p]) \in 1 .. Len(log[p])
    BY <1>3, <2>1
  <2>4. log[p][Len(log[p])] \in Events
    BY <1>3, <2>3
  <2>. QED
    BY <2>2, <2>4, RequestsOK
<1>5. Append(log[p], e) = <<e>> /\ <<e>> \in Seq(Events)
  BY <1>1, <1>4
<1>. QED
  BY <1>1, <1>2, <1>3, <1>4, <1>5

\* What a step of the store on one request leaves of the others, and of this one.
LEMMA ServedTyped ==
  ASSUME TypeInv, NEW c \in Client, WorldInv', Domains', config' = config, link' = link,
         UNCHANGED <<pc, asked, waiting, resolved, confirmed>>,
         \A d \in Client \ {c} :
           /\ wrote'[d] = wrote[d] /\ phase'[d] = phase[d] /\ request'[d] = request[d]
           /\ answer'[d] = answer[d],
         pc[c] = "append",
         answer'[c] = "Appended" => wrote'[c],
         phase'[c] # "idle" => phase[c] # "idle" /\ request'[c] = request[c]
  PROVE  TypeInv'
<1>1. ASSUME NEW d \in Client, d # c PROVE ClientInv(d)'
  <2>1. Untouched(d)
    BY <1>1 DEF Untouched
  <2>. QED
    BY <2>1, KeptClient DEF TypeInv
<1>2. ClientInv(c)'
  <2>1. ClientInv(c) /\ pc'[c] = "append" /\ asked'[c] = asked[c] /\ resolved'[c] = resolved[c]
    BY DEF TypeInv
  <2>2. Granted(c)'
    BY <2>1, KeptGranted DEF ClientInv, FlowInv
  <2>3. phase'[c] # "idle" => Requested(c)'
    BY <2>1 DEF ClientInv, FlowInv, Requested, Place
  <2>. QED
    BY <2>1, <2>2, <2>3 DEF ClientInv, FlowInv, ConfirmedInv, WroteInv, Idle
<1>. QED
  BY <1>1, <1>2 DEF TypeInv

LEMMA AppliesTyped ==
  ASSUME TypeInv, NEW c \in Client, StoreApplies(c)
  PROVE  TypeInv'
<1>1. /\ Apply(c) /\ wrote' = [wrote EXCEPT ![c] = TRUE] /\ reply' = NoReply
      /\ UNCHANGED <<world, asked, waiting, resolved, confirmed, due, pc, acked>>
  BY DEF StoreApplies, Silent
<1>2. PICK a \in {"Appended", "none"} : Finish(c, a)
  BY <1>1 DEF Apply
<1>3. log' \in [Partition -> Seq(Events)]
  BY <1>1, Applied
<1>4. pc[c] = "append"
  BY <1>1, RequestOf DEF Apply
<1>5. WorldInv'
  BY <1>1, <1>3 DEF TypeInv, WorldInv, world, NoReply, Status, Codes
<1>6. Domains'
  BY <1>1, <1>2 DEF TypeInv, Domains, Finish
<1>7. /\ phase'[c] = "idle" /\ wrote'[c] /\ config' = config /\ link' = link
      /\ \A d \in Client \ {c} :
           /\ wrote'[d] = wrote[d] /\ phase'[d] = phase[d] /\ request'[d] = request[d]
           /\ answer'[d] = answer[d]
  BY <1>1, <1>2 DEF TypeInv, Domains, Finish, world
<1>. QED
  BY <1>1, <1>4, <1>5, <1>6, <1>7, ServedTyped

LEMMA DeclinesTyped ==
  ASSUME TypeInv, NEW c \in Client, StoreDeclines(c)
  PROVE  TypeInv'
<1>1. /\ phase[c] # "idle" /\ log' = log /\ reply' = NoReply
      /\ UNCHANGED <<world, asked, waiting, resolved, confirmed, wrote, due, pc, acked>>
  BY DEF StoreDeclines, Refuse, Reopen, AnswerCASFailed, AnswerDuplicate, GiveUp, Silent, call
<1>2. \/ /\ \E p \in {"open", "refused"} : phase' = [phase EXCEPT ![c] = p]
         /\ request' = request /\ answer' = answer
      \/ \E a \in {"CASFailed", "DuplicateEvent", "none"} : Finish(c, a)
  BY DEF StoreDeclines, Refuse, Reopen, AnswerCASFailed, AnswerDuplicate, GiveUp
<1>3. pc[c] = "append"
  BY <1>1, RequestOf
<1>4. WorldInv'
  BY <1>1 DEF TypeInv, WorldInv, world, NoReply, Status, Codes
<1>5. Domains'
  <2>1. CASE \E p \in {"open", "refused"} : phase' = [phase EXCEPT ![c] = p]
                                           /\ request' = request /\ answer' = answer
    BY <1>1, <2>1 DEF TypeInv, Domains
  <2>2. CASE \E a \in {"CASFailed", "DuplicateEvent", "none"} : Finish(c, a)
    BY <1>1, <2>2 DEF TypeInv, Domains, Finish
  <2>. QED
    BY <1>2, <2>1, <2>2
<1>6. /\ config' = config /\ link' = link
      /\ \A d \in Client \ {c} :
           /\ wrote'[d] = wrote[d] /\ phase'[d] = phase[d] /\ request'[d] = request[d]
           /\ answer'[d] = answer[d]
  BY <1>1, <1>2 DEF TypeInv, Domains, Finish, world
<1>7. /\ answer'[c] = "Appended" => wrote'[c]
      /\ phase'[c] # "idle" => request'[c] = request[c]
  BY <1>1, <1>2 DEF TypeInv, Domains, Finish, ClientInv, WroteInv
<1>. QED
  BY <1>1, <1>3, <1>4, <1>5, <1>6, <1>7, ServedTyped

LEMMA ClockTyped ==
  ASSUME TypeInv, Tick \/ Shutdown
  PROVE  TypeInv'
<1>1. /\ reply' = NoReply /\ UNCHANGED <<store, config, link, call, pc, acked>>
      /\ clock' \in 0 .. MaxTime /\ draining' \in BOOLEAN
  <2>1. CASE Tick
    <3>1. clock \in Int /\ 0 <= clock /\ clock < MaxTime /\ MaxTime \in Int /\ clock' = clock + 1
      BY <2>1, RoutesOK DEF Tick, TypeInv, WorldInv
    <3>2. clock' \in 0 .. MaxTime
      BY <3>1
    <3>. QED
      BY <2>1, <3>2 DEF Tick, Silent, TypeInv, WorldInv
  <2>2. CASE Shutdown
    BY <2>2 DEF Shutdown, Silent, TypeInv, WorldInv
  <2>. QED
    BY <2>1, <2>2
<1>2. WorldInv'
  BY <1>1 DEF TypeInv, WorldInv, store, NoReply, Status, Codes
<1>3. Domains'
  BY <1>1 DEF TypeInv, Domains, store, call
<1>4. \A c \in Client : Untouched(c)
  BY <1>1 DEF Untouched, store, call
<1>. QED
  BY <1>1, <1>2, <1>3, <1>4, KeptClient DEF TypeInv

\* The link that a handler waits to be told is confirmed in the step that makes it.
LEMMA RelinkTyped ==
  ASSUME TypeInv, NEW d \in Discord, NEW i \in Identity \union {None}, Relink(d, i)
  PROVE  TypeInv'
<1>1. /\ link' = [link EXCEPT ![d] = i]
      /\ confirmed' = [c \in Client |->
           \/ confirmed[c]
           \/ /\ asked[c].route = "attested"
              /\ asked[c].body.discord_user_id = d /\ asked[c].body.identity_id = i]
      /\ reply' = NoReply
      /\ UNCHANGED <<log, request, phase, answer, clock, config, draining>>
      /\ UNCHANGED <<asked, waiting, resolved, wrote, due, pc, acked>>
  BY DEF Relink, Silent, store
<1>2. WorldInv'
  BY <1>1 DEF TypeInv, WorldInv, NoReply, Status, Codes
<1>3. Domains'
  BY <1>1 DEF TypeInv, Domains
<1>4. ASSUME NEW c \in Client PROVE ClientInv(c)'
  <2>1. Untouched(c) /\ ClientInv(c)
    BY <1>1 DEF Untouched, TypeInv
  <2>2. ConfirmedInv(c)'
    <3>. DEFINE about == asked[c].body
    <3>1. CASE pc[c] = "resolve"
      <4>1. asked[c].route = "attested"
        BY <2>1, <3>1 DEF ClientInv, FlowInv
      <4>2. about.discord_user_id # d => link'[about.discord_user_id] = link[about.discord_user_id]
        BY <1>1 DEF TypeInv, WorldInv
      <4>3. about.discord_user_id = d => link'[about.discord_user_id] = i
        BY <1>1 DEF TypeInv, WorldInv
      <4>4. link'[about.discord_user_id] = about.identity_id => confirmed'[c]
        BY <1>1, <2>1, <3>1, <4>1, <4>2, <4>3 DEF ClientInv, ConfirmedInv
      <4>. QED
        BY <1>1, <3>1, <4>4 DEF ConfirmedInv
    <3>2. CASE pc[c] # "resolve"
      BY <1>1, <2>1, <3>2 DEF ClientInv, ConfirmedInv
    <3>. QED
      BY <3>1, <3>2
  <2>. QED
    BY <1>1, <2>1, <2>2, KeptFlow DEF ClientInv
<1>. QED
  BY <1>2, <1>3, <1>4 DEF TypeInv

LEMMA RestartTyped ==
  ASSUME TypeInv, NEW environment \in Config, Restart(environment)
  PROVE  TypeInv'
<1>1. WorldInv'
  BY DEF Restart, Silent, TypeInv, WorldInv, NoReply, Status, Codes
<1>2. Domains'
  BY DEF Restart, TypeInv, Domains
<1>3. \A c \in Client : ClientInv(c)'
  BY OverClient DEF Restart
<1>. QED
  BY <1>1, <1>2, <1>3 DEF TypeInv

LEMMA StutterTyped ==
  ASSUME TypeInv, UNCHANGED vars
  PROVE  TypeInv'
<1>1. \A c \in Client : Untouched(c)
  BY DEF vars, store, call, Untouched
<1>2. WorldInv' /\ Domains' /\ config' = config /\ link' = link
  BY DEF TypeInv, WorldInv, Domains, vars, store, world, call
<1>. QED
  BY <1>1, <1>2, KeptClient DEF TypeInv

LEMMA TypeStep == TypeInv /\ [Next]_vars => TypeInv'
<1>. SUFFICES ASSUME TypeInv, [Next]_vars PROVE TypeInv'
  OBVIOUS
<1>1. ASSUME NEW c \in Client, Handle(c) PROVE TypeInv'
  BY <1>1, GradeTyped, RecordTyped, CompletionAnsweredTyped, QueryTyped DEF Handle
<1>. QED
  BY <1>1, TurnTyped, ReceivesTyped, LeftTyped, ResolvedTyped, AppliesTyped, DeclinesTyped,
     ClockTyped, RelinkTyped, RestartTyped, StutterTyped DEF Next

LEMMA Typed == Spec => []TypeInv
<1>1. Init => TypeInv
  <2>. SUFFICES ASSUME Init PROVE TypeInv
    OBVIOUS
  <2>1. WorldInv
    <3>1. log \in [Partition -> Seq(Events)]
      BY DEF Init, LogInit
    <3>2. clock \in 0 .. MaxTime
      BY RoutesOK DEF Init
    <3>. QED
      BY <3>1, <3>2 DEF Init, WorldInv, NoReply, Status, Codes
  <2>2. Domains
    BY DEF Init, LogInit, Domains
  <2>3. \A c \in Client : ClientInv(c)
    BY DEF Init, LogInit, ClientInv, FlowInv, ConfirmedInv, WroteInv, Idle
  <2>. QED
    BY <2>1, <2>2, <2>3 DEF TypeInv
<1>. QED
  BY <1>1, TypeStep, PTL DEF Spec

\* Every variable keeps its type: a request that is over has let go of its connection,
\* and an append is with the store only while its handler waits for it (writes.ts:195-825).
THEOREM TypeCorrect == Spec => []TypeOK
<1>1. TypeInv => TypeOK
  BY DEF TypeInv, WorldInv, Domains, ClientInv, FlowInv, TypeOK, Codes, Idle
<1>. QED
  BY <1>1, Typed, PTL

-----------------------------------------------------------------------------
\* One completion of an activity for an identity.

LEMMA OnlyStoreAppends ==
  ASSUME [Next]_vars, log' # log
  PROVE  \E c \in Client : StoreApplies(c)
<1>1. ASSUME NEW c \in Client, Handle(c) PROVE log' = log
  BY <1>1 DEF Handle, Grade, Record, Reject, Submit, CompletionAnswered, QueryFails, QueryAnswered,
              store
<1>2. ASSUME NEW c \in Client, NEW r \in Asked,
             ReceiveComplete(c, r) \/ ReceiveAttested(c, r) \/ ReceiveAdmin(c, r) \/ ReceiveRead(c, r)
      PROVE  log' = log
  BY <1>2 DEF ReceiveComplete, ReceiveAttested, ReceiveAdmin, ReceiveRead, Receive, store
<1>3. ASSUME NEW c \in Client,
             \/ \E r \in Sent : Turn(c, r)
             \/ TimedOut(c) \/ Hangup(c) \/ ResolveAnswered(c) \/ ResolveFailed(c)
      PROVE  log' = log
  BY <1>3 DEF Turn, TimedOut, Hangup, ResolveAnswered, ResolveFailed, ResolvedTo, store
<1>4. ASSUME NEW c \in Client, StoreDeclines(c) PROVE log' = log
  BY <1>4 DEF StoreDeclines, Refuse, Reopen, AnswerCASFailed, AnswerDuplicate, GiveUp
<1>5. ASSUME \/ Tick \/ Shutdown
             \/ \E d \in Discord, i \in Identity \union {None} : Relink(d, i)
             \/ \E environment \in Config : Restart(environment)
             \/ UNCHANGED vars
      PROVE  log' = log
  BY <1>5 DEF Tick, Shutdown, Relink, Restart, vars, store
<1>. QED
  BY <1>1, <1>2, <1>3, <1>4, <1>5 DEF Next

LEMMA PartitionStep == TypeInv /\ PartitionInv /\ [Next]_vars => PartitionInv'
<1>. SUFFICES ASSUME TypeInv, PartitionInv, [Next]_vars PROVE PartitionInv'
  OBVIOUS
<1>1. CASE log' = log
  BY <1>1 DEF PartitionInv
<1>2. CASE log' # log
  <2>1. PICK c \in Client : Apply(c)
    BY <1>2, OnlyStoreAppends DEF StoreApplies
  <2>. DEFINE place == request[c].partition
              e     == request[c].event
  <2>2. /\ place \in Partition /\ e.identity = place[1] /\ e.activity = place[2]
    BY <2>1, RequestOf DEF Apply, Requested
  <2>3. log' = [log EXCEPT ![place] = <<e>>] /\ DOMAIN log = Partition
    BY <2>1, Applied DEF TypeInv, WorldInv
  <2>4. ASSUME NEW p \in Partition
        PROVE  /\ Len(log'[p]) <= 1
               /\ \A k \in DOMAIN log'[p] : log'[p][k].identity = p[1] /\ log'[p][k].activity = p[2]
    <3>1. CASE p = place
      <4>1. log'[p] = <<e>>
        BY <2>2, <2>3, <3>1
      <4>. QED
        BY <2>2, <3>1, <4>1
    <3>2. CASE p # place
      BY <2>3, <3>2 DEF PartitionInv
    <3>. QED
      BY <3>1, <3>2
  <2>. QED
    BY <2>4 DEF PartitionInv
<1>. QED
  BY <1>1, <1>2

\* An identity completes an activity once, through whichever route and however often its
\* request is sent (writes.ts:188): the claim of an empty partition, and nothing
\* else, says so, because a retry has another timestamp and so another event id.
THEOREM OneBadgeEver == Spec => []OneBadge
<1>1. Init => PartitionInv
  BY DEF Init, LogInit, PartitionInv
<1>2. TypeInv /\ PartitionInv => OneBadge
  <2>. SUFFICES ASSUME TypeInv, PartitionInv,
                       NEW p \in Partition, NEW q \in Partition,
                       NEW j \in DOMAIN log[p], NEW k \in DOMAIN log[q],
                       log[p][j].identity = log[q][k].identity,
                       log[p][j].activity = log[q][k].activity
                PROVE  p = q /\ j = k
    BY DEF OneBadge
  <2>1. p[1] = q[1] /\ p[2] = q[2]
    BY DEF PartitionInv
  <2>2. p = q
    <3>1. PICK i \in Identity : p = <<i, "act_verify", "step_verify">>
                                \/ p = <<i, "act_firstlight", "step_firstlight">>
      BY RoutesOK, Activities
    <3>2. PICK i2 \in Identity : q = <<i2, "act_verify", "step_verify">>
                                 \/ q = <<i2, "act_firstlight", "step_firstlight">>
      BY RoutesOK, Activities
    <3>. QED
      BY <2>1, <3>1, <3>2
  <2>3. \A r \in Partition : \A n \in DOMAIN log[r] : n = 1
    <3>. SUFFICES ASSUME NEW r \in Partition, NEW n \in DOMAIN log[r] PROVE n = 1
      OBVIOUS
    <3>1. log[r] \in Seq(Events) /\ Len(log[r]) <= 1
      BY DEF TypeInv, WorldInv, PartitionInv
    <3>. QED
      BY <3>1
  <2>. QED
    BY <2>2, <2>3
<1>. QED
  BY <1>1, <1>2, Typed, PartitionStep, PTL DEF Spec

-----------------------------------------------------------------------------
\* The authority of each completion.

LEMMA OnlyStoreWrites ==
  ASSUME TypeInv, [Next]_vars, NEW c \in Client, wrote'[c], ~wrote[c]
  PROVE  StoreApplies(c)
<1>1. wrote' # wrote
  OBVIOUS
<1>2. ASSUME NEW d \in Client, NEW response, Reply(d, response) PROVE FALSE
  BY <1>2 DEF Reply, TypeInv, Domains
<1>3. ASSUME NEW d \in Client, Handle(d) PROVE FALSE
  BY <1>1, <1>2, <1>3 DEF Handle, Grade, Record, CompletionAnswered, QueryFails, QueryAnswered, call
<1>4. ASSUME NEW d \in Client, NEW r \in Asked, NEW refused, NEW step, Receive(d, r, refused, step)
      PROVE  FALSE
  BY <1>1, <1>2, <1>4 DEF Receive
<1>5. ASSUME NEW d \in Client, NEW r \in Asked,
             ReceiveComplete(d, r) \/ ReceiveAttested(d, r) \/ ReceiveAdmin(d, r) \/ ReceiveRead(d, r)
      PROVE  FALSE
  BY <1>4, <1>5 DEF ReceiveComplete, ReceiveAttested, ReceiveAdmin, ReceiveRead
<1>6. ASSUME NEW d \in Client,
             \/ \E r \in Sent : Turn(d, r)
             \/ TimedOut(d) \/ Hangup(d) \/ ResolveAnswered(d) \/ ResolveFailed(d) \/ StoreDeclines(d)
      PROVE  FALSE
  BY <1>1, <1>2, <1>6 DEF Turn, TimedOut, Hangup, ResolveAnswered, ResolveFailed, ResolvedTo,
                          StoreDeclines, call
<1>7. ASSUME NEW d \in Client, StoreApplies(d) PROVE d = c
  BY <1>7 DEF StoreApplies, TypeInv, Domains
<1>8. ASSUME \/ Tick \/ Shutdown
             \/ \E d \in Discord, i \in Identity \union {None} : Relink(d, i)
             \/ \E environment \in Config : Restart(environment)
             \/ UNCHANGED vars
      PROVE  FALSE
  BY <1>1, <1>8 DEF Tick, Shutdown, Relink, Restart, vars, call
<1>. QED
  BY <1>3, <1>5, <1>6, <1>7, <1>8 DEF Next

\* The token of a service is the one the environment names.
LEMMA ServiceToken ==
  ASSUME NEW r
  PROVE  /\ Served("verify-write", r.headers, config)
              => r.headers[SERVICE_TOKEN_HEADER] = config.ACTIVITIES_VERIFY_WRITE_TOKEN
         /\ Served("admin-grant", r.headers, config)
              => r.headers[SERVICE_TOKEN_HEADER] = config.ACTIVITIES_ADMIN_GRANT_TOKEN
<1>1. /\ SCOPE_ENV["verify-write"] = "ACTIVITIES_VERIFY_WRITE_TOKEN"
      /\ SCOPE_ENV["admin-grant"] = "ACTIVITIES_ADMIN_GRANT_TOKEN"
  BY DEF SCOPE_ENV, Scope
<1>2. ASSUME NEW scope, Served(scope, r.headers, config)
      PROVE  r.headers[SERVICE_TOKEN_HEADER] = config[SCOPE_ENV[scope]]
  BY <1>2 DEF Served, header, Missing, resolveServiceTokenConfig
<1>. QED
  BY <1>1, <1>2

LEMMA WriteAuthorized ==
  ASSUME TypeInv, NEW c \in Client, StoreApplies(c)
  PROVE  LET e == request[c].event
             r == asked[c]
         IN  \/ /\ e.activity = VERIFY_ACTIVITY.id /\ r.route = "complete"
                /\ e.identity = identityOf(r)
                /\ bearerFrom(r.headers).signedWith = config.IDENTITY_API_JWT_SECRET
             \/ /\ e.activity = VERIFY_ACTIVITY.id /\ r.route = "attested"
                /\ r.headers[SERVICE_TOKEN_HEADER] = config.ACTIVITIES_VERIFY_WRITE_TOKEN
                /\ confirmed[c] /\ e.identity = r.body.identity_id
                /\ r.body.world \in config.ACTIVITIES_WORLD_ALLOWLIST
             \/ /\ e.activity = FIRST_LIGHT_ACTIVITY.id /\ r.route = "admin"
                /\ r.headers[SERVICE_TOKEN_HEADER] = config.ACTIVITIES_ADMIN_GRANT_TOKEN
<1>. DEFINE e == request[c].event
            r == asked[c]
            p == Place(r, resolved[c])
<1>1. Granted(c) /\ e.identity = p[1] /\ e.activity = p[2]
  BY RequestOf DEF StoreApplies, Apply, Requested
<1>2. CASE r.route = "complete"
  BY <1>1, <1>2, Activities DEF Granted, Place
<1>3. CASE r.route = "attested"
  <2>1. p = <<resolved[c], "act_verify", "step_verify">>
    BY <1>3 DEF Place
  <2>2. /\ Served("verify-write", r.headers, config) /\ resolved[c] = r.body.identity_id
        /\ confirmed[c] /\ r.body.world \in config.ACTIVITIES_WORLD_ALLOWLIST
    BY <1>1, <1>3, AttestedAdmits DEF Granted
  <2>. QED
    BY <1>1, <1>3, <2>1, <2>2, ServiceToken, Activities
<1>4. CASE r.route = "admin"
  <2>1. p = <<r.body.identity_id, "act_firstlight", "step_firstlight">>
    BY <1>4 DEF Place
  <2>2. Served("admin-grant", r.headers, config)
    BY <1>1, <1>4, AdminAdmits DEF Granted
  <2>. QED
    BY <1>1, <1>4, <2>1, <2>2, ServiceToken, Activities
<1>. QED
  BY <1>1, <1>2, <1>3, <1>4 DEF Granted

\* A completion is stored on the caller's own token, on the admin's, or on an attestation
\* of a trusted service for an account that identity-api gave to that identity while the
\* request was served, whoever links what and whatever environment comes next
\* (writes.ts:195-825).
THEOREM GrantsAuthorized == Spec => AuthorizedGrants
<1>1. TypeInv /\ [Next]_vars =>
        [\A c \in Client : wrote'[c] /\ ~wrote[c] =>
           LET e == request[c].event
               r == asked[c]
           IN  \/ /\ e.activity = VERIFY_ACTIVITY.id /\ r.route = "complete"
                  /\ e.identity = identityOf(r)
                  /\ bearerFrom(r.headers).signedWith = config.IDENTITY_API_JWT_SECRET
               \/ /\ e.activity = VERIFY_ACTIVITY.id /\ r.route = "attested"
                  /\ r.headers[SERVICE_TOKEN_HEADER] = config.ACTIVITIES_VERIFY_WRITE_TOKEN
                  /\ confirmed[c] /\ e.identity = r.body.identity_id
                  /\ r.body.world \in config.ACTIVITIES_WORLD_ALLOWLIST
               \/ /\ e.activity = FIRST_LIGHT_ACTIVITY.id /\ r.route = "admin"
                  /\ r.headers[SERVICE_TOKEN_HEADER] = config.ACTIVITIES_ADMIN_GRANT_TOKEN]_vars
  BY OnlyStoreWrites, WriteAuthorized
<1>. QED
  BY <1>1, Typed, PTL DEF Spec, AuthorizedGrants

-----------------------------------------------------------------------------
\* What a client is told.

\* What is true of a response to a request.
Truthful(c) ==
  /\ reply'.completed => wrote[c]
  /\ wrote[c] \/ ~Idle(c)' => reply'.completed \/ reply'.status \in {503, 504}

\* A response is the reply of the request's own handler.
LEMMA ReplyIsOwn ==
  ASSUME TypeInv, NEW c \in Client, waiting[c], ~waiting'[c],
         NEW d \in Client, NEW response, Reply(d, response)
  PROVE  c = d /\ ~Idle(c) /\ Idle(c)' /\ reply' = response
<1>1. c = d
  BY DEF Reply, TypeInv, Domains
<1>. QED
  BY <1>1 DEF Reply, TypeInv, Domains, ClientInv, FlowInv, Idle

LEMMA HandlerAnswers ==
  ASSUME TypeInv, NEW c \in Client, waiting[c], ~waiting'[c], reply' # NoReply,
         NEW d \in Client, Handle(d)
  PROVE  Truthful(c)
<1>1. CASE Grade(d)
  <2>1. /\ AttestationRefused(d) # None /\ Reply(d, AttestationRefused(d)) /\ pc[d] = "grade"
    BY <1>1 DEF Grade, Silent
  <2>2. ~AttestationRefused(d).completed
    BY <2>1 DEF AttestationRefused, NotCompleted, Status
  <2>3. c = d /\ Idle(c)' /\ reply' = AttestationRefused(d)
    BY <2>1, ReplyIsOwn
  <2>4. ~wrote[c]
    BY <2>1, <2>3 DEF TypeInv, ClientInv, WroteInv
  <2>. QED
    BY <2>2, <2>3, <2>4 DEF Truthful
<1>2. CASE Record(d)
  BY <1>2 DEF Record, Silent
<1>3. CASE CompletionAnswered(d)
  <2>1. c = d /\ Idle(c)' /\ reply' = runWrite(answer[c])
    BY <1>3, ReplyIsOwn DEF CompletionAnswered
  <2>2. answer[c] \in {"none", "Appended", "CASFailed", "DuplicateEvent"}
    BY DEF TypeInv, Domains
  <2>3. answer[c] = "Appended" => wrote[c]
    BY DEF TypeInv, ClientInv, WroteInv
  <2>. QED
    BY <2>1, <2>2, <2>3, WriteStatus DEF Truthful
<1>4. CASE QueryAnswered(d) \/ QueryFails(d)
  <2>1. PICK response \in {ReadReply(asked[d]), Failed} : Reply(d, response) /\ pc[d] = "query"
    BY <1>4 DEF QueryAnswered, QueryFails
  <2>2. ~response.completed
    <3>1. ~Failed.completed
      BY DEF Failed, Status
    <3>2. ~ReadReply(asked[d]).completed
      BY DEF ReadReply, Status
    <3>. QED
      BY <3>1, <3>2
  <2>3. c = d /\ Idle(c)' /\ reply' = response
    BY <2>1, ReplyIsOwn
  <2>4. ~wrote[c]
    BY <2>1, <2>3 DEF TypeInv, ClientInv, WroteInv
  <2>. QED
    BY <2>2, <2>3, <2>4 DEF Truthful
<1>. QED
  BY <1>1, <1>2, <1>3, <1>4 DEF Handle

LEMMA AnswerStep ==
  ASSUME TypeInv, [Next]_vars, NEW c \in Client, waiting[c], ~waiting'[c], reply' # NoReply
  PROVE  Truthful(c)
<1>1. ASSUME NEW d \in Client, NEW response, Reply(d, response), Idle(d) PROVE FALSE
  BY <1>1, ReplyIsOwn
<1>2. ASSUME NEW d \in Client, NEW r \in Sent, Turn(d, r) PROVE FALSE
  BY <1>1, <1>2 DEF Turn
<1>3. ASSUME NEW d \in Client, NEW r \in Asked, NEW refused, NEW step, Receive(d, r, refused, step)
      PROVE  FALSE
  BY <1>1, <1>3 DEF Receive, Silent
<1>4. ASSUME NEW d \in Client, NEW r \in Asked,
             ReceiveComplete(d, r) \/ ReceiveAttested(d, r) \/ ReceiveAdmin(d, r) \/ ReceiveRead(d, r)
      PROVE  FALSE
  BY <1>3, <1>4 DEF ReceiveComplete, ReceiveAttested, ReceiveAdmin, ReceiveRead
<1>5. ASSUME NEW d \in Client, TimedOut(d) PROVE Truthful(c)
  BY <1>5 DEF TimedOut, Truthful, Status
<1>6. ASSUME NEW d \in Client,
             \/ Hangup(d) \/ ResolveAnswered(d) \/ ResolveFailed(d)
             \/ StoreApplies(d) \/ StoreDeclines(d)
      PROVE  FALSE
  BY <1>6 DEF Hangup, ResolveAnswered, ResolveFailed, ResolvedTo, StoreApplies, StoreDeclines, Silent
<1>7. ASSUME \/ Tick \/ Shutdown
             \/ \E d \in Discord, i \in Identity \union {None} : Relink(d, i)
             \/ \E environment \in Config : Restart(environment)
      PROVE  FALSE
  BY <1>7 DEF Tick, Shutdown, Relink, Restart, Silent
<1>8. CASE UNCHANGED vars
  BY <1>8 DEF vars, call
<1>. QED
  BY <1>2, <1>4, <1>5, <1>6, <1>7, <1>8, HandlerAnswers DEF Next

\* A client can rely on its answer: "completed: true" is durable, and only a 503, a 504
\* or no answer at all leaves open whether its request has completed the activity or is
\* going to (_shared.ts:269-308, app.ts:654-677).
THEOREM AnswersAreTrue == Spec => AnswerIsTrue
<1>1. TypeInv /\ [Next]_vars =>
        [\A c \in Client : waiting[c] /\ ~waiting'[c] /\ reply' # NoReply =>
           /\ reply'.completed => wrote[c]
           /\ wrote[c] \/ ~Idle(c)' => reply'.completed \/ reply'.status \in {503, 504}]_vars
  BY AnswerStep DEF Truthful
<1>. QED
  BY <1>1, Typed, PTL DEF Spec, AnswerIsTrue

-----------------------------------------------------------------------------
\* What a page shows.

\* A page has room for an event at least.
LEMMA LimitIs ==
  ASSUME NEW r \in Asked
  PROVE  clampedLimit(r) \in Nat \ {0}
<1>1. r.limit \in Int \union {None}
  BY RequestsOK
<1>2. CASE r.limit = None
  BY <1>2 DEF clampedLimit
<1>3. CASE r.limit # None
  <2>1. r.limit \in Int /\ clampedLimit(r) = Min({Max({r.limit, 1}), 200})
    BY <1>1, <1>3 DEF clampedLimit
  <2>2. Max({r.limit, 1}) = IF r.limit >= 1 THEN r.limit ELSE 1
    BY <2>1, MaxOfTwo
  <2>3. Max({r.limit, 1}) \in Nat \ {0}
    BY <2>1, <2>2
  <2>4. Min({Max({r.limit, 1}), 200}) = IF Max({r.limit, 1}) <= 200 THEN Max({r.limit, 1}) ELSE 200
    <3>1. \A m \in Int : Min({m, 200}) = IF m <= 200 THEN m ELSE 200
      BY MinOfTwo
    <3>. QED
      BY <2>3, <3>1
  <2>. QED
    BY <2>1, <2>3, <2>4
<1>. QED
  BY <1>2, <1>3

\* The rows are those of the partitions, finitely many.
LEMMA RowsAre ==
  ASSUME TypeInv, PartitionInv
  PROVE  /\ IsFiniteSet(Rows) /\ Rows \subseteq Nat \X Nat
         /\ \A row \in Rows :
              /\ PartitionOrder[row[1]] \in Partition
              /\ row[2] \in DOMAIN log[PartitionOrder[row[1]]]
              /\ EventOf(row) \in Events
         /\ \A p \in Partition : \A k \in DOMAIN log[p] :
              \E row \in Rows : EventOf(row) = log[p][k]
<1>. DEFINE P == PartitionOrder
            n == Len(P)
<1>1. P \in Seq(Partition) /\ n \in Nat /\ DOMAIN P = 1 .. n
  BY RoutesOK
<1>2. \A i \in DOMAIN P : P[i] \in Partition
  BY <1>1
<1>3. \A p \in Partition : DOMAIN log[p] \subseteq 1 .. 1 /\ \A k \in DOMAIN log[p] : log[p][k] \in Events
  <2>. SUFFICES ASSUME NEW p \in Partition
                PROVE  DOMAIN log[p] \subseteq 1 .. 1 /\ \A k \in DOMAIN log[p] : log[p][k] \in Events
    OBVIOUS
  <2>1. log[p] \in Seq(Events) /\ Len(log[p]) <= 1
    BY DEF TypeInv, WorldInv, PartitionInv
  <2>. QED
    BY <2>1
<1>4. \A row \in Rows : \E i \in DOMAIN P : row \in {i} \X DOMAIN log[P[i]]
  BY DEF Rows
<1>5. \A row \in Rows : /\ row[1] \in DOMAIN P /\ row[2] \in DOMAIN log[P[row[1]]]
                        /\ row = <<row[1], row[2]>>
  BY <1>4
<1>. HIDE DEF P
<1>6. Rows \subseteq (1 .. n) \X (1 .. 1)
  <2>. SUFFICES ASSUME NEW row \in Rows PROVE row \in (1 .. n) \X (1 .. 1)
    OBVIOUS
  <2>1. row[1] \in 1 .. n /\ row[2] \in 1 .. 1 /\ row = <<row[1], row[2]>>
    BY <1>1, <1>2, <1>3, <1>5
  <2>. QED
    BY <2>1
<1>7. IsFiniteSet(Rows)
  <2>1. 1 \in Int /\ n \in Int
    BY <1>1
  <2>2. IsFiniteSet((1 .. n) \X (1 .. 1))
    <3>1. IsFiniteSet(1 .. n) /\ IsFiniteSet(1 .. 1)
      BY <2>1, FS_Interval, Zenon
    <3>. QED
      BY <3>1, FS_Product
  <2>. QED
    BY <1>6, <2>2, FS_Subset
<1>8. Rows \subseteq Nat \X Nat
  BY <1>1, <1>6
<1>9. \A row \in Rows :
        P[row[1]] \in Partition /\ row[2] \in DOMAIN log[P[row[1]]] /\ EventOf(row) \in Events
  BY <1>2, <1>3, <1>5 DEF EventOf, P
<1>10. ASSUME NEW p \in Partition, NEW k \in DOMAIN log[p]
       PROVE  \E row \in Rows : EventOf(row) = log[p][k]
  <2>1. PICK i \in DOMAIN P : P[i] = p
    BY DEF Partition, ToSet, P
  <2>. DEFINE row == <<i, k>>
  <2>2. row \in Rows
    BY <2>1 DEF Rows, P
  <2>3. EventOf(row) = log[p][k]
    BY <2>1 DEF EventOf, P
  <2>. QED
    BY <2>2, <2>3
<1>. QED
  BY <1>7, <1>8, <1>9, <1>10 DEF P

\* ORDER BY lists every row once.
LEMMA RowsAreSorted ==
  ASSUME NEW S, IsFiniteSet(S), S \subseteq Nat \X Nat
  PROVE  LET s == Sorted(S, RowBefore)
         IN  s \in Seq(S) /\ Len(s) = Cardinality(S) /\ ToSet(s) = S
<1>. DEFINE B == {x \in S \X S : RowBefore(x[1], x[2])}
            s == Sorted(S, RowBefore)
<1>1. \A x \in S : x = <<x[1], x[2]>> /\ x[1] \in Nat /\ x[2] \in Nat
  OBVIOUS
<1>2. \A x, y \in S : <<x, y>> \in B <=> RowBefore(x, y)
  OBVIOUS
<1>. HIDE DEF B
<1>3. Orders(B, S)
  <2>1. \A x \in S : <<x, x>> \notin B
    BY <1>1, <1>2 DEF RowBefore
  <2>2. \A x, y, z \in S : <<x, y>> \in B /\ <<y, z>> \in B => <<x, z>> \in B
    BY <1>1, <1>2 DEF RowBefore
  <2>3. ASSUME NEW x \in S, NEW y \in S, x # y PROVE <<x, y>> \in B \/ <<y, x>> \in B
    <3>1. x[1] # y[1] \/ x[2] # y[2]
      BY <1>1, <2>3
    <3>. QED
      BY <1>1, <1>2, <3>1 DEF RowBefore
  <2>. QED
    BY <2>1, <2>2, <2>3 DEF Orders
<1>4. \A x \in S : Cardinality({y \in S : RowBefore(y, x)}) = Rank(x, S, B)
  <2>. SUFFICES ASSUME NEW x \in S
                PROVE  Cardinality({y \in S : RowBefore(y, x)}) = Rank(x, S, B)
    OBVIOUS
  <2>1. {y \in S : RowBefore(y, x)} = {y \in S : <<y, x>> \in B}
    BY <1>2
  <2>. QED
    BY <2>1 DEF Rank
<1>5. s = [n \in 1 .. Cardinality(S) |->
             CHOOSE x \in S : Cardinality({y \in S : RowBefore(y, x)}) = n - 1]
  BY DEF Sorted
<1>6. ASSUME NEW n \in 1 .. Cardinality(S)
      PROVE  s[n] \in S /\ Rank(s[n], S, B) = n - 1
  <2>1. PICK x \in S : Rank(x, S, B) = n - 1
    BY <1>3, RanksAreTaken
  <2>2. Cardinality({y \in S : RowBefore(y, x)}) = n - 1
    BY <1>4, <2>1
  <2>3. s[n] = CHOOSE z \in S : Cardinality({y \in S : RowBefore(y, z)}) = n - 1
    BY <1>5
  <2>4. s[n] \in S /\ Cardinality({y \in S : RowBefore(y, s[n])}) = n - 1
    BY <2>2, <2>3
  <2>. QED
    BY <1>4, <2>4
<1>7. s = [n \in 1 .. Cardinality(S) |-> s[n]]
  BY <1>5
<1>. HIDE DEF s
<1>. QED
  BY <1>3, <1>6, <1>7, RankedIsAll DEF s

\* The rows that a read is about.
Mine(r) == {row \in Rows : About(r, <<EventOf(row).identity, EventOf(row).activity>>)}

\* A page is made of such rows, and of all of them unless it is full.
LEMMA PageIs ==
  ASSUME TypeInv, PartitionInv, NEW r \in Asked
  PROVE  /\ Page(r) \in Seq(Events)
         /\ \A n \in DOMAIN Page(r) : \E row \in Mine(r) : Page(r)[n] = EventOf(row)
         /\ Len(Page(r)) < clampedLimit(r) =>
              \A row \in Mine(r) : \E n \in DOMAIN Page(r) : Page(r)[n] = EventOf(row)
<1>. DEFINE S == Mine(r)
            s == Sorted(S, RowBefore)
            limit == clampedLimit(r)
            m == Min({Len(s), limit})
<1>1. IsFiniteSet(S) /\ S \subseteq Nat \X Nat /\ \A row \in S : EventOf(row) \in Events
  <2>1. S \in SUBSET Rows
    BY DEF Mine
  <2>. QED
    BY <2>1, RowsAre, FS_Subset
<1>2. Page(r) = [n \in 1 .. m |-> EventOf(s[n])]
  BY DEF Page, Mine
<1>. HIDE DEF S
<1>3. s \in Seq(S) /\ ToSet(s) = S
  BY <1>1, RowsAreSorted
<1>. HIDE DEF s
<1>4. Len(s) \in Nat /\ limit \in Nat /\ \A n \in 1 .. Len(s) : s[n] \in S
  BY <1>3, LimitIs
<1>. HIDE DEF limit
<1>5. m = IF Len(s) <= limit THEN Len(s) ELSE limit
  BY <1>4, MinOfTwo
<1>. HIDE DEF m
<1>6. m \in Nat /\ m <= Len(s) /\ (m < limit => m = Len(s))
  BY <1>4, <1>5
<1>7. \A n \in 1 .. m : s[n] \in S /\ EventOf(s[n]) \in Events
  BY <1>1, <1>4, <1>6
<1>8. Page(r) \in Seq(Events) /\ Len(Page(r)) = m /\ DOMAIN Page(r) = 1 .. m
  <2>1. Page(r) \in [1 .. m -> Events]
    BY <1>2, <1>7
  <2>. QED
    BY <1>6, <2>1
<1>9. \A n \in DOMAIN Page(r) : \E row \in S : Page(r)[n] = EventOf(row)
  BY <1>2, <1>7
<1>10. ASSUME m = Len(s), NEW row \in S PROVE \E n \in DOMAIN Page(r) : Page(r)[n] = EventOf(row)
  <2>1. PICK n \in 1 .. Len(s) : s[n] = row
    BY <1>3 DEF ToSet
  <2>. QED
    BY <1>2, <1>8, <1>10, <2>1
<1>. QED
  BY <1>6, <1>8, <1>9, <1>10 DEF S, limit

\* One turn of the loop over the events: the index of the event that is kept, 0 before
\* there is one.
KeptNext(events, family, i, k) ==
  IF /\ family \in FamilyOf(events[i])
     /\ k = 0 \/ Replaces(toEarnedBadge(events[i], family), toEarnedBadge(events[k], family))
  THEN i
  ELSE k

\* The local definition of Kept.
KeptAt(events, family) ==
  CHOOSE f : f = [i \in 0 .. Len(events) |->
                    IF i = 0 THEN 0 ELSE KeptNext(events, family, i, f[i - 1])]

\* Its recursion has a solution.
LEMMA KeptAtExists ==
  ASSUME NEW events, NEW family, NEW n \in Nat
  PROVE  \E f : f = [i \in 0 .. n |-> IF i = 0 THEN 0 ELSE KeptNext(events, family, i, f[i - 1])]
<1>. DEFINE T == {m \in Nat : \E f :
                   f = [i \in 0 .. m |-> IF i = 0 THEN 0 ELSE KeptNext(events, family, i, f[i - 1])]}
<1>1. 0 \in T
  <2>. DEFINE f == [i \in 0 .. 0 |-> 0]
  <2>1. f = [i \in 0 .. 0 |-> IF i = 0 THEN 0 ELSE KeptNext(events, family, i, f[i - 1])]
    OBVIOUS
  <2>. QED
    BY <2>1
<1>2. ASSUME NEW m \in Nat, m \in T PROVE m + 1 \in T
  <2>1. PICK f : f = [i \in 0 .. m |-> IF i = 0 THEN 0 ELSE KeptNext(events, family, i, f[i - 1])]
    BY <1>2
  <2>. DEFINE g == [i \in 0 .. m + 1 |-> IF i = 0 THEN 0 ELSE KeptNext(events, family, i, f[i - 1])]
  <2>2. \A i \in 0 .. m : g[i] = f[i]
    BY <2>1
  <2>3. g = [i \in 0 .. m + 1 |-> IF i = 0 THEN 0 ELSE KeptNext(events, family, i, g[i - 1])]
    <3>1. \A i \in 0 .. m + 1 : i # 0 => i - 1 \in 0 .. m
      OBVIOUS
    <3>. QED
      BY <3>1, <2>2
  <2>. HIDE DEF g
  <2>4. m + 1 \in Nat
    OBVIOUS
  <2>. QED
    BY <2>3, <2>4
<1>. HIDE DEF T
<1>3. n \in T
  BY <1>1, <1>2, Induction
<1>. QED
  BY <1>3 DEF T

\* The badge of a family that some event earns is the badge of an event that earns it.
LEMMA KeptIs ==
  ASSUME NEW events, Len(events) \in Nat, NEW family,
         NEW j \in 1 .. Len(events), family \in FamilyOf(events[j])
  PROVE  \E i \in 1 .. Len(events) :
           family \in FamilyOf(events[i]) /\ Kept(events, family) = toEarnedBadge(events[i], family)
<1>. DEFINE n == Len(events)
            f == KeptAt(events, family)
            Earns(i) == family \in FamilyOf(events[i])
            Good(m) == /\ f[m] \in 0 .. m
                       /\ f[m] # 0 => Earns(f[m])
                       /\ f[m] = 0 => \A i \in 1 .. m : ~Earns(i)
            T == {m \in Nat : m <= n => Good(m)}
<1>1. f = [i \in 0 .. n |-> IF i = 0 THEN 0 ELSE KeptNext(events, family, i, f[i - 1])]
  BY KeptAtExists DEF KeptAt
<1>2. Kept(events, family) = toEarnedBadge(events[f[n]], family)
  BY DEF Kept, KeptAt, KeptNext
<1>. HIDE DEF f
<1>3. \A i \in 1 .. n : f[i] = IF Earns(i) /\ (f[i - 1] = 0 \/ Replaces(toEarnedBadge(events[i], family), toEarnedBadge(events[f[i - 1]], family)))
                               THEN i ELSE f[i - 1]
  BY <1>1 DEF KeptNext
<1>. HIDE DEF Earns
<1>4. 0 \in T
  BY <1>1
<1>5. ASSUME NEW m \in Nat, m \in T PROVE m + 1 \in T
  <2>1. SUFFICES ASSUME m + 1 <= n PROVE Good(m + 1)
    OBVIOUS
  <2>2. Good(m) /\ m + 1 \in 1 .. n /\ m + 1 - 1 = m
    BY <1>5, <2>1
  <2>3. f[m + 1] = m + 1 \/ f[m + 1] = f[m]
    BY <1>3, <2>2
  <2>4. f[m] = 0 /\ Earns(m + 1) => f[m + 1] = m + 1
    BY <1>3, <2>2
  <2>5. \/ f[m + 1] = m + 1
        \/ f[m + 1] = f[m] /\ f[m] # 0
        \/ f[m + 1] = 0 /\ f[m] = 0 /\ ~Earns(m + 1)
    <3>1. CASE f[m] = 0
      BY <2>3, <2>4, <3>1
    <3>2. CASE f[m] # 0
      BY <2>3, <3>2
    <3>. QED
      BY <3>1, <3>2
  <2>6. f[m + 1] = m + 1 => Earns(m + 1)
    BY <1>3, <2>2
  <2>. QED
    BY <2>2, <2>5, <2>6
<1>6. n \in T
  <2>. HIDE DEF T
  <2>. QED
    BY <1>4, <1>5, Induction
<1>7. f[n] \in 1 .. n /\ Earns(f[n])
  BY <1>6 DEF Earns
<1>. QED
  BY <1>2, <1>7 DEF Earns

\* The badge of each activity.
LEMMA FamilyIs ==
  ASSUME NEW e \in Events
  PROVE  \/ e.activity = "act_verify" /\ FamilyOf(e) = {"verify"}
         \/ e.activity = "act_firstlight" /\ FamilyOf(e) = {"kindling"}
<1>1. e.kind = "activity-completed" /\ e.activity \in {p[2] : p \in Partition}
  BY DEF Events
<1>2. e.activity \in {"act_verify", "act_firstlight"}
  <2>1. \A p \in Partition : p[2] \in {"act_verify", "act_firstlight"}
    BY RoutesOK, Activities
  <2>. QED
    BY <1>1, <2>1
<1>3. FamilyOf(e) = {ACTIVITY_BADGE_FAMILY[a] : a \in {e.activity} \cap DOMAIN ACTIVITY_BADGE_FAMILY}
  BY <1>1 DEF FamilyOf
<1>4. /\ {"act_verify", "act_firstlight"} \subseteq DOMAIN ACTIVITY_BADGE_FAMILY
      /\ ACTIVITY_BADGE_FAMILY["act_verify"] = "verify"
      /\ ACTIVITY_BADGE_FAMILY["act_firstlight"] = "kindling"
  BY DEF ACTIVITY_BADGE_FAMILY
<1>5. FamilyOf(e) = {ACTIVITY_BADGE_FAMILY[e.activity]}
  BY <1>2, <1>3, <1>4
<1>. QED
  BY <1>2, <1>4, <1>5

\* The local definitions of projectEarnedBadges.
Families(events) == UNION {FamilyOf(events[i]) : i \in DOMAIN events}

FirstOf(events, f) ==
  CHOOSE i \in DOMAIN events :
    f \in FamilyOf(events[i]) /\ \A j \in 1 .. i - 1 : f \notin FamilyOf(events[j])

Earlier(events, f, g) ==
  \/ Kept(events, f).issued_at < Kept(events, g).issued_at
  \/ /\ Kept(events, f).issued_at = Kept(events, g).issued_at
     /\ FirstOf(events, f) < FirstOf(events, g)

\* They are what projectEarnedBadges is made of.
LEMMA ProjectionIs ==
  ASSUME NEW events
  PROVE  LET earlier(f, g) == Earlier(events, f, g)
             order == Sorted(Families(events), earlier)
         IN  projectEarnedBadges(events) = [i \in DOMAIN order |-> Kept(events, order[i])]
  BY DEF projectEarnedBadges, Families, FirstOf, Earlier

\* The families of a page are few, each badge has a time, and no two families first came
\* up with the same event.
LEMMA FamiliesAre ==
  ASSUME NEW events \in Seq(Events)
  PROVE  /\ IsFiniteSet(Families(events))
         /\ \A f \in Families(events) :
              /\ \E i \in 1 .. Len(events) :
                   /\ f \in FamilyOf(events[i])
                   /\ Kept(events, f) = toEarnedBadge(events[i], f)
              /\ Kept(events, f).issued_at \in Int
              /\ FirstOf(events, f) \in 1 .. Len(events)
              /\ f \in FamilyOf(events[FirstOf(events, f)])
<1>1. Len(events) \in Nat /\ DOMAIN events = 1 .. Len(events)
      /\ \A i \in 1 .. Len(events) : events[i] \in Events
  OBVIOUS
<1>2. IsFiniteSet(Families(events))
  <2>1. Families(events) \in SUBSET {"verify", "kindling"}
    BY <1>1, FamilyIs DEF Families
  <2>2. IsFiniteSet({"verify"} \union {"kindling"})
    BY FS_Singleton, FS_AddElement
  <2>3. {"verify"} \union {"kindling"} = {"verify", "kindling"}
    OBVIOUS
  <2>. QED
    BY <2>1, <2>2, <2>3, FS_Subset
<1>3. ASSUME NEW f \in Families(events)
      PROVE  /\ \E i \in 1 .. Len(events) :
                  /\ f \in FamilyOf(events[i])
                  /\ Kept(events, f) = toEarnedBadge(events[i], f)
             /\ Kept(events, f).issued_at \in Int
  <2>1. PICK j \in 1 .. Len(events) : f \in FamilyOf(events[j])
    BY <1>1 DEF Families
  <2>2. PICK i \in 1 .. Len(events) :
          f \in FamilyOf(events[i]) /\ Kept(events, f) = toEarnedBadge(events[i], f)
    BY <1>1, <2>1, KeptIs
  <2>3. events[i].ts \in Int
    BY <1>1 DEF Events
  <2>4. Kept(events, f).issued_at = events[i].ts
    BY <2>2 DEF toEarnedBadge
  <2>. QED
    BY <2>2, <2>3, <2>4
<1>4. ASSUME NEW f \in Families(events)
      PROVE  FirstOf(events, f) \in 1 .. Len(events) /\ f \in FamilyOf(events[FirstOf(events, f)])
  <2>. DEFINE S == {i \in 1 .. Len(events) : f \in FamilyOf(events[i])}
  <2>1. S # {} /\ S \in SUBSET Nat
    BY <1>1 DEF Families
  <2>2. PICK n \in S : \A m \in S : n <= m
    BY <2>1, LeastNat
  <2>3. n \in DOMAIN events /\ f \in FamilyOf(events[n])
    BY <1>1
  <2>4. \A j \in 1 .. n - 1 : f \notin FamilyOf(events[j])
    <3>. SUFFICES ASSUME NEW j \in 1 .. n - 1, f \in FamilyOf(events[j]) PROVE FALSE
      OBVIOUS
    <3>1. j \in S /\ ~(n <= j)
      BY <1>1
    <3>. QED
      BY <2>2, <3>1
  <2>. QED
    BY <1>1, <2>3, <2>4 DEF FirstOf
<1>. QED
  BY <1>2, <1>3, <1>4

\* Of two families one comes first.
LEMMA EarlierOrders ==
  ASSUME NEW events \in Seq(Events)
  PROVE  LET F == Families(events)
         IN  Orders({x \in F \X F : Earlier(events, x[1], x[2])}, F)
<1>. DEFINE F == Families(events)
            B == {x \in F \X F : Earlier(events, x[1], x[2])}
            Time(f) == Kept(events, f).issued_at
            First(f) == FirstOf(events, f)
<1>1. \A x, y \in F : <<x, y>> \in B <=> Earlier(events, x, y)
  OBVIOUS
<1>2. \A x, y \in F : <<x, y>> \in B <=>
        Time(x) < Time(y) \/ (Time(x) = Time(y) /\ First(x) < First(y))
  BY <1>1 DEF Earlier
<1>3. \A x \in F : Time(x) \in Int /\ First(x) \in Int
  <2>. SUFFICES ASSUME NEW x \in F PROVE Time(x) \in Int /\ First(x) \in Int
    OBVIOUS
  <2>1. Time(x) \in Int /\ First(x) \in 1 .. Len(events)
    BY FamiliesAre
  <2>. QED
    BY <2>1
<1>4. ASSUME NEW x \in F, NEW y \in F, First(x) = First(y) PROVE x = y
  <2>. DEFINE e == events[First(x)]
  <2>1. First(x) \in 1 .. Len(events) /\ x \in FamilyOf(e) /\ y \in FamilyOf(e)
    BY <1>4, FamiliesAre
  <2>2. e \in Events
    BY <2>1
  <2>. QED
    BY <2>1, <2>2, FamilyIs
<1>. HIDE DEF B, Time, First, F
<1>5. \A x \in F : <<x, x>> \notin B
  BY <1>2, <1>3
<1>6. \A x, y, z \in F : <<x, y>> \in B /\ <<y, z>> \in B => <<x, z>> \in B
  BY <1>2, <1>3
<1>7. \A x, y \in F : x # y => <<x, y>> \in B \/ <<y, x>> \in B
  BY <1>2, <1>3, <1>4
<1>8. Orders(B, F)
  BY <1>5, <1>6, <1>7 DEF Orders
<1>. QED
  BY <1>8 DEF B, F

\* The badges of a page are those of its events, and each activity on it has one.
LEMMA BadgesAre ==
  ASSUME NEW events \in Seq(Events)
  PROVE  LET badges == projectEarnedBadges(events)
         IN  /\ \A b \in ToSet(badges) : \E i \in 1 .. Len(events) : b.event = events[i]
             /\ \A i \in 1 .. Len(events) :
                  \E b \in ToSet(badges) : b.event.activity = events[i].activity
<1>. DEFINE F == Families(events)
            B == {x \in F \X F : Earlier(events, x[1], x[2])}
            earlier(f, g) == Earlier(events, f, g)
            nth(n) == CHOOSE x \in F : Cardinality({y \in F : Earlier(events, y, x)}) = n - 1
            order == Sorted(F, earlier)
            badges == projectEarnedBadges(events)
<1>1. badges = [i \in DOMAIN order |-> Kept(events, order[i])]
  BY ProjectionIs
<1>2. IsFiniteSet(F) /\ Orders(B, F)
  BY FamiliesAre, EarlierOrders
<1>3. \A x \in F : Cardinality({y \in F : Earlier(events, y, x)}) = Rank(x, F, B)
  <2>. SUFFICES ASSUME NEW x \in F
                PROVE  Cardinality({y \in F : Earlier(events, y, x)}) = Rank(x, F, B)
    OBVIOUS
  <2>1. {y \in F : Earlier(events, y, x)} = {y \in F : <<y, x>> \in B}
    OBVIOUS
  <2>. QED
    BY <2>1 DEF Rank
<1>4. order = [n \in 1 .. Cardinality(F) |-> nth(n)]
  BY DEF Sorted
<1>. HIDE DEF order, B, F, nth
<1>5. ASSUME NEW n \in 1 .. Cardinality(F)
      PROVE  order[n] \in F /\ Rank(order[n], F, B) = n - 1
  <2>1. PICK x \in F : Rank(x, F, B) = n - 1
    BY <1>2, RanksAreTaken
  <2>2. Cardinality({y \in F : Earlier(events, y, x)}) = n - 1
    BY <1>3, <2>1
  <2>3. order[n] = CHOOSE z \in F : Cardinality({y \in F : Earlier(events, y, z)}) = n - 1
    BY <1>4 DEF nth
  <2>4. order[n] \in F /\ Cardinality({y \in F : Earlier(events, y, order[n])}) = n - 1
    BY <2>2, <2>3
  <2>. QED
    BY <1>3, <2>4
<1>6. order = [n \in 1 .. Cardinality(F) |-> order[n]]
  BY <1>4
<1>7. order \in Seq(F) /\ ToSet(order) = F
  BY <1>2, <1>5, <1>6, RankedIsAll
<1>. HIDE DEF badges
<1>8. \A b \in ToSet(badges) : \E f \in F : b = Kept(events, f)
  BY <1>1, <1>7 DEF ToSet
<1>9. \A f \in F : Kept(events, f) \in ToSet(badges)
  BY <1>1, <1>7 DEF ToSet
<1>10. ASSUME NEW b \in ToSet(badges) PROVE \E i \in 1 .. Len(events) : b.event = events[i]
  <2>1. PICK f \in F : b = Kept(events, f)
    BY <1>8
  <2>2. PICK i \in 1 .. Len(events) : Kept(events, f) = toEarnedBadge(events[i], f)
    BY FamiliesAre DEF F
  <2>. QED
    BY <2>1, <2>2 DEF toEarnedBadge
<1>11. ASSUME NEW i \in 1 .. Len(events)
       PROVE  \E b \in ToSet(badges) : b.event.activity = events[i].activity
  <2>1. events[i] \in Events
    OBVIOUS
  <2>2. PICK f \in FamilyOf(events[i]) : TRUE
    BY <2>1, FamilyIs
  <2>3. f \in F
    BY DEF F, Families
  <2>4. PICK j \in 1 .. Len(events) :
          f \in FamilyOf(events[j]) /\ Kept(events, f) = toEarnedBadge(events[j], f)
    BY <2>3, FamiliesAre DEF F
  <2>5. events[j] \in Events
    OBVIOUS
  <2>6. events[j].activity = events[i].activity
    BY <2>1, <2>2, <2>4, <2>5, FamilyIs
  <2>7. Kept(events, f).event = events[j]
    BY <2>4 DEF toEarnedBadge
  <2>. QED
    BY <1>9, <2>3, <2>6, <2>7
<1>. QED
  BY <1>10, <1>11 DEF badges

\* What was acknowledged is stored.
AckedInv == \A p \in acked : log[p] # <<>>

\* What the store has acknowledged, and the client has not been told yet, is stored.
AppendedInv ==
  \A c \in Client : answer[c] = "Appended" => log[Place(asked[c], resolved[c])] # <<>>

\* What a read has to show was acknowledged, and is what the read is about.
DueInv ==
  \A c \in Client : pc[c] = "query" => \A p \in due[c] : p \in acked /\ About(asked[c], p)

PagesInv == AckedInv /\ AppendedInv /\ DueInv

\* What is stored stays.
LEMMA LogGrows ==
  ASSUME TypeInv, [Next]_vars, NEW p \in Partition, log[p] # <<>>
  PROVE  log'[p] # <<>>
<1>1. CASE log' = log
  BY <1>1
<1>2. CASE log' # log
  <2>1. PICK c \in Client : Apply(c)
    BY <1>2, OnlyStoreAppends DEF StoreApplies
  <2>. QED
    BY <2>1, Applied DEF TypeInv, WorldInv
<1>. QED
  BY <1>1, <1>2

\* Only a handler that tells its client so acknowledges anything.
LEMMA OnlyHandlersAcknowledge ==
  ASSUME [Next]_vars, acked' # acked
  PROVE  \E c \in Client : CompletionAnswered(c)
<1>1. ASSUME NEW c \in Client, Handle(c), ~CompletionAnswered(c) PROVE acked' = acked
  BY <1>1 DEF Handle, Grade, Record, QueryFails, QueryAnswered
<1>2. ASSUME NEW c \in Client, NEW r \in Asked,
             ReceiveComplete(c, r) \/ ReceiveAttested(c, r) \/ ReceiveAdmin(c, r) \/ ReceiveRead(c, r)
      PROVE  acked' = acked
  BY <1>2 DEF ReceiveComplete, ReceiveAttested, ReceiveAdmin, ReceiveRead, Receive
<1>3. ASSUME NEW c \in Client,
             \/ \E r \in Sent : Turn(c, r)
             \/ TimedOut(c) \/ Hangup(c) \/ ResolveAnswered(c) \/ ResolveFailed(c)
             \/ StoreApplies(c) \/ StoreDeclines(c)
      PROVE  acked' = acked
  BY <1>3 DEF Turn, TimedOut, Hangup, ResolveAnswered, ResolveFailed, ResolvedTo, StoreApplies,
              StoreDeclines
<1>4. ASSUME \/ Tick \/ Shutdown
             \/ \E d \in Discord, i \in Identity \union {None} : Relink(d, i)
             \/ \E environment \in Config : Restart(environment)
             \/ UNCHANGED vars
      PROVE  acked' = acked
  BY <1>4 DEF Tick, Shutdown, Relink, Restart, vars
<1>. QED
  BY <1>1, <1>2, <1>3, <1>4 DEF Next

\* It acknowledges what the store has told it is stored.
LEMMA AckedStep ==
  ASSUME TypeInv, PagesInv, [Next]_vars
  PROVE  AckedInv' /\ acked \subseteq acked'
<1>1. acked \subseteq Partition
  BY DEF TypeInv, WorldInv
<1>2. CASE acked' = acked
  BY <1>1, <1>2, LogGrows DEF AckedInv, PagesInv
<1>3. CASE acked' # acked
  <2>1. PICK c \in Client : CompletionAnswered(c)
    BY <1>3, OnlyHandlersAcknowledge
  <2>2. /\ answer[c] = "Appended" /\ acked' = acked \union {Completion(c).partition}
        /\ log' = log /\ pc[c] = "append"
    BY <1>3, <2>1 DEF CompletionAnswered
  <2>3. asked[c] \in Asked /\ Granted(c)
    BY <2>2 DEF ClientInv, FlowInv, TypeInv, Domains, Idle
  <2>4. Completion(c).partition = Place(asked[c], resolved[c])
    BY <2>3, CompletionFits DEF TypeInv
  <2>. QED
    BY <2>2, <2>4 DEF PagesInv, AckedInv, AppendedInv
<1>. QED
  BY <1>2, <1>3

\* An answer of the store is kept until the client is told.
LEMMA AnswerKept ==
  ASSUME TypeInv, [Next]_vars, NEW c \in Client, answer'[c] = "Appended", ~StoreApplies(c)
  PROVE  answer[c] = "Appended" /\ asked'[c] = asked[c] /\ resolved'[c] = resolved[c]
<1>. DEFINE Goal == answer[c] = "Appended" /\ asked'[c] = asked[c] /\ resolved'[c] = resolved[c]
<1>1. answer[c] = "Appended" => pc[c] = "append"
  BY DEF TypeInv, ClientInv, WroteInv
<1>2. ASSUME NEW d \in Client, NEW response, Reply(d, response), answer' = answer,
             pc[d] # "append"
      PROVE  Goal
  BY <1>1, <1>2 DEF Reply, TypeInv, Domains
<1>3. ASSUME NEW d \in Client, Handle(d) PROVE Goal
  <2>1. CASE Record(d)
    BY <2>1 DEF Record, Reject, Submit, call, TypeInv, Domains
  <2>2. CASE CompletionAnswered(d)
    BY <2>2 DEF CompletionAnswered, Reply, TypeInv, Domains
  <2>3. CASE Grade(d) \/ QueryFails(d) \/ QueryAnswered(d)
    BY <1>2, <2>3 DEF Grade, QueryFails, QueryAnswered, store, call
  <2>. QED
    BY <1>3, <2>1, <2>2, <2>3 DEF Handle
<1>4. ASSUME NEW d \in Client, NEW r, NEW refused, NEW step, Receive(d, r, refused, step)
      PROVE  Goal
  BY <1>1, <1>2, <1>4 DEF Receive, store, Idle, TypeInv, Domains
<1>5. ASSUME NEW d \in Client, NEW r \in Asked,
             ReceiveComplete(d, r) \/ ReceiveAttested(d, r) \/ ReceiveAdmin(d, r) \/ ReceiveRead(d, r)
      PROVE  Goal
  BY <1>4, <1>5 DEF ReceiveComplete, ReceiveAttested, ReceiveAdmin, ReceiveRead
<1>6. ASSUME NEW d \in Client, NEW r \in Sent, Turn(d, r) PROVE Goal
  BY <1>2, <1>6 DEF Turn, store, Idle
<1>7. ASSUME NEW d \in Client, TimedOut(d) \/ Hangup(d) PROVE Goal
  BY <1>7 DEF TimedOut, Hangup, store
<1>8. ASSUME NEW d \in Client, ResolveAnswered(d) \/ ResolveFailed(d) PROVE Goal
  BY <1>1, <1>8 DEF ResolveAnswered, ResolveFailed, ResolvedTo, store, TypeInv, Domains
<1>9. ASSUME NEW d \in Client, StoreApplies(d) PROVE Goal
  <2>1. d # c
    BY <1>9
  <2>. QED
    BY <1>9, <2>1 DEF StoreApplies, Apply, Finish, TypeInv, Domains
<1>10. ASSUME NEW d \in Client, StoreDeclines(d) PROVE Goal
  BY <1>10 DEF StoreDeclines, Refuse, Reopen, AnswerCASFailed, AnswerDuplicate, GiveUp, Finish,
               call, TypeInv, Domains
<1>11. ASSUME \/ Tick \/ Shutdown
              \/ \E d \in Discord, i \in Identity \union {None} : Relink(d, i)
              \/ UNCHANGED vars
       PROVE  Goal
  BY <1>11 DEF Tick, Shutdown, Relink, vars, store, call
<1>12. ASSUME NEW environment \in Config, Restart(environment) PROVE Goal
  BY <1>12 DEF Restart
<1>. HIDE DEF Goal
<1>13. Goal
  BY <1>3, <1>5, <1>6, <1>7, <1>8, <1>9, <1>10, <1>11, <1>12 DEF Next
<1>. QED
  BY <1>13 DEF Goal

\* The store tells so after the append, of the partition that was asked for.
LEMMA AppendedStep ==
  ASSUME TypeInv, PagesInv, [Next]_vars
  PROVE  AppendedInv'
<1>. SUFFICES ASSUME NEW c \in Client, answer'[c] = "Appended"
              PROVE  log'[Place(asked'[c], resolved'[c])] # <<>>
  BY DEF AppendedInv, Place
<1>. DEFINE place == Place(asked[c], resolved[c])
<1>1. CASE StoreApplies(c)
  <2>1. Apply(c) /\ asked' = asked /\ resolved' = resolved
    BY <1>1 DEF StoreApplies
  <2>2. request[c].partition = place /\ place \in Partition
    BY <2>1, RequestOf DEF Apply, Requested
  <2>3. log'[place] = <<request[c].event>>
    BY <2>1, <2>2, Applied DEF TypeInv, WorldInv
  <2>. QED
    BY <2>1, <2>3
<1>2. CASE ~StoreApplies(c)
  <2>1. answer[c] = "Appended" /\ asked'[c] = asked[c] /\ resolved'[c] = resolved[c]
    BY <1>2, AnswerKept
  <2>2. pc[c] = "append"
    BY <2>1 DEF TypeInv, ClientInv, WroteInv
  <2>3. asked[c] \in Asked /\ Granted(c)
    BY <2>2 DEF ClientInv, FlowInv, TypeInv, Domains, Idle
  <2>4. place \in Partition
    BY <2>3, CompletionFits DEF TypeInv
  <2>5. log[place] # <<>>
    BY <2>1 DEF PagesInv, AppendedInv
  <2>. QED
    BY <2>1, <2>4, <2>5, LogGrows
<1>. QED
  BY <1>1, <1>2

\* A read is about what was acknowledged when it began.
LEMMA ReadsBegin ==
  ASSUME TypeInv, [Next]_vars, NEW c \in Client, pc'[c] = "query"
  PROVE  \/ pc[c] = "query" /\ asked'[c] = asked[c] /\ due'[c] = due[c]
         \/ due'[c] = {p \in acked : About(asked'[c], p)}
<1>. DEFINE Goal == \/ pc[c] = "query" /\ asked'[c] = asked[c] /\ due'[c] = due[c]
                    \/ due'[c] = {p \in acked : About(asked'[c], p)}
<1>2. ASSUME NEW d \in Client, NEW response, Reply(d, response) PROVE Goal
  BY <1>2 DEF Reply, TypeInv, Domains
<1>3. ASSUME NEW d \in Client, Handle(d) PROVE Goal
  BY <1>2, <1>3 DEF Handle, Grade, Record, CompletionAnswered, QueryFails, QueryAnswered, call,
                    TypeInv, Domains
<1>4. ASSUME NEW d \in Client, NEW r, NEW refused, NEW step, Receive(d, r, refused, step)
      PROVE  Goal
  <2>1. CASE refused # None
    BY <1>2, <1>4, <2>1 DEF Receive
  <2>2. CASE refused = None
    <3>1. /\ pc' = [pc EXCEPT ![d] = step] /\ asked' = [asked EXCEPT ![d] = r]
          /\ due' = [due EXCEPT ![d] =
                       IF step = "query" THEN {p \in acked : About(r, p)} ELSE {}]
      BY <1>4, <2>2 DEF Receive
    <3>2. CASE d = c
      BY <3>1, <3>2 DEF TypeInv, Domains
    <3>3. CASE d # c
      BY <3>1, <3>3 DEF TypeInv, Domains
    <3>. QED
      BY <3>2, <3>3
  <2>. QED
    BY <2>1, <2>2
<1>5. ASSUME NEW d \in Client, NEW r \in Asked,
             ReceiveComplete(d, r) \/ ReceiveAttested(d, r) \/ ReceiveAdmin(d, r) \/ ReceiveRead(d, r)
      PROVE  Goal
  BY <1>4, <1>5 DEF ReceiveComplete, ReceiveAttested, ReceiveAdmin, ReceiveRead
<1>6. ASSUME NEW d \in Client, NEW r \in Sent, Turn(d, r) PROVE Goal
  BY <1>2, <1>6 DEF Turn
<1>7. ASSUME NEW d \in Client, TimedOut(d) \/ Hangup(d) \/ StoreApplies(d) \/ StoreDeclines(d)
      PROVE  Goal
  BY <1>7 DEF TimedOut, Hangup, StoreApplies, StoreDeclines, call
<1>8. ASSUME NEW d \in Client, ResolveAnswered(d) \/ ResolveFailed(d) PROVE Goal
  BY <1>8 DEF ResolveAnswered, ResolveFailed, ResolvedTo, TypeInv, Domains
<1>9. ASSUME \/ Tick \/ Shutdown
             \/ \E d \in Discord, i \in Identity \union {None} : Relink(d, i)
             \/ \E environment \in Config : Restart(environment)
             \/ UNCHANGED vars
      PROVE  Goal
  BY <1>9 DEF Tick, Shutdown, Relink, Restart, vars, call
<1>. HIDE DEF Goal
<1>10. Goal
  BY <1>3, <1>5, <1>6, <1>7, <1>8, <1>9 DEF Next
<1>. QED
  BY <1>10 DEF Goal

\* What was acknowledged stays so while a read waits.
LEMMA DueStep ==
  ASSUME TypeInv, PagesInv, [Next]_vars
  PROVE  DueInv'
<1>. SUFFICES ASSUME NEW c \in Client, pc'[c] = "query", NEW p \in due'[c]
              PROVE  p \in acked' /\ About(asked'[c], p)
  BY DEF DueInv, About, Subject, identityOf
<1>1. acked \subseteq acked'
  BY AckedStep
<1>. QED
  BY <1>1, ReadsBegin DEF PagesInv, DueInv

\* The three hold in every state.
LEMMA PagesStored == Spec => [](TypeInv /\ PartitionInv /\ PagesInv)
<1>1. Init => PartitionInv /\ PagesInv
  BY DEF Init, LogInit, PartitionInv, PagesInv, AckedInv, AppendedInv, DueInv
<1>2. TypeInv /\ PagesInv /\ [Next]_vars => PagesInv'
  BY AckedStep, AppendedStep, DueStep DEF PagesInv
<1>. QED
  BY <1>1, <1>2, Typed, PartitionStep, PTL DEF Spec

\* A page is full because it is the store's answer to the read.
LEMMA FullPage ==
  ASSUME TypeInv, [Next]_vars, NEW c \in Client, pc[c] = "query", Idle(c)',
         reply'.completeness = "full"
  PROVE  reply' = ReadReply(asked[c])
<1>1. /\ NoReply.completeness # "full" /\ Failed.completeness # "full"
  BY DEF NoReply, Failed, Status
<1>2. pc'[c] # pc[c]
  BY DEF Idle
<1>3. ASSUME NEW d \in Client, NEW response, Reply(d, response)
      PROVE  d = c /\ reply' \in {response, NoReply}
  BY <1>2, <1>3 DEF Reply, TypeInv, Domains
<1>4. ASSUME NEW d \in Client, Handle(d) PROVE reply' = ReadReply(asked[c])
  <2>1. CASE Grade(d) \/ Record(d) \/ CompletionAnswered(d)
    <3>1. d = c
      BY <1>2, <1>3, <2>1 DEF Grade, Record, CompletionAnswered, call, TypeInv, Domains
    <3>. QED
      BY <2>1, <3>1 DEF Grade, Record, CompletionAnswered
  <2>2. CASE QueryFails(d)
    BY <1>1, <1>3, <2>2 DEF QueryFails
  <2>3. CASE QueryAnswered(d)
    BY <1>1, <1>3, <2>3 DEF QueryAnswered
  <2>. QED
    BY <1>4, <2>1, <2>2, <2>3 DEF Handle
<1>5. ASSUME NEW d \in Client, NEW r, NEW refused, NEW step, Receive(d, r, refused, step)
      PROVE  FALSE
  <2>1. d # c
    BY <1>5 DEF Receive, Idle
  <2>. QED
    BY <1>2, <1>3, <1>5, <2>1 DEF Receive, TypeInv, Domains
<1>6. ASSUME NEW d \in Client, NEW r \in Asked,
             ReceiveComplete(d, r) \/ ReceiveAttested(d, r) \/ ReceiveAdmin(d, r) \/ ReceiveRead(d, r)
      PROVE  FALSE
  BY <1>5, <1>6 DEF ReceiveComplete, ReceiveAttested, ReceiveAdmin, ReceiveRead
<1>7. ASSUME NEW d \in Client, NEW r \in Sent, Turn(d, r) PROVE FALSE
  BY <1>3, <1>7 DEF Turn, Idle
<1>8. ASSUME NEW d \in Client, TimedOut(d) \/ Hangup(d) \/ StoreApplies(d) \/ StoreDeclines(d)
      PROVE  FALSE
  BY <1>2, <1>8 DEF TimedOut, Hangup, StoreApplies, StoreDeclines
<1>9. ASSUME NEW d \in Client, ResolveAnswered(d) \/ ResolveFailed(d) PROVE FALSE
  BY <1>2, <1>9 DEF ResolveAnswered, ResolveFailed, ResolvedTo, TypeInv, Domains
<1>10. ASSUME \/ Tick \/ Shutdown
              \/ \E d \in Discord, i \in Identity \union {None} : Relink(d, i)
              \/ \E environment \in Config : Restart(environment)
              \/ UNCHANGED vars
       PROVE  FALSE
  BY <1>1, <1>2, <1>10 DEF Tick, Shutdown, Relink, Restart, Silent, vars
<1>. QED
  BY <1>4, <1>6, <1>7, <1>8, <1>9, <1>10 DEF Next

\* A page shows what is stored, of the identity it is about; and if it has no next one,
\* all that was acknowledged.
LEMMA PageShows ==
  ASSUME TypeInv, PartitionInv, PagesInv, NEW c \in Client, pc[c] = "query"
  PROVE  LET r == asked[c]
             page == Page(r)
         IN  /\ page \in Seq(Events)
             /\ \A n \in DOMAIN page : page[n].identity = Subject(r) /\ Known(page[n])
             /\ pageTail(page, clampedLimit(r)) = None =>
                  \A p \in due[c] : \E n \in DOMAIN page : page[n].activity = p[2]
<1>. DEFINE r == asked[c]
            page == Page(r)
            limit == clampedLimit(r)
<1>1. r \in Asked
  BY DEF TypeInv, ClientInv, FlowInv, Domains, Idle
<1>2. /\ page \in Seq(Events)
      /\ \A n \in DOMAIN page : \E row \in Mine(r) : page[n] = EventOf(row)
      /\ Len(page) < limit => \A row \in Mine(r) : \E n \in DOMAIN page : page[n] = EventOf(row)
  BY <1>1, PageIs
<1>3. limit \in Nat \ {0}
  BY <1>1, LimitIs
<1>. HIDE DEF page, limit
<1>4. ASSUME NEW n \in DOMAIN page
      PROVE  page[n].identity = Subject(r) /\ Known(page[n])
  <2>1. PICK row \in Mine(r) : page[n] = EventOf(row)
    BY <1>2
  <2>2. About(r, <<EventOf(row).identity, EventOf(row).activity>>)
    BY DEF Mine
  <2>3. /\ PartitionOrder[row[1]] \in Partition
        /\ row[2] \in DOMAIN log[PartitionOrder[row[1]]]
    BY RowsAre DEF Mine
  <2>4. Known(EventOf(row))
    BY <2>3 DEF Known, Stored, EventOf
  <2>. QED
    BY <2>1, <2>2, <2>4 DEF About
<1>5. ASSUME pageTail(page, limit) = None, NEW p \in due[c]
      PROVE  \E n \in DOMAIN page : page[n].activity = p[2]
  <2>1. Len(page) < limit
    <3>1. SUFFICES ASSUME Len(page) >= limit PROVE FALSE
      BY <1>2, <1>3
    <3>2. Len(page) \in DOMAIN page
      BY <1>2, <1>3, <3>1
    <3>3. Last(page) \in Events
      BY <1>2, <3>2 DEF Last
    <3>. QED
      BY <1>5, <3>1, <3>3, RequestsOK DEF pageTail
  <2>2. p \in acked /\ About(r, p) /\ p \in Partition /\ log[p] # <<>>
    BY DEF PagesInv, DueInv, AckedInv, TypeInv, WorldInv
  <2>3. log[p] \in Seq(Events)
    BY <2>2 DEF TypeInv, WorldInv
  <2>4. 1 \in DOMAIN log[p]
    BY <2>2, <2>3
  <2>5. log[p][1].identity = p[1] /\ log[p][1].activity = p[2]
    BY <2>2, <2>4 DEF PartitionInv
  <2>6. PICK row \in Rows : EventOf(row) = log[p][1]
    BY <2>2, <2>4, RowsAre
  <2>7. row \in Mine(r)
    BY <2>2, <2>5, <2>6 DEF Mine, About
  <2>. QED
    BY <1>2, <2>1, <2>5, <2>6, <2>7
<1>. QED
  BY <1>2, <1>4, <1>5 DEF page, limit

\* What a read is told.
LEMMA ReadShows ==
  ASSUME TypeInv, PartitionInv, PagesInv, NEW c \in Client, pc[c] = "query",
         ReadReply(asked[c]).completeness = "full"
  PROVE  LET answered == ReadReply(asked[c])
             items == ToSet(answered.items)
             shown == IF asked[c].route = "activities" THEN items ELSE {b.event : b \in items}
         IN  /\ \A e \in shown : e.identity = Subject(asked[c]) /\ Known(e)
             /\ answered.next_cursor = None =>
                  \A p \in due[c] : \E e \in shown : p[2] = e.activity
<1>. DEFINE r == asked[c]
            page == Page(r)
            limit == clampedLimit(r)
            answered == ReadReply(r)
            items == ToSet(answered.items)
            shown == IF r.route = "activities" THEN items ELSE {b.event : b \in items}
            badges == projectEarnedBadges(page)
<1>1. /\ page \in Seq(Events)
      /\ \A n \in DOMAIN page : page[n].identity = Subject(r) /\ Known(page[n])
      /\ pageTail(page, limit) = None =>
           \A p \in due[c] : \E n \in DOMAIN page : page[n].activity = p[2]
  BY PageShows
<1>2. r.route # "progress"
  BY DEF ReadReply, Status
<1>3. /\ answered.items = IF r.route = "activities" THEN page ELSE badges
      /\ answered.next_cursor = pageTail(page, limit)
  BY <1>2 DEF ReadReply, Status
<1>. HIDE DEF page, limit, answered, badges
<1>4. /\ \A e \in shown : \E n \in DOMAIN page : e = page[n]
      /\ \A n \in DOMAIN page : \E e \in shown : e.activity = page[n].activity
  <2>1. CASE r.route = "activities"
    BY <1>3, <2>1 DEF ToSet
  <2>2. CASE r.route # "activities"
    <3>1. /\ \A b \in ToSet(badges) : \E i \in 1 .. Len(page) : b.event = page[i]
          /\ \A i \in 1 .. Len(page) : \E b \in ToSet(badges) : b.event.activity = page[i].activity
      BY <1>1, BadgesAre DEF badges
    <3>2. DOMAIN page = 1 .. Len(page) /\ shown = {b.event : b \in ToSet(badges)}
      BY <1>1, <1>3, <2>2
    <3>3. ASSUME NEW e \in shown PROVE \E n \in DOMAIN page : e = page[n]
      <4>1. PICK b \in ToSet(badges) : e = b.event
        BY <3>2
      <4>. QED
        BY <3>1, <3>2, <4>1
    <3>4. ASSUME NEW n \in DOMAIN page PROVE \E e \in shown : e.activity = page[n].activity
      <4>1. PICK b \in ToSet(badges) : b.event.activity = page[n].activity
        BY <3>1, <3>2
      <4>2. b.event \in shown
        BY <3>2
      <4>. QED
        BY <4>1, <4>2
    <3>. QED
      BY <3>3, <3>4
  <2>. QED
    BY <2>1, <2>2
<1>. HIDE DEF shown
<1>5. \A e \in shown : e.identity = Subject(r) /\ Known(e)
  BY <1>1, <1>4
<1>6. answered.next_cursor = None => \A p \in due[c] : \E e \in shown : p[2] = e.activity
  BY <1>1, <1>3, <1>4
<1>. QED
  BY <1>5, <1>6 DEF shown, answered

\* A page that says it is full shows nothing that is not stored or is about somebody else,
\* and, if it has no next_cursor, every completion that was acknowledged before it was
\* asked for (reads.ts:101-225, badge-projection.ts:85-103, event-store.ts:423-485).
THEOREM PagesAreHonest == Spec => PageIsHonest
<1>1. ASSUME TypeInv, PartitionInv, PagesInv, [Next]_vars, NEW c \in Client,
             pc[c] = "query", Idle(c)', reply'.completeness = "full"
      PROVE  LET items == ToSet(reply'.items)
                 shown == IF asked[c].route = "activities" THEN items ELSE {b.event : b \in items}
             IN  /\ \A e \in shown : e.identity = Subject(asked[c]) /\ Known(e)
                 /\ reply'.next_cursor = None =>
                      \A p \in due[c] : \E e \in shown : p[2] = e.activity
  <2>1. reply' = ReadReply(asked[c])
    BY <1>1, FullPage
  <2>2. ReadReply(asked[c]).completeness = "full"
    BY <1>1, <2>1
  <2>. QED
    BY <1>1, <2>1, <2>2, ReadShows
<1>2. TypeInv /\ PartitionInv /\ PagesInv /\ [Next]_vars =>
        [\A c \in Client : pc[c] = "query" /\ Idle(c)' /\ reply'.completeness = "full" =>
           LET items == ToSet(reply'.items)
               shown == IF asked[c].route = "activities" THEN items ELSE {b.event : b \in items}
           IN  /\ \A e \in shown : e.identity = Subject(asked[c]) /\ Known(e)
               /\ reply'.next_cursor = None =>
                    \A p \in due[c] : \E e \in shown : p[2] = e.activity]_vars
  BY <1>1
<1>. QED
  BY <1>2, PagesStored, PTL DEF Spec, PageIsHonest

-----------------------------------------------------------------------------
\* Trees of badge snapshots, of any number of leaves.

\* Parents of a level: half as many, rounded up.
LEMMA ParentsList ==
  ASSUME NEW s, IsList(s), Len(s) > 0
  PROVE  /\ IsList(Parents(s)) /\ Len(Parents(s)) = (Len(s) + 1) \div 2
         /\ \A i \in 1 .. (Len(s) + 1) \div 2 : Parents(s)[i] = PromoteOrPair(s, i)
<1>1. Len(s) \in Nat
  BY DEF IsList
<1>2. (Len(s) + 1) \div 2 \in Nat
  BY <1>1
<1>3. Parents(s) = [i \in 1 .. (Len(s) + 1) \div 2 |-> Parents(s)[i]]
  BY DEF Parents
<1>. QED
  BY <1>2, <1>3, ListIs DEF Parents

\* The recursion of Levels has a solution, of any length.
LEMMA LevelExists ==
  ASSUME NEW s, NEW n \in Nat
  PROVE  \E f : f = [k \in 1 .. n |-> IF k = 1 THEN s ELSE Parents(f[k - 1])]
<1>. DEFINE T == {m \in Nat : \E f : f = [k \in 1 .. m |-> IF k = 1 THEN s ELSE Parents(f[k - 1])]}
<1>1. 0 \in T
  <2>. DEFINE f == [k \in 1 .. 0 |-> s]
  <2>1. f = [k \in 1 .. 0 |-> IF k = 1 THEN s ELSE Parents(f[k - 1])]
    OBVIOUS
  <2>. QED
    BY <2>1
<1>2. ASSUME NEW m \in Nat, m \in T PROVE m + 1 \in T
  <2>1. PICK f : f = [k \in 1 .. m |-> IF k = 1 THEN s ELSE Parents(f[k - 1])]
    BY <1>2
  <2>. DEFINE g == [k \in 1 .. m + 1 |-> IF k = 1 THEN s ELSE Parents(f[k - 1])]
  <2>2. \A k \in 1 .. m : g[k] = f[k]
    BY <2>1
  <2>3. g = [k \in 1 .. m + 1 |-> IF k = 1 THEN s ELSE Parents(g[k - 1])]
    <3>1. \A k \in 1 .. m + 1 : k # 1 => k - 1 \in 1 .. m
      OBVIOUS
    <3>. QED
      BY <3>1, <2>2
  <2>. HIDE DEF g
  <2>4. m + 1 \in Nat
    OBVIOUS
  <2>. QED
    BY <2>3, <2>4
<1>3. n \in T
  BY <1>1, <1>2, Induction
<1>. QED
  BY <1>3

\* The two local definitions of Levels: every level, and the first that is a root.
LevelOf(s) ==
  CHOOSE f : f = [k \in 1 .. Len(s) |-> IF k = 1 THEN s ELSE Parents(f[k - 1])]

\* Each level is made of the parents of the one below it.
LEMMA LevelStep ==
  ASSUME NEW s, IsList(s), Len(s) > 0
  PROVE  /\ LevelOf(s)[1] = s
         /\ \A k \in 1 .. Len(s) - 1 : LevelOf(s)[k + 1] = Parents(LevelOf(s)[k])
<1>. DEFINE L == LevelOf(s)
<1>1. Len(s) \in Nat
  BY DEF IsList
<1>2. L = [k \in 1 .. Len(s) |-> IF k = 1 THEN s ELSE Parents(L[k - 1])]
  BY <1>1, LevelExists DEF LevelOf
<1>. HIDE DEF L
<1>3. L[1] = s
  BY <1>1, <1>2
<1>4. ASSUME NEW k \in 1 .. Len(s) - 1 PROVE L[k + 1] = Parents(L[k])
  <2>1. k + 1 \in 1 .. Len(s) /\ k + 1 # 1 /\ k + 1 - 1 = k
    BY <1>1
  <2>. QED
    BY <2>1, <1>2
<1>. QED
  BY <1>3, <1>4 DEF L

HeightOf(s) == CHOOSE k \in 1 .. Len(s) :
        Len(LevelOf(s)[k]) = 1 /\ \A j \in 1 .. k - 1 : Len(LevelOf(s)[j]) > 1

\* Levels are the first HeightOf of them.
LEMMA LevelsIs ==
  ASSUME NEW s
  PROVE  Levels(s) = [k \in 1 .. HeightOf(s) |-> LevelOf(s)[k]]
  BY DEF Levels, LevelOf, HeightOf

\* A level of more than one node is longer than the level of its parents.
LEMMA HalfRoundedUp ==
  ASSUME NEW l \in Nat, l > 0
  PROVE  (l + 1) \div 2 \in Nat /\ (l + 1) \div 2 > 0 /\ (l > 1 => (l + 1) \div 2 < l)
         /\ (l = 1 => (l + 1) \div 2 = 1)
  OBVIOUS

\* No level is empty, and level k has at most Len(s) + 1 - k nodes.
LEMMA LevelShape ==
  ASSUME NEW s, IsList(s), Len(s) > 0
  PROVE  \A k \in 1 .. Len(s) :
           IsList(LevelOf(s)[k]) /\ Len(LevelOf(s)[k]) > 0 /\ Len(LevelOf(s)[k]) + k <= Len(s) + 1
<1>1. Len(s) \in Nat
  BY DEF IsList
<1>. DEFINE L == LevelOf(s)
            T == {m \in Nat : m + 1 \in 1 .. Len(s) =>
                    IsList(L[m + 1]) /\ Len(L[m + 1]) > 0 /\ Len(L[m + 1]) + m <= Len(s)}
<1>2. 0 \in T
  BY LevelStep, <1>1
<1>3. ASSUME NEW m \in Nat, m \in T PROVE m + 1 \in T
  <2>1. SUFFICES ASSUME m + 2 \in 1 .. Len(s)
                 PROVE  IsList(L[m + 2]) /\ Len(L[m + 2]) > 0 /\ Len(L[m + 2]) + m + 1 <= Len(s)
    OBVIOUS
  <2>. DEFINE p == L[m + 1]
  <2>2. m + 1 \in 1 .. Len(s) - 1 /\ m + 1 + 1 = m + 2
    BY <2>1, <1>1
  <2>3. IsList(p) /\ Len(p) > 0 /\ Len(p) + m <= Len(s)
    BY <1>3, <2>2, <1>1
  <2>4. L[m + 2] = Parents(p)
    <3>1. L[m + 1 + 1] = Parents(L[m + 1])
      BY <2>2, LevelStep
    <3>. QED
      BY <3>1, <2>2
  <2>. HIDE DEF L
  <2>5. Len(p) \in Nat
    BY <2>3 DEF IsList
  <2>. HIDE DEF p
  <2>6. IsList(Parents(p)) /\ Len(Parents(p)) = (Len(p) + 1) \div 2
    BY <2>3, ParentsList
  <2>7. Len(Parents(p)) > 0 /\ Len(Parents(p)) + m + 1 <= Len(s)
    <3>1. CASE Len(p) > 1
      BY <3>1, <2>3, <2>5, <2>6, <1>1, HalfRoundedUp
    <3>2. CASE Len(p) = 1
      BY <3>2, <2>1, <2>5, <2>6, <1>1, HalfRoundedUp
    <3>3. Len(p) > 1 \/ Len(p) = 1
      <4>1. \A l \in Nat : l > 0 => l > 1 \/ l = 1
        OBVIOUS
      <4>. QED
        BY <4>1, <2>3, <2>5
    <3>. QED
      BY <3>1, <3>2, <3>3
  <2>. QED
    BY <2>4, <2>6, <2>7
<1>4. ASSUME NEW k \in 1 .. Len(s)
      PROVE  IsList(L[k]) /\ Len(L[k]) > 0 /\ Len(L[k]) + k <= Len(s) + 1
  <2>1. k - 1 \in Nat /\ k - 1 + 1 = k /\ k \in Nat
    BY <1>1
  <2>. HIDE DEF L
  <2>2. k - 1 \in T
    <3>. HIDE DEF T
    <3>. QED
      BY <1>2, <1>3, <2>1, Induction
  <2>3. IsList(L[k]) /\ Len(L[k]) > 0 /\ Len(L[k]) + (k - 1) <= Len(s)
    BY <2>2, <2>1
  <2>4. Len(L[k]) \in Nat
    BY <2>3 DEF IsList
  <2>. QED
    BY <2>3, <2>4, <2>1, <1>1
<1>. QED
  BY <1>4

\* There is a level of one node, and the levels stop at the first.
LEMMA HeightIs ==
  ASSUME NEW s, IsList(s), Len(s) > 0
  PROVE  /\ HeightOf(s) \in 1 .. Len(s)
         /\ Len(LevelOf(s)[HeightOf(s)]) = 1
         /\ \A j \in 1 .. HeightOf(s) - 1 : Len(LevelOf(s)[j]) > 1
<1>1. Len(s) \in Nat
  BY DEF IsList
<1>. DEFINE L == LevelOf(s)
            S == {k \in 1 .. Len(s) : Len(L[k]) = 1}
<1>2. \A k \in 1 .. Len(s) : Len(L[k]) \in Nat /\ Len(L[k]) > 0 /\ Len(L[k]) + k <= Len(s) + 1
  <2>. SUFFICES ASSUME NEW k \in 1 .. Len(s)
               PROVE  Len(L[k]) \in Nat /\ Len(L[k]) > 0 /\ Len(L[k]) + k <= Len(s) + 1
    OBVIOUS
  <2>1. IsList(L[k]) /\ Len(L[k]) > 0 /\ Len(L[k]) + k <= Len(s) + 1
    BY LevelShape
  <2>. QED
    BY <2>1 DEF IsList
<1>. HIDE DEF L
<1>3. Len(s) \in S
  <2>1. Len(s) \in 1 .. Len(s)
    BY <1>1
  <2>2. \A l, n \in Nat : l > 0 /\ l + n <= n + 1 => l = 1
    OBVIOUS
  <2>3. Len(L[Len(s)]) = 1
    BY <2>1, <2>2, <1>1, <1>2
  <2>. QED
    BY <2>1, <2>3
<1>4. S \in SUBSET Nat
  BY <1>1
<1>. HIDE DEF S
<1>5. PICK k \in S : \A m \in S : k <= m
  BY <1>3, <1>4, LeastNat
<1>6. k \in 1 .. Len(s) /\ Len(L[k]) = 1
  BY DEF S
<1>7. ASSUME NEW j \in 1 .. k - 1 PROVE Len(L[j]) > 1
  <2>1. j \in 1 .. Len(s) /\ ~(k <= j)
    BY <1>1, <1>6
  <2>2. Len(L[j]) # 1
    BY <2>1, <1>5 DEF S
  <2>3. \A l \in Nat : l > 0 /\ l # 1 => l > 1
    OBVIOUS
  <2>. QED
    BY <2>1, <2>2, <2>3, <1>2
<1>. QED
  BY <1>6, <1>7 DEF HeightOf, L

\* The tree over a list of leaves: each level the parents of the one below it, up to a
\* level of one node.
IsTree(levels, sorted) ==
  /\ Len(levels) \in Nat \ {0}
  /\ levels[1] = sorted
  /\ \A k \in 1 .. Len(levels) : IsList(levels[k]) /\ Len(levels[k]) > 0
  /\ \A k \in 1 .. Len(levels) - 1 : levels[k + 1] = Parents(levels[k])
  /\ Len(levels[Len(levels)]) = 1

\* buildMerkleTree ends, with a tree over the leaves it was given (merkle.ts:185-198).
LEMMA LevelsAreATree ==
  ASSUME NEW s, IsList(s), Len(s) > 0
  PROVE  IsTree(Levels(s), s)
<1>. DEFINE h == HeightOf(s)
            L == LevelOf(s)
            ls == Levels(s)
<1>1. Len(s) \in Nat
  BY DEF IsList
<1>2. /\ h \in 1 .. Len(s) /\ h \in Nat
      /\ Len(L[h]) = 1
  BY <1>1, HeightIs
<1>3. ls = [k \in 1 .. h |-> L[k]]
  BY LevelsIs
<1>4. /\ L[1] = s
      /\ \A k \in 1 .. Len(s) - 1 : L[k + 1] = Parents(L[k])
      /\ \A k \in 1 .. Len(s) : IsList(L[k]) /\ Len(L[k]) > 0
  BY LevelStep, LevelShape
<1>. HIDE DEF h, L, ls
<1>5. \A k \in 1 .. h : ls[k] = L[k]
  BY <1>3
<1>6. Len(ls) = h
  <2>1. ls = [k \in 1 .. h |-> ls[k]]
    BY <1>3
  <2>. QED
    BY <2>1, <1>2, ListIs
<1>7. \A k \in 1 .. h : IsList(ls[k]) /\ Len(ls[k]) > 0
  BY <1>1, <1>2, <1>4, <1>5
<1>8. \A k \in 1 .. h - 1 : ls[k + 1] = Parents(ls[k])
  <2>1. \A k \in 1 .. h - 1 : k \in 1 .. Len(s) - 1 /\ k \in 1 .. h /\ k + 1 \in 1 .. h
    BY <1>1, <1>2
  <2>. QED
    BY <2>1, <1>4, <1>5
<1>9. ls[1] = s /\ Len(ls[h]) = 1 /\ h # 0
  BY <1>1, <1>2, <1>4, <1>5
<1>. QED
  BY <1>2, <1>6, <1>7, <1>8, <1>9 DEF IsTree, ls

\* What verifyMerkleProof has computed after each sibling.
Computed(leaf, proof) ==
  CHOOSE f : f = [k \in 0 .. Len(proof) |-> IF k = 0 THEN leaf ELSE hashPair(f[k - 1], proof[k])]

\* Its recursion has a solution too.
LEMMA FoldExists ==
  ASSUME NEW leaf, NEW proof, NEW n \in Nat
  PROVE  \E f : f = [k \in 0 .. n |-> IF k = 0 THEN leaf ELSE hashPair(f[k - 1], proof[k])]
<1>. DEFINE T == {m \in Nat : \E f :
                   f = [k \in 0 .. m |-> IF k = 0 THEN leaf ELSE hashPair(f[k - 1], proof[k])]}
<1>1. 0 \in T
  <2>. DEFINE f == [k \in 0 .. 0 |-> leaf]
  <2>1. f = [k \in 0 .. 0 |-> IF k = 0 THEN leaf ELSE hashPair(f[k - 1], proof[k])]
    OBVIOUS
  <2>. QED
    BY <2>1
<1>2. ASSUME NEW m \in Nat, m \in T PROVE m + 1 \in T
  <2>1. PICK f : f = [k \in 0 .. m |-> IF k = 0 THEN leaf ELSE hashPair(f[k - 1], proof[k])]
    BY <1>2
  <2>. DEFINE g == [k \in 0 .. m + 1 |-> IF k = 0 THEN leaf ELSE hashPair(f[k - 1], proof[k])]
  <2>2. \A k \in 0 .. m : g[k] = f[k]
    BY <2>1
  <2>3. g = [k \in 0 .. m + 1 |-> IF k = 0 THEN leaf ELSE hashPair(g[k - 1], proof[k])]
    <3>1. \A k \in 0 .. m + 1 : k # 0 => k - 1 \in 0 .. m
      OBVIOUS
    <3>. QED
      BY <3>1, <2>2
  <2>. HIDE DEF g
  <2>4. m + 1 \in Nat
    OBVIOUS
  <2>. QED
    BY <2>3, <2>4
<1>. HIDE DEF T
<1>3. n \in T
  BY <1>1, <1>2, Induction
<1>. QED
  BY <1>3 DEF T

\* Each sibling is hashed with what came before it.
LEMMA FoldStep ==
  ASSUME NEW leaf, NEW proof, Len(proof) \in Nat
  PROVE  /\ Computed(leaf, proof)[0] = leaf
         /\ \A k \in 0 .. Len(proof) - 1 :
              Computed(leaf, proof)[k + 1] = hashPair(Computed(leaf, proof)[k], proof[k + 1])
<1>. DEFINE f == Computed(leaf, proof)
<1>1. f = [k \in 0 .. Len(proof) |-> IF k = 0 THEN leaf ELSE hashPair(f[k - 1], proof[k])]
  BY FoldExists DEF Computed
<1>. HIDE DEF f
<1>2. f[0] = leaf
  BY <1>1
<1>3. ASSUME NEW k \in 0 .. Len(proof) - 1 PROVE f[k + 1] = hashPair(f[k], proof[k + 1])
  <2>1. k + 1 \in 0 .. Len(proof) /\ k + 1 # 0 /\ k + 1 - 1 = k
    OBVIOUS
  <2>. QED
    BY <2>1, <1>1
<1>. QED
  BY <1>2, <1>3 DEF f

\* A proof verifies when the last of them is the root.
LEMMA VerifyIs ==
  ASSUME NEW leaf, NEW proof, NEW root
  PROVE  verifyMerkleProof(leaf, proof, root) <=> Computed(leaf, proof)[Len(proof)] = root
  BY DEF verifyMerkleProof, Computed

\* All nodes of a tree.
TreeNodes(levels) == UNION {ToSet(levels[k]) : k \in 1 .. Len(levels)}

\* A node is a leaf, or the hash of a pair of nodes: a promoted one is a node of the
\* level below.
LEMMA NodesAreHashed ==
  ASSUME NEW ls, NEW s, IsTree(ls, s)
  PROVE  \A x \in TreeNodes(ls) : x \in ToSet(s) \/ \E a, b \in TreeNodes(ls) : x = hashPair(a, b)
<1>. DEFINE h == Len(ls)
            Hashed(x) == x \in ToSet(s) \/ \E a, b \in TreeNodes(ls) : x = hashPair(a, b)
            T == {m \in Nat : m + 1 \in 1 .. h => \A x \in ToSet(ls[m + 1]) : Hashed(x)}
<1>1. h \in Nat
  BY DEF IsTree
<1>. HIDE DEF Hashed
<1>2. 0 \in T
  BY DEF IsTree, Hashed
<1>3. ASSUME NEW m \in Nat, m \in T PROVE m + 1 \in T
  <2>1. SUFFICES ASSUME m + 2 \in 1 .. h, NEW x \in ToSet(ls[m + 2]) PROVE Hashed(x)
    OBVIOUS
  <2>. DEFINE p == ls[m + 1]
  <2>2. m + 1 \in 1 .. h - 1 /\ m + 1 \in 1 .. h /\ m + 1 + 1 = m + 2
    BY <1>1, <2>1
  <2>3. \A y \in ToSet(p) : Hashed(y)
    BY <1>3, <2>2
  <2>4. IsList(p) /\ Len(p) > 0 /\ ls[m + 2] = Parents(p) /\ ToSet(p) \subseteq TreeNodes(ls)
    BY <2>2 DEF IsTree, TreeNodes
  <2>5. Len(p) \in Nat
    BY <2>4 DEF IsList
  <2>. HIDE DEF p
  <2>6. PICK i \in 1 .. (Len(p) + 1) \div 2 : x = PromoteOrPair(p, i)
    <3>1. DOMAIN Parents(p) = 1 .. (Len(p) + 1) \div 2
      BY DEF Parents
    <3>. QED
      BY <2>1, <2>4, <3>1, ParentsList DEF ToSet
  <2>7. \A j \in 1 .. Len(p) : p[j] \in ToSet(p)
    BY <2>4 DEF IsList, ToSet
  <2>8. 2 * i - 1 \in 1 .. Len(p)
    BY <2>5, <2>4
  <2>9. CASE 2 * i <= Len(p)
    <3>1. 2 * i \in 1 .. Len(p)
      BY <2>9, <2>5
    <3>2. x = hashPair(p[2 * i - 1], p[2 * i])
      BY <2>6, <2>9 DEF PromoteOrPair
    <3>3. p[2 * i - 1] \in TreeNodes(ls) /\ p[2 * i] \in TreeNodes(ls)
      BY <3>1, <2>4, <2>7, <2>8
    <3>. QED
      BY <3>2, <3>3 DEF Hashed
  <2>10. CASE ~(2 * i <= Len(p))
    <3>1. x = p[2 * i - 1]
      BY <2>6, <2>10 DEF PromoteOrPair
    <3>. QED
      BY <3>1, <2>3, <2>7, <2>8
  <2>. QED
    BY <2>9, <2>10
<1>4. ASSUME NEW x \in TreeNodes(ls) PROVE Hashed(x)
  <2>1. PICK k \in 1 .. h : x \in ToSet(ls[k])
    BY DEF TreeNodes
  <2>2. k - 1 \in Nat /\ k - 1 + 1 = k
    BY <1>1
  <2>3. k - 1 \in T
    <3>. HIDE DEF T
    <3>. QED
      BY <1>2, <1>3, <2>2, Induction
  <2>. QED
    BY <2>1, <2>2, <2>3
<1>. QED
  BY <1>4 DEF Hashed

\* A term that is not an inner node's.
NotAPair(x) == \A a, b : x # hashPair(a, b)

\* The root is a node.
LEMMA RootIsANode ==
  ASSUME NEW ls, NEW s, IsTree(ls, s)
  PROVE  Root(ls) \in TreeNodes(ls)
<1>1. Len(ls) \in 1 .. Len(ls) /\ IsList(ls[Len(ls)]) /\ Len(ls[Len(ls)]) = 1
  BY DEF IsTree
<1>2. 1 \in DOMAIN ls[Len(ls)]
  BY <1>1 DEF IsList
<1>. QED
  BY <1>1, <1>2 DEF TreeNodes, Root, Last, ToSet

\* Keccak-256 is taken to be injective: a pair has the hash of no other pair.
LEMMA PairsAreInjective ==
  ASSUME NEW a, NEW b, NEW x, NEW y, hashPair(x, y) = hashPair(a, b)
  PROVE  x \in {a, b}
<1>1. <<"pair", {x, y}>> = <<"pair", {a, b}>>
  BY DEF hashPair
<1>2. {x, y} = {a, b}
  BY <1>1
<1>3. x \in {x, y}
  OBVIOUS
<1>. QED
  BY <1>2, <1>3, Zenon

\* What verifies is a leaf, whatever the proof: from the root down, what the fold went
\* through is a node, so what it started from is one, and no pair.
LEMMA OnlyLeavesVerify ==
  ASSUME NEW ls, NEW s, IsTree(ls, s), \A x \in ToSet(s) : NotAPair(x),
         NEW leaf, NotAPair(leaf), NEW proof, Len(proof) \in Nat,
         verifyMerkleProof(leaf, proof, Root(ls))
  PROVE  leaf \in ToSet(s)
<1>. DEFINE f == Computed(leaf, proof)
            n == Len(proof)
            T == {m \in Nat : m <= n => f[n - m] \in TreeNodes(ls)}
<1>1. f[n] = Root(ls)
  BY VerifyIs
<1>2. f[0] = leaf /\ \A k \in 0 .. n - 1 : f[k + 1] = hashPair(f[k], proof[k + 1])
  BY FoldStep
<1>. HIDE DEF f
<1>3. 0 \in T
  BY <1>1, RootIsANode
<1>4. ASSUME NEW m \in Nat, m \in T PROVE m + 1 \in T
  <2>1. SUFFICES ASSUME m + 1 <= n PROVE f[n - (m + 1)] \in TreeNodes(ls)
    OBVIOUS
  <2>. DEFINE k == n - (m + 1)
  <2>2. k \in 0 .. n - 1 /\ k + 1 = n - m /\ m <= n
    BY <2>1
  <2>3. f[k + 1] \in TreeNodes(ls)
    BY <1>4, <2>2
  <2>. HIDE DEF k
  <2>4. f[k + 1] = hashPair(f[k], proof[k + 1])
    BY <1>2, <2>2
  <2>5. PICK a, b \in TreeNodes(ls) : f[k + 1] = hashPair(a, b)
    BY <2>3, <2>4, NodesAreHashed DEF NotAPair
  <2>6. f[k] \in {a, b}
    <3>. DEFINE x == f[k]
                y == proof[k + 1]
    <3>1. hashPair(x, y) = hashPair(a, b)
      BY <2>4, <2>5
    <3>. HIDE DEF x, y
    <3>2. x \in {a, b}
      BY <3>1, PairsAreInjective, Zenon
    <3>. QED
      BY <3>2 DEF x
  <2>7. f[k] \in TreeNodes(ls)
    BY <2>6
  <2>. QED
    BY <2>7 DEF k
<1>. HIDE DEF T
<1>5. n \in T
  BY <1>3, <1>4, Induction
<1>6. f[0] \in TreeNodes(ls)
  BY <1>5 DEF T
<1>. QED
  BY <1>2, <1>6, NodesAreHashed DEF NotAPair

\* The fold over the beginning of a proof does not look at the rest.
LEMMA FoldsAgree ==
  ASSUME NEW leaf, NEW p, NEW q, Len(p) \in Nat, Len(q) \in Nat, Len(p) <= Len(q),
         \A k \in 1 .. Len(p) : q[k] = p[k]
  PROVE  Computed(leaf, q)[Len(p)] = Computed(leaf, p)[Len(p)]
<1>. DEFINE f == Computed(leaf, p)
            g == Computed(leaf, q)
            T == {m \in Nat : m <= Len(p) => g[m] = f[m]}
<1>1. /\ f[0] = leaf /\ \A k \in 0 .. Len(p) - 1 : f[k + 1] = hashPair(f[k], p[k + 1])
      /\ g[0] = leaf /\ \A k \in 0 .. Len(q) - 1 : g[k + 1] = hashPair(g[k], q[k + 1])
  BY FoldStep
<1>. HIDE DEF f, g
<1>2. 0 \in T
  BY <1>1
<1>3. ASSUME NEW m \in Nat, m \in T PROVE m + 1 \in T
  <2>1. SUFFICES ASSUME m + 1 <= Len(p) PROVE g[m + 1] = f[m + 1]
    OBVIOUS
  <2>2. m \in 0 .. Len(p) - 1 /\ m \in 0 .. Len(q) - 1 /\ m + 1 \in 1 .. Len(p) /\ m <= Len(p)
    BY <2>1
  <2>3. g[m] = f[m] /\ q[m + 1] = p[m + 1]
    BY <2>2, <1>3
  <2>. QED
    BY <1>1, <2>2, <2>3
<1>. HIDE DEF T
<1>4. Len(p) \in T
  BY <1>2, <1>3, Induction
<1>. QED
  BY <1>4 DEF T, f, g

\* One more sibling is hashed with what the proof gave so far.
LEMMA FoldAppend ==
  ASSUME NEW leaf, NEW S, NEW p \in Seq(S), NEW x \in S
  PROVE  Computed(leaf, Append(p, x))[Len(Append(p, x))]
           = hashPair(Computed(leaf, p)[Len(p)], x)
<1>. DEFINE q == Append(p, x)
<1>1. Len(p) \in Nat /\ Len(q) = Len(p) + 1 /\ q[Len(p) + 1] = x
      /\ \A k \in 1 .. Len(p) : q[k] = p[k]
  OBVIOUS
<1>. HIDE DEF q
<1>2. Computed(leaf, q)[Len(p)] = Computed(leaf, p)[Len(p)]
  BY <1>1, FoldsAgree
<1>3. Computed(leaf, q)[Len(p) + 1] = hashPair(Computed(leaf, q)[Len(p)], q[Len(p) + 1])
  BY <1>1, FoldStep
<1>. QED
  BY <1>1, <1>2, <1>3 DEF q

\* The two local definitions of proofFor: the index at each level, and the siblings up to
\* it.
IndexAt(levels, leaf) ==
  CHOOSE f : f = [k \in 1 .. Len(levels) |->
    IF k = 1 THEN (CHOOSE i \in DOMAIN levels[1] : levels[1][i] = leaf) - 1
    ELSE f[k - 1] \div 2]

AreSiblings(f, levels, index, n) ==
  f = [k \in 0 .. n |->
         IF k = 0 THEN <<>>
         ELSE IF Sibling(index[k]) + 1 \in DOMAIN levels[k]
              THEN Append(f[k - 1], levels[k][Sibling(index[k]) + 1])
              ELSE f[k - 1]]

SiblingsTo(levels, leaf) ==
  CHOOSE f : AreSiblings(f, levels, IndexAt(levels, leaf), Len(levels) - 1)

\* The proof is what was gathered below the root.
LEMMA ProofIs ==
  ASSUME NEW levels, NEW leaf
  PROVE  proofFor(levels, leaf) = SiblingsTo(levels, leaf)[Len(levels) - 1]
  BY DEF proofFor, SiblingsTo, IndexAt, AreSiblings

\* Their recursions have solutions.
LEMMA IndexExists ==
  ASSUME NEW first, NEW n \in Nat
  PROVE  \E f : f = [k \in 1 .. n |-> IF k = 1 THEN first ELSE f[k - 1] \div 2]
<1>. DEFINE T == {m \in Nat : \E f : f = [k \in 1 .. m |-> IF k = 1 THEN first ELSE f[k - 1] \div 2]}
<1>1. 0 \in T
  <2>. DEFINE f == [k \in 1 .. 0 |-> first]
  <2>1. f = [k \in 1 .. 0 |-> IF k = 1 THEN first ELSE f[k - 1] \div 2]
    OBVIOUS
  <2>. QED
    BY <2>1
<1>2. ASSUME NEW m \in Nat, m \in T PROVE m + 1 \in T
  <2>1. PICK f : f = [k \in 1 .. m |-> IF k = 1 THEN first ELSE f[k - 1] \div 2]
    BY <1>2
  <2>. DEFINE g == [k \in 1 .. m + 1 |-> IF k = 1 THEN first ELSE f[k - 1] \div 2]
  <2>2. \A k \in 1 .. m : g[k] = f[k]
    BY <2>1
  <2>3. g = [k \in 1 .. m + 1 |-> IF k = 1 THEN first ELSE g[k - 1] \div 2]
    <3>1. \A k \in 1 .. m + 1 : k # 1 => k - 1 \in 1 .. m
      OBVIOUS
    <3>. QED
      BY <3>1, <2>2
  <2>. HIDE DEF g
  <2>4. m + 1 \in Nat
    OBVIOUS
  <2>. QED
    BY <2>3, <2>4
<1>. HIDE DEF T
<1>3. n \in T
  BY <1>1, <1>2, Induction
<1>. QED
  BY <1>3 DEF T

\* The index is that of the leaf, and halved from level to level.
LEMMA IndexStep ==
  ASSUME NEW levels, NEW leaf, Len(levels) \in Nat \ {0},
         \E i \in DOMAIN levels[1] : levels[1][i] = leaf
  PROVE  /\ \E i \in DOMAIN levels[1] :
              IndexAt(levels, leaf)[1] = i - 1 /\ levels[1][i] = leaf
         /\ \A k \in 1 .. Len(levels) - 1 :
              IndexAt(levels, leaf)[k + 1] = IndexAt(levels, leaf)[k] \div 2
<1>. DEFINE f == IndexAt(levels, leaf)
            first == (CHOOSE i \in DOMAIN levels[1] : levels[1][i] = leaf) - 1
<1>1. f = [k \in 1 .. Len(levels) |-> IF k = 1 THEN first ELSE f[k - 1] \div 2]
  <2>. HIDE DEF first
  <2>0. Len(levels) \in Nat
    OBVIOUS
  <2>1. \E g : g = [k \in 1 .. Len(levels) |-> IF k = 1 THEN first ELSE g[k - 1] \div 2]
    <3>1. \A c : \E g : g = [k \in 1 .. Len(levels) |-> IF k = 1 THEN c ELSE g[k - 1] \div 2]
      BY <2>0, IndexExists
    <3>. QED
      BY <3>1
  <2>. QED
    BY <2>1 DEF IndexAt, first
<1>. HIDE DEF f, first
<1>2. f[1] = first
  BY <1>1
<1>3. ASSUME NEW k \in 1 .. Len(levels) - 1 PROVE f[k + 1] = f[k] \div 2
  <2>1. k + 1 \in 1 .. Len(levels) /\ k + 1 # 1 /\ k + 1 - 1 = k
    OBVIOUS
  <2>. QED
    BY <2>1, <1>1
<1>4. \E i \in DOMAIN levels[1] : first = i - 1 /\ levels[1][i] = leaf
  BY DEF first
<1>. QED
  BY <1>2, <1>3, <1>4 DEF f

LEMMA SiblingsExist ==
  ASSUME NEW levels, NEW index, NEW n \in Nat
  PROVE  \E f : AreSiblings(f, levels, index, n)
<1>. DEFINE Chosen(k, s) ==
              IF Sibling(index[k]) + 1 \in DOMAIN levels[k]
              THEN Append(s, levels[k][Sibling(index[k]) + 1]) ELSE s
            T == {m \in Nat : \E f : f = [k \in 0 .. m |-> IF k = 0 THEN <<>> ELSE Chosen(k, f[k - 1])]}
<1>. HIDE DEF Chosen
<1>1. 0 \in T
  <2>. DEFINE f == [k \in 0 .. 0 |-> <<>>]
  <2>1. f = [k \in 0 .. 0 |-> IF k = 0 THEN <<>> ELSE Chosen(k, f[k - 1])]
    OBVIOUS
  <2>. QED
    BY <2>1
<1>2. ASSUME NEW m \in Nat, m \in T PROVE m + 1 \in T
  <2>1. PICK f : f = [k \in 0 .. m |-> IF k = 0 THEN <<>> ELSE Chosen(k, f[k - 1])]
    BY <1>2
  <2>. DEFINE g == [k \in 0 .. m + 1 |-> IF k = 0 THEN <<>> ELSE Chosen(k, f[k - 1])]
  <2>2. \A k \in 0 .. m : g[k] = f[k]
    BY <2>1
  <2>3. g = [k \in 0 .. m + 1 |-> IF k = 0 THEN <<>> ELSE Chosen(k, g[k - 1])]
    <3>1. \A k \in 0 .. m + 1 : k # 0 => k - 1 \in 0 .. m
      OBVIOUS
    <3>. QED
      BY <3>1, <2>2
  <2>. HIDE DEF g
  <2>4. m + 1 \in Nat
    OBVIOUS
  <2>. QED
    BY <2>3, <2>4
<1>. HIDE DEF T
<1>3. n \in T
  BY <1>1, <1>2, Induction
<1>. QED
  BY <1>3 DEF T, Chosen, AreSiblings

\* A sibling is appended where there is one.
LEMMA SiblingsStep ==
  ASSUME NEW levels, NEW leaf, Len(levels) \in Nat \ {0}
  PROVE  LET f == SiblingsTo(levels, leaf)
             sibling(k) == Sibling(IndexAt(levels, leaf)[k]) + 1
         IN  /\ f[0] = <<>>
             /\ \A k \in 1 .. Len(levels) - 1 :
                  /\ sibling(k) \in DOMAIN levels[k] => f[k] = Append(f[k - 1], levels[k][sibling(k)])
                  /\ sibling(k) \notin DOMAIN levels[k] => f[k] = f[k - 1]
<1>. DEFINE index == IndexAt(levels, leaf)
            f == SiblingsTo(levels, leaf)
            n == Len(levels) - 1
<1>1. f = [k \in 0 .. n |->
             IF k = 0 THEN <<>>
             ELSE IF Sibling(index[k]) + 1 \in DOMAIN levels[k]
                  THEN Append(f[k - 1], levels[k][Sibling(index[k]) + 1])
                  ELSE f[k - 1]]
  <2>1. n \in Nat
    OBVIOUS
  <2>2. AreSiblings(f, levels, index, n)
    BY <2>1, SiblingsExist DEF SiblingsTo
  <2>. HIDE DEF f, index, n
  <2>. QED
    BY <2>2 DEF AreSiblings
<1>. HIDE DEF f, index
<1>2. f[0] = <<>>
  BY <1>1
<1>3. ASSUME NEW k \in 1 .. n
      PROVE  /\ Sibling(index[k]) + 1 \in DOMAIN levels[k]
                  => f[k] = Append(f[k - 1], levels[k][Sibling(index[k]) + 1])
             /\ Sibling(index[k]) + 1 \notin DOMAIN levels[k] => f[k] = f[k - 1]
  <2>1. k \in 0 .. n /\ k # 0
    OBVIOUS
  <2>. QED
    BY <2>1, <1>1
<1>. QED
  BY <1>2, <1>3 DEF f, index

\* The pair is sorted before it is hashed, so that a proof need not say left or right.
LEMMA PairsCommute ==
  ASSUME NEW a, NEW b
  PROVE  hashPair(a, b) = hashPair(b, a)
<1>1. {a, b} = {b, a}
  OBVIOUS
<1>. QED
  BY <1>1 DEF hashPair

\* The parent of node j is hashed from it and its sibling, or is the node itself when it
\* has none.
LEMMA ParentOf ==
  ASSUME NEW p, IsList(p), NEW j \in 0 .. Len(p) - 1
  PROVE  /\ j \div 2 \in 0 .. Len(Parents(p)) - 1
         /\ Sibling(j) + 1 \in DOMAIN p =>
              Parents(p)[j \div 2 + 1] = hashPair(p[j + 1], p[Sibling(j) + 1])
         /\ Sibling(j) + 1 \notin DOMAIN p => Parents(p)[j \div 2 + 1] = p[j + 1]
<1>. DEFINE l == Len(p)
            i == j \div 2 + 1
<1>1. l \in Nat /\ DOMAIN p = 1 .. l /\ l > 0
  BY DEF IsList
<1>2. /\ Len(Parents(p)) = (l + 1) \div 2
      /\ \A k \in 1 .. (l + 1) \div 2 : Parents(p)[k] = PromoteOrPair(p, k)
  BY <1>1, ParentsList
<1>. HIDE DEF l
<1>3. j \in Nat /\ j < l
  BY <1>1 DEF l
<1>4. j \div 2 \in 0 .. (l + 1) \div 2 - 1
  BY <1>1, <1>3
<1>5. i \in 1 .. (l + 1) \div 2
  BY <1>4, <1>1
<1>6. Parents(p)[i] = PromoteOrPair(p, i)
  BY <1>2, <1>5
<1>7. CASE j % 2 = 1
  <2>1. 2 * i - 1 = j /\ 2 * i = j + 1 /\ j >= 1
    BY <1>3, <1>7
  <2>2. Sibling(j) + 1 = j /\ j \in DOMAIN p
    BY <1>1, <1>3, <1>7, <2>1 DEF Sibling
  <2>3. Parents(p)[i] = hashPair(p[j], p[j + 1])
    BY <1>1, <1>3, <1>6, <2>1 DEF PromoteOrPair, l
  <2>. QED
    BY <1>2, <1>4, <2>2, <2>3, PairsCommute
<1>8. CASE j % 2 = 0
  <2>1. 2 * i - 1 = j + 1 /\ 2 * i = j + 2
    BY <1>3, <1>8
  <2>2. Sibling(j) + 1 = j + 2
    BY <1>3, <1>8 DEF Sibling
  <2>3. CASE j + 2 <= l
    <3>1. Parents(p)[i] = hashPair(p[j + 1], p[j + 2])
      BY <1>6, <2>1, <2>3 DEF PromoteOrPair, l
    <3>2. j + 2 \in DOMAIN p
      BY <1>1, <1>3, <2>3
    <3>. QED
      BY <1>2, <1>4, <2>2, <3>1, <3>2
  <2>4. CASE ~(j + 2 <= l)
    <3>1. Parents(p)[i] = p[j + 1]
      BY <1>6, <2>1, <2>4 DEF PromoteOrPair, l
    <3>2. j + 2 \notin DOMAIN p
      BY <1>1, <1>3, <2>4
    <3>. QED
      BY <1>2, <1>4, <2>2, <3>1, <3>2
  <2>. QED
    BY <2>3, <2>4
<1>. QED
  BY <1>3, <1>7, <1>8

\* After the siblings below level k, the fold from a leaf is at its ancestor of that
\* level.
LEMMA ProofsFollowTheTree ==
  ASSUME NEW ls, NEW s, IsTree(ls, s), NEW leaf \in ToSet(s)
  PROVE  \A k \in 1 .. Len(ls) :
           /\ IndexAt(ls, leaf)[k] \in 0 .. Len(ls[k]) - 1
           /\ SiblingsTo(ls, leaf)[k - 1] \in Seq(TreeNodes(ls))
           /\ Computed(leaf, SiblingsTo(ls, leaf)[k - 1])[Len(SiblingsTo(ls, leaf)[k - 1])]
                = ls[k][IndexAt(ls, leaf)[k] + 1]
<1>. DEFINE h == Len(ls)
            index == IndexAt(ls, leaf)
            sib == SiblingsTo(ls, leaf)
            Fold(p) == Computed(leaf, p)[Len(p)]
            Good(k) == /\ index[k] \in 0 .. Len(ls[k]) - 1
                       /\ sib[k - 1] \in Seq(TreeNodes(ls))
                       /\ Fold(sib[k - 1]) = ls[k][index[k] + 1]
            T == {m \in Nat : m + 1 \in 1 .. h => Good(m + 1)}
<1>1. h \in Nat \ {0}
  BY DEF IsTree
<1>2. /\ \E i \in DOMAIN ls[1] : index[1] = i - 1 /\ ls[1][i] = leaf
      /\ \A k \in 1 .. h - 1 : index[k + 1] = index[k] \div 2
  <2>1. \E i \in DOMAIN ls[1] : ls[1][i] = leaf
    BY DEF IsTree, ToSet
  <2>. QED
    BY <1>1, <2>1, IndexStep
<1>3. /\ sib[0] = <<>>
      /\ \A k \in 1 .. h - 1 :
           /\ Sibling(index[k]) + 1 \in DOMAIN ls[k] =>
                sib[k] = Append(sib[k - 1], ls[k][Sibling(index[k]) + 1])
           /\ Sibling(index[k]) + 1 \notin DOMAIN ls[k] => sib[k] = sib[k - 1]
  BY <1>1, SiblingsStep
<1>. HIDE DEF index, sib, Fold
<1>4. 0 \in T
  <2>1. PICK i \in DOMAIN ls[1] : index[1] = i - 1 /\ ls[1][i] = leaf
    BY <1>2
  <2>2. DOMAIN ls[1] = 1 .. Len(ls[1]) /\ Len(ls[1]) \in Nat
    BY <1>1 DEF IsTree, IsList
  <2>3. index[1] \in 0 .. Len(ls[1]) - 1 /\ index[1] + 1 = i
    BY <2>1, <2>2
  <2>4. Fold(sib[0]) = leaf
    <3>1. Len(sib[0]) = 0
      BY <1>3
    <3>2. Computed(leaf, sib[0])[0] = leaf
      BY <3>1, FoldStep
    <3>. QED
      BY <3>1, <3>2 DEF Fold
  <2>5. sib[0] \in Seq(TreeNodes(ls))
    BY <1>3
  <2>6. Good(1)
    BY <2>1, <2>3, <2>4, <2>5
  <2>. QED
    BY <2>6
<1>5. ASSUME NEW m \in Nat, m \in T PROVE m + 1 \in T
  <2>. DEFINE k == m + 1
              p == ls[k]
              j == index[k]
  <2>1. SUFFICES ASSUME k + 1 \in 1 .. h PROVE Good(k + 1)
    OBVIOUS
  <2>2. k \in 1 .. h - 1 /\ k \in 1 .. h /\ k \in Nat /\ k + 1 - 1 = k
    BY <2>1, <1>1
  <2>3. Good(k)
    BY <1>5, <2>2
  <2>. HIDE DEF k
  <2>4. IsList(p) /\ ls[k + 1] = Parents(p) /\ ToSet(p) \subseteq TreeNodes(ls) /\ Len(p) > 0
    BY <2>2 DEF IsTree, TreeNodes
  <2>5. index[k + 1] = j \div 2
    BY <1>2, <2>2
  <2>6. j \in 0 .. Len(p) - 1 /\ sib[k - 1] \in Seq(TreeNodes(ls)) /\ Fold(sib[k - 1]) = p[j + 1]
    BY <2>3
  <2>7. /\ Sibling(j) + 1 \in DOMAIN p => sib[k] = Append(sib[k - 1], p[Sibling(j) + 1])
        /\ Sibling(j) + 1 \notin DOMAIN p => sib[k] = sib[k - 1]
    BY <1>3, <2>2
  <2>. HIDE DEF p, j
  <2>8. /\ j \div 2 \in 0 .. Len(Parents(p)) - 1
        /\ Sibling(j) + 1 \in DOMAIN p =>
             Parents(p)[j \div 2 + 1] = hashPair(p[j + 1], p[Sibling(j) + 1])
        /\ Sibling(j) + 1 \notin DOMAIN p => Parents(p)[j \div 2 + 1] = p[j + 1]
    BY <2>4, <2>6, ParentOf
  <2>9. sib[k] \in Seq(TreeNodes(ls)) /\ Fold(sib[k]) = Parents(p)[j \div 2 + 1]
    <3>1. CASE Sibling(j) + 1 \in DOMAIN p
      <4>1. p[Sibling(j) + 1] \in TreeNodes(ls)
        BY <3>1, <2>4 DEF ToSet
      <4>2. Fold(Append(sib[k - 1], p[Sibling(j) + 1])) = hashPair(Fold(sib[k - 1]), p[Sibling(j) + 1])
        BY <4>1, <2>6, FoldAppend DEF Fold
      <4>3. Append(sib[k - 1], p[Sibling(j) + 1]) \in Seq(TreeNodes(ls))
        BY <4>1, <2>6
      <4>. QED
        BY <3>1, <4>2, <4>3, <2>6, <2>7, <2>8
    <3>2. CASE Sibling(j) + 1 \notin DOMAIN p
      BY <3>2, <2>6, <2>7, <2>8
    <3>. QED
      BY <3>1, <3>2
  <2>10. /\ index[k + 1] \in 0 .. Len(ls[k + 1]) - 1
         /\ Fold(sib[k]) = ls[k + 1][index[k + 1] + 1]
    BY <2>4, <2>5, <2>8, <2>9
  <2>. QED
    BY <2>2, <2>9, <2>10
<1>6. ASSUME NEW k \in 1 .. h PROVE Good(k)
  <2>1. k - 1 \in Nat /\ k - 1 + 1 = k
    BY <1>1
  <2>. HIDE DEF Good
  <2>2. k - 1 \in T
    <3>. HIDE DEF T
    <3>. QED
      BY <1>4, <1>5, <2>1, Induction
  <2>. QED
    BY <2>1, <2>2
<1>. QED
  BY <1>6 DEF index, sib, Fold

\* A leaf's own proof verifies, and is a list of nodes.
LEMMA OwnProofVerifies ==
  ASSUME NEW ls, NEW s, IsTree(ls, s), NEW leaf \in ToSet(s)
  PROVE  /\ proofFor(ls, leaf) \in Seq(TreeNodes(ls))
         /\ verifyMerkleProof(leaf, proofFor(ls, leaf), Root(ls))
<1>. DEFINE h == Len(ls)
            proof == proofFor(ls, leaf)
<1>1. h \in 1 .. h /\ Len(ls[h]) = 1
  BY DEF IsTree
<1>2. proof = SiblingsTo(ls, leaf)[h - 1]
  BY ProofIs
<1>. HIDE DEF h, proof
<1>3. /\ IndexAt(ls, leaf)[h] \in 0 .. Len(ls[h]) - 1
      /\ proof \in Seq(TreeNodes(ls))
      /\ Computed(leaf, proof)[Len(proof)] = ls[h][IndexAt(ls, leaf)[h] + 1]
  <2>1. /\ IndexAt(ls, leaf)[h] \in 0 .. Len(ls[h]) - 1
        /\ SiblingsTo(ls, leaf)[h - 1] \in Seq(TreeNodes(ls))
        /\ Computed(leaf, SiblingsTo(ls, leaf)[h - 1])[Len(SiblingsTo(ls, leaf)[h - 1])]
             = ls[h][IndexAt(ls, leaf)[h] + 1]
    <3>1. \A k \in 1 .. h :
            /\ IndexAt(ls, leaf)[k] \in 0 .. Len(ls[k]) - 1
            /\ SiblingsTo(ls, leaf)[k - 1] \in Seq(TreeNodes(ls))
            /\ Computed(leaf, SiblingsTo(ls, leaf)[k - 1])[Len(SiblingsTo(ls, leaf)[k - 1])]
                 = ls[k][IndexAt(ls, leaf)[k] + 1]
      BY ProofsFollowTheTree, Zenon DEF h
    <3>. QED
      BY <1>1, <3>1
  <2>. QED
    BY <1>2, <2>1
<1>4. IndexAt(ls, leaf)[h] = 0
  BY <1>1, <1>3
<1>5. Computed(leaf, proof)[Len(proof)] = Root(ls)
  BY <1>3, <1>4 DEF Root, Last, h
<1>. QED
  BY <1>3, <1>5, VerifyIs DEF proof

\* Nothing but a leaf is proved a member of a tree, whatever the proof it comes with
\* (merkle.ts, verifyMerkleProof): an inner node is no leaf, since leaves are hashed twice.
THEOREM NoForgedProof ==
  ASSUME NEW leaves, IsList(leaves), Len(leaves) > 0, \A x \in ToSet(leaves) : NotAPair(x),
         NEW leaf, NotAPair(leaf), NEW proof, Len(proof) \in Nat,
         verifyMerkleProof(leaf, proof, Root(Levels(leaves)))
  PROVE  leaf \in ToSet(leaves)
  BY LevelsAreATree, OnlyLeavesVerify

\* Every leaf of a tree is proved a member by the proof it is given (merkle.ts, proofFor),
\* whatever the number of leaves and their order, promoted or paired.
THEOREM EveryLeafHasItsProof ==
  ASSUME NEW leaves, IsList(leaves), Len(leaves) > 0, NEW leaf \in ToSet(leaves)
  PROVE  verifyMerkleProof(leaf, proofFor(Levels(leaves), leaf), Root(Levels(leaves)))
  BY LevelsAreATree, OwnProofVerifies

-----------------------------------------------------------------------------
\* Grants of badges.

\* What was published was built and signed by publish, with one context for its tree and
\* its signature.
SnapshotsOK ==
  \A s \in snapshots : \E listing \in Listing, id \in SnapshotId, env \in Environment, kid \in Key :
    s = ResolvedSnapshot(listing, id, env, kid)

\* The rotation set maps a key id to that key, and was trusted from the moment it was
\* set.
KeysOK ==
  /\ \A k \in DOMAIN operatorPubkeys : operatorPubkeys[k] = k
  /\ DOMAIN operatorPubkeys \subseteq trusted

\* The inductive invariant of the grants.
BadgeInv == SnapshotsOK /\ KeysOK /\ MembersOnly

\* The activity has one step, a Merkle step.
LEMMA TheStepIs ==
  /\ isMerkleStep(TheStep) /\ ~isVerifyStep(TheStep)
  /\ resolveStep(B1_DONATION_RAFFLE_ACTIVITY, TheStep.step_id) = {TheStep}
<1>. DEFINE step == Step("step_donationclaim", "MerkleProof", "snap_donation")
<1>1. B1_DONATION_RAFFLE_ACTIVITY.steps = {step}
  BY DEF B1_DONATION_RAFFLE_ACTIVITY
<1>2. step.tag = "MerkleProof"
  BY DEF Step
<1>. HIDE DEF step
<1>3. TheStep = step
  <2>1. \E s \in B1_DONATION_RAFFLE_ACTIVITY.steps : isMerkleStep(s)
    BY <1>1, <1>2 DEF isMerkleStep
  <2>2. TheStep \in B1_DONATION_RAFFLE_ACTIVITY.steps
    BY <2>1 DEF TheStep
  <2>. QED
    BY <1>1, <2>2
<1>. QED
  BY <1>1, <1>2, <1>3 DEF isMerkleStep, isVerifyStep, resolveStep

\* The leaves of a listing.
LeavesOf(listing, id) == [i \in DOMAIN listing |-> merkleLeaf(listing[i], id, Family)]

\* A leaf is hashed twice, and an inner node once.
LEMMA LeavesAreNoPairs ==
  ASSUME NEW w, NEW id, NEW family
  PROVE  NotAPair(merkleLeaf(w, id, family))
  BY DEF NotAPair, merkleLeaf, hashPair

\* Leaves of one snapshot and family are equal only when their wallets are.
LEMMA LeavesAreInjective ==
  ASSUME NEW w, NEW v, NEW id, NEW family, merkleLeaf(w, id, family) = merkleLeaf(v, id, family)
  PROVE  w.address = v.address
<1>1. <<"leaf", <<w.address, id, family>>>> = <<"leaf", <<v.address, id, family>>>>
  BY DEF merkleLeaf, normalizeWallet
<1>2. <<w.address, id, family>> = <<v.address, id, family>>
  BY <1>1
<1>. QED
  BY <1>2

\* The tree of a listing is one over the leaves of its wallets, none of them malformed.
LEMMA ListingsAre ==
  ASSUME NEW listing \in Listing, NEW id
  PROVE  /\ IsTree(Tree(listing, id), LeavesOf(listing, id))
         /\ ToSet(LeavesOf(listing, id)) =
              {merkleLeaf(listing[i], id, Family) : i \in DOMAIN listing}
         /\ \A i \in DOMAIN listing : listing[i].address # None
<1>. DEFINE leaves == LeavesOf(listing, id)
<1>1. /\ listing \in Seq(Wallet) \ {<<>>}
      /\ \A i \in DOMAIN listing : listing[i].address # None
  BY BadgeGrantsOK DEF normalizeWallet
<1>2. Len(listing) \in Nat /\ DOMAIN listing = 1 .. Len(listing) /\ Len(listing) > 0
  BY <1>1
<1>3. DOMAIN leaves = 1 .. Len(listing)
      /\ \A i \in DOMAIN leaves : leaves[i] = merkleLeaf(listing[i], id, Family)
  BY <1>2 DEF LeavesOf
<1>4. leaves = [i \in 1 .. Len(listing) |-> leaves[i]]
  BY <1>2 DEF LeavesOf
<1>. HIDE DEF leaves
<1>5. IsList(leaves) /\ Len(leaves) > 0
  BY <1>2, <1>4, ListIs
<1>6. IsTree(Levels(leaves), leaves)
  BY <1>5, LevelsAreATree
<1>7. ToSet(leaves) = {merkleLeaf(listing[i], id, Family) : i \in DOMAIN listing}
  BY <1>2, <1>3 DEF ToSet
<1>. QED
  BY <1>1, <1>6, <1>7 DEF leaves, Tree, LeavesOf

\* The fields of a snapshot, and of a context that claims to be of another environment.
LEMMA SnapshotsAre ==
  ASSUME SnapshotsOK, NEW s \in snapshots
  PROVE  /\ s.listing \in Listing
         /\ s.levels = Tree(s.listing, s.context.snapshotId)
         /\ s.context.merkleRoot = Root(s.levels)
         /\ s.context.badgeFamilyId = Family
         /\ s.rootSignature = [over |-> s.context, by |-> s.context.signerKeyId]
         /\ \A env : /\ [s.context EXCEPT !.environmentId = env].signerKeyId = s.context.signerKeyId
                     /\ [s.context EXCEPT !.environmentId = env].environmentId = env
<1>. DEFINE Context(listing, id, env, kid) ==
              [snapshotId |-> id, badgeFamilyId |-> Family, environmentId |-> env,
               activityId |-> B1_DONATION_RAFFLE_ACTIVITY.id,
               merkleRoot |-> Root(Tree(listing, id)), leafCount |-> Len(listing),
               signerKeyId |-> kid]
<1>1. PICK listing \in Listing, id \in SnapshotId, env \in Environment, kid \in Key :
        s = ResolvedSnapshot(listing, id, env, kid)
  BY DEF SnapshotsOK
<1>2. s.context = Context(listing, id, env, kid)
  BY <1>1 DEF ResolvedSnapshot
<1>3. s.levels = Tree(listing, id) /\ s.listing = listing
  BY <1>1 DEF ResolvedSnapshot
<1>4. s.rootSignature = [over |-> s.context, by |-> kid]
  BY <1>1, <1>2 DEF ResolvedSnapshot, signSnapshot
<1>5. s.context.snapshotId = id /\ s.context.signerKeyId = kid
      /\ s.context.merkleRoot = Root(Tree(listing, id)) /\ s.context.badgeFamilyId = Family
  BY <1>2
<1>. QED
  BY <1>2, <1>3, <1>4, <1>5

\* A grant of the step is graded by the membership verifier alone.
LEMMA ApprovedIs ==
  ASSUME NEW grant
  PROVE  Approved(grant) <=>
           MembershipApproved(TheStep, grant, operatorPubkeys, environmentId)
  BY TheStepIs DEF Approved, Eligible, IdentityProofApproved

\* A grant that is approved is one of a wallet on the list of the snapshot whose
\* signature it carries, whatever its context, wallet and proof were taken from.
LEMMA ApprovedAreListed ==
  ASSUME SnapshotsOK, KeysOK, NEW s \in snapshots, NEW t \in snapshots, NEW wallet, NEW env,
         NEW proof, Len(proof) \in Nat,
         Approved([context |-> [s.context EXCEPT !.environmentId = env],
                   signature |-> t.rootSignature, wallet |-> wallet, proof |-> proof])
  PROVE  /\ s.context.signerKeyId \in trusted
         /\ t.context.environmentId = environmentId
         /\ t.context.snapshotId = TheStep.key
         /\ t.context.signerKeyId = s.context.signerKeyId
         /\ Lists(t, wallet.address)
<1>. DEFINE context == [s.context EXCEPT !.environmentId = env]
            grant == [context |-> context, signature |-> t.rootSignature, wallet |-> wallet,
                      proof |-> proof]
            id == t.context.snapshotId
            leaf == merkleLeaf(wallet, id, Family)
<1>1. /\ context.snapshotId = TheStep.key
      /\ context.environmentId = environmentId
      /\ context.signerKeyId \in DOMAIN operatorPubkeys
      /\ t.rootSignature = [over |-> context, by |-> operatorPubkeys[context.signerKeyId]]
      /\ verifyMerkleProof(merkleLeaf(wallet, context.snapshotId, context.badgeFamilyId),
                           proof, context.merkleRoot)
  <2>1. MembershipApproved(TheStep, grant, operatorPubkeys, environmentId)
    <3>1. Approved(grant)
      OBVIOUS
    <3>. HIDE DEF grant
    <3>. QED
      BY <3>1, ApprovedIs
  <2>. HIDE DEF context
  <2>2. /\ grant.context = context /\ grant.signature = t.rootSignature
        /\ grant.wallet = wallet /\ grant.proof = proof
    OBVIOUS
  <2>. HIDE DEF grant
  <2>. QED
    BY <2>1, <2>2 DEF MembershipApproved, verifySnapshotSignature
<1>2. context.signerKeyId = s.context.signerKeyId
  BY SnapshotsAre
<1>. HIDE DEF context
<1>3. context = t.context
  <2>1. t.rootSignature = [over |-> t.context, by |-> t.context.signerKeyId]
    BY SnapshotsAre
  <2>. QED
    BY <1>1, <2>1
<1>4. /\ t.listing \in Listing /\ t.levels = Tree(t.listing, id)
      /\ t.context.merkleRoot = Root(t.levels) /\ t.context.badgeFamilyId = Family
  BY SnapshotsAre
<1>5. IsTree(t.levels, LeavesOf(t.listing, id))
  BY <1>4, ListingsAre
<1>6. verifyMerkleProof(leaf, proof, Root(t.levels))
  BY <1>1, <1>3, <1>4
<1>. HIDE DEF id
<1>7. ToSet(LeavesOf(t.listing, id)) =
        {merkleLeaf(t.listing[i], id, Family) : i \in DOMAIN t.listing}
  BY <1>4, ListingsAre
<1>8. leaf \in ToSet(LeavesOf(t.listing, id))
  <2>1. \A x \in ToSet(LeavesOf(t.listing, id)) : NotAPair(x)
    BY <1>7, LeavesAreNoPairs
  <2>2. NotAPair(leaf)
    BY LeavesAreNoPairs
  <2>. HIDE DEF leaf
  <2>. QED
    BY <1>5, <1>6, <2>1, <2>2, OnlyLeavesVerify
<1>9. PICK i \in DOMAIN t.listing : leaf = merkleLeaf(t.listing[i], id, Family)
  BY <1>7, <1>8
<1>10. wallet.address = t.listing[i].address
  BY <1>9, LeavesAreInjective
<1>. QED
  BY <1>1, <1>2, <1>3, <1>10 DEF Lists, KeysOK

\* The proof of a listed wallet is a list of hashes.
LEMMA OwnProofsAreLists ==
  ASSUME SnapshotsOK, NEW t \in snapshots, NEW i \in DOMAIN t.listing
  PROVE  Len(proofFor(t.levels, LeafOf(t.listing[i], t.context))) \in Nat
<1>. DEFINE id == t.context.snapshotId
            leaf == LeafOf(t.listing[i], t.context)
<1>1. /\ t.listing \in Listing /\ t.levels = Tree(t.listing, id) /\ t.context.badgeFamilyId = Family
  BY SnapshotsAre
<1>2. leaf = merkleLeaf(t.listing[i], id, Family)
  BY <1>1 DEF LeafOf
<1>3. /\ IsTree(t.levels, LeavesOf(t.listing, id))
      /\ leaf \in ToSet(LeavesOf(t.listing, id))
  BY <1>1, <1>2, ListingsAre
<1>. HIDE DEF leaf
<1>4. proofFor(t.levels, leaf) \in Seq(TreeNodes(t.levels))
  BY <1>3, OwnProofVerifies
<1>. QED
  BY <1>4 DEF leaf

\* BadgeInv is an invariant: a snapshot is added and never changed, a rotation only adds
\* to the keys that were trusted, and a grant is of a listed wallet.
LEMMA BadgeInvariance == BadgeSpec => []BadgeInv
<1>1. BadgeInit => BadgeInv
  BY DEF BadgeInit, BadgeInv, SnapshotsOK, KeysOK, MembersOnly
<1>2. BadgeInv /\ [BadgeNext]_badgeVars => BadgeInv'
  <2>. SUFFICES ASSUME BadgeInv, [BadgeNext]_badgeVars PROVE BadgeInv'
    OBVIOUS
  <2>1. CASE Publish
    <3>1. SnapshotsOK'
      BY <2>1 DEF BadgeInv, SnapshotsOK, Publish
    <3>2. snapshots \subseteq snapshots'
      BY <2>1 DEF Publish
    <3>3. MembersOnly'
      BY <2>1, <3>2 DEF BadgeInv, MembersOnly, Publish, Lists
    <3>4. KeysOK'
      BY <2>1 DEF BadgeInv, KeysOK, Publish
    <3>. QED
      BY <3>1, <3>3, <3>4 DEF BadgeInv
  <2>2. CASE Rotate
    <3>1. PICK kids \in SUBSET Key : operatorPubkeys' = [k \in kids |-> k]
      BY <2>2 DEF Rotate
    <3>2. trusted' = trusted \union kids /\ UNCHANGED <<snapshots, granted>>
      BY <2>2, <3>1 DEF Rotate
    <3>3. KeysOK'
      BY <3>1, <3>2 DEF KeysOK
    <3>4. MembersOnly'
      BY <3>2 DEF BadgeInv, MembersOnly, Lists
    <3>. QED
      BY <3>2, <3>3, <3>4 DEF BadgeInv, SnapshotsOK
  <2>3. CASE Grant
    <3>1. PICK s \in snapshots, t \in snapshots, wallet \in Wallet, env \in Environment :
            \E i \in DOMAIN t.listing :
              /\ Approved([context |-> [s.context EXCEPT !.environmentId = env],
                           signature |-> t.rootSignature, wallet |-> wallet,
                           proof |-> proofFor(t.levels, LeafOf(t.listing[i], t.context))])
              /\ granted' =
                   granted \union {[address |-> wallet.address, by |-> s.context.signerKeyId]}
              /\ UNCHANGED <<snapshots, operatorPubkeys, trusted>>
      BY <2>3 DEF Grant
    <3>2. PICK i \in DOMAIN t.listing :
            /\ Approved([context |-> [s.context EXCEPT !.environmentId = env],
                         signature |-> t.rootSignature, wallet |-> wallet,
                         proof |-> proofFor(t.levels, LeafOf(t.listing[i], t.context))])
            /\ granted' =
                 granted \union {[address |-> wallet.address, by |-> s.context.signerKeyId]}
            /\ UNCHANGED <<snapshots, operatorPubkeys, trusted>>
      BY <3>1
    <3>3. /\ s.context.signerKeyId \in trusted
          /\ t.context.environmentId = environmentId
          /\ t.context.snapshotId = TheStep.key
          /\ t.context.signerKeyId = s.context.signerKeyId
          /\ Lists(t, wallet.address)
      BY <3>2, OwnProofsAreLists, ApprovedAreListed DEF BadgeInv
    <3>4. ASSUME NEW g \in granted'
          PROVE  /\ g.by \in trusted
                 /\ \E x \in snapshots :
                      /\ x.context.environmentId = environmentId
                      /\ x.context.snapshotId = TheStep.key
                      /\ x.context.signerKeyId = g.by
                      /\ Lists(x, g.address)
      <4>1. CASE g \in granted
        BY <4>1 DEF BadgeInv, MembersOnly
      <4>2. CASE g = [address |-> wallet.address, by |-> s.context.signerKeyId]
        BY <4>2, <3>3
      <4>. QED
        BY <3>2, <4>1, <4>2
    <3>5. MembersOnly'
      BY <3>2, <3>4 DEF MembersOnly, Lists
    <3>. QED
      BY <3>2, <3>5 DEF BadgeInv, SnapshotsOK, KeysOK
  <2>4. CASE UNCHANGED badgeVars
    BY <2>4 DEF BadgeInv, badgeVars, SnapshotsOK, KeysOK, MembersOnly, Lists
  <2>. QED
    BY <2>1, <2>2, <2>3, <2>4 DEF BadgeNext
<1>. QED
  BY <1>1, <1>2, PTL DEF BadgeSpec

\* A listed wallet's own proof is approved, however the wallet is spelled.
LEMMA ListedAreApproved ==
  ASSUME SnapshotsOK, KeysOK
  PROVE  MembersAlways
<1>. SUFFICES ASSUME NEW s \in snapshots,
                     s.context.environmentId = environmentId,
                     s.context.snapshotId = TheStep.key,
                     s.context.signerKeyId \in DOMAIN operatorPubkeys,
                     NEW w \in Wallet, Lists(s, w.address)
              PROVE  Approved([context |-> s.context, signature |-> s.rootSignature, wallet |-> w,
                               proof |-> proofFor(s.levels, LeafOf(w, s.context))])
  BY DEF MembersAlways
<1>. DEFINE id == s.context.snapshotId
            leaf == merkleLeaf(w, id, Family)
            proof == proofFor(s.levels, leaf)
<1>1. /\ s.listing \in Listing /\ s.levels = Tree(s.listing, id)
      /\ s.context.merkleRoot = Root(s.levels) /\ s.context.badgeFamilyId = Family
      /\ s.rootSignature = [over |-> s.context, by |-> s.context.signerKeyId]
  BY SnapshotsAre
<1>2. PICK i \in DOMAIN s.listing : s.listing[i].address = w.address
  BY DEF Lists
<1>3. leaf = merkleLeaf(s.listing[i], id, Family) /\ w.address # None
  BY <1>1, <1>2, ListingsAre DEF merkleLeaf, normalizeWallet
<1>4. /\ IsTree(s.levels, LeavesOf(s.listing, id))
      /\ leaf \in ToSet(LeavesOf(s.listing, id))
  BY <1>1, <1>3, ListingsAre
<1>5. verifyMerkleProof(leaf, proof, Root(s.levels))
  <2>. HIDE DEF leaf, id
  <2>. QED
    BY <1>4, OwnProofVerifies
<1>. HIDE DEF proof
<1>. DEFINE grant == [context |-> s.context, signature |-> s.rootSignature, wallet |-> w,
                      proof |-> proof]
<1>6. /\ grant.context = s.context /\ grant.signature = s.rootSignature
      /\ grant.wallet = w /\ grant.proof = proof
  OBVIOUS
<1>. HIDE DEF grant
<1>7. verifySnapshotSignature(grant.context, grant.signature,
                              operatorPubkeys[grant.context.signerKeyId])
  BY <1>1, <1>6 DEF verifySnapshotSignature, KeysOK
<1>8. MembershipApproved(TheStep, grant, operatorPubkeys, environmentId)
  BY <1>1, <1>3, <1>5, <1>6, <1>7, TheStepIs DEF MembershipApproved, normalizeWallet
<1>9. Approved(grant)
  BY <1>8, ApprovedIs
<1>10. proof = proofFor(s.levels, LeafOf(w, s.context))
  BY <1>1 DEF LeafOf, proof
<1>. QED
  BY <1>9, <1>10 DEF grant

\* Whoever was granted the badge is on the list of a snapshot that was signed for this
\* environment and this step with a key the runtime trusted: no mix of genuine parts
\* makes a grant (merkle-membership-verifier.ts:136-190, merkle.ts:233-241).
THEOREM BadgesGoToMembersOnly == BadgeSpec => []MembersOnly
<1>1. BadgeInv => MembersOnly
  BY DEF BadgeInv
<1>. QED
  BY <1>1, BadgeInvariance, PTL

\* Every wallet on such a list is granted the badge for as long as the key is trusted,
\* whatever the number of leaves and the order of their hashes: proofFor makes what
\* verifyMerkleProof accepts (merkle.ts:200-218).
THEOREM BadgesGoToEveryMember == BadgeSpec => []MembersAlways
<1>1. BadgeInv => MembersAlways
  BY ListedAreApproved DEF BadgeInv
<1>. QED
  BY <1>1, BadgeInvariance, PTL
=============================================================================
