------------------------------- MODULE Routes -------------------------------
(***************************************************************************)
(* The HTTP server: the framework (Hyper) brings each request to one of    *)
(* the routes of apps/runtime/src/routes, behind the gates of Auth and the *)
(* graders of Verdicts, over the event log (EventLog): the three ways to   *)
(* complete an activity and the reads of what was completed.               *)
(*                                                                         *)
(* A handler runs without interruption between two awaits.  What it awaits *)
(* is identity-api, which confirms the account of an attestation, and the  *)
(* store.  Around it the clock runs, accounts are linked to identities,    *)
(* clients send requests again or are no longer waited for, and the        *)
(* process is asked to stop or is started over, perhaps with another       *)
(* configuration.                                                          *)
(***************************************************************************)
EXTENDS Integers, Badges, Verdicts

CONSTANTS
  Client,         \* requests in flight
  Identity,       \* the strings that are conforming IdentityIds
  Discord,        \* Discord accounts
  PartitionOrder, \* the partitions, in the order of their keys
  Sent,           \* the requests that clients send, over and over again
  Config,         \* the environments a process may be started with
  MaxTime         \* bound of the model: the clock

Partition == ToSet(PartitionOrder)

ASSUME RoutesOK ==
  /\ Partition = {<<i, VERIFY_ACTIVITY.id, "step_verify">> : i \in Identity}
                 \union {<<i, FIRST_LIGHT_ACTIVITY.id, "step_firstlight">> : i \in Identity}
  /\ PartitionOrder \in Seq(Partition)
  /\ None \notin Identity
  /\ MaxTime \in Nat

\* What server.ts mounts.
ActivityPath(last) == <<"v1", "activities", ":activity_id", last>>

Mounted(method, path, handler) == [method |-> method, path |-> path, handler |-> handler]

Reads ==
  {Mounted("GET", <<"health">>, "health"),
   Mounted("GET", <<".well-known", "beacon.json">>, "beacon"),
   Mounted("GET", <<"openapi.json">>, "openapi"),
   Mounted("GET", <<"v1", "kinds">>, "kinds"),
   Mounted("GET", <<"v1", "activities">>, "activities"),
   Mounted("GET", <<"v1", "progress">>, "progress"),
   Mounted("GET", <<"v1", "badges">>, "badges"),
   Mounted("GET", <<"v1", "identities", ":identity_id", "badges">>, "identityBadges"),
   Mounted("GET", <<"v1", "raffle-entries">>, "raffle")}

Writes ==
  {Mounted("POST", ActivityPath("complete"), "complete"),
   Mounted("POST", ActivityPath("complete-attested"), "attested"),
   Mounted("POST", ActivityPath("complete-admin"), "admin")}

INSTANCE EventIds

INSTANCE Hyper WITH Prefix <- <<>>, Used <- Reads \union Writes, Param <- {":activity_id", ":identity_id"}

ASSUME RouterOK == Mountable

\* A request as its handler sees it: the activity it is about is in its path or in
\* its query.
Arguments(r) ==
  LET route == find(r.method, r.path)
      named == param(r, route, ":activity_id")
  IN  [route |-> route.handler,
       headers |-> Restrict(r.headers,
                            DOMAIN r.headers \intersect {"authorization", SERVICE_TOKEN_HEADER}),
       body |-> IF hasBody(r.method) THEN parsedBody(r) ELSE None,
       activity |-> IF named # None THEN named ELSE queryValue(r, "activity_id"),
       identity |-> param(r, route, ":identity_id"),
       limit |-> queryValue(r, "limit")]

Asked == {Arguments(r) : r \in {q \in Sent : handleRequest(q) = 200}}

\* The decoder of a schema that needs these fields: others are dropped, and a value
\* without them is refused.
decode(fields, body) ==
  IF body # None /\ fields \subseteq DOMAIN body THEN Restrict(body, fields) ELSE None

CompleteRequest(r) == decode({"step_id"}, r.body)

VerifyAttestation(r) ==
  decode({"identity_id", "discord_user_id", "world", "verify_event_id", "issued_at",
          "idempotency_key"}, r.body)

\* The weight may be left out, and is 1 then; the cohort is left out.
AdminGrantRequest(r) ==
  LET grant == decode({"identity_id"}, r.body)
  IN  IF grant = None THEN None
      ELSE IF "weight" \notin DOMAIN r.body
      THEN [identity_id |-> grant.identity_id, weight |-> 1]
      ELSE IF r.body.weight \in {1, 2}
      THEN [identity_id |-> grant.identity_id, weight |-> r.body.weight]
      ELSE None

\* The subject of the verified token.
identityOf(r) == bearerFrom(r.headers).sub

VARIABLES
  log, request, phase, answer, \* the event log (see EventLog)
  clock,     \* the wall clock
  config,    \* the environment the process was started with
  draining,  \* SIGTERM was received and the pool is closed
  link,      \* identity-api: the identity of each Discord account, or None
  pc,        \* what the handler of each request waits for
  asked,     \* the request
  waiting,   \* the connection is still there for the response
  resolved,  \* what identity-api answered
  reply,     \* the response this step gives, if it gives one
  confirmed, \* history: the account was the identity's at some time of the request
  wrote,     \* history: the request has stored an event
  acked,     \* history: the partitions whose completion was answered
  due        \* history: what of acked a read is about, when the read began

Nonces ==
  {<<"verify", p>> : p \in Partition} \union {<<"firstlight", i>> : i \in Identity}
    \union {r.body.idempotency_key :
              r \in {q \in Asked : q.route = "attested" /\ VerifyAttestation(q) # None}}

\* A completion is dated by the clock, or as its attestation is, which may be ahead of
\* the clock or behind it.
Events ==
  [kind : {"activity-completed"}, activity : {p[2] : p \in Partition}, identity : Identity,
   ts : -Freshness .. MaxTime + FutureSkew, nonce : Nonces]

\* An event has a nonce.  What decodes as an attestation has an account and a timestamp,
\* None when it cannot be parsed, and a limit that is no number is None as well.
ASSUME RequestsOK ==
  /\ None \notin Nonces /\ None \notin Events
  /\ \A r \in Asked : r.route = "attested" /\ VerifyAttestation(r) # None =>
       r.body.discord_user_id \in Discord /\ r.body.issued_at \in Int \union {None}
  /\ \A r \in Asked : r.limit \in Int \union {None}

INSTANCE EventLog WITH Worker <- Client, Event <- Events

store == <<log, request, phase, answer>>
world == <<clock, config, draining, link>>
call  == <<asked, waiting, resolved, confirmed, wrote, due>>
vars  == <<store, world, call, pc, reply, acked>>

-----------------------------------------------------------------------------

\* A response: its status, what it says of a completion, the tag of an error
\* and, for a page, its items and its cursor.
Status(code) ==
  [status |-> code, completed |-> FALSE, cause |-> None, items |-> <<>>, next_cursor |-> None,
   completeness |-> "none"]

NotCompleted == Status(200)

ASSUME ResponsesOK == \A code \in {200, 401, 404, 422} : Status(code) # None

\* degraded: an empty page that says so.
degraded == [Status(200) EXCEPT !.completeness = "degraded"]

degradedRecord == [Status(503) EXCEPT !.completeness = "degraded"]

\* A query that fails, in Effect.promise, is a defect.
Failed == [Status(500) EXCEPT !.completeness = "degraded"]

\* No answer: not yet, or the process has gone.
NoReply == Status(0)

NoRequestAsked == [route |-> None]

Idle(c) == pc[c] = "idle"

\* The request is over, and every local of its handler is gone; a response that
\* nobody waits for is dropped.
Reply(c, response) ==
  /\ reply' = IF Idle(c) \/ waiting[c] THEN response ELSE NoReply
  /\ pc' = [pc EXCEPT ![c] = "idle"]
  /\ waiting' = [waiting EXCEPT ![c] = FALSE]
  /\ asked' = [asked EXCEPT ![c] = NoRequestAsked]
  /\ resolved' = [resolved EXCEPT ![c] = None]
  /\ confirmed' = [confirmed EXCEPT ![c] = FALSE]
  /\ wrote' = [wrote EXCEPT ![c] = FALSE]
  /\ due' = [due EXCEPT ![c] = {}]

Silent == reply' = NoReply

-----------------------------------------------------------------------------
\* What buildComposition and server.ts read from the environment at start-up.

\* The tenant's own database first; an empty URL is one.
resolveDatabaseUrl(env) ==
  IF env.TENANT_CUBQUEST_DATABASE_URL # None
  THEN env.TENANT_CUBQUEST_DATABASE_URL
  ELSE env.DATABASE_URL

\* The surfaces are there.
Wired(env) == resolveDatabaseUrl(env) # None

\* parseWorldAllowlist: a list as the set of its entries, of which empty ones count
\* for nothing.
worldAllowlist(env) ==
  IF env.ACTIVITIES_WORLD_ALLOWLIST = None THEN {} ELSE env.ACTIVITIES_WORLD_ALLOWLIST \ {""}

-----------------------------------------------------------------------------
\* The handlers up to their first await: the reply of the first check that fails,
\* in the order of the code, or None.

\* completeRoute.  The identity is the subject of the token, never the body's.
CompleteRefused(r) ==
  IF ~Identified(r.headers, config, clock) THEN Status(401)
  ELSE IF ~Wired(config)                   THEN NotCompleted
  ELSE IF r.activity # VERIFY_ACTIVITY.id  THEN Status(404)
  ELSE IF CompleteRequest(r) = None        THEN Status(422)
  ELSE IF identityOf(r) \notin Identity    THEN Status(422)
  ELSE IF ~Eligible(VERIFY_ACTIVITY, CompleteRequest(r).step_id, {}, <<>>, None)
       THEN NotCompleted
  ELSE None

\* completeAttestedRoute, before the account is resolved.
AttestedRefused(r) ==
  IF ~Served("verify-write", r.headers, config) THEN Status(401)
  ELSE IF ~Wired(config)                        THEN NotCompleted
  ELSE IF r.activity # VERIFY_ACTIVITY.id       THEN Status(404)
  ELSE IF VerifyAttestation(r) = None           THEN Status(422)
  ELSE None

TheVerifyStep == CHOOSE s \in VERIFY_ACTIVITY.steps : isVerifyStep(s)

\* completeAttestedRoute, after it.
AttestationRefused(c) ==
  IF ~AttestationApproved(VerifyAttestation(asked[c]), resolved[c], TheVerifyStep,
                          worldAllowlist(config), clock)
  THEN NotCompleted
  ELSE IF resolved[c] \notin Identity THEN Status(422)
  ELSE None

TheFirstLightStep == CHOOSE s \in FIRST_LIGHT_ACTIVITY.steps : isFirstLightStep(s)

\* completeAdminRoute: here a missing database is looked at last.
AdminRefused(r) ==
  IF ~Served("admin-grant", r.headers, config)              THEN Status(401)
  ELSE IF r.activity # FIRST_LIGHT_ACTIVITY.id              THEN Status(404)
  ELSE IF AdminGrantRequest(r) = None                       THEN Status(422)
  ELSE IF AdminGrantRequest(r).identity_id \notin Identity  THEN Status(422)
  ELSE IF ~Wired(config)                                    THEN NotCompleted
  ELSE IF ~FirstLightApproved(TheFirstLightStep, AdminGrantRequest(r).weight)
       THEN NotCompleted
  ELSE None

\* The identity a read is about: the token's own, or the one in the path of the
\* service route.
Subject(r) == IF r.route = "identityBadges" THEN r.identity ELSE identityOf(r)

\* The identity and activity that a read, or a row, must be of.
About(r, partition) ==
  /\ partition[1] = Subject(r)
  /\ r.route = "activities" /\ r.activity # None => partition[2] = r.activity

\* The read routes.  Some answer anybody, kinds and raffle never look at the store,
\* and progress has a record of its own.  A pool that is closed refuses the query,
\* but not one that is under way.
ReadRefused(r) ==
  IF r.route \in {"health", "beacon", "openapi"}                               THEN Status(200)
  ELSE IF r.route = "identityBadges" /\ ~Served("read", r.headers, config)     THEN Status(401)
  ELSE IF r.route # "identityBadges" /\ ~Identified(r.headers, config, clock)  THEN Status(401)
  ELSE IF r.route = "kinds"                                                    THEN Status(200)
  ELSE IF ~Wired(config) THEN IF r.route = "progress" THEN degradedRecord ELSE degraded
  ELSE IF r.route = "raffle"                                                   THEN Status(200)
  ELSE IF Subject(r) \notin Identity
       THEN IF r.route \in {"activities", "progress"} THEN degradedRecord ELSE degraded
  ELSE IF r.route = "progress" /\ r.activity = None                            THEN Status(200)
  ELSE IF draining                                                             THEN Failed
  ELSE None

-----------------------------------------------------------------------------
\* buildCompletionEffect and runWrite.

\* Mutant: the completion is appended to whatever its partition ends with.
ExpectedTipRead(p) == TipOf(p)

\* expected_tip_hash: null.
ExpectedTip(p) == None

\* Mutant: the timestamp is lost.
CompletionEventUndated(activity, identity, ts, nonce) ==
  [kind |-> "activity-completed", activity |-> activity.id, identity |-> identity,
   ts |-> None, nonce |-> nonce]

CompletionEvent(activity, identity, ts, nonce) ==
  computeEventId([kind |-> "activity-completed", activity |-> activity.id,
                  identity |-> identity, ts |-> ts, nonce |-> nonce])

\* The partition is the identity's own (encodeCompositePartition): halves that
\* fit are used as they are, and longer ones are hashed.
encodeCompositePartition(identity, activity, step) == <<identity, activity.id, step.step_id>>

\* Mutant: a failed append is the caller's fault (defect #21.8).
HttpForTagPermanent ==
  [DuplicateEvent |-> 409, CASFailed |-> 409, EventStoreUnavailable |-> 503,
   UnknownResourceKind |-> 422, IdentityResolutionFailed |-> 422,
   AtomicGrantFailed |-> 500, DeferredRecordingFailed |-> 422]

HTTP_FOR_TAG ==
  [DuplicateEvent |-> 409, CASFailed |-> 409, EventStoreUnavailable |-> 503,
   UnknownResourceKind |-> 422, IdentityResolutionFailed |-> 422,
   AtomicGrantFailed |-> 500, DeferredRecordingFailed |-> 503]

\* Only AtomicGrantFailed is unwrapped.
statusForError(tag, cause) ==
  IF tag = "AtomicGrantFailed" /\ cause \in DOMAIN HTTP_FOR_TAG
  THEN HTTP_FOR_TAG[cause]
  ELSE HTTP_FOR_TAG[tag]

\* completeOffChain wraps whatever the append failed with.
runWrite(a) ==
  IF a = "Appended"
  THEN [Status(200) EXCEPT !.completed = TRUE]
  ELSE LET cause == IF a = "none" THEN "EventStoreUnavailable" ELSE a
       IN  [Status(statusForError("DeferredRecordingFailed", cause)) EXCEPT !.cause = cause]

-----------------------------------------------------------------------------

\* A request that reaches no handler.
Turn(c, r) ==
  /\ Idle(c) /\ handleRequest(r) # 200
  /\ Reply(c, Status(handleRequest(r)))
  /\ UNCHANGED <<store, world, acked>>

\* The request reaches its gate, and its handler runs up to its first await.
Receive(c, r, refused, step) ==
  /\ Idle(c)
  /\ IF refused # None
     THEN Reply(c, refused)
     ELSE /\ pc' = [pc EXCEPT ![c] = step]
          /\ waiting' = [waiting EXCEPT ![c] = TRUE]
          /\ asked' = [asked EXCEPT ![c] = r]
          /\ confirmed' = [confirmed EXCEPT ![c] =
               r.route = "attested" /\ link[r.body.discord_user_id] = r.body.identity_id]
          /\ due' = [due EXCEPT ![c] =
               IF step = "query" THEN {p \in acked : About(r, p)} ELSE {}]
          /\ Silent
          /\ UNCHANGED <<resolved, wrote>>
  /\ UNCHANGED <<store, world, acked>>

ReceiveComplete(c, r) ==
  r.route = "complete" /\ Receive(c, r, CompleteRefused(r), "record")

ReceiveAttested(c, r) ==
  r.route = "attested" /\ Receive(c, r, AttestedRefused(r), "resolve")

ReceiveAdmin(c, r) ==
  r.route = "admin" /\ Receive(c, r, AdminRefused(r), "record")

ReceiveRead(c, r) ==
  /\ r.route \notin {"complete", "attested", "admin"}
  /\ Receive(c, r, ReadRefused(r), "query")

ResolvedTo(c, identity) ==
  /\ pc[c] = "resolve"
  /\ resolved' = [resolved EXCEPT ![c] = identity]
  /\ pc' = [pc EXCEPT ![c] = "grade"]
  /\ Silent
  /\ UNCHANGED <<store, world, asked, waiting, confirmed, wrote, due, acked>>

\* identity-api answers with the link of the moment.
ResolveAnswered(c) ==
  ~Missing(config.IDENTITY_API_URL) /\ pc[c] = "resolve" /\ ResolvedTo(c, link[asked[c].body.discord_user_id])

\* Mutant: without the timer, a request to a service that is down has no end.
ResolveFailedNoTimer(c) == Missing(config.IDENTITY_API_URL) /\ ResolvedTo(c, None)

\* Nothing is configured, the request fails, the answer makes no sense, or the
\* timer aborts it.
ResolveFailed(c) == ResolvedTo(c, None)

\* The attestation is graded on what was resolved.
Grade(c) ==
  /\ pc[c] = "grade"
  /\ IF AttestationRefused(c) # None
     THEN Reply(c, AttestationRefused(c))
     ELSE /\ pc' = [pc EXCEPT ![c] = "record"]
          /\ Silent
          /\ UNCHANGED call
  /\ UNCHANGED <<store, world, acked>>

\* The event each route completes with, and the partition it goes to.
Completion(c) ==
  LET r == asked[c] IN
  CASE r.route = "complete" ->
         LET step == CHOOSE s \in resolveStep(VERIFY_ACTIVITY, r.body.step_id) : TRUE
             p    == encodeCompositePartition(identityOf(r), VERIFY_ACTIVITY, step)
         IN  [event |-> CompletionEvent(VERIFY_ACTIVITY, identityOf(r), clock, <<"verify", p>>),
              partition |-> p]
    [] r.route = "attested" ->
         [event |-> CompletionEvent(VERIFY_ACTIVITY, resolved[c], r.body.issued_at,
                                    r.body.idempotency_key),
          partition |-> encodeCompositePartition(resolved[c], VERIFY_ACTIVITY, TheVerifyStep)]
    [] r.route = "admin" ->
         [event |-> CompletionEvent(FIRST_LIGHT_ACTIVITY, r.body.identity_id, clock,
                                    <<"firstlight", r.body.identity_id>>),
          partition |-> encodeCompositePartition(r.body.identity_id, FIRST_LIGHT_ACTIVITY,
                                                 TheFirstLightStep)]

\* The one call of completion.complete.  Every reward here is None, so that it is
\* one append; a pool that is closed refuses it without an attempt.
Record(c) ==
  /\ pc[c] = "record"
  /\ IF draining
     THEN Reject(c)
     ELSE Submit(c, [event |-> Completion(c).event, partition |-> Completion(c).partition,
                     expected |-> ExpectedTip(Completion(c).partition)])
  /\ pc' = [pc EXCEPT ![c] = "append"]
  /\ Silent
  /\ UNCHANGED <<world, call, acked>>

StoreApplies(c) ==
  /\ Apply(c)
  /\ wrote' = [wrote EXCEPT ![c] = TRUE]
  /\ Silent
  /\ UNCHANGED <<world, asked, waiting, resolved, confirmed, due, pc, acked>>

\* The store refuses, starts an attempt over, or gives no answer.
StoreDeclines(c) ==
  /\ Refuse(c) \/ Reopen(c) \/ AnswerCASFailed(c) \/ AnswerDuplicate(c) \/ GiveUp(c)
  /\ Silent
  /\ UNCHANGED <<world, call, pc, acked>>

\* runWrite, on the answer of the append.
CompletionAnswered(c) ==
  /\ pc[c] = "append" /\ phase[c] = "idle"
  /\ Reply(c, runWrite(answer[c]))
  /\ acked' = IF answer[c] = "Appended" /\ waiting[c]
              THEN acked \union {Completion(c).partition}
              ELSE acked
  /\ answer' = [answer EXCEPT ![c] = "none"]
  /\ UNCHANGED <<log, request, phase, world>>

\* DEFAULT_LIMIT and MAX_LIMIT.
clampedLimit(r) == IF r.limit = None THEN 50 ELSE Min({Max({r.limit, 1}), 200})

\* The rows of the event table: a partition by its place, and a sequence in it.
Rows == UNION {{i} \X DOMAIN log[PartitionOrder[i]] : i \in DOMAIN PartitionOrder}

EventOf(row) == log[PartitionOrder[row[1]]][row[2]]

\* ORDER BY scope, partition_value, monotonic_sequence.
RowBefore(x, y) == x[1] < y[1] \/ (x[1] = y[1] /\ x[2] < y[2])

\* query: the first rows that the read is about, up to the limit.
Page(r) ==
  LET mine == Sorted({row \in Rows : About(r, <<EventOf(row).identity, EventOf(row).activity>>)},
                     RowBefore)
  IN  [n \in 1 .. Min({Len(mine), clampedLimit(r)}) |-> EventOf(mine[n])]

\* Mutant: a page that is just full is taken for the last one.
PageTailShort(events, limit) == IF Len(events) > limit THEN Last(events) ELSE None

\* next_cursor: a full page may have a next one.
pageTail(events, limit) == IF Len(events) >= limit THEN Last(events) ELSE None

ReadReply(r) ==
  IF r.route = "progress"
  THEN Status(200)
  ELSE [Status(200) EXCEPT !.completeness = "full",
          !.items = IF r.route = "activities" THEN Page(r) ELSE projectEarnedBadges(Page(r)),
          !.next_cursor = pageTail(Page(r), clampedLimit(r))]

QueryAnswered(c) ==
  /\ pc[c] = "query"
  /\ Reply(c, ReadReply(asked[c]))
  /\ UNCHANGED <<store, world, acked>>

QueryFails(c) ==
  /\ pc[c] = "query"
  /\ Reply(c, Failed)
  /\ UNCHANGED <<store, world, acked>>

-----------------------------------------------------------------------------

Tick ==
  /\ clock < MaxTime /\ clock' = clock + 1
  /\ Silent
  /\ UNCHANGED <<store, config, draining, link, call, pc, acked>>

\* Somebody links the account to another identity, or to none.
Relink(d, i) ==
  /\ link[d] # i /\ link' = [link EXCEPT ![d] = i]
  /\ confirmed' = [c \in Client |->
       \/ confirmed[c]
       \/ /\ asked[c].route = "attested"
          /\ asked[c].body.discord_user_id = d /\ asked[c].body.identity_id = i]
  /\ Silent
  /\ UNCHANGED <<store, clock, config, draining, asked, waiting, resolved, wrote, due, pc, acked>>

\* withTimeout: the client is told so, and the handler goes on.
TimedOut(c) ==
  /\ waiting[c]
  /\ waiting' = [waiting EXCEPT ![c] = FALSE]
  /\ reply' = Status(504)
  /\ UNCHANGED <<store, world, asked, resolved, confirmed, wrote, due, pc, acked>>

\* The client goes away, or the server closes a connection that is idle for
\* idleTimeout, which is shorter than the timeout of a request.
Hangup(c) ==
  /\ waiting[c]
  /\ waiting' = [waiting EXCEPT ![c] = FALSE]
  /\ Silent
  /\ UNCHANGED <<store, world, asked, resolved, confirmed, wrote, due, pc, acked>>

\* SIGTERM: the pool is closed at once.  The server stops too, but not before the
\* requests it has are answered, and an open connection may bring another.
Shutdown ==
  /\ ~draining /\ draining' = TRUE
  /\ Silent
  /\ UNCHANGED <<store, clock, config, link, call, pc, acked>>

\* buildComposition and the gates, in a new process; the requests of the old one
\* are lost.
Restart(environment) ==
  /\ config' = environment
  /\ draining' = FALSE
  /\ Silent
  /\ pc' = [c \in Client |-> "idle"]
  /\ asked' = [c \in Client |-> NoRequestAsked]
  /\ waiting' = [c \in Client |-> FALSE]
  /\ resolved' = [c \in Client |-> None]
  /\ confirmed' = [c \in Client |-> FALSE]
  /\ wrote' = [c \in Client |-> FALSE]
  /\ due' = [c \in Client |-> {}]
  /\ request' = [c \in Client |-> NoRequest]
  /\ phase' = [c \in Client |-> "idle"]
  /\ answer' = [c \in Client |-> "none"]
  /\ UNCHANGED <<log, clock, link, acked>>

Init ==
  /\ LogInit
  /\ clock = 0
  /\ config \in Config
  /\ draining = FALSE
  /\ link \in [Discord -> Identity \union {None}]
  /\ pc = [c \in Client |-> "idle"]
  /\ asked = [c \in Client |-> NoRequestAsked]
  /\ waiting = [c \in Client |-> FALSE]
  /\ resolved = [c \in Client |-> None]
  /\ reply = NoReply
  /\ confirmed = [c \in Client |-> FALSE]
  /\ wrote = [c \in Client |-> FALSE]
  /\ acked = {}
  /\ due = [c \in Client |-> {}]

Handle(c) ==
  Grade(c) \/ Record(c) \/ CompletionAnswered(c) \/ QueryFails(c) \/ QueryAnswered(c)

Next ==
  \/ \E c \in Client :
       \/ \E r \in Sent : Turn(c, r)
       \/ \E r \in Asked :
            ReceiveComplete(c, r) \/ ReceiveAttested(c, r) \/ ReceiveAdmin(c, r) \/ ReceiveRead(c, r)
       \/ TimedOut(c) \/ Hangup(c)
       \/ ResolveAnswered(c) \/ ResolveFailed(c)
       \/ Handle(c)
       \/ StoreApplies(c) \/ StoreDeclines(c)
  \/ Tick
  \/ \E d \in Discord, i \in Identity \union {None} : Relink(d, i)
  \/ Shutdown
  \/ \E environment \in Config : Restart(environment)

Spec == Init /\ [][Next]_vars

\* The store ends an append (EveryCallReturns of EventStore).
Ends(c) ==
  \/ StoreApplies(c)
  \/ (AnswerCASFailed(c) \/ AnswerDuplicate(c) \/ GiveUp(c)) /\ StoreDeclines(c)

-----------------------------------------------------------------------------

TypeOK ==
  /\ log \in [Partition -> Seq(Events)]
  /\ clock \in 0 .. MaxTime
  /\ config \in Config /\ draining \in BOOLEAN
  /\ link \in [Discord -> Identity \union {None}]
  /\ pc \in [Client -> {"idle", "resolve", "grade", "record", "append", "query"}]
  /\ \A c \in Client :
       /\ asked[c] \in Asked \union {NoRequestAsked}
       /\ waiting[c] => ~Idle(c)
       /\ Idle(c) = (asked[c] = NoRequestAsked)
       /\ resolved[c] \in Identity \union {None}
       /\ phase[c] # "idle" => pc[c] = "append"
  /\ reply.status \in {0, 200, 400, 401, 404, 409, 413, 422, 500, 503, 504}
  /\ confirmed \in [Client -> BOOLEAN]
  /\ wrote \in [Client -> BOOLEAN]
  /\ acked \subseteq Partition
  /\ due \in [Client -> SUBSET Partition]

\* An activity is completed at most once by an identity, whichever of the three
\* routes it is completed through, however often a request is sent again and with
\* whatever timestamp: the event id does not tell, the partition does.
OneBadge ==
  \A p, q \in Partition : \A j \in DOMAIN log[p], k \in DOMAIN log[q] :
    /\ log[p][j].identity = log[q][k].identity
    /\ log[p][j].activity = log[q][k].activity
    => p = q /\ j = k

\* Every completion stored rests on an authority of its own: on the caller's token
\* for the caller, on the admin token for a first light, and on an attestation only
\* for the identity that identity-api named for the account while it was served,
\* whoever was linked, unlinked or configured meanwhile.
AuthorizedGrants ==
  [][\A c \in Client : wrote'[c] /\ ~wrote[c] =>
       LET e == request[c].event
           r == asked[c]
       IN  \/ /\ e.activity = VERIFY_ACTIVITY.id /\ r.route = "complete"
              /\ e.identity = identityOf(r)
              /\ bearerFrom(r.headers).signedWith = config.IDENTITY_API_JWT_SECRET
           \/ /\ e.activity = VERIFY_ACTIVITY.id /\ r.route = "attested"
              /\ r.headers[SERVICE_TOKEN_HEADER] = config.ACTIVITIES_VERIFY_WRITE_TOKEN
              /\ confirmed[c] /\ e.identity = r.body.identity_id
              /\ r.body.world \in config.ACTIVITIES_WORLD_ALLOWLIST
           \/ /\ e.activity = FIRST_LIGHT_ACTIVITY.id /\ r.route = "admin"
              /\ r.headers[SERVICE_TOKEN_HEADER] = config.ACTIVITIES_ADMIN_GRANT_TOKEN]_vars

\* A client can rely on what it is told: completed: true is durable, and only a 503,
\* a 504 or no answer at all leaves it open whether its own request has completed it,
\* or is going to.
AnswerIsTrue ==
  [][\A c \in Client : waiting[c] /\ ~waiting'[c] /\ reply' # NoReply =>
       /\ reply'.completed => wrote[c]
       /\ wrote[c] \/ ~Idle(c)' => reply'.completed \/ reply'.status \in {503, 504}]_vars

\* A page that is full and has no next_cursor is all there is: it shows every
\* completion that was acknowledged before it was asked for, and nothing that is
\* not stored or is about somebody else.
PageIsHonest ==
  [][\A c \in Client : pc[c] = "query" /\ Idle(c)' /\ reply'.completeness = "full" =>
       LET items == ToSet(reply'.items)
           shown == IF asked[c].route = "activities" THEN items ELSE {b.event : b \in items}
       IN  /\ \A e \in shown : e.identity = Subject(asked[c]) /\ Known(e)
           /\ reply'.next_cursor = None =>
                \A p \in due[c] : \E e \in shown : p[2] = e.activity]_vars

\* Nobody waits for ever: whatever a request waits for, its own handler, its timer or
\* the store can end the wait, without identity-api, another request or a restart.
NeverStuck ==
  \A c \in Client : ~Idle(c) => ENABLED (Handle(c) \/ ResolveFailed(c) \/ Ends(c))

\* The comment at runWrite: the DuplicateEvent of a replay surfaces as 409, so that
\* the client can recognise the no-op; a lost compare-and-set is a 409 as well.
ReplayIsRecognised ==
  reply.cause \in {"CASFailed", "DuplicateEvent"} => reply.status = 409
=============================================================================
