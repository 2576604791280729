----------------------------- MODULE McpGateway -----------------------------
(***************************************************************************)
(* The guards of the MCP tools (packages/mcp-tools/src/auth) as a gateway  *)
(* composes them: bearer token, key provider, replay tracker, rate limiter *)
(* and audit log, all in the memory of one process.  The gateway itself    *)
(* belongs to the world that hosts the tools; the order it calls the       *)
(* guards in is the one their errors and the audit outcomes name.          *)
(*                                                                         *)
(* The clock is the wall clock, and may be set back.  A unit of it fills a *)
(* bucket by a whole number of tokens, and a signature is whether the      *)
(* token was signed with the key its kid names.                            *)
(***************************************************************************)
EXTENDS FiniteSets, SequencesExt, Cursors

CONSTANTS
  Client,
  Caller,         \* the subjects of tokens
  Request,        \* [token, tool, world, cursors], no cursor for a first page
  CursorSecret,   \* what the gateway signs its cursors with, None when it cannot
  KeyRings,       \* what the key provider may be configured with: [kid -> key]
  Skew,           \* TOKEN_SKEW_TOLERANCE_SECONDS
  Window,         \* TOKEN_REPLAY_WINDOW_SECONDS
  ColdStart,      \* how long a new process refuses everything, None not at all
  MaxEntries,     \* of the replay tracker
  Capacity,       \* of a bucket
  RefillRate,     \* tokens that a unit of time adds to it
  AuditCapacity,
  MaxTime, MaxServed, MaxLives

KeyRotationState == {"active", "grace", "revoked"}

ASSUME McpGatewayOK ==
  /\ None \notin [tokens : Nat, lastRefill : Nat]
  /\ {Skew, Window, Capacity, MaxTime, MaxServed, MaxLives} \subseteq Nat
  /\ ColdStart \in Nat \union {None}
  /\ {MaxEntries, AuditCapacity, RefillRate} \subseteq Nat \ {0}
  /\ \A ring \in KeyRings : \A kid \in DOMAIN ring : ring[kid].state \in KeyRotationState
  /\ {r.token.sub : r \in Request} \subseteq Caller

VARIABLES
  now,      \* the wall clock
  boot,     \* its reading when the process started
  latest,   \* its highest reading since then
  keys,     \* byKid
  seen,     \* the replay tracker's map; an entry has its place in the order of insertion
  buckets,
  audit,    \* the records of the in-memory sink
  call,     \* what each client waits for
  life,     \* which process this is
  history   \* what was served: the tokens the tracker found fresh, in order

process == <<boot, keys, life>>
clock == <<now, latest>>
vars == <<now, boot, latest, keys, seen, buckets, audit, call, life, history>>

Outcome ==
  {"ok", "token_invalid", "token_expired", "scope_denied", "permission_denied",
   "rate_limited", "replay_detected", "adapter_error"}

Idle == [at |-> "idle", request |-> None]

-----------------------------------------------------------------------------
AuditPermission == {"audit-log-read", "audit-log-aggregate"}

\* The sealed scopes: the scope "global" of old is none of them.
WorldScope(scope) ==
  \/ scope.tag = "single" /\ Cardinality(scope.worlds) = 1
  \/ scope.tag = "multi" /\ Cardinality(scope.worlds) \in 1 .. 32
  \/ scope.tag = "audit" /\ scope.permissions # {} /\ scope.permissions \subseteq AuditPermission

\* The schema of a token: the algorithm and the type are literals, so that no other
\* algorithm is ever verified, and a permission is one of the tools.
MCPBearerToken(raw) ==
  /\ raw.alg = "Ed25519" /\ raw.typ = "freeside-mcp-token"
  /\ raw.aud # {} /\ raw.aud \subseteq {"freeside-activities"}
  /\ WorldScope(raw.scope)
  /\ raw.permissions \subseteq PagedTools

\* The key provider, failing closed: null is a kid it has, and may use.
resolvable(kid) ==
  /\ kid \in DOMAIN keys
  /\ keys[kid].state # "revoked"
  /\ keys[kid].expires > now

\* "global" is for the audit scope, which reads no world.
checkWorldScope(scope, requested) ==
  IF requested = "global" THEN scope.tag = "audit"
  ELSE scope.tag # "audit" /\ requested \in scope.worlds

\* validateBearerToken, from the verifier's answer to the replay check.
Judgement(token, tool, world) ==
  CASE ~token.signed -> "token_invalid"
    [] token.exp <= now -> "token_expired"
    [] token.iat > now + Skew -> "token_invalid"
    [] ~checkWorldScope(token.scope, world) -> "scope_denied"
    [] tool \notin token.permissions -> "permission_denied"
    [] OTHER -> "ok"

-----------------------------------------------------------------------------
\* makeInMemoryJTIReplayTracker.
ColdStarting == ColdStart # None /\ now < boot + ColdStart

gc(entries) == {e \in entries : e.first_seen + Window >= now}

\* Mutant: the tracker makes room by forgetting the newest.
EvictNewest(entries) ==
  {e \in entries : Cardinality({f \in entries : f.nth < e.nth}) < MaxEntries - 1}

\* The oldest go, one at a time, until there is room for one more.
evictLRU(entries) ==
  {e \in entries : Cardinality({f \in entries : f.nth > e.nth}) < MaxEntries - 1}

Known(jti, entries) == \E e \in entries : e.jti = jti

Fresh(jti) == ~ColdStarting /\ ~Known(jti, gc(seen))

\* What a record() leaves: nothing changes while the process is cold.
Recorded(jti) ==
  IF ColdStarting THEN seen
  ELSE IF Known(jti, gc(seen)) THEN gc(seen)
  ELSE evictLRU(gc(seen)) \union
         {[jti |-> jti, first_seen |-> now, nth |-> Len(history) + 1]}

-----------------------------------------------------------------------------
\* makeInMemoryRateLimiter.
NewBucket == [tokens |-> Capacity, lastRefill |-> now]

BucketOf(caller) == IF buckets[caller] = None THEN NewBucket ELSE buckets[caller]

\* Mutant: a long silence fills the bucket past its capacity.
RefillUncapped(bucket) ==
  IF now <= bucket.lastRefill THEN bucket
  ELSE [tokens |-> bucket.tokens + RefillRate * (now - bucket.lastRefill), lastRefill |-> now]

refill(bucket) ==
  IF now <= bucket.lastRefill THEN bucket
  ELSE [tokens |-> Min({Capacity, bucket.tokens + RefillRate * (now - bucket.lastRefill)}),
        lastRefill |-> now]

Refilled(caller) == refill(BucketOf(caller))

Allowed(caller) == Refilled(caller).tokens >= 1

\* retry_after_seconds: the deficit over the rate, rounded up.
RetryAfter(caller) ==
  IF Allowed(caller) THEN 0
  ELSE ((1 - Refilled(caller).tokens) + RefillRate - 1) \div RefillRate

Check(caller) ==
  buckets' = [buckets EXCEPT ![caller] =
                [Refilled(caller) EXCEPT !.tokens = IF Allowed(caller) THEN @ - 1 ELSE @]]

\* peek refills what it reads, and creates nothing.
Peek(caller) ==
  /\ buckets[caller] # None
  /\ buckets' = [buckets EXCEPT ![caller] = refill(@)]
  /\ UNCHANGED <<clock, process, seen, audit, call, history>>

-----------------------------------------------------------------------------
\* Mutant: the sink trims only once it is over by one.
AppendLate(records, record) ==
  IF Len(records) > AuditCapacity THEN Append(Tail(records), record)
  ELSE Append(records, record)

\* The sink of makeInMemoryAuditLogSink: push, then splice what is too much.
append(records, record) ==
  LET pushed == Append(records, record) IN
    SubSeq(pushed, Max({0, Len(pushed) - AuditCapacity}) + 1, Len(pushed))

Close(c, caller, outcome) ==
  /\ audit' = append(audit, [caller |-> caller, outcome |-> outcome])
  /\ call' = [call EXCEPT ![c] = Idle]

-----------------------------------------------------------------------------
Pending == Cardinality({c \in Client : call[c].at = "verifying"})

\* A request comes in: the token is decoded, its key resolved, and the check of its
\* signature started.
Receive(c) ==
  /\ call[c].at = "idle"
  /\ Len(history) + Pending < MaxServed
  /\ \E r \in Request :
       \/ /\ ~MCPBearerToken(r.token) \/ ~resolvable(r.token.kid)
          /\ Close(c, "unknown", "token_invalid")
       \/ /\ MCPBearerToken(r.token)
          /\ resolvable(r.token.kid)
          /\ call' = [call EXCEPT ![c] = [at |-> "verifying", request |-> r]]
          /\ UNCHANGED audit
  /\ UNCHANGED <<clock, process, seen, buckets, history>>

\* The signature has been checked, and the rest runs to its end: a token refused
\* before the replay check is not recorded.
Refuse(c) ==
  LET r == call[c].request
      outcome == Judgement(r.token, r.tool, r.world)
  IN
  /\ call[c].at = "verifying"
  /\ outcome # "ok"
  /\ Close(c, IF r.token.signed THEN r.token.sub ELSE "unknown", outcome)
  /\ UNCHANGED <<clock, process, seen, buckets, history>>

\* A token that was seen, or a process that is still cold.
Replayed(c) ==
  LET r == call[c].request IN
  /\ call[c].at = "verifying"
  /\ Judgement(r.token, r.tool, r.world) = "ok"
  /\ ~Fresh(r.token.jti)
  /\ seen' = Recorded(r.token.jti)
  /\ Close(c, r.token.sub, "replay_detected")
  /\ UNCHANGED <<clock, process, buckets, history>>

\* A fresh token is spent whatever the limiter says of its caller.
Serve(c) ==
  LET r == call[c].request
      sub == r.token.sub
  IN
  /\ call[c].at = "verifying"
  /\ Judgement(r.token, r.tool, r.world) = "ok"
  /\ Fresh(r.token.jti)
  /\ seen' = Recorded(r.token.jti)
  /\ Check(sub)
  /\ history' = Append(history, [jti |-> r.token.jti, sub |-> sub, at |-> now, boot |-> boot,
                                 latest |-> latest, life |-> life,
                                 allowed |-> Allowed(sub), retry |-> RetryAfter(sub)])
  /\ \/ /\ Allowed(sub)
        /\ call' = [call EXCEPT ![c].at = "running"]
        /\ UNCHANGED audit
     \/ /\ ~Allowed(sub)
        /\ Close(c, sub, "rate_limited")
  /\ UNCHANGED <<clock, process>>

\* The cursor of a page that is not the first is verified when the adapter reads it.
PageRefused(r) == \E raw \in r.cursors : verifyCursor(raw, CursorSecret, now) # "ok"

\* The tool answers, or its adapter fails, as it does on a cursor it refuses.
Answer(c) ==
  LET r == call[c].request IN
  /\ call[c].at = "running"
  /\ \E outcome \in {"ok", "adapter_error"} :
       /\ PageRefused(r) => outcome = "adapter_error"
       /\ Close(c, r.token.sub, outcome)
  /\ UNCHANGED <<clock, process, seen, buckets, history>>

Tick ==
  /\ now < MaxTime
  /\ now' = now + 1
  /\ latest' = Max({latest, now'})
  /\ UNCHANGED <<process, seen, buckets, audit, call, history>>

\* The wall clock is set back.
SetBack ==
  /\ now > 0
  /\ now' = now - 1
  /\ UNCHANGED <<latest, process, seen, buckets, audit, call, history>>

\* The process ends, and another one starts: all of this was in its memory.
Fill(ring) ==
  /\ boot' = now'
  /\ latest' = now'
  /\ keys' = ring
  /\ seen' = {}
  /\ buckets' = [s \in Caller |-> None]
  /\ audit' = <<>>
  /\ call' = [c \in Client |-> Idle]

Restart ==
  /\ life < MaxLives
  /\ life' = life + 1
  /\ now' = now
  /\ \E ring \in KeyRings : Fill(ring)
  /\ UNCHANGED history

-----------------------------------------------------------------------------
Init ==
  /\ now = 0
  /\ boot = 0
  /\ latest = 0
  /\ keys \in KeyRings
  /\ seen = {}
  /\ buckets = [s \in Caller |-> None]
  /\ audit = <<>>
  /\ call = [c \in Client |-> Idle]
  /\ life = 1
  /\ history = <<>>

Handle(c) == Receive(c) \/ Refuse(c) \/ Replayed(c) \/ Serve(c) \/ Answer(c)

Next ==
  \/ \E c \in Client : Handle(c)
  \/ \E s \in Caller : Peek(s)
  \/ Tick
  \/ SetBack
  \/ Restart

Spec == Init /\ [][Next]_vars

-----------------------------------------------------------------------------
(* The process's memory is within its bounds: the replay tracker holds each *)
(* token once and no more than it may; a bucket never holds more than its   *)
(* capacity nor was filled in the future; and the audit log drops its       *)
(* oldest records rather than grow.                                         *)
TypeOK ==
  /\ now \in 0..MaxTime /\ latest \in now..MaxTime /\ boot \in 0..latest
  /\ IsFiniteSet(seen) /\ Cardinality(seen) <= MaxEntries
  /\ \A e, f \in seen : e.jti = f.jti => e = f
  /\ \A s \in Caller : buckets[s] # None =>
       /\ buckets[s].tokens \in 0..Capacity
       /\ buckets[s].lastRefill \in 0..latest
  /\ Len(audit) <= AuditCapacity
  /\ \A i \in DOMAIN audit : audit[i].outcome \in Outcome
  /\ \A c \in Client : call[c].at \in {"idle", "verifying", "running"}

\* The tokens, other than this one, spent between two of the things served.
SpentBetween(i, j) == {history[k].jti : k \in i + 1 .. j - 1} \ {history[i].jti}

(* A token is served once (BearerToken.ts, TOKEN_REPLAY_WINDOW_SECONDS;      *)
(* bearer-token.ts, record): it is served again only when the clock has      *)
(* passed the window since, or as many other tokens were served in between   *)
(* as the tracker can hold, or the process is another one, which refused     *)
(* everything for its cold start, unless it started under a clock set back.  *)
ServedOnce ==
  \A j \in DOMAIN history : \A i \in 1 .. j - 1 :
    history[i].jti = history[j].jti =>
      IF history[i].life = history[j].life
      THEN \/ history[j].latest > history[i].at + Window
           \/ Cardinality(SpentBetween(i, j)) >= MaxEntries
      ELSE \/ ColdStart = None
           \/ history[j].at >= history[i].at + ColdStart
           \/ history[j].boot < history[i].at

Of(sub, l) == {k \in DOMAIN history : history[k].sub = sub /\ history[k].life = l}

(* The limiter keeps its promise to both sides (rate-limit.ts): between any  *)
(* two of its calls a caller got no more than a full bucket and what the     *)
(* clock added, however the clock went; and a caller told to come back after *)
(* a while, who does, is let in (unless the clock was set back: until it has *)
(* caught up, the bucket does not fill).                                     *)
RateIsHonest ==
  \A s \in Caller, l \in 1 .. life :
    \A i, j \in Of(s, l) :
      /\ i <= j =>
           Cardinality({k \in Of(s, l) \cap i .. j : history[k].allowed})
             <= Capacity + RefillRate * (history[j].latest - history[i].at)
      /\ (/\ i < j
          /\ ~history[i].allowed
          /\ Of(s, l) \cap i + 1 .. j - 1 = {}
          /\ history[i].at = history[i].latest
          /\ history[j].at >= history[i].at + history[i].retry)
           => history[j].allowed
=============================================================================
