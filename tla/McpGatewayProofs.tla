--------------------------- MODULE McpGatewayProofs ---------------------------
(***************************************************************************)
(* Proofs about McpGateway, for any number of clients and callers, any     *)
(* windows, bounds and keys, and any requests.                             *)
(***************************************************************************)
EXTENDS McpGateway, FiniteSetTheorems, SequenceTheorems, WellFoundedInduction, TLAPS

Jti == {r.token.jti : r \in Request}
Subject == {r.token.sub : r \in Request}
Bucket == [tokens : 0..Capacity, lastRefill : 0..MaxTime]
Call == [at : {"idle", "verifying", "running"}, request : Request \union {None}]
Record == [caller : Subject \union {"unknown"}, outcome : Outcome]
Served == [jti : Jti, sub : Caller, at : 0..MaxTime, boot : 0..MaxTime, latest : 0..MaxTime,
           life : Nat, allowed : BOOLEAN, retry : Nat]

\* The clock, and what is in memory besides what the tracker holds.
ClockInv == now \in Nat /\ latest \in now..MaxTime /\ boot \in 0..latest

HistoryInv ==
  /\ life \in Nat
  /\ history \in Seq(Served)
  /\ \A n \in DOMAIN history : history[n].life <= life

CallInv ==
  /\ call \in [Client -> Call]
  /\ \A c \in Client : call[c].at # "idle" => call[c].request \in Request

AuditInv == audit \in Seq(Record) /\ Len(audit) <= AuditCapacity

BucketInv ==
  /\ buckets \in [Caller -> Bucket \union {None}]
  /\ \A s \in Caller : buckets[s] \in Bucket => buckets[s].lastRefill <= latest

MemoryInv == ClockInv /\ HistoryInv /\ CallInv /\ AuditInv /\ BucketInv

\* What the tracker holds of the n-th thing served.
EntryOf(n) == [jti |-> history[n].jti, first_seen |-> history[n].at, nth |-> n]

\* The tracker holds what this process served, each token once and no more than it may.
HeldInv ==
  /\ IsFiniteSet(seen) /\ Cardinality(seen) <= MaxEntries
  /\ \A e \in seen : e.nth \in DOMAIN history /\ e = EntryOf(e.nth) /\ history[e.nth].life = life
  /\ \A e, f \in seen : e.jti = f.jti => e = f

\* The tokens, other than its own, that were spent since.
SpentSince(n) == {history[k].jti : k \in n + 1 .. Len(history)} \ {history[n].jti}

Forgettable(n) ==
  \/ latest > history[n].at + Window
  \/ Cardinality(SpentSince(n)) >= MaxEntries

\* What this process served is remembered as long as it matters.
RememberedInv ==
  \A n \in DOMAIN history : history[n].life = life => EntryOf(n) \in seen \/ Forgettable(n)

TrackerInv == HeldInv /\ RememberedInv /\ ServedOnce

-----------------------------------------------------------------------------
(* Arithmetic, and sets of places in an order.                             *)

LEMMA MinOfTwo ==
  ASSUME NEW a \in Int, NEW b \in Int
  PROVE  Min({a, b}) = IF a <= b THEN a ELSE b
  BY DEF Min

LEMMA MaxOfTwo ==
  ASSUME NEW a \in Int, NEW b \in Int
  PROVE  Max({a, b}) = IF a >= b THEN a ELSE b
  BY DEF Max

\* The entries that have fewer than so many after them are no more than that.
LEMMA FewAtTheEnd ==
  ASSUME NEW S, IsFiniteSet(S), \A e \in S : e.nth \in Nat,
         \A e, f \in S : e.nth = f.nth => e = f,
         NEW m \in Nat
  PROVE  LET K == {e \in S : Cardinality({f \in S : f.nth > e.nth}) < m}
         IN  IsFiniteSet(K) /\ Cardinality(K) <= m
<1> DEFINE K == {e \in S : Cardinality({f \in S : f.nth > e.nth}) < m}
           N == {e.nth : e \in K}
<1>1. IsFiniteSet(K) /\ Cardinality(K) \in Nat
  BY FS_Subset, FS_CardinalityType
<1>2. CASE K = {}
  <2>1. Cardinality(K) = 0
    BY <1>2, FS_EmptySet
  <2>. QED
    BY <1>1, <2>1
<1>3. CASE K # {}
  <2>1. N \subseteq Nat /\ N # {}
    BY <1>3
  <2>2. PICK n \in N : \A k \in N : <<k, n>> \notin OpToRel(<, Nat)
    BY <2>1, NatLessThanWellFounded, WFMin
  <2>3. PICK e \in K : e.nth = n
    OBVIOUS
  <2>4. \A f \in K : ~(f.nth < e.nth)
    BY <2>1, <2>2, <2>3 DEF OpToRel
  <2>5. K \ {e} \subseteq {f \in S : f.nth > e.nth}
    BY <2>4
  <2>6. IsFiniteSet({f \in S : f.nth > e.nth})
    BY FS_Subset
  <2>7. Cardinality(K \ {e}) <= Cardinality({f \in S : f.nth > e.nth})
    BY <2>5, <2>6, FS_Subset
  <2>8. Cardinality(K \ {e}) = Cardinality(K) - 1
    BY <1>1, FS_RemoveElement
  <2>9. Cardinality({f \in S : f.nth > e.nth}) < m /\ Cardinality({f \in S : f.nth > e.nth}) \in Nat
    BY <2>6, FS_CardinalityType
  <2>. QED
    BY <1>1, <2>7, <2>8, <2>9
<1>. QED
  BY <1>1, <1>2, <1>3

-----------------------------------------------------------------------------
(* The clock and the memory.                                               *)

LEMMA InitMemory == Init => MemoryInv
<1> SUFFICES ASSUME Init PROVE MemoryInv
  OBVIOUS
<1>1. ClockInv
  BY McpGatewayOK DEF Init, ClockInv
<1>2. HistoryInv /\ AuditInv
  BY McpGatewayOK DEF Init, HistoryInv, AuditInv
<1>3. CallInv /\ BucketInv
  BY McpGatewayOK DEF Init, CallInv, Call, Idle, BucketInv, Bucket
<1>. QED
  BY <1>1, <1>2, <1>3 DEF MemoryInv

\* The log holds its newest records.
LEMMA AuditBounded ==
  ASSUME AuditInv, NEW r \in Record
  PROVE  append(audit, r) \in Seq(Record) /\ Len(append(audit, r)) <= AuditCapacity
<1> DEFINE p == Append(audit, r)
           k == Max({0, Len(p) - AuditCapacity})
<1>1. p \in Seq(Record) /\ Len(p) = Len(audit) + 1 /\ Len(audit) \in Nat
  BY DEF AuditInv
<1>2. AuditCapacity \in Nat \ {0}
  BY McpGatewayOK
<1>3. k = IF Len(p) > AuditCapacity THEN Len(p) - AuditCapacity ELSE 0
  BY <1>1, <1>2, MaxOfTwo
<1>4. k \in 0 .. Len(p) /\ Len(p) - k <= AuditCapacity
  BY <1>1, <1>2, <1>3
<1>5. SubSeq(p, k + 1, Len(p)) \in Seq(Record) /\ Len(SubSeq(p, k + 1, Len(p))) = Len(p) - k
  <2> HIDE DEF p, k
  <2>1. k + 1 \in 1 .. Len(p) + 1 /\ Len(p) \in 0 .. Len(p)
    BY <1>1, <1>4
  <2>. QED
    BY <1>1, <1>4, <2>1, SubSeqProperties
<1>. QED
  BY <1>4, <1>5 DEF append

LEMMA CloseKeeps ==
  ASSUME MemoryInv, NEW c \in Client, NEW s \in Subject \union {"unknown"}, NEW o \in Outcome,
         Close(c, s, o)
  PROVE  CallInv' /\ AuditInv'
<1>1. [caller |-> s, outcome |-> o] \in Record
  BY DEF Record
<1>2. AuditInv'
  BY <1>1, AuditBounded DEF Close, AuditInv, MemoryInv
<1>3. Idle \in Call /\ Idle.at = "idle"
  BY DEF Idle, Call
<1>4. CallInv'
  BY <1>3 DEF Close, CallInv, MemoryInv
<1>. QED
  BY <1>2, <1>4

\* What a call under way is about.
LEMMA CallIsReal ==
  ASSUME MemoryInv, NEW c \in Client, call[c].at # "idle"
  PROVE  /\ call[c].request \in Request
         /\ call[c].request.token.sub \in Subject /\ call[c].request.token.sub \in Caller
         /\ call[c].request.token.jti \in Jti
  BY McpGatewayOK DEF MemoryInv, CallInv, Subject, Jti

LEMMA RefillType ==
  ASSUME MemoryInv, NEW b \in Bucket, b.lastRefill <= latest
  PROVE  /\ refill(b) \in Bucket /\ refill(b).lastRefill <= latest
         /\ refill(b).lastRefill = IF now <= b.lastRefill THEN b.lastRefill ELSE now
<1>1. now \in Nat /\ latest \in Nat /\ now <= latest /\ latest <= MaxTime /\ MaxTime \in Nat
      /\ RefillRate \in Nat /\ Capacity \in Nat
  BY McpGatewayOK DEF MemoryInv, ClockInv
<1>2. b.tokens \in 0..Capacity /\ b.lastRefill \in 0..MaxTime
  BY DEF Bucket
<1>3. CASE now <= b.lastRefill
  BY <1>3 DEF refill
<1>4. CASE ~(now <= b.lastRefill)
  <2>1. RefillRate * (now - b.lastRefill) \in Nat
    BY <1>1, <1>2, <1>4
  <2> DEFINE t == b.tokens + RefillRate * (now - b.lastRefill)
  <2>2. t \in Nat
    BY <1>2, <2>1
  <2>3. Min({Capacity, t}) \in 0..Capacity
    <3> HIDE DEF t
    <3>. QED
      BY <1>1, <2>2, MinOfTwo
  <2>4. refill(b) = [tokens |-> Min({Capacity, t}), lastRefill |-> now]
    BY <1>4 DEF refill
  <2>. QED
    BY <1>1, <1>4, <2>3, <2>4 DEF Bucket
<1>. QED
  BY <1>3, <1>4

LEMMA BucketOfType ==
  ASSUME MemoryInv, NEW s \in Caller
  PROVE  BucketOf(s) \in Bucket /\ BucketOf(s).lastRefill <= latest
<1>1. NewBucket \in Bucket /\ NewBucket.lastRefill <= latest
  BY McpGatewayOK DEF NewBucket, Bucket, MemoryInv, ClockInv
<1>2. CASE buckets[s] = None
  BY <1>1, <1>2 DEF BucketOf
<1>3. CASE buckets[s] # None
  BY <1>3 DEF BucketOf, MemoryInv, BucketInv
<1>. QED
  BY <1>2, <1>3

LEMMA RefilledType ==
  ASSUME MemoryInv, NEW s \in Caller
  PROVE  /\ Refilled(s) \in Bucket /\ Refilled(s).lastRefill <= latest
         /\ Allowed(s) \in BOOLEAN
  BY BucketOfType, RefillType DEF Refilled, Allowed

LEMMA NoBucketIsNone == None \notin Bucket
<1>1. Bucket \subseteq [tokens : Nat, lastRefill : Nat]
  BY McpGatewayOK DEF Bucket
<1>. QED
  BY <1>1, McpGatewayOK

\* What a check leaves in the bucket.
LEMMA CheckLeaves ==
  ASSUME MemoryInv, NEW s \in Caller, Check(s)
  PROVE  /\ buckets' \in [Caller -> Bucket \union {None}]
         /\ \A t \in Caller \ {s} : buckets'[t] = buckets[t]
         /\ buckets'[s] \in Bucket
         /\ buckets'[s].lastRefill = Refilled(s).lastRefill
         /\ buckets'[s].tokens = Refilled(s).tokens - (IF Allowed(s) THEN 1 ELSE 0)
<1> DEFINE b == [Refilled(s) EXCEPT !.tokens = IF Allowed(s) THEN @ - 1 ELSE @]
<1>1. Refilled(s) \in Bucket /\ Capacity \in Nat
  BY RefilledType, McpGatewayOK
<1>2. b \in Bucket /\ b.lastRefill = Refilled(s).lastRefill
      /\ b.tokens = Refilled(s).tokens - (IF Allowed(s) THEN 1 ELSE 0)
  BY <1>1 DEF Bucket, Allowed
<1>3. buckets' = [buckets EXCEPT ![s] = b]
  BY DEF Check
<1>. QED
  BY <1>2, <1>3 DEF MemoryInv, BucketInv

\* Whoever is told to wait is told to wait for one token.
LEMMA OneToken ==
  ASSUME MemoryInv, NEW s \in Caller
  PROVE  /\ Allowed(s) => RetryAfter(s) = 0
         /\ ~Allowed(s) => RetryAfter(s) = 1 /\ Refilled(s).tokens = 0
<1>1. Refilled(s).tokens \in 0..Capacity /\ Capacity \in Nat /\ RefillRate \in Nat \ {0}
  BY RefilledType, McpGatewayOK DEF Bucket
<1>2. \A r \in Nat \ {0} : r \div r = 1
  OBVIOUS
<1>3. ~Allowed(s) => Refilled(s).tokens = 0
  BY <1>1 DEF Allowed
<1>4. (1 - 0) + RefillRate - 1 = RefillRate
  BY <1>1
<1>. QED
  BY <1>1, <1>2, <1>3, <1>4 DEF RetryAfter

\* What is recorded of what is served now.
Entry(c) ==
  LET r == call[c].request
      sub == r.token.sub
  IN  [jti |-> r.token.jti, sub |-> sub, at |-> now, boot |-> boot, latest |-> latest,
       life |-> life, allowed |-> Allowed(sub), retry |-> RetryAfter(sub)]

LEMMA ServeRecords ==
  ASSUME MemoryInv, NEW c \in Client, Serve(c)
  PROVE  /\ Entry(c) \in Served
         /\ history' = Append(history, Entry(c))
         /\ history' \in Seq(Served) /\ Len(history') = Len(history) + 1 /\ Len(history) \in Nat
         /\ \A n \in DOMAIN history : n \in DOMAIN history' /\ history'[n] = history[n]
         /\ history'[Len(history) + 1] = Entry(c)
         /\ DOMAIN history' = DOMAIN history \union {Len(history) + 1}
         /\ DOMAIN history = 1 .. Len(history)
<1> DEFINE sub == call[c].request.token.sub
<1>1. call[c].at # "idle"
  BY DEF Serve
<1>2. sub \in Caller /\ call[c].request.token.jti \in Jti
  BY <1>1, CallIsReal
<1>3. Allowed(sub) \in BOOLEAN /\ RetryAfter(sub) \in Nat
  BY <1>2, RefilledType, OneToken
<1>4. now \in 0..MaxTime /\ boot \in 0..MaxTime /\ latest \in 0..MaxTime /\ life \in Nat
  BY McpGatewayOK DEF MemoryInv, ClockInv, HistoryInv
<1>5. Entry(c) \in Served
  BY <1>2, <1>3, <1>4 DEF Entry, Served
<1>6. history' = Append(history, Entry(c))
  BY DEF Serve, Entry
<1>. QED
  BY <1>5, <1>6 DEF MemoryInv, HistoryInv

LEMMA JudgementType ==
  ASSUME NEW token, NEW tool, NEW w
  PROVE  Judgement(token, tool, w) \in Outcome
  BY DEF Judgement, Outcome

\* Nothing that this part of the memory is about changes.
LEMMA Kept ==
  /\ ClockInv /\ UNCHANGED <<clock, process>> => ClockInv'
  /\ HistoryInv /\ UNCHANGED <<process, history>> => HistoryInv'
  /\ CallInv /\ UNCHANGED call => CallInv'
  /\ AuditInv /\ UNCHANGED audit => AuditInv'
  /\ BucketInv /\ UNCHANGED <<clock, buckets>> => BucketInv'
  BY DEF ClockInv, clock, process, HistoryInv, CallInv, AuditInv, BucketInv

LEMMA ServeMemory ==
  ASSUME MemoryInv, NEW c \in Client, Serve(c)
  PROVE  MemoryInv'
<1> DEFINE sub == call[c].request.token.sub
<1>1. call[c].at # "idle" /\ UNCHANGED <<clock, process>>
  BY DEF Serve
<1>2. sub \in Caller /\ sub \in Subject /\ call[c].request \in Request
  BY <1>1, CallIsReal
<1>3. ClockInv'
  BY <1>1, Kept DEF MemoryInv
<1>4. HistoryInv'
  <2>1. life' = life
    BY <1>1 DEF process
  <2>2. Entry(c).life = life
    BY DEF Entry
  <2>. QED
    BY <2>1, <2>2, ServeRecords DEF MemoryInv, HistoryInv
<1>5. CallInv' /\ AuditInv'
  <2>1. CASE ~Allowed(sub)
    BY <2>1, <1>2, CloseKeeps DEF Serve, Outcome
  <2>2. CASE Allowed(sub)
    <3>1. call' = [call EXCEPT ![c].at = "running"] /\ UNCHANGED audit
      BY <2>2 DEF Serve
    <3>2. CallInv'
      BY <3>1, <1>2 DEF MemoryInv, CallInv, Call
    <3>. QED
      BY <3>1, <3>2, Kept DEF MemoryInv
  <2>. QED
    BY <2>1, <2>2
<1>6. BucketInv'
  <2>1. Check(sub)
    BY DEF Serve
  <2>2. latest' = latest
    BY <1>1 DEF clock
  <2>. QED
    BY <2>1, <2>2, <1>2, CheckLeaves, RefilledType DEF MemoryInv, BucketInv
<1>. QED
  BY <1>3, <1>4, <1>5, <1>6 DEF MemoryInv

LEMMA PeekMemory ==
  ASSUME MemoryInv, NEW s \in Caller, Peek(s)
  PROVE  MemoryInv'
<1>1. buckets[s] \in Bucket /\ buckets[s].lastRefill <= latest
  BY DEF Peek, MemoryInv, BucketInv
<1>2. refill(buckets[s]) \in Bucket /\ refill(buckets[s]).lastRefill <= latest
  BY <1>1, RefillType
<1>3. buckets' = [buckets EXCEPT ![s] = refill(buckets[s])] /\ latest' = latest
  BY DEF Peek, clock
<1>4. BucketInv'
  BY <1>2, <1>3 DEF MemoryInv, BucketInv
<1>5. ClockInv' /\ HistoryInv' /\ CallInv' /\ AuditInv'
  BY Kept DEF Peek, MemoryInv
<1>. QED
  BY <1>4, <1>5 DEF MemoryInv

LEMMA TimeMemory ==
  ASSUME MemoryInv, Tick \/ SetBack
  PROVE  MemoryInv' /\ latest' >= latest
<1>1. now \in Nat /\ latest \in Nat /\ now <= latest /\ latest <= MaxTime /\ MaxTime \in Nat
      /\ boot \in 0..latest
  BY McpGatewayOK DEF MemoryInv, ClockInv
<1>2. latest' >= latest /\ ClockInv'
  <2>1. CASE Tick
    BY <2>1, <1>1, MaxOfTwo DEF Tick, ClockInv, process
  <2>2. CASE SetBack
    BY <2>2, <1>1 DEF SetBack, ClockInv, process
  <2>. QED
    BY <2>1, <2>2
<1>3. UNCHANGED <<process, seen, buckets, audit, call, history>>
  BY DEF Tick, SetBack
<1>4. latest' \in Nat
  BY <1>1, <1>2 DEF ClockInv
<1>5. BucketInv'
  <2> SUFFICES ASSUME NEW s \in Caller, buckets'[s] \in Bucket
               PROVE  buckets'[s].lastRefill <= latest'
    BY <1>3 DEF MemoryInv, BucketInv
  <2>1. buckets[s].lastRefill \in 0..MaxTime /\ buckets[s].lastRefill <= latest
    BY <1>3 DEF MemoryInv, BucketInv, Bucket
  <2>. QED
    BY <2>1, <1>1, <1>2, <1>3, <1>4
<1>6. HistoryInv' /\ CallInv' /\ AuditInv'
  BY <1>3, Kept DEF MemoryInv
<1>. QED
  BY <1>2, <1>5, <1>6 DEF MemoryInv

LEMMA RestartMemory ==
  ASSUME MemoryInv, Restart
  PROVE  MemoryInv'
<1>1. now \in Nat /\ now <= latest /\ latest <= MaxTime /\ latest \in Nat /\ MaxTime \in Nat
  BY McpGatewayOK DEF MemoryInv, ClockInv
<1>2. now' = now /\ boot' = now /\ latest' = now
  BY DEF Restart, Fill
<1>3. ClockInv'
  BY <1>1, <1>2 DEF ClockInv
<1>4. HistoryInv'
  <2>1. history' = history /\ life' = life + 1
    BY DEF Restart
  <2>2. \A n \in DOMAIN history : history[n] \in Served
    BY DEF MemoryInv, HistoryInv
  <2>3. \A n \in DOMAIN history : history[n].life \in Nat
    BY <2>2 DEF Served
  <2>. QED
    BY <2>1, <2>3 DEF MemoryInv, HistoryInv
<1>5. CallInv'
  BY DEF Restart, Fill, CallInv, Call, Idle
<1>6. AuditInv'
  BY McpGatewayOK DEF Restart, Fill, AuditInv
<1>7. BucketInv'
  BY NoBucketIsNone DEF Restart, Fill, BucketInv
<1>. QED
  BY <1>3, <1>4, <1>5, <1>6, <1>7 DEF MemoryInv

LEMMA MemoryKept ==
  ASSUME MemoryInv, [Next]_vars
  PROVE  MemoryInv'
<1>1. ASSUME NEW c \in Client, Receive(c)
      PROVE  MemoryInv'
  <2>1. CallInv' /\ AuditInv'
    <3>1. CASE Close(c, "unknown", "token_invalid")
      BY <3>1, CloseKeeps DEF Outcome
    <3>2. CASE ~Close(c, "unknown", "token_invalid")
      <4>1. PICK r \in Request : /\ call' = [call EXCEPT ![c] = [at |-> "verifying", request |-> r]]
                                 /\ UNCHANGED audit
        BY <3>2, <1>1 DEF Receive
      <4>. QED
        BY <4>1, Kept DEF MemoryInv, CallInv, Call
    <3>. QED
      BY <3>1, <3>2
  <2>. QED
    BY <1>1, <2>1, Kept DEF MemoryInv, Receive
<1>2. ASSUME NEW c \in Client, Refuse(c)
      PROVE  MemoryInv'
  <2> DEFINE r == call[c].request
             s == IF r.token.signed THEN r.token.sub ELSE "unknown"
  <2>1. Close(c, s, Judgement(r.token, r.tool, r.world))
    BY <1>2 DEF Refuse
  <2>2. s \in Subject \union {"unknown"}
    BY <1>2, CallIsReal DEF Refuse
  <2>3. CallInv' /\ AuditInv'
    BY <2>1, <2>2, JudgementType, CloseKeeps
  <2>. QED
    BY <1>2, <2>3, Kept DEF MemoryInv, Refuse
<1>3. ASSUME NEW c \in Client, Replayed(c)
      PROVE  MemoryInv'
  <2>1. Close(c, call[c].request.token.sub, "replay_detected")
    BY <1>3 DEF Replayed
  <2>2. call[c].request.token.sub \in Subject
    BY <1>3, CallIsReal DEF Replayed
  <2>3. CallInv' /\ AuditInv'
    BY <2>1, <2>2, CloseKeeps DEF Outcome
  <2>. QED
    BY <1>3, <2>3, Kept DEF MemoryInv, Replayed
<1>4. ASSUME NEW c \in Client, Answer(c)
      PROVE  MemoryInv'
  <2>1. call[c].request.token.sub \in Subject
    BY <1>4, CallIsReal DEF Answer
  <2>2. CallInv' /\ AuditInv'
    BY <1>4, <2>1, CloseKeeps DEF Answer, Outcome
  <2>. QED
    BY <1>4, <2>2, Kept DEF MemoryInv, Answer
<1>5. CASE UNCHANGED vars
  BY <1>5, Kept DEF vars, clock, process, MemoryInv
<1>. QED
  BY <1>1, <1>2, <1>3, <1>4, <1>5, ServeMemory, PeekMemory, TimeMemory, RestartMemory
     DEF Next, Handle

-----------------------------------------------------------------------------
(* The replay tracker.                                                     *)

SameServed == UNCHANGED <<history, life>>

\* What is forgettable stays so while the process lives.
LEMMA ForgettableStays ==
  ASSUME MemoryInv, MemoryInv', SameServed, latest' >= latest, NEW n \in DOMAIN history, Forgettable(n)
  PROVE  Forgettable(n)'
<1>1. history[n] \in Served /\ Window \in Nat
  BY McpGatewayOK DEF MemoryInv, HistoryInv
<1>2. history[n].at \in Nat
  BY <1>1, McpGatewayOK DEF Served
<1>3. latest \in Nat /\ latest' \in Nat
  BY DEF MemoryInv, ClockInv
<1>4. SpentSince(n)' = SpentSince(n)
  BY DEF SpentSince, SameServed
<1>. QED
  BY <1>1, <1>2, <1>3, <1>4 DEF Forgettable, SameServed

LEMMA ServedOnceKept ==
  ASSUME ServedOnce, UNCHANGED history
  PROVE  ServedOnce'
<1>1. \A i, j : SpentBetween(i, j)' = SpentBetween(i, j)
  BY DEF SpentBetween
<1>. QED
  BY <1>1 DEF ServedOnce

\* An action that does not touch the tracker.
LEMMA TrackerKept ==
  ASSUME MemoryInv, MemoryInv', TrackerInv, SameServed, latest' >= latest, UNCHANGED seen
  PROVE  TrackerInv'
<1>1. HeldInv'
  BY DEF TrackerInv, HeldInv, SameServed, EntryOf
<1>2. RememberedInv'
  <2> SUFFICES ASSUME NEW n \in DOMAIN history, history[n].life = life
               PROVE  EntryOf(n)' \in seen' \/ Forgettable(n)'
    BY DEF RememberedInv, SameServed
  <2>1. EntryOf(n)' = EntryOf(n)
    BY DEF EntryOf, SameServed
  <2>. QED
    BY <2>1, ForgettableStays DEF TrackerInv, RememberedInv
<1>. QED
  BY <1>1, <1>2, ServedOnceKept DEF TrackerInv, SameServed

\* What is collected is out of the window.
LEMMA Collected ==
  ASSUME MemoryInv, HeldInv, NEW n \in DOMAIN history, EntryOf(n) \in seen \ gc(seen)
  PROVE  latest > history[n].at + Window
<1>1. history[n] \in Served /\ Window \in Nat /\ now \in Nat /\ latest \in Nat /\ now <= latest
  BY McpGatewayOK DEF MemoryInv, HistoryInv, ClockInv
<1>2. history[n].at \in Nat
  BY <1>1, McpGatewayOK DEF Served
<1>3. ~(EntryOf(n).first_seen + Window >= now)
  BY DEF gc
<1>. QED
  BY <1>1, <1>2, <1>3 DEF EntryOf

LEMMA HeldShape ==
  ASSUME MemoryInv, HeldInv
  PROVE  /\ IsFiniteSet(gc(seen)) /\ gc(seen) \subseteq seen
         /\ \A e \in seen : /\ e.nth \in Nat /\ e.nth \in 1 .. Len(history)
                            /\ e.jti = history[e.nth].jti /\ e = EntryOf(e.nth)
         /\ \A e, f \in seen : e.nth = f.nth => e = f
<1>1. gc(seen) \subseteq seen /\ IsFiniteSet(gc(seen))
  BY FS_Subset DEF HeldInv, gc
<1>2. \A e \in seen : e.nth \in DOMAIN history /\ e = EntryOf(e.nth)
  BY DEF HeldInv
<1>3. DOMAIN history = 1 .. Len(history) /\ Len(history) \in Nat
  BY DEF MemoryInv, HistoryInv
<1>4. \A e \in seen : e.jti = history[e.nth].jti
  BY <1>2 DEF EntryOf
<1>. QED
  BY <1>1, <1>2, <1>3, <1>4

\* There is room for one more.
LEMMA Evicted ==
  ASSUME MemoryInv, HeldInv
  PROVE  /\ IsFiniteSet(evictLRU(gc(seen))) /\ evictLRU(gc(seen)) \subseteq gc(seen)
         /\ Cardinality(evictLRU(gc(seen))) <= MaxEntries - 1
<1>1. /\ \A e \in gc(seen) : e.nth \in Nat
      /\ \A e, f \in gc(seen) : e.nth = f.nth => e = f
      /\ IsFiniteSet(gc(seen))
  BY HeldShape
<1>2. MaxEntries - 1 \in Nat
  BY McpGatewayOK
<1>. QED
  BY <1>1, <1>2, FewAtTheEnd DEF evictLRU

\* The finitely many tokens spent since.
LEMMA SpentFinite ==
  ASSUME NEW h \in Seq(Served), NEW n \in Nat
  PROVE  IsFiniteSet({h[k].jti : k \in n + 1 .. Len(h)} \ {h[n].jti})
<1> DEFINE I == n + 1 .. Len(h)
           T == {h[k].jti : k \in I}
           g == [k \in I |-> h[k].jti]
<1>1. Len(h) \in Nat
  OBVIOUS
<1>2. IsFiniteSet(I)
  BY <1>1, FS_Interval
<1>3. g \in Surjection(I, T)
  BY DEF Surjection
<1>4. IsFiniteSet(T)
  BY <1>2, <1>3, FS_Surjection
<1>. QED
  BY <1>4, FS_Subset

\* An entry goes when as many have come after it as the tracker may hold, with the one
\* that is served now.
LEMMA ForgottenForRoom ==
  ASSUME MemoryInv, MemoryInv', HeldInv, NEW c \in Client, Serve(c),
         NEW n \in DOMAIN history, EntryOf(n) \in gc(seen) \ evictLRU(gc(seen)),
         ~Known(Entry(c).jti, gc(seen))
  PROVE  Cardinality(SpentSince(n)') >= MaxEntries
<1> DEFINE later == {f \in gc(seen) : f.nth > n}
           more == later \union {[nth |-> Len(history) + 1, jti |-> Entry(c).jti]}
           T == SpentSince(n)'
           g == [e \in more |-> e.jti]
<1>1. n \in Nat /\ Len(history) \in Nat /\ n <= Len(history) /\ DOMAIN history = 1 .. Len(history)
  BY DEF MemoryInv, HistoryInv
<1>2. IsFiniteSet(later) /\ Cardinality(later) \in Nat /\ Cardinality(later) >= MaxEntries - 1
  <2>1. IsFiniteSet(later)
    BY HeldShape, FS_Subset
  <2>2. ~(Cardinality(later) < MaxEntries - 1)
    BY DEF evictLRU, EntryOf
  <2>. QED
    BY <2>1, <2>2, FS_CardinalityType, McpGatewayOK
<1>3. IsFiniteSet(more) /\ Cardinality(more) >= MaxEntries
  <2>1. [nth |-> Len(history) + 1, jti |-> Entry(c).jti] \notin later
    BY <1>1, HeldShape
  <2>2. IsFiniteSet(more) /\ Cardinality(more) = Cardinality(later) + 1
    BY <1>2, <2>1, FS_AddElement
  <2>. QED
    BY <1>2, <2>2, McpGatewayOK
<1>4. \A e \in later : e.jti # history[n].jti /\ e.jti # Entry(c).jti
  <2> SUFFICES ASSUME NEW e \in later PROVE e.jti # history[n].jti /\ e.jti # Entry(c).jti
    OBVIOUS
  <2>1. e.jti # Entry(c).jti
    BY DEF Known
  <2>2. EntryOf(n) \in seen /\ e \in seen
    BY HeldShape
  <2>3. e # EntryOf(n)
    BY <1>1, <2>2, HeldShape DEF EntryOf
  <2>4. e.jti # EntryOf(n).jti
    BY <2>2, <2>3 DEF HeldInv
  <2>. QED
    BY <2>1, <2>4 DEF EntryOf
<1>5. Entry(c).jti # history[n].jti
  BY DEF Known, EntryOf
<1>6. \A e \in more : e.jti \in T
  <2>1. \A e \in later : e.nth \in n + 1 .. Len(history) /\ e.jti = history[e.nth].jti
    BY <1>1, HeldShape
  <2>2. /\ \A k \in 1 .. Len(history) : history'[k] = history[k]
        /\ history'[Len(history) + 1] = Entry(c) /\ Len(history') = Len(history) + 1
    BY ServeRecords
  <2>3. T = {history'[k].jti : k \in n + 1 .. Len(history) + 1} \ {history[n].jti}
    BY <1>1, <2>2 DEF SpentSince
  <2>4. \A e \in later : e.jti \in T
    <3> SUFFICES ASSUME NEW e \in later PROVE e.jti \in T
      OBVIOUS
    <3>1. e.nth \in n + 1 .. Len(history) + 1 /\ history'[e.nth].jti = e.jti
      BY <1>1, <2>1, <2>2
    <3>. QED
      BY <3>1, <2>3, <1>4
  <2>5. Entry(c).jti \in T
    <3>1. Len(history) + 1 \in n + 1 .. Len(history) + 1
      BY <1>1
    <3>. QED
      BY <3>1, <2>2, <2>3, <1>5
  <2>. QED
    BY <2>4, <2>5
<1>7. g \in Injection(more, T)
  <2>1. \A e, f \in later : e.jti = f.jti => e = f
    BY HeldShape DEF HeldInv
  <2>2. \A e, f \in more : e.jti = f.jti => e = f
    BY <2>1, <1>4
  <2>. QED
    BY <1>6, <2>2 DEF Injection, IsInjective
<1>8. IsFiniteSet(T)
  <2>1. history' \in Seq(Served)
    BY ServeRecords
  <2>. QED
    BY <2>1, <1>1, SpentFinite DEF SpentSince
<1>9. Cardinality(more) <= Cardinality(T)
  BY <1>7, <1>8, FS_Injection
<1>. QED
  BY <1>3, <1>8, <1>9, FS_CardinalityType, McpGatewayOK

\* The tracker does not know the token, and the process is not cold.
LEMMA ServeIsFresh ==
  ASSUME NEW c \in Client, Serve(c)
  PROVE  /\ ~ColdStarting
         /\ ~Known(Entry(c).jti, gc(seen))
         /\ seen' = evictLRU(gc(seen)) \union
              {[jti |-> Entry(c).jti, first_seen |-> now, nth |-> Len(history) + 1]}
  BY DEF Serve, Fresh, Recorded, Entry

\* What is served is held.
LEMMA ServeHolds ==
  ASSUME MemoryInv, HeldInv, NEW c \in Client, Serve(c), NEW n, n = Len(history) + 1
  PROVE  HeldInv' /\ EntryOf(n)' \in seen'
<1> DEFINE new == [jti |-> Entry(c).jti, first_seen |-> now, nth |-> n]
           old == evictLRU(gc(seen))
<1>1. IsFiniteSet(old) /\ old \subseteq gc(seen) /\ old \subseteq seen
      /\ Cardinality(old) <= MaxEntries - 1
  BY Evicted, HeldShape
<1>2. new \notin old
  BY <1>1, ServeIsFresh DEF Known
<1>3. seen' = old \union {new}
  BY ServeIsFresh
<1>4. IsFiniteSet(seen') /\ Cardinality(seen') <= MaxEntries
  <2>1. IsFiniteSet(seen') /\ Cardinality(seen') = Cardinality(old) + 1
    BY <1>1, <1>2, <1>3, FS_AddElement
  <2>2. Cardinality(old) \in Nat /\ MaxEntries \in Nat
    BY <1>1, FS_CardinalityType, McpGatewayOK
  <2>. QED
    BY <1>1, <2>1, <2>2
<1>5. life' = life /\ Entry(c).life = life /\ Entry(c).at = now
  BY DEF Serve, process, Entry
<1>6. /\ n \in DOMAIN history' /\ history'[n] = Entry(c)
      /\ EntryOf(n)' = new
  BY <1>5, ServeRecords DEF EntryOf
<1>7. \A e \in seen' : e.nth \in DOMAIN history' /\ e = EntryOf(e.nth)' /\ history'[e.nth].life = life'
  <2>1. ASSUME NEW e \in old
        PROVE  e.nth \in DOMAIN history' /\ e = EntryOf(e.nth)' /\ history'[e.nth].life = life'
    <3>1. e.nth \in DOMAIN history /\ e = EntryOf(e.nth) /\ history[e.nth].life = life
      BY <1>1 DEF HeldInv
    <3>. QED
      BY <3>1, <1>5, ServeRecords DEF EntryOf
  <2>2. new.nth = n /\ history'[n].life = life'
    BY <1>5, <1>6
  <2> SUFFICES ASSUME NEW e \in seen'
               PROVE  e.nth \in DOMAIN history' /\ e = EntryOf(e.nth)' /\ history'[e.nth].life = life'
    OBVIOUS
  <2>3. CASE e \in old
    BY <2>1, <2>3
  <2>4. CASE e = new
    <3>1. e.nth = n
      BY <2>2, <2>4
    <3>. QED
      BY <3>1, <1>6, <2>2, <2>4
  <2>. QED
    BY <1>3, <2>3, <2>4
<1>8. \A e, f \in seen' : e.jti = f.jti => e = f
  <2>1. \A e \in old : e.jti # new.jti
    BY <1>1, ServeIsFresh DEF Known
  <2>2. \A e, f \in old : e.jti = f.jti => e = f
    BY <1>1 DEF HeldInv
  <2>. QED
    BY <1>3, <2>1, <2>2
<1>. QED
  BY <1>3, <1>4, <1>6, <1>7, <1>8 DEF HeldInv

LEMMA ServeRemembers ==
  ASSUME MemoryInv, MemoryInv', TrackerInv, NEW c \in Client, Serve(c)
  PROVE  RememberedInv'
<1>0. HeldInv
  BY DEF TrackerInv
<1>1. latest' = latest /\ life' = life
  BY DEF Serve, clock, process
<1> SUFFICES ASSUME NEW n \in DOMAIN history', history'[n].life = life
             PROVE  EntryOf(n)' \in seen' \/ Forgettable(n)'
  BY <1>1 DEF RememberedInv
<1>2. CASE n = Len(history) + 1
  BY <1>0, <1>2, ServeHolds
<1>3. CASE n # Len(history) + 1
  <2>1. n \in DOMAIN history /\ history'[n] = history[n] /\ n \in Nat
    BY <1>3, ServeRecords
  <2>2. EntryOf(n)' = EntryOf(n)
    BY <2>1 DEF EntryOf
  <2>3. CASE EntryOf(n) \in evictLRU(gc(seen))
    BY <2>2, <2>3, ServeIsFresh
  <2>4. CASE EntryOf(n) \in gc(seen) \ evictLRU(gc(seen))
    BY <1>0, <2>1, <2>4, ServeIsFresh, ForgottenForRoom DEF Forgettable
  <2>5. CASE EntryOf(n) \in seen \ gc(seen)
    BY <1>0, <1>1, <2>1, <2>5, Collected DEF Forgettable
  <2>6. CASE EntryOf(n) \notin seen
    <3>1. Forgettable(n)
      BY <2>1, <2>6 DEF TrackerInv, RememberedInv
    <3>2. CASE latest > history[n].at + Window
      BY <1>1, <2>1, <3>2 DEF Forgettable
    <3>3. CASE Cardinality(SpentSince(n)) >= MaxEntries
      <4>1. /\ \A k \in 1 .. Len(history) : history'[k] = history[k]
            /\ Len(history') = Len(history) + 1 /\ Len(history) \in Nat
            /\ history' \in Seq(Served)
        BY ServeRecords
      <4>2. SpentSince(n) \subseteq SpentSince(n)'
        <5>1. \A k \in n + 1 .. Len(history) :
                k \in n + 1 .. Len(history') /\ history'[k] = history[k]
          BY <2>1, <4>1
        <5>. QED
          BY <5>1, <2>1 DEF SpentSince
      <4>3. IsFiniteSet(SpentSince(n)')
        BY <2>1, <4>1, SpentFinite DEF SpentSince
      <4>4. Cardinality(SpentSince(n)') >= Cardinality(SpentSince(n))
            /\ Cardinality(SpentSince(n)') \in Nat /\ Cardinality(SpentSince(n)) \in Nat
        BY <4>2, <4>3, FS_Subset, FS_CardinalityType
      <4>. QED
        BY <3>3, <4>4, McpGatewayOK DEF Forgettable
    <3>. QED
      BY <3>1, <3>2, <3>3 DEF Forgettable
  <2>. QED
    BY <2>3, <2>4, <2>5, <2>6
<1>. QED
  BY <1>2, <1>3

LEMMA ServeServesOnce ==
  ASSUME MemoryInv, MemoryInv', TrackerInv, NEW c \in Client, Serve(c)
  PROVE  ServedOnce'
<1> SUFFICES ASSUME NEW N, N = Len(history) + 1 PROVE ServedOnce'
  OBVIOUS
<1>1. /\ N \in Nat /\ DOMAIN history = 1 .. N - 1 /\ DOMAIN history' = 1 .. N
      /\ \A n \in 1 .. N - 1 : history'[n] = history[n]
      /\ history'[N] = Entry(c)
  BY ServeRecords
<1>2. ASSUME NEW j \in 1 .. N - 1, NEW i \in 1 .. j - 1
      PROVE  SpentBetween(i, j)' = SpentBetween(i, j) /\ history'[i] = history[i]
             /\ history'[j] = history[j]
  <2>1. \A k \in i + 1 .. j - 1 : history'[k] = history[k]
    BY <1>1
  <2>2. history'[i] = history[i] /\ history'[j] = history[j]
    BY <1>1
  <2>. QED
    BY <2>1, <2>2 DEF SpentBetween
<1>3. ASSUME NEW i \in 1 .. N - 1, history[i].jti = Entry(c).jti
      PROVE  IF history[i].life = Entry(c).life
             THEN \/ Entry(c).latest > history[i].at + Window
                  \/ Cardinality(SpentBetween(i, N)') >= MaxEntries
             ELSE \/ ColdStart = None
                  \/ Entry(c).at >= history[i].at + ColdStart
                  \/ Entry(c).boot < history[i].at
  <2>1. history[i] \in Served
    BY <1>1 DEF MemoryInv, HistoryInv
  <2>0. history[i].at \in Nat
    BY <2>1, McpGatewayOK DEF Served
  <2>2. Entry(c).life = life /\ Entry(c).latest = latest /\ Entry(c).at = now /\ Entry(c).boot = boot
    BY DEF Entry
  <2>3. CASE history[i].life = life
    <3>1. EntryOf(i) \notin gc(seen)
      BY <1>3, ServeIsFresh DEF Known, EntryOf
    <3>2. latest > history[i].at + Window \/ Cardinality(SpentSince(i)) >= MaxEntries
      BY <1>1, <2>3, <3>1, Collected DEF TrackerInv, RememberedInv, Forgettable
    <3>3. SpentBetween(i, N)' = SpentSince(i)
      <4>1. \A k \in i + 1 .. N - 1 : history'[k] = history[k]
        BY <1>1
      <4>2. history'[i] = history[i]
        BY <1>1
      <4>3. N - 1 = Len(history)
        BY <1>1
      <4>. QED
        BY <4>1, <4>2, <4>3 DEF SpentBetween, SpentSince
    <3>. QED
      BY <2>2, <2>3, <3>2, <3>3
  <2>4. CASE history[i].life # life
    <3>1. ColdStart = None \/ ~(now < boot + ColdStart)
      BY ServeIsFresh DEF ColdStarting
    <3>2. now \in Nat /\ boot \in Nat
      BY DEF MemoryInv, ClockInv
    <3>3. ColdStart # None => ColdStart \in Nat
      BY McpGatewayOK
    <3>. QED
      BY <2>0, <2>2, <2>4, <3>1, <3>2, <3>3
  <2>. QED
    BY <2>3, <2>4
<1>4. ASSUME NEW j \in 1 .. N - 1, NEW i \in 1 .. j - 1, history'[i].jti = history'[j].jti
      PROVE  IF history'[i].life = history'[j].life
             THEN \/ history'[j].latest > history'[i].at + Window
                  \/ Cardinality(SpentBetween(i, j)') >= MaxEntries
             ELSE \/ ColdStart = None
                  \/ history'[j].at >= history'[i].at + ColdStart
                  \/ history'[j].boot < history'[i].at
  BY <1>1, <1>2, <1>4 DEF TrackerInv, ServedOnce
<1>5. ASSUME NEW i \in 1 .. N - 1, history'[i].jti = history'[N].jti
      PROVE  IF history'[i].life = history'[N].life
             THEN \/ history'[N].latest > history'[i].at + Window
                  \/ Cardinality(SpentBetween(i, N)') >= MaxEntries
             ELSE \/ ColdStart = None
                  \/ history'[N].at >= history'[i].at + ColdStart
                  \/ history'[N].boot < history'[i].at
  BY <1>1, <1>3, <1>5
<1>6. \A j \in DOMAIN history' : j \in 1 .. N - 1 \/ j = N
  BY <1>1
<1> DEFINE Once(j, i) ==
      history[i].jti = history[j].jti =>
        IF history[i].life = history[j].life
        THEN \/ history[j].latest > history[i].at + Window
             \/ Cardinality(SpentBetween(i, j)) >= MaxEntries
        ELSE \/ ColdStart = None
             \/ history[j].at >= history[i].at + ColdStart
             \/ history[j].boot < history[i].at
<1>7. ASSUME NEW j \in DOMAIN history', NEW i \in 1 .. j - 1
      PROVE  Once(j, i)'
  <2>1. CASE j \in 1 .. N - 1
    BY <1>4, <2>1
  <2>2. CASE j = N
    BY <1>5, <2>2
  <2>. QED
    BY <1>6, <2>1, <2>2
<1>. QED
  BY <1>7 DEF ServedOnce

LEMMA CollectTracker ==
  ASSUME MemoryInv, MemoryInv', TrackerInv, SameServed, UNCHANGED clock, seen' = gc(seen)
  PROVE  TrackerInv'
<1>1. HeldInv /\ latest' = latest
  BY DEF TrackerInv, clock
<1>2. gc(seen) \subseteq seen /\ IsFiniteSet(gc(seen))
  BY <1>1, HeldShape
<1>3. HeldInv'
  <2>1. Cardinality(gc(seen)) <= MaxEntries
    <3>1. Cardinality(gc(seen)) <= Cardinality(seen) /\ Cardinality(gc(seen)) \in Nat
          /\ Cardinality(seen) \in Nat /\ Cardinality(seen) <= MaxEntries
      BY <1>1, <1>2, FS_Subset, FS_CardinalityType DEF HeldInv
    <3>. QED
      BY <3>1, McpGatewayOK
  <2>. QED
    BY <1>1, <1>2, <2>1 DEF HeldInv, EntryOf, SameServed
<1>4. RememberedInv'
  <2> SUFFICES ASSUME NEW n \in DOMAIN history, history[n].life = life
               PROVE  EntryOf(n)' \in gc(seen) \/ Forgettable(n)'
    BY DEF RememberedInv, SameServed
  <2>1. EntryOf(n)' = EntryOf(n)
    BY DEF EntryOf, SameServed
  <2>2. EntryOf(n) \in gc(seen) \/ Forgettable(n)
    BY <1>1, Collected DEF TrackerInv, RememberedInv, Forgettable
  <2>3. Forgettable(n) => Forgettable(n)'
    <3>1. latest' >= latest
      BY <1>1 DEF MemoryInv, ClockInv
    <3>. QED
      BY <3>1, ForgettableStays
  <2>. QED
    BY <2>1, <2>2, <2>3
<1>. QED
  BY <1>3, <1>4, ServedOnceKept DEF TrackerInv, SameServed

LEMMA TrackerStep ==
  ASSUME MemoryInv, MemoryInv', TrackerInv, [Next]_vars
  PROVE  TrackerInv'
<1>0. latest \in Nat /\ (latest' = latest => latest' >= latest)
  BY DEF MemoryInv, ClockInv
<1>1. ASSUME NEW c \in Client, Receive(c) \/ Refuse(c) \/ Answer(c)
      PROVE  TrackerInv'
  BY <1>0, <1>1, TrackerKept DEF Receive, Refuse, Answer, SameServed, process, clock
<1>2. ASSUME NEW c \in Client, Replayed(c)
      PROVE  TrackerInv'
  <2> DEFINE jti == call[c].request.token.jti
  <2>1. SameServed /\ UNCHANGED clock
    BY <1>2 DEF Replayed, SameServed, process
  <2>2. latest' = latest
    BY <2>1 DEF clock
  <2>3. seen' = seen \/ seen' = gc(seen)
    BY <1>2 DEF Replayed, Fresh, Recorded
  <2>. QED
    BY <1>0, <2>1, <2>2, <2>3, TrackerKept, CollectTracker
<1>3. ASSUME NEW c \in Client, Serve(c)
      PROVE  TrackerInv'
  <2>1. PICK n : n = Len(history) + 1
    OBVIOUS
  <2>2. HeldInv'
    BY <1>3, <2>1, ServeHolds DEF TrackerInv
  <2>. QED
    BY <1>3, <2>2, ServeRemembers, ServeServesOnce DEF TrackerInv
<1>4. ASSUME NEW s \in Caller, Peek(s)
      PROVE  TrackerInv'
  BY <1>0, <1>4, TrackerKept DEF Peek, SameServed, process, clock
<1>5. CASE Tick \/ SetBack
  <2>1. SameServed /\ UNCHANGED seen
    BY <1>5 DEF Tick, SetBack, SameServed, process
  <2>. QED
    BY <1>5, <2>1, TimeMemory, TrackerKept
<1>6. CASE Restart
  <2>1. life' = life + 1 /\ history' = history /\ seen' = {}
    BY <1>6 DEF Restart, Fill
  <2>2. HeldInv'
    BY <2>1, FS_EmptySet, McpGatewayOK DEF HeldInv
  <2>3. RememberedInv'
    <3>1. \A n \in DOMAIN history : history[n].life <= life /\ history[n] \in Served /\ life \in Nat
      BY DEF MemoryInv, HistoryInv
    <3>2. \A n \in DOMAIN history : history[n].life \in Nat
      BY <3>1 DEF Served
    <3>3. \A n \in DOMAIN history : history[n].life # life + 1
      BY <3>1, <3>2
    <3>. QED
      BY <2>1, <3>3 DEF RememberedInv
  <2>. QED
    BY <2>1, <2>2, <2>3, ServedOnceKept DEF TrackerInv
<1>7. CASE UNCHANGED vars
  BY <1>0, <1>7, TrackerKept DEF vars, SameServed
<1>. QED
  BY <1>1, <1>2, <1>3, <1>4, <1>5, <1>6, <1>7 DEF Next, Handle

LEMMA InitTracker == Init => TrackerInv
<1> SUFFICES ASSUME Init PROVE TrackerInv
  OBVIOUS
<1>1. seen = {} /\ history = <<>> /\ DOMAIN history = {}
  BY DEF Init
<1>2. HeldInv
  BY <1>1, FS_EmptySet, McpGatewayOK DEF HeldInv
<1>3. RememberedInv /\ ServedOnce
  BY <1>1 DEF RememberedInv, ServedOnce
<1>. QED
  BY <1>2, <1>3 DEF TrackerInv

LEMMA MemoryAlways == Spec => []MemoryInv
<1>1. MemoryInv /\ [Next]_vars => MemoryInv'
  BY MemoryKept
<1>. QED
  BY InitMemory, <1>1, PTL DEF Spec

LEMMA TrackerAlways == Spec => [](MemoryInv /\ TrackerInv)
<1>1. MemoryInv /\ TrackerInv /\ [Next]_vars => (MemoryInv /\ TrackerInv)'
  BY MemoryKept, TrackerStep
<1>. QED
  BY InitMemory, InitTracker, <1>1, PTL DEF Spec

(* The memory of the process is within its bounds, whatever the requests and *)
(* however the clock goes: the tracker, the buckets and the audit log        *)
(* (bearer-token.ts:204-252, rate-limit.ts:54-103, audit-log.ts:65-84).      *)
THEOREM TypeCorrect == Spec => []TypeOK
<1>1. MemoryInv /\ TrackerInv => TypeOK
  <2> SUFFICES ASSUME MemoryInv, TrackerInv PROVE TypeOK
    OBVIOUS
  <2>1. now \in Nat /\ latest \in now..MaxTime /\ boot \in 0..latest /\ MaxTime \in Nat
    BY McpGatewayOK DEF MemoryInv, ClockInv
  <2>2. now \in 0..MaxTime
    BY <2>1
  <2>3. ASSUME NEW s \in Caller, buckets[s] # None
        PROVE  buckets[s].tokens \in 0..Capacity /\ buckets[s].lastRefill \in 0..latest
    <3>1. buckets[s] \in Bucket /\ buckets[s].lastRefill <= latest
      BY <2>3 DEF MemoryInv, BucketInv
    <3>. QED
      BY <3>1, <2>1 DEF Bucket
  <2>4. Len(audit) <= AuditCapacity /\ \A i \in DOMAIN audit : audit[i].outcome \in Outcome
    <3>1. \A i \in DOMAIN audit : audit[i] \in Record
      BY DEF MemoryInv, AuditInv
    <3>. QED
      BY <3>1 DEF MemoryInv, AuditInv, Record
  <2>5. \A c \in Client : call[c].at \in {"idle", "verifying", "running"}
    BY DEF MemoryInv, CallInv, Call
  <2>. QED
    BY <2>1, <2>2, <2>3, <2>4, <2>5 DEF TypeOK, TrackerInv, HeldInv
<1>. QED
  BY TrackerAlways, <1>1, PTL

(* A token is served once, until the clock has passed the window, as many    *)
(* others were served as the tracker may hold, or another process, out of    *)
(* its cold start, serves it (bearer-token.ts:204-252).                      *)
THEOREM TokensServedOnce == Spec => []ServedOnce
<1>1. MemoryInv /\ TrackerInv => ServedOnce
  BY DEF TrackerInv
<1>. QED
  BY TrackerAlways, <1>1, PTL

-----------------------------------------------------------------------------
(* The rate limiter.                                                       *)

\* The calls of the caller that were let in, from the i-th thing served to the j-th.
Granted(s, l, i, j) == {k \in Of(s, l) \intersect i .. j : history[k].allowed}

\* What the caller was given since its i-th call, and what its bucket still holds.
Bounded(s, i) ==
  /\ buckets[s].lastRefill >= history[i].at
  /\ buckets[s].tokens + Cardinality(Granted(s, life, i, Len(history)))
       <= Capacity + RefillRate * (buckets[s].lastRefill - history[i].at)

\* A caller that was turned away is let in when it comes back.
Owed(s, i) ==
  /\ ~history[i].allowed
  /\ Of(s, life) \intersect i + 1 .. Len(history) = {}
  /\ history[i].at = history[i].latest
  => /\ history[i].retry = 1
     /\ buckets[s].lastRefill = history[i].at \/ buckets[s].tokens >= 1

Counted(s, i) == buckets[s] \in Bucket /\ Bounded(s, i) /\ (Capacity # 0 => Owed(s, i))

CountedInv == \A s \in Caller : \A i \in Of(s, life) : Counted(s, i)

\* What the limiter promises about two of its calls.
Honest(s, l, i, j) ==
  /\ i <= j =>
       Cardinality(Granted(s, l, i, j)) <= Capacity + RefillRate * (history[j].latest - history[i].at)
  /\ (/\ i < j
      /\ ~history[i].allowed
      /\ Of(s, l) \cap i + 1 .. j - 1 = {}
      /\ history[i].at = history[i].latest
      /\ history[j].at >= history[i].at + history[i].retry)
     => (Capacity # 0 => history[j].allowed)

HonestInv == \A s \in Caller, l \in 1 .. life : \A i, j \in Of(s, l) : Honest(s, l, i, j)

LimiterInv == CountedInv /\ HonestInv

LEMMA Multiples ==
  ASSUME NEW r \in Nat, NEW x \in Int, NEW y \in Int
  PROVE  /\ r * x \in Int
         /\ r * (x + y) = r * x + r * y
         /\ x >= 0 => r * x >= 0
         /\ x >= 1 => r * x >= r
  OBVIOUS

LEMMA LongerIsMore ==
  ASSUME NEW r \in Nat, NEW x \in Int, NEW y \in Int, x <= y
  PROVE  r * x <= r * y
<1>1. y = x + (y - x) /\ y - x \in Int /\ y - x >= 0
  OBVIOUS
<1>2. r * (x + (y - x)) = r * x + r * (y - x) /\ r * (y - x) >= 0 /\ r * x \in Int /\ r * (y - x) \in Int
  BY <1>1, Multiples
<1>. QED
  BY <1>1, <1>2

LEMMA AddUp ==
  ASSUME NEW t \in Int, NEW u \in Int, NEW n \in Int, NEW c \in Int, NEW p \in Int, NEW q \in Int,
         t <= u + p, u + n <= c + q
  PROVE  t + n <= c + (p + q)
  OBVIOUS

\* A bucket fills with the clock, and no faster.
LEMMA RefillBounds ==
  ASSUME MemoryInv, NEW b \in Bucket, b.lastRefill <= latest
  PROVE  /\ refill(b).lastRefill >= b.lastRefill /\ refill(b).lastRefill >= now
         /\ refill(b).tokens >= b.tokens
         /\ refill(b).tokens <= b.tokens + RefillRate * (refill(b).lastRefill - b.lastRefill)
         /\ Capacity # 0 /\ refill(b).lastRefill > b.lastRefill => refill(b).tokens >= 1
<1>1. now \in Nat /\ RefillRate \in Nat /\ RefillRate >= 1 /\ Capacity \in Nat
  BY McpGatewayOK DEF MemoryInv, ClockInv
<1>2. b.tokens \in 0..Capacity /\ b.lastRefill \in Nat
  BY McpGatewayOK DEF Bucket
<1>3. CASE now <= b.lastRefill
  <2>1. refill(b) = b
    BY <1>3 DEF refill
  <2>2. RefillRate * (b.lastRefill - b.lastRefill) >= 0 /\ RefillRate * (b.lastRefill - b.lastRefill) \in Int
    BY <1>1, <1>2, Multiples
  <2>. QED
    BY <1>1, <1>2, <1>3, <2>1, <2>2
<1>4. CASE ~(now <= b.lastRefill)
  <2> DEFINE gain == RefillRate * (now - b.lastRefill)
  <2>1. now - b.lastRefill \in Int /\ now - b.lastRefill >= 1
    BY <1>1, <1>2, <1>4
  <2>2. gain \in Int /\ gain >= RefillRate
    BY <1>1, <2>1, Multiples
  <2>3. refill(b) = [tokens |-> Min({Capacity, b.tokens + gain}), lastRefill |-> now]
    BY <1>4 DEF refill
  <2>4. refill(b).lastRefill = now /\ refill(b).tokens = Min({Capacity, b.tokens + gain})
    BY <2>3
  <2> HIDE DEF gain
  <2>5. Min({Capacity, b.tokens + gain}) =
          IF Capacity <= b.tokens + gain THEN Capacity ELSE b.tokens + gain
    BY <1>1, <1>2, <2>2, MinOfTwo
  <2>6. /\ refill(b).tokens >= b.tokens
        /\ refill(b).tokens <= b.tokens + gain
        /\ Capacity # 0 => refill(b).tokens >= 1
    BY <1>1, <1>2, <2>2, <2>4, <2>5
  <2>. QED
    BY <1>1, <1>2, <1>4, <2>4, <2>6 DEF gain
<1>. QED
  BY <1>3, <1>4

LEMMA PlacesOf ==
  ASSUME MemoryInv, NEW s, NEW l, NEW i \in Of(s, l)
  PROVE  /\ i \in 1 .. Len(history) /\ i \in Nat /\ Len(history) \in Nat
         /\ history[i] \in Served
         /\ history[i].at \in Nat /\ history[i].latest \in Nat /\ history[i].retry \in Nat
<1>1. i \in DOMAIN history
  BY DEF Of
<1>2. i \in 1 .. Len(history) /\ Len(history) \in Nat /\ history[i] \in Served
  BY <1>1 DEF MemoryInv, HistoryInv
<1>. QED
  BY <1>2, McpGatewayOK DEF Served

LEMMA GrantedFinite ==
  ASSUME NEW s, NEW l, NEW i \in Int, NEW j \in Int
  PROVE  IsFiniteSet(Granted(s, l, i, j)) /\ Cardinality(Granted(s, l, i, j)) \in Nat
<1>1. IsFiniteSet(i .. j)
  BY FS_Interval
<1>2. Granted(s, l, i, j) \subseteq i .. j
  BY DEF Granted
<1>. QED
  BY <1>1, <1>2, FS_Subset, FS_CardinalityType

\* A bucket that was filled since counts alike.
LEMMA FillKeepsCount ==
  ASSUME MemoryInv, NEW s \in Caller, NEW i \in Of(s, life), Counted(s, i)
  PROVE  /\ Refilled(s) = refill(buckets[s]) /\ refill(buckets[s]) \in Bucket
         /\ Refilled(s).lastRefill >= history[i].at
         /\ Refilled(s).tokens + Cardinality(Granted(s, life, i, Len(history)))
              <= Capacity + RefillRate * (Refilled(s).lastRefill - history[i].at)
         /\ Refilled(s).lastRefill > buckets[s].lastRefill /\ Capacity # 0 => Refilled(s).tokens >= 1
         /\ Refilled(s).lastRefill >= buckets[s].lastRefill /\ Refilled(s).lastRefill >= now
         /\ Refilled(s).tokens >= buckets[s].tokens
         /\ Refilled(s).tokens \in Nat /\ Refilled(s).lastRefill \in Nat
         /\ buckets[s].tokens \in Nat /\ buckets[s].lastRefill \in Nat
<1> DEFINE b == buckets[s]
           r == refill(b)
           n == Cardinality(Granted(s, life, i, Len(history)))
           at == history[i].at
<1>1. b \in Bucket /\ b.lastRefill <= latest
  BY DEF Counted, MemoryInv, BucketInv
<1>2. Refilled(s) = r
  BY <1>1, NoBucketIsNone DEF Refilled, BucketOf
<1>3. r \in Bucket
  BY <1>1, RefillType
<1>4. b.tokens \in Nat /\ b.lastRefill \in Nat /\ r.tokens \in Nat /\ r.lastRefill \in Nat
  BY <1>1, <1>3, McpGatewayOK DEF Bucket
<1>5. /\ r.lastRefill >= b.lastRefill /\ r.lastRefill >= now
      /\ r.tokens >= b.tokens
      /\ r.tokens <= b.tokens + RefillRate * (r.lastRefill - b.lastRefill)
      /\ Capacity # 0 /\ r.lastRefill > b.lastRefill => r.tokens >= 1
  BY <1>1, RefillBounds
<1>6. at \in Nat /\ n \in Nat
  BY PlacesOf, GrantedFinite
<1>7. b.lastRefill >= at /\ b.tokens + n <= Capacity + RefillRate * (b.lastRefill - at)
  BY DEF Counted, Bounded
<1>8. RefillRate * (r.lastRefill - at)
        = RefillRate * (r.lastRefill - b.lastRefill) + RefillRate * (b.lastRefill - at)
  <2>1. r.lastRefill - b.lastRefill \in Int /\ b.lastRefill - at \in Int
        /\ r.lastRefill - at = (r.lastRefill - b.lastRefill) + (b.lastRefill - at)
    BY <1>4, <1>6
  <2>. QED
    BY <2>1, Multiples, McpGatewayOK
<1>9. RefillRate * (r.lastRefill - b.lastRefill) \in Int /\ RefillRate * (b.lastRefill - at) \in Int
      /\ Capacity \in Nat
  <2>1. r.lastRefill - b.lastRefill \in Int /\ b.lastRefill - at \in Int
    BY <1>4, <1>6
  <2>2. RefillRate \in Nat /\ Capacity \in Nat
    BY McpGatewayOK
  <2>. QED
    BY <2>1, <2>2, Multiples
<1>10. r.tokens + n <= Capacity + RefillRate * (r.lastRefill - at)
  <2> DEFINE p == RefillRate * (r.lastRefill - b.lastRefill)
             q == RefillRate * (b.lastRefill - at)
  <2>1. r.tokens <= b.tokens + p /\ b.tokens + n <= Capacity + q
        /\ p \in Int /\ q \in Int
    BY <1>5, <1>7, <1>9
  <2>2. RefillRate * (r.lastRefill - at) = p + q
    BY <1>8
  <2>3. r.tokens \in Int /\ b.tokens \in Int /\ n \in Int /\ Capacity \in Int
    BY <1>4, <1>6, <1>9
  <2>4. r.tokens + n <= Capacity + (p + q)
    <3> HIDE DEF p, q, b, r, n
    <3>. QED
      BY <2>1, <2>3, AddUp
  <2>. QED
    BY <2>2, <2>4
<1>. QED
  BY <1>2, <1>3, <1>4, <1>5, <1>6, <1>7, <1>10

\* Who is counted, and how much, when nothing is served.
LEMMA SameCounts ==
  ASSUME UNCHANGED history, NEW s, NEW l
  PROVE  /\ Of(s, l)' = Of(s, l)
         /\ \A i, j : Granted(s, l, i, j)' = Granted(s, l, i, j)
  BY DEF Of, Granted

LEMMA HonestKept ==
  ASSUME HonestInv, UNCHANGED history, NEW s \in Caller, NEW l \in 1 .. life
  PROVE  \A i, j \in Of(s, l)' : Honest(s, l, i, j)'
<1> SUFFICES ASSUME NEW i \in Of(s, l), NEW j \in Of(s, l)
             PROVE  Honest(s, l, i, j)'
  BY SameCounts
<1>1. Honest(s, l, i, j)
  BY DEF HonestInv
<1>2. Of(s, l)' = Of(s, l) /\ Granted(s, l, i, j)' = Granted(s, l, i, j)
  BY SameCounts
<1>. QED
  BY <1>1, <1>2 DEF Honest

LEMMA LimiterKept ==
  ASSUME LimiterInv, SameServed, UNCHANGED buckets
  PROVE  LimiterInv'
<1>1. CountedInv'
  <2> SUFFICES ASSUME NEW s \in Caller, NEW i \in Of(s, life)
               PROVE  Counted(s, i)'
    BY SameCounts DEF CountedInv, SameServed
  <2>1. Counted(s, i)
    BY DEF LimiterInv, CountedInv
  <2>2. Of(s, life)' = Of(s, life)
        /\ Granted(s, life, i, Len(history))' = Granted(s, life, i, Len(history))
    BY DEF SameServed, Of, Granted
  <2>. QED
    BY <2>1, <2>2 DEF Counted, Bounded, Owed, SameServed
<1>2. HonestInv'
  BY HonestKept DEF LimiterInv, HonestInv, SameServed
<1>. QED
  BY <1>1, <1>2 DEF LimiterInv

LEMMA PeekLimiter ==
  ASSUME MemoryInv, LimiterInv, NEW s \in Caller, Peek(s)
  PROVE  LimiterInv'
<1>1. SameServed /\ UNCHANGED history /\ life' = life
  BY DEF Peek, SameServed, process
<1>2. HonestInv'
  BY <1>1, HonestKept DEF LimiterInv, HonestInv
<1>3. buckets' = [buckets EXCEPT ![s] = refill(buckets[s])] /\ buckets \in [Caller -> Bucket \union {None}]
  BY DEF Peek, MemoryInv, BucketInv
<1>4. CountedInv'
  <2> SUFFICES ASSUME NEW t \in Caller, NEW i \in Of(t, life)
               PROVE  Counted(t, i)'
    BY <1>1, SameCounts DEF CountedInv
  <2>1. Counted(t, i)
    BY DEF LimiterInv, CountedInv
  <2>2. Of(t, life)' = Of(t, life)
        /\ Granted(t, life, i, Len(history))' = Granted(t, life, i, Len(history))
    BY <1>1 DEF Of, Granted
  <2>3. CASE t # s
    BY <1>1, <1>3, <2>1, <2>2, <2>3 DEF Counted, Bounded, Owed
  <2>4. CASE t = s
    <3> DEFINE r == refill(buckets[s])
    <3>1. buckets'[t] = r
      BY <1>3, <2>4
    <3>2. /\ r \in Bucket /\ r.lastRefill >= history[i].at
          /\ r.tokens + Cardinality(Granted(t, life, i, Len(history)))
               <= Capacity + RefillRate * (r.lastRefill - history[i].at)
          /\ r.lastRefill > buckets[s].lastRefill /\ Capacity # 0 => r.tokens >= 1
          /\ r.lastRefill >= buckets[s].lastRefill
          /\ r.tokens >= buckets[s].tokens
          /\ r.tokens \in Nat /\ r.lastRefill \in Nat
          /\ buckets[s].tokens \in Nat /\ buckets[s].lastRefill \in Nat
      BY <2>1, <2>4, FillKeepsCount
    <3>3. Bounded(t, i)'
      BY <1>1, <2>2, <3>1, <3>2 DEF Bounded
    <3>4. Capacity # 0 => Owed(t, i)'
      <4> SUFFICES ASSUME Capacity # 0, ~history[i].allowed,
                          Of(t, life) \intersect i + 1 .. Len(history) = {},
                          history[i].at = history[i].latest
                   PROVE  history[i].retry = 1 /\ (r.lastRefill = history[i].at \/ r.tokens >= 1)
        BY <1>1, <2>2, <3>1 DEF Owed
      <4>1. history[i].retry = 1
            /\ (buckets[s].lastRefill = history[i].at \/ buckets[s].tokens >= 1)
        BY <2>1, <2>4 DEF Counted, Owed
      <4> HIDE DEF r
      <4>. QED
        BY <3>2, <4>1
    <3>. QED
      BY <3>1, <3>2, <3>3, <3>4 DEF Counted
  <2>. QED
    BY <2>3, <2>4
<1>. QED
  BY <1>2, <1>4 DEF LimiterInv

\* Whose call is counted when one is served, as the n-th.
LEMMA ServeCounts ==
  ASSUME MemoryInv, NEW c \in Client, Serve(c), NEW n, n = Len(history) + 1, NEW s, NEW l
  PROVE  /\ Of(s, l)' = IF s = Entry(c).sub /\ l = life THEN Of(s, l) \union {n} ELSE Of(s, l)
         /\ Of(s, l) \subseteq 1 .. Len(history)
<1>1. /\ DOMAIN history' = DOMAIN history \union {n} /\ DOMAIN history = 1 .. Len(history)
      /\ \A k \in DOMAIN history : history'[k] = history[k]
      /\ history'[n] = Entry(c)
  BY ServeRecords
<1>2. Entry(c).life = life
  BY DEF Entry
<1>. QED
  BY <1>1, <1>2 DEF Of

LEMMA ServeGrants ==
  ASSUME MemoryInv, NEW c \in Client, Serve(c), NEW n, n = Len(history) + 1, NEW s, NEW l,
         NEW i \in Nat, i <= n
  PROVE  LET another == s = Entry(c).sub /\ l = life /\ Entry(c).allowed
         IN  /\ another => Granted(s, l, i, n)' = Granted(s, l, i, n - 1) \union {n}
             /\ ~another => Granted(s, l, i, n)' = Granted(s, l, i, n - 1)
<1>1. /\ Len(history) \in Nat
      /\ \A k \in 1 .. Len(history) : history'[k] = history[k]
      /\ history'[n] = Entry(c)
  BY ServeRecords
<1>2. /\ Of(s, l)' = IF s = Entry(c).sub /\ l = life THEN Of(s, l) \union {n} ELSE Of(s, l)
      /\ Of(s, l) \subseteq 1 .. Len(history)
  BY ServeCounts
<1>3. \A k \in Of(s, l) : (k \in i .. n <=> k \in i .. n - 1) /\ history'[k] = history[k]
  BY <1>1, <1>2
<1>4. n \in i .. n
  BY <1>1
<1>5. CASE s = Entry(c).sub /\ l = life
  BY <1>1, <1>2, <1>3, <1>4, <1>5 DEF Granted
<1>6. CASE ~(s = Entry(c).sub /\ l = life)
  BY <1>1, <1>2, <1>3, <1>6 DEF Granted
<1>. QED
  BY <1>5, <1>6

LEMMA ServeLimiter ==
  ASSUME MemoryInv, LimiterInv, NEW c \in Client, Serve(c)
  PROVE  LimiterInv'
<1> SUFFICES ASSUME NEW n, n = Len(history) + 1, NEW l, l = life, NEW sub, sub = Entry(c).sub
             PROVE  LimiterInv'
  OBVIOUS
<1> DEFINE r == Refilled(sub)
<1>1. /\ n \in Nat /\ DOMAIN history = 1 .. n - 1 /\ DOMAIN history' = 1 .. n
      /\ \A k \in 1 .. n - 1 : history'[k] = history[k]
      /\ history'[n] = Entry(c) /\ Len(history') = n /\ Len(history) = n - 1
  BY ServeRecords
<1>2. life' = l /\ latest' = latest /\ l \in Nat
  BY DEF Serve, process, clock, MemoryInv, HistoryInv
<1>3. sub \in Caller /\ Check(sub)
  <2>1. sub = call[c].request.token.sub
    BY DEF Entry
  <2>. QED
    BY <2>1, CallIsReal DEF Serve
<1>4. /\ Entry(c).at = now /\ Entry(c).latest = latest /\ Entry(c).allowed = Allowed(sub)
      /\ Entry(c).retry = RetryAfter(sub) /\ Entry(c).sub = sub
  BY DEF Entry
<1>5. /\ \A t \in Caller \ {sub} : buckets'[t] = buckets[t]
      /\ buckets'[sub] \in Bucket
      /\ buckets'[sub].lastRefill = r.lastRefill
      /\ buckets'[sub].tokens = r.tokens - (IF Allowed(sub) THEN 1 ELSE 0)
  BY <1>3, CheckLeaves
<1>6. /\ r.tokens \in 0..Capacity /\ r.lastRefill \in Nat /\ r.lastRefill <= latest
      /\ Allowed(sub) \in BOOLEAN /\ (Allowed(sub) <=> r.tokens >= 1)
      /\ Capacity \in Nat /\ RefillRate \in Nat /\ now \in Nat /\ latest \in Nat
  <2>1. MaxTime \in Nat /\ Capacity \in Nat /\ RefillRate \in Nat
    BY McpGatewayOK
  <2>2. Allowed(sub) <=> r.tokens >= 1
    BY DEF Allowed
  <2>. QED
    BY <1>3, <2>1, <2>2, RefilledType DEF Bucket, MemoryInv, ClockInv
<1>7. r.lastRefill >= now
  <2>1. BucketOf(sub) \in Bucket /\ BucketOf(sub).lastRefill <= latest
    BY <1>3, BucketOfType
  <2>. QED
    BY <2>1, RefillBounds DEF Refilled
\* Every caller's calls are counted on.
<1>8. CountedInv'
  <2> SUFFICES ASSUME NEW s \in Caller, NEW i \in Of(s, l)'
               PROVE  Counted(s, i)'
    BY <1>2 DEF CountedInv, Of
  <2>1. Of(s, l)' = IF s = sub THEN Of(s, l) \union {n} ELSE Of(s, l)
    BY ServeCounts
  <2>2. i \in Nat /\ i <= n
    BY <1>1, <2>1 DEF Of
  <2>3. /\ s = sub /\ Allowed(sub) => Granted(s, l, i, n)' = Granted(s, l, i, n - 1) \union {n}
        /\ ~(s = sub /\ Allowed(sub)) => Granted(s, l, i, n)' = Granted(s, l, i, n - 1)
    BY <1>4, <2>2, ServeGrants
  <2>4. Granted(s, life, i, Len(history))' = Granted(s, l, i, n)'
        /\ Of(s, life)' = Of(s, l)' /\ Of(s, life) = Of(s, l)
    BY <1>1, <1>2 DEF Granted, Of
  <2>5. Granted(s, l, i, n - 1) = Granted(s, life, i, Len(history))
    BY <1>1
  <2>6. CASE i \in Of(s, l)
    <3>1. i \in 1 .. n - 1 /\ history'[i] = history[i] /\ history[i] \in Served
          /\ history[i].at \in Nat
      BY <1>1, <2>6, PlacesOf
    <3>2. Counted(s, i)
      BY <2>4, <2>6 DEF LimiterInv, CountedInv
    <3>3. CASE s # sub
      <4>1. buckets'[s] = buckets[s]
        BY <1>5, <3>3
      <4>2. Granted(s, life, i, Len(history))' = Granted(s, life, i, Len(history))
        BY <2>4, <2>5, <2>3, <3>3
      <4>3. Bounded(s, i)'
        BY <3>1, <3>2, <4>1, <4>2 DEF Counted, Bounded
      <4>4. (Of(s, life) \intersect i + 1 .. Len(history))' = Of(s, life) \intersect i + 1 .. Len(history)
        <5>1. Of(s, life)' = Of(s, life) /\ \A k \in Of(s, life) : k \in 1 .. n - 1
          BY <2>1, <2>4, <3>3, <1>1 DEF Of
        <5>2. \A k \in Of(s, life) : k \in i + 1 .. n <=> k \in i + 1 .. n - 1
          BY <1>1, <5>1, <3>1
        <5>. QED
          BY <1>1, <5>1, <5>2
      <4>5. Capacity # 0 => Owed(s, i)'
        BY <3>1, <3>2, <4>1, <4>4 DEF Counted, Owed
      <4>. QED
        BY <3>2, <4>1, <4>3, <4>5 DEF Counted
    <3>4. CASE s = sub
      <4> DEFINE m == Cardinality(Granted(s, l, i, n - 1))
                 q == RefillRate * (r.lastRefill - history[i].at)
      <4>1. r.lastRefill >= history[i].at /\ r.tokens + m <= Capacity + q
        BY <2>4, <2>5, <2>6, <3>2, <3>4, FillKeepsCount
      <4>2. IsFiniteSet(Granted(s, l, i, n - 1)) /\ m \in Nat
        BY <1>1, <3>1, GrantedFinite
      <4>3. n \notin Granted(s, l, i, n - 1)
        BY <1>1 DEF Granted, Of
      <4>4. Cardinality(Granted(s, l, i, n)') = m + (IF Allowed(sub) THEN 1 ELSE 0)
        <5>2. Cardinality(Granted(s, l, i, n - 1) \union {n}) = m + 1
          BY <4>2, <4>3, FS_AddElement
        <5>. QED
          <6>1. CASE Allowed(sub)
            <7>1. Granted(s, l, i, n)' = Granted(s, l, i, n - 1) \union {n}
              BY <2>3, <3>4, <6>1
            <7>. QED
              BY <5>2, <6>1, <7>1
          <6>2. CASE ~Allowed(sub)
            <7>1. Granted(s, l, i, n)' = Granted(s, l, i, n - 1)
              BY <2>3, <6>2
            <7>. QED
              BY <4>2, <6>2, <7>1
          <6>. QED
            BY <6>1, <6>2
      <4>5. q \in Int
        <5>1. r.lastRefill - history[i].at \in Int
          BY <1>6, <3>1
        <5>. QED
          BY <5>1, <1>6, Multiples
      <4>6. Bounded(s, i)'
        <5>1. buckets'[s].tokens + Cardinality(Granted(s, l, i, n)') <= Capacity + q
          <6> HIDE DEF q, m, r
          <6>. QED
            BY <1>5, <1>6, <3>4, <4>1, <4>2, <4>4, <4>5
        <5>2. history'[i].at = history[i].at
          BY <3>1
        <5>. QED
          BY <1>5, <2>4, <3>4, <4>1, <5>1, <5>2 DEF Bounded
      \* A call of the caller has come after it.
      <4>7. Owed(s, i)'
        <5>1. n \in (Of(s, life) \intersect i + 1 .. Len(history))'
          BY <1>1, <2>1, <2>4, <3>1, <3>4
        <5>. QED
          BY <5>1 DEF Owed
      <4>. QED
        BY <1>5, <3>4, <4>6, <4>7 DEF Counted
    <3>. QED
      BY <3>3, <3>4
  <2>7. CASE i \notin Of(s, l)
    <3>1. i = n /\ s = sub
      BY <2>1, <2>7
    <3>2. history'[i] = Entry(c)
      BY <1>1, <3>1
    <3>3. Granted(s, l, i, n - 1) = {}
      BY <1>1, <3>1 DEF Granted
    <3>4. Cardinality(Granted(s, l, i, n)') = IF Allowed(sub) THEN 1 ELSE 0
      <4>1. /\ Allowed(sub) => Granted(s, l, i, n)' = {n}
            /\ ~Allowed(sub) => Granted(s, l, i, n)' = {}
        BY <2>3, <3>1, <3>3
      <4>2. Cardinality({n}) = 1
        BY FS_Singleton
      <4>. QED
        BY <1>6, <4>1, <4>2, FS_EmptySet
    <3>5. Bounded(s, i)'
      <4>1. RefillRate * (r.lastRefill - now) >= 0 /\ RefillRate * (r.lastRefill - now) \in Int
        <5>1. r.lastRefill - now \in Int /\ r.lastRefill - now >= 0
          BY <1>6, <1>7
        <5>. QED
          BY <5>1, <1>6, Multiples
      <4>2. buckets'[s].tokens + Cardinality(Granted(s, l, i, n)') <= Capacity
        BY <1>5, <1>6, <3>1, <3>4
      <4>3. buckets'[s].tokens + Cardinality(Granted(s, l, i, n)')
              <= Capacity + RefillRate * (r.lastRefill - now)
        <5>1. buckets'[s].tokens + Cardinality(Granted(s, l, i, n)') \in Int
          BY <1>5, <1>6, <3>1, <3>4
        <5>. QED
          BY <4>1, <4>2, <5>1, <1>6
      <4>. QED
        BY <1>4, <1>5, <1>7, <2>4, <3>1, <3>2, <4>3 DEF Bounded
    <3>6. Owed(s, i)'
      <4> SUFFICES ASSUME ~Allowed(sub), now = latest
                   PROVE  RetryAfter(sub) = 1 /\ buckets'[s].lastRefill = now
        BY <1>4, <3>2 DEF Owed
      <4>1. RetryAfter(sub) = 1
        BY <1>3, OneToken
      <4>2. r.lastRefill = now
        BY <1>6, <1>7
      <4>. QED
        BY <4>1, <4>2, <1>5, <3>1
    <3>. QED
      BY <1>5, <3>1, <3>5, <3>6 DEF Counted
  <2>. QED
    BY <2>6, <2>7
<1>9. HonestInv'
  <2> SUFFICES ASSUME NEW s \in Caller, NEW k \in 1 .. life, NEW i \in Of(s, k)', NEW j \in Of(s, k)'
               PROVE  Honest(s, k, i, j)'
    BY <1>2 DEF HonestInv
  <2>1. Of(s, k)' = IF s = sub /\ k = l THEN Of(s, k) \union {n} ELSE Of(s, k)
    BY ServeCounts
  <2>2. Of(s, k) \subseteq 1 .. n - 1
    BY <1>1 DEF Of
  <2>3. i \in 1 .. n /\ j \in 1 .. n
    BY <1>1, <2>1, <2>2
  <2>4. CASE i \in Of(s, k) /\ j \in Of(s, k)
    <3>1. Honest(s, k, i, j)
      BY <2>4 DEF LimiterInv, HonestInv
    <3>2. history'[i] = history[i] /\ history'[j] = history[j]
      BY <1>1, <2>2, <2>4
    <3>3. Granted(s, k, i, j)' = Granted(s, k, i, j)
      <4>1. i \in Nat /\ j \in 1 .. Len(history)
        BY <1>1, <2>2, <2>4
      <4>2. Of(s, k)' \intersect i .. j = Of(s, k) \intersect i .. j
        BY <1>1, <2>1, <4>1
      <4>3. \A x \in Of(s, k) : history'[x] = history[x]
        BY <1>1, <2>2
      <4>. QED
        BY <4>2, <4>3 DEF Granted
    <3>4. Of(s, k)' \intersect i + 1 .. j - 1 = Of(s, k) \intersect i + 1 .. j - 1
      BY <1>1, <2>1, <2>2, <2>4
    <3>. QED
      BY <3>1, <3>2, <3>3, <3>4 DEF Honest
  <2>5. CASE j = n /\ s = sub /\ k = l
    <3>1. history'[j] = Entry(c)
      BY <1>1, <2>5
    <3>2. Counted(s, i)'
      BY <1>2, <1>8, <2>5 DEF CountedInv
    <3>3. history'[i].at \in Nat /\ history'[i].retry \in Nat
      <4>1. history' \in Seq(Served)
        BY ServeRecords
      <4>2. history'[i] \in Served
        BY <1>1, <2>3, <4>1
      <4>. QED
        BY <4>2, McpGatewayOK DEF Served
    <3>4. Cardinality(Granted(s, k, i, j)') <= Capacity + RefillRate * (latest - history'[i].at)
      <4> DEFINE m == Cardinality(Granted(s, k, i, j)')
                 a == history'[i].at
                 p == RefillRate * (r.lastRefill - a)
                 q == RefillRate * (latest - a)
      <4>1. buckets'[s].tokens + m <= Capacity + p /\ buckets'[s].tokens \in Nat
        <5>1. Granted(s, life, i, Len(history))' = Granted(s, k, i, j)'
          BY <1>1, <1>2, <2>5 DEF Granted, Of
        <5>. QED
          BY <1>5, <2>5, <3>2, <5>1, McpGatewayOK DEF Counted, Bounded, Bucket
      <4>2. p <= q /\ p \in Int /\ q \in Int
        <5>1. r.lastRefill - a \in Int /\ latest - a \in Int /\ r.lastRefill - a <= latest - a
          BY <1>6, <3>3
        <5> HIDE DEF a, r
        <5>. QED
          BY <5>1, <1>6, LongerIsMore, Multiples
      <4>3. m \in Nat
        <5>1. Granted(s, k, i, j)' \subseteq i .. j
          BY DEF Granted
        <5>2. IsFiniteSet(i .. j)
          BY <2>3, FS_Interval
        <5>. QED
          BY <5>1, <5>2, FS_Subset, FS_CardinalityType
      <4> HIDE DEF m, p, q
      <4>4. m <= Capacity + q
        BY <4>1, <4>2, <4>3, <1>6
      <4>. QED
        BY <4>4 DEF m, q, a
    <3>5. ASSUME Capacity # 0, i < j, ~history'[i].allowed, Of(s, k)' \intersect i + 1 .. j - 1 = {},
                 history'[i].at = history'[i].latest, now >= history'[i].at + history'[i].retry
          PROVE  Allowed(sub)
      <4>1. i \in 1 .. n - 1 /\ i \in Of(s, k) /\ history'[i] = history[i]
        BY <1>1, <2>1, <2>3, <2>5, <3>5
      <4>2. Counted(s, i)
        BY <2>5, <4>1 DEF LimiterInv, CountedInv
      <4>3. Of(s, life) \intersect i + 1 .. Len(history) = {}
        BY <1>1, <2>1, <2>5, <3>5
      <4>4. history[i].retry = 1
            /\ (buckets[s].lastRefill = history[i].at \/ buckets[s].tokens >= 1)
        BY <3>5, <4>1, <4>2, <4>3 DEF Counted, Owed
      <4>5. /\ r.lastRefill > buckets[s].lastRefill => r.tokens >= 1
            /\ r.tokens >= buckets[s].tokens /\ r.tokens \in Nat /\ buckets[s].tokens \in Nat
        BY <2>5, <3>5, <4>1, <4>2, FillKeepsCount
      <4>6. now > history[i].at
        BY <1>6, <3>3, <3>5, <4>1, <4>4
      <4> HIDE DEF r
      <4>7. r.tokens >= 1
        BY <1>6, <1>7, <3>3, <4>1, <4>4, <4>5, <4>6
      <4>. QED
        BY <1>6, <4>7
    <3>. QED
      BY <1>4, <3>1, <3>4, <3>5 DEF Honest
  \* The last of its calls, and an earlier one, the other way round.
  <2>6. CASE i = n /\ j \in Of(s, k)
    BY <1>1, <2>2, <2>6 DEF Honest
  <2>. QED
    BY <2>1, <2>4, <2>5, <2>6
<1>. QED
  BY <1>8, <1>9 DEF LimiterInv

LEMMA LimiterStep ==
  ASSUME MemoryInv, LimiterInv, [Next]_vars
  PROVE  LimiterInv'
<1>1. ASSUME NEW c \in Client, Receive(c) \/ Refuse(c) \/ Replayed(c) \/ Answer(c)
      PROVE  LimiterInv'
  BY <1>1, LimiterKept DEF Receive, Refuse, Replayed, Answer, SameServed, process
<1>2. CASE Tick \/ SetBack \/ UNCHANGED vars
  BY <1>2, LimiterKept DEF Tick, SetBack, vars, SameServed, process
<1>3. CASE Restart
  <2>1. UNCHANGED history /\ life' = life + 1 /\ life \in Nat
    BY <1>3 DEF Restart, MemoryInv, HistoryInv
  <2>2. \A s : Of(s, life + 1) = {}
    <3>1. \A k \in DOMAIN history : history[k].life <= life /\ history[k] \in Served
      BY DEF MemoryInv, HistoryInv
    <3>2. \A k \in DOMAIN history : history[k].life # life + 1
      BY <2>1, <3>1 DEF Served
    <3>. QED
      BY <3>2 DEF Of
  <2>3. \A s : Of(s, life)' = Of(s, life + 1)
    BY <2>1 DEF Of
  <2>4. CountedInv'
    BY <2>2, <2>3 DEF CountedInv
  <2>5. HonestInv'
    <3> SUFFICES ASSUME NEW s \in Caller, NEW l \in 1 .. life + 1
                 PROVE  \A i, j \in Of(s, l)' : Honest(s, l, i, j)'
      BY <2>1 DEF HonestInv
    <3>1. CASE l \in 1 .. life
      BY <2>1, <3>1, HonestKept DEF LimiterInv
    <3>2. CASE l = life + 1
      <4>1. Of(s, l)' = {}
        BY <2>1, <2>2, <3>2 DEF Of
      <4>. QED
        BY <4>1
    <3>. QED
      BY <2>1, <3>1, <3>2
  <2>. QED
    BY <2>4, <2>5 DEF LimiterInv
<1>. QED
  BY <1>1, <1>2, <1>3, ServeLimiter, PeekLimiter DEF Next, Handle

LEMMA InitLimiter == Init => LimiterInv
<1> SUFFICES ASSUME Init PROVE LimiterInv
  OBVIOUS
<1>1. history = <<>> /\ \A s, l : Of(s, l) = {}
  BY DEF Init, Of
<1>. QED
  BY <1>1 DEF LimiterInv, CountedInv, HonestInv

(* Between any two of its calls a caller gets no more than a full bucket and *)
(* what the clock added, and a caller told to come back after a while is let *)
(* in when it does, unless the clock was set back (rate-limit.ts:61-93).     *)
(* The second half needs a bucket that can hold a token: one of no capacity, *)
(* which the configuration allows, tells every caller to come back for ever. *)
THEOREM LimiterIsHonest ==
  ASSUME Capacity # 0
  PROVE  Spec => []RateIsHonest
<1>1. MemoryInv /\ LimiterInv /\ [Next]_vars => (MemoryInv /\ LimiterInv)'
  BY MemoryKept, LimiterStep
<1>2. LimiterInv => RateIsHonest
  <2> SUFFICES ASSUME LimiterInv, NEW s \in Caller, NEW l \in 1 .. life,
                      NEW i \in Of(s, l), NEW j \in Of(s, l)
               PROVE  /\ i <= j =>
                           Cardinality({k \in Of(s, l) \cap i .. j : history[k].allowed})
                             <= Capacity + RefillRate * (history[j].latest - history[i].at)
                      /\ (/\ i < j
                          /\ ~history[i].allowed
                          /\ Of(s, l) \cap i + 1 .. j - 1 = {}
                          /\ history[i].at = history[i].latest
                          /\ history[j].at >= history[i].at + history[i].retry)
                           => history[j].allowed
    BY DEF RateIsHonest
  <2>1. Honest(s, l, i, j)
    BY DEF LimiterInv, HonestInv
  <2>. QED
    BY <2>1 DEF Honest, Granted
<1>. QED
  BY InitMemory, InitLimiter, <1>1, <1>2, PTL DEF Spec
===============================================================================
