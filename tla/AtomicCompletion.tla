-------------------------- MODULE AtomicCompletion --------------------------
(***************************************************************************)
(* The append-and-grant unit of work: grantAndComplete() of                *)
(* packages/adapters/src/postgres/atomic-completion.ts.                    *)
(*                                                                         *)
(* One SERIALIZABLE transaction appends the completion event, records the  *)
(* reward grant and calls apply_resource_mutation.  Around it run the      *)
(* writers it shares the tables with: appends of the event store, grants   *)
(* of the standalone RewardPort, and the host's own ledger mutations.      *)
(* Each of these commits in one step.  Balances are left out: a ledger row *)
(* stands for the mutation of a user's account, and whether an account can *)
(* afford a spend is the choice of the environment.                        *)
(***************************************************************************)
EXTENDS Integers, FiniteSets

CONSTANTS
  Worker,       \* concurrent callers of grantAndComplete
  Event,        \* completion events
  OtherEvent,   \* events appended by the event store
  Partition,    \* partition keys
  Recipient,    \* recipients, each standing for its ledger address too
  CoarseKey,    \* the host's legacy idempotency keys
  None,         \* expected_tip_hash = null
  Input,        \* the completions that callers ask for
  Nonceless,    \* events with nonce = null
  Forged,       \* events whose event_id is not their canonical hash
  OptedOut,     \* workers of a handle with enforceResourceKeyIsEventId = false
  MaxRetries,   \* config.maxSerializationRetries (8 by default)
  PoolSize,     \* max of the pg Pool
  MaxCalls,     \* bound of the model: calls made in all
  MaxOthers     \* bound of the model: rows of the other writers in all

\* What a completion asks of the ledger.
Amount == {"zero", "gain", "spend"}

ASSUME ConstantsOK ==
  /\ None \notin Event \union OtherEvent /\ Event \intersect OtherEvent = {}
  /\ Event \intersect CoarseKey = {}
  /\ Input \subseteq [event : Event, partition : Partition, recipient : Recipient,
                      amount : Amount, key : Event \union CoarseKey]
  /\ Nonceless \subseteq Event /\ Forged \subseteq Event /\ OptedOut \subseteq Worker
  /\ MaxRetries \in Nat /\ PoolSize \in Nat \ {0}
  /\ MaxCalls \in Nat /\ MaxOthers \in Nat

\* A caller that opts out of the pinned key "accepts responsibility": its key is its own
\* event's or one of the coarse ones, never the id of another completion.
ASSUME KeysOK == \A i \in Input : i.key \in {i.event} \union CoarseKey

VARIABLES
  event_store,   \* committed events; "by" is the call that wrote the row
  reward_grants, \* committed grants
  ledger,        \* committed rows of resource_transactions
  pc,            \* what each worker does next
  call,          \* input, expected_tip_hash and number of its current (or last) call
  snapshot,      \* what its transaction's snapshot shows: the tip, and the user's ledger
  attempt,       \* serialization retries used
  outcome,       \* what the last call returned
  calls          \* calls started so far

tables == <<event_store, reward_grants, ledger>>
vars == <<event_store, reward_grants, ledger, pc, call, snapshot, attempt, outcome, calls>>

-----------------------------------------------------------------------------
(* Types.  "by" is history: NoCall marks a row of another writer.          *)

TipHash == Event \union OtherEvent \union {None}

Call == [input : Input, expected : TipHash, id : Nat]
NoCall == [input |-> None, expected |-> None, id |-> 0]
By == Call \union {NoCall}

EventRow == [event_id : Event \union OtherEvent, partition : Partition,
             monotonic_sequence : Nat \ {0}, by : By]
\* The standalone RewardPort names its grants by a counter, left out here.
GrantedId == [originating_event_id : Event, recipient : Recipient, reward : Amount]
GrantRow == [originating_event_id : Event, recipient : Recipient,
             granted_event_id : GrantedId \union {None}, by : By]
LedgerRow == [user : Recipient, idempotency_key : Event \union CoarseKey, by : By]

NoRow == [event_id |-> None, monotonic_sequence |-> 0]
TipRow == [event_id : TipHash, monotonic_sequence : Nat]
Snapshot == [tip : TipRow, account : SUBSET LedgerRow]
NoSnapshot == [tip |-> NoRow, account |-> {}]

Phase == {"idle", "connect", "select", "lock", "lookup", "append", "grant", "mutate", "commit"}

\* ResourceMutationFailed by its three non-retryable causes, and the retryable one.
Refusal == {"NonceRequired", "SchemaValidation", "CASFailed", "DuplicateEvent",
            "RewardAlreadyGranted", "IdempotencyConflict", "ZeroDelta", "Insufficient"}
Tag == {"none", "RewardGranted", "ResourceMutationRetryable", "RewardAdapterUnavailable",
        "lost"} \union Refusal

TypeOK ==
  /\ event_store \subseteq EventRow
  /\ reward_grants \subseteq GrantRow
  /\ ledger \subseteq LedgerRow
  /\ pc \in [Worker -> Phase]
  /\ call \in [Worker -> By]
  /\ \A w \in Worker : /\ snapshot[w].tip \in TipRow
                       /\ snapshot[w].account \subseteq LedgerRow
  /\ attempt \in [Worker -> 0..MaxRetries]
  /\ outcome \in [Worker -> Tag]
  /\ calls \in 0..MaxCalls

-----------------------------------------------------------------------------
(* The tables and the transactions on them.                                *)

RowsOf(p) == {r \in event_store : r.partition = p}

\* ORDER BY monotonic_sequence DESC LIMIT 1.
TipsOf(p) ==
  IF RowsOf(p) = {}
  THEN {NoRow}
  ELSE {[event_id |-> r.event_id, monotonic_sequence |-> r.monotonic_sequence] :
          r \in {q \in RowsOf(p) :
                   \A o \in RowsOf(p) : o.monotonic_sequence <= q.monotonic_sequence}}

Account(u) == {l \in ledger : l.user = u}

\* What a worker's transaction has written once it is past each statement.
NewEvent(w) ==
  [event_id |-> call[w].input.event, partition |-> call[w].input.partition,
   monotonic_sequence |-> snapshot[w].tip.monotonic_sequence + 1, by |-> call[w]]

\* The id of a grant is the hash of what it grants to whom and for what: a retry in
\* another process arrives at the same one (defect #21.7).
deriveGrantedEventId(i) ==
  [originating_event_id |-> i.event, recipient |-> i.recipient, reward |-> i.amount]

NewGrant(w) ==
  [originating_event_id |-> call[w].input.event, recipient |-> call[w].input.recipient,
   granted_event_id |-> deriveGrantedEventId(call[w].input), by |-> call[w]]

\* The proc finds a row with this user and key in the snapshot: it changes nothing
\* and returns zeros.
KeyUsed(w) ==
  \E l \in snapshot[w].account : l.idempotency_key = call[w].input.key

\* The proc is not called for a zero delta.
NewLedgerRows(w) ==
  IF call[w].input.amount = "zero" \/ KeyUsed(w) THEN {}
  ELSE {[user |-> call[w].input.recipient, idempotency_key |-> call[w].input.key,
         by |-> call[w]]}

SameSlot(r, q) ==
  r.partition = q.partition /\ r.monotonic_sequence = q.monotonic_sequence
SameGrant(g, h) ==
  g.originating_event_id = h.originating_event_id /\ g.recipient = h.recipient

Holders == {w \in Worker : pc[w] \notin {"idle", "connect"}}
ClientFree == Cardinality(Holders) < PoolSize
InTransaction == {w \in Worker : pc[w] \in {"lock", "append", "grant", "mutate", "commit"}}

\* Workers whose open transaction has inserted its event, grant or ledger row.
Appended == {w \in Worker : pc[w] \in {"grant", "mutate", "commit"}}
Granted == {w \in Worker : pc[w] \in {"mutate", "commit"}}
Mutated == {w \in Worker : pc[w] = "commit" /\ NewLedgerRows(w) # {}}

\* Another transaction holds the row lock FOR UPDATE asks for.
TipLocked(w) ==
  \E v \in (Appended \union {u \in Worker : pc[u] = "append"}) \ {w} :
    snapshot[w].tip # NoRow /\ snapshot[v].tip = snapshot[w].tip

\* An insert waits for the uncommitted row of another transaction.
EventBlocked(r) ==
  \E v \in Appended : NewEvent(v).event_id = r.event_id \/ SameSlot(NewEvent(v), r)
GrantBlocked(g) == \E v \in Granted : SameGrant(NewGrant(v), g)
AccountBlocked(u) == \E v \in Mutated : call[v].input.recipient = u

\* The user's account has changed since the snapshot was taken.
AccountMoved(w) == Account(call[w].input.recipient) # snapshot[w].account

\* The transaction overlaps another one: the database may answer 40001.
Overlapped(w) ==
  \/ InTransaction \ {w} # {}
  \/ snapshot[w].tip \notin TipsOf(call[w].input.partition)
  \/ AccountMoved(w)

-----------------------------------------------------------------------------
(* One call.                                                               *)

\* Return to the caller; ROLLBACK and release() have run.
Return(w, tag) ==
  /\ outcome' = [outcome EXCEPT ![w] = tag]
  /\ pc' = [pc EXCEPT ![w] = "idle"]
  /\ snapshot' = [snapshot EXCEPT ![w] = NoSnapshot]
  /\ attempt' = [attempt EXCEPT ![w] = 0]
  /\ UNCHANGED <<call, calls>>

Goto(w, phase) ==
  /\ pc' = [pc EXCEPT ![w] = phase]
  /\ UNCHANGED <<call, snapshot, attempt, outcome, calls>>

\* The checks made before the transaction is opened, cheapest first.
Precheck(w, i) ==
  CASE i.event \in Nonceless            -> "NonceRequired"
    [] i.event \in Forged               -> "SchemaValidation"
    [] w \notin OptedOut /\ i.key # i.event -> "SchemaValidation"
    [] OTHER                            -> "none"

\* grantAndComplete(input)
GrantAndComplete(w) ==
  /\ pc[w] = "idle" /\ calls < MaxCalls
  /\ \E i \in Input, x \in TipHash :
       /\ call' = [call EXCEPT ![w] = [input |-> i, expected |-> x, id |-> calls + 1]]
       /\ \/ /\ Precheck(w, i) = "none"
             /\ pc' = [pc EXCEPT ![w] = "connect"]
             /\ UNCHANGED outcome
          \/ /\ Precheck(w, i) # "none"
             /\ outcome' = [outcome EXCEPT ![w] = Precheck(w, i)]
             /\ UNCHANGED pc
  /\ calls' = calls + 1
  /\ UNCHANGED <<tables, snapshot, attempt>>

\* pool.connect() and BEGIN ISOLATION LEVEL SERIALIZABLE.
Connect(w) ==
  /\ pc[w] = "connect" /\ ClientFree
  /\ Goto(w, "select")
  /\ UNCHANGED tables

\* SELECT ... FOR UPDATE is the first statement, and takes the snapshot.
Select(w) ==
  /\ pc[w] = "select"
  /\ \E t \in TipsOf(call[w].input.partition) :
       snapshot' = [snapshot EXCEPT ![w] =
         [tip |-> t, account |-> Account(call[w].input.recipient)]]
  /\ pc' = [pc EXCEPT ![w] = "lock"]
  /\ UNCHANGED <<tables, call, attempt, outcome, calls>>

\* Mutant: the compare-and-set is skipped.
CasHoldsAlways(w) == TRUE

\* input.expected_tip_hash = currentTip
CasHolds(w) == call[w].expected = snapshot[w].tip.event_id

\* The lock is granted and the tip compared.  After a mismatch the transaction is
\* over; the look-up of expected_version reuses the worker's own client.
Lock(w) ==
  /\ pc[w] = "lock" /\ ~TipLocked(w)
  /\ \/ CasHolds(w) /\ Goto(w, "append")
     \/ ~CasHolds(w) /\ call[w].expected # None /\ Goto(w, "lookup")
     \/ ~CasHolds(w) /\ call[w].expected = None /\ Return(w, "CASFailed")
  /\ UNCHANGED tables

\* Mutant: the look-up takes a second client of the pool, as event-store.ts does.
LookupThroughPool(w) ==
  /\ pc[w] = "lookup" /\ ClientFree
  /\ Return(w, "CASFailed")
  /\ UNCHANGED tables

LookupExpected(w) ==
  /\ pc[w] = "lookup"
  /\ Return(w, "CASFailed")
  /\ UNCHANGED tables

\* Mutant: the retry limit is forgotten.
RetryUnbounded(w) ==
  /\ attempt' = [attempt EXCEPT ![w] = @ + 1]
  /\ pc' = [pc EXCEPT ![w] = "connect"]
  /\ snapshot' = [snapshot EXCEPT ![w] = NoSnapshot]
  /\ UNCHANGED <<call, outcome, calls>>

\* ROLLBACK, attempt += 1, continue.
Retry(w) ==
  /\ attempt[w] < MaxRetries
  /\ attempt' = [attempt EXCEPT ![w] = @ + 1]
  /\ pc' = [pc EXCEPT ![w] = "connect"]
  /\ snapshot' = [snapshot EXCEPT ![w] = NoSnapshot]
  /\ UNCHANGED <<call, outcome, calls>>

\* Mutant: event_store has no primary key.
IdTakenUnchecked(w) == FALSE

IdTaken(w) == \E r \in event_store : r.event_id = call[w].input.event
SlotTaken(w) == \E r \in event_store : SameSlot(r, NewEvent(w))

\* STEP 1: the insert of the event.
AppendEvent(w) ==
  /\ pc[w] = "append" /\ ~EventBlocked(NewEvent(w))
  /\ \/ ~IdTaken(w) /\ ~SlotTaken(w) /\ Goto(w, "grant")
     \/ IdTaken(w) /\ Return(w, "DuplicateEvent")
     \/ ~IdTaken(w) /\ SlotTaken(w) /\ Retry(w)
     \/ ~IdTaken(w) /\ SlotTaken(w) /\ attempt[w] >= MaxRetries /\ Return(w, "DuplicateEvent")
  /\ UNCHANGED tables

GrantTaken(w) == \E g \in reward_grants : SameGrant(g, NewGrant(w))

\* STEP 2: the insert of the grant.
RecordGrant(w) ==
  /\ pc[w] = "grant" /\ ~GrantBlocked(NewGrant(w))
  /\ \/ ~GrantTaken(w) /\ Goto(w, "mutate")
     \/ GrantTaken(w) /\ Return(w, "RewardAlreadyGranted")
  /\ UNCHANGED tables

\* The signed delta that an amount stands for.
Delta(amount) == CASE amount = "zero" -> 0 [] amount = "gain" -> 1 [] amount = "spend" -> -1

Magnitude(n) == IF n < 0 THEN -n ELSE n

\* The proc reports the deltas it has applied, or zeros for a key that is used: their
\* sizes are added, for a spend counts as much as a gain.
sumProcDelta(w) == IF NewLedgerRows(w) = {} THEN 0 ELSE Magnitude(Delta(call[w].input.amount))

\* applied = 0 although expected > 0.
Divergent(w) == call[w].input.amount # "zero" /\ sumProcDelta(w) = 0

\* STEP 3: apply_resource_mutation.  The account is locked and then changed, or
\* inserted when the snapshot has none; an account inserted meanwhile is a 23505
\* (one changed meanwhile is a 40001).
ApplyResourceMutation(w) ==
  LET free == ~AccountBlocked(call[w].input.recipient)
  IN  /\ pc[w] = "mutate"
      /\ \/ Divergent(w) /\ Return(w, "ZeroDelta")
         \/ /\ ~Divergent(w)
            /\ NewLedgerRows(w) = {} \/ (free /\ ~AccountMoved(w))
            /\ Goto(w, "commit")
         \/ /\ NewLedgerRows(w) # {} /\ free /\ AccountMoved(w)
            /\ snapshot[w].account = {}
            /\ Return(w, "IdempotencyConflict")
         \/ /\ NewLedgerRows(w) # {} /\ free /\ ~AccountMoved(w)
            /\ snapshot[w].account # {} /\ call[w].input.amount = "spend"
            /\ Return(w, "Insufficient")
      /\ UNCHANGED tables

\* Mutant: the grant is left out of the transaction.
MakeDurableWithoutGrant(w) ==
  /\ event_store' = event_store \union {NewEvent(w)}
  /\ ledger' = ledger \union NewLedgerRows(w)
  /\ UNCHANGED reward_grants

\* The one COMMIT.
MakeDurable(w) ==
  /\ event_store' = event_store \union {NewEvent(w)}
  /\ reward_grants' = reward_grants \union {NewGrant(w)}
  /\ ledger' = ledger \union NewLedgerRows(w)

Commit(w) ==
  /\ pc[w] = "commit"
  /\ MakeDurable(w)
  /\ Return(w, "RewardGranted")

\* Out of retries: the catch around the proc call answers by itself, every other
\* statement's error reaches the outer catch.
Exhausted(w) ==
  IF pc[w] = "mutate" THEN "ResourceMutationRetryable" ELSE "RewardAdapterUnavailable"

\* 40001 or 40P01 from a statement or from COMMIT.
SerializationFailure(w) ==
  /\ pc[w] \in {"lock", "append", "grant", "mutate", "commit"} /\ Overlapped(w)
  /\ \/ Retry(w)
     \/ attempt[w] >= MaxRetries /\ Return(w, Exhausted(w))
  /\ UNCHANGED tables

\* Mutant: a COMMIT whose answer is lost is reported as a refusal.
FaultTagsCommitRefused(w) == {"CASFailed"}

\* Any other error.  The proc's is ResourceMutationFailed, unless the ROLLBACK
\* that follows it fails as well.
FaultTags(w) ==
  IF pc[w] = "mutate"
  THEN {"ResourceMutationRetryable", "RewardAdapterUnavailable"}
  ELSE {"RewardAdapterUnavailable"}

\* When the connection is lost during COMMIT the transaction may have taken effect.
Landed(w) == UNCHANGED tables \/ (pc[w] = "commit" /\ MakeDurable(w))

Fault(w) ==
  /\ pc[w] # "idle"
  /\ Landed(w)
  /\ \E tag \in FaultTags(w) : Return(w, tag)

\* The process dies and nobody receives an answer.
Crash(w) ==
  /\ pc[w] # "idle"
  /\ Landed(w)
  /\ Return(w, "lost")

-----------------------------------------------------------------------------
(* The other writers of the tables.                                        *)

OtherRows(table) == {r \in table : r.by = NoCall}

\* Room for one more row of theirs; nothing of the workers changes.
Elsewhere ==
  /\ Cardinality(OtherRows(event_store)) + Cardinality(OtherRows(reward_grants))
       + Cardinality(OtherRows(ledger)) < MaxOthers
  /\ UNCHANGED <<pc, call, snapshot, attempt, outcome, calls>>

\* EventStoreContract.append, the whole of it in one step.
OtherAppend ==
  /\ \E e \in OtherEvent, p \in Partition : \E t \in TipsOf(p) :
       LET row == [event_id |-> e, partition |-> p,
                   monotonic_sequence |-> t.monotonic_sequence + 1, by |-> NoCall]
       IN  /\ ~\E r \in event_store : r.event_id = e
           /\ ~EventBlocked(row)
           /\ event_store' = event_store \union {row}
  /\ Elsewhere /\ UNCHANGED <<reward_grants, ledger>>

\* RewardPort.grant: one autocommitted INSERT.
OtherGrant ==
  /\ \E i \in Input :
       LET row == [originating_event_id |-> i.event, recipient |-> i.recipient,
                   granted_event_id |-> None, by |-> NoCall]
       IN  /\ ~\E g \in reward_grants : SameGrant(g, row)
           /\ ~GrantBlocked(row)
           /\ reward_grants' = reward_grants \union {row}
  /\ Elsewhere /\ UNCHANGED <<event_store, ledger>>

\* The host mutates an account under one of its coarse keys.
OtherMutation ==
  /\ \E u \in Recipient, k \in CoarseKey :
       /\ ~\E l \in Account(u) : l.idempotency_key = k
       /\ ~AccountBlocked(u)
       /\ ledger' = ledger \union {[user |-> u, idempotency_key |-> k, by |-> NoCall]}
  /\ Elsewhere /\ UNCHANGED <<event_store, reward_grants>>

-----------------------------------------------------------------------------

Init ==
  /\ event_store = {} /\ reward_grants = {} /\ ledger = {}
  /\ pc = [w \in Worker |-> "idle"]
  /\ call = [w \in Worker |-> NoCall]
  /\ snapshot = [w \in Worker |-> NoSnapshot]
  /\ attempt = [w \in Worker |-> 0]
  /\ outcome = [w \in Worker |-> "none"]
  /\ calls = 0

Progress(w) ==
  \/ Connect(w) \/ Select(w) \/ Lock(w) \/ LookupExpected(w) \/ AppendEvent(w)
  \/ RecordGrant(w) \/ ApplyResourceMutation(w) \/ Commit(w)

Next ==
  \/ \E w \in Worker :
       GrantAndComplete(w) \/ Progress(w) \/ SerializationFailure(w) \/ Fault(w) \/ Crash(w)
  \/ OtherAppend \/ OtherGrant \/ OtherMutation

Spec == Init /\ [][Next]_vars

-----------------------------------------------------------------------------
(* What makes the unit of work correct.                                    *)

\* Calls that left a row in a table.
Authors(table) == {r.by : r \in table} \ {NoCall}

\* There is no state in which a completion is durable without its grant and its
\* ledger row, or one of these without the completion: neither a crash at any
\* statement nor a ledger key that is already used leaves a part behind.
AllOrNothing ==
  /\ Authors(reward_grants) = Authors(event_store)
  /\ Authors(ledger) = {c \in Authors(event_store) : c.input.amount # "zero"}

\* However often a completion is retried, on whatever tip and for whatever
\* recipient, its event moves a balance at most once; and it is granted at most
\* once to a recipient, by this path or by the standalone RewardPort.
PaidOnce ==
  /\ \A c, d \in Authors(ledger) : c.input.event = d.input.event => c = d
  /\ \A g, h \in reward_grants : SameGrant(g, h) => g = h

\* RewardGranted is durable in all three tables; a refusal left nothing in any; and
\* a caller held to the event id as its ledger key never finds that key used (defect
\* #21.4), whatever keys the callers that opted out have used.
AnswerIsTrue ==
  \A w \in Worker : pc[w] = "idle" =>
    /\ outcome[w] = "RewardGranted" =>
         call[w] \in Authors(event_store) \intersect Authors(reward_grants)
    /\ outcome[w] \in Refusal =>
         call[w] \notin Authors(event_store) \union Authors(reward_grants)
                         \union Authors(ledger)
    /\ w \notin OptedOut => outcome[w] # "ZeroDelta"

\* The partition stays one chain although two kinds of writers extend it.
Gapless ==
  \A r \in event_store :
    /\ \A q \in event_store : r.event_id = q.event_id \/ SameSlot(r, q) => r = q
    /\ r.monotonic_sequence > 1 =>
         \E q \in RowsOf(r.partition) : q.monotonic_sequence = r.monotonic_sequence - 1

\* A completion stands right behind the event its caller named as the tip, whatever
\* was appended while its transaction ran, and the chain has neither gap nor fork.
FollowsClaimedTip ==
  /\ Gapless
  /\ \A r \in event_store : r.by # NoCall =>
       IF r.by.expected = None
       THEN r.monotonic_sequence = 1
       ELSE \E q \in RowsOf(r.partition) :
              /\ q.event_id = r.by.expected
              /\ q.monotonic_sequence = r.monotonic_sequence - 1

\* What the next statement of a worker waits for is there: a client of the pool, the
\* tip's lock, the end of a transaction with a conflicting row or on the same account;
\* and a tip to read.
Served(w) ==
  /\ pc[w] = "connect" => ClientFree
  /\ pc[w] = "select" => TipsOf(call[w].input.partition) # {}
  /\ pc[w] = "lock" => ~TipLocked(w)
  /\ pc[w] = "append" => ~EventBlocked(NewEvent(w))
  /\ pc[w] = "grant" => ~GrantBlocked(NewGrant(w))
  /\ pc[w] = "mutate" => NewLedgerRows(w) = {} \/ ~AccountBlocked(call[w].input.recipient)

\* Nobody waits in a circle.
SomebodyIsServed ==
  \A w \in Worker : pc[w] # "idle" => \E v \in Worker : pc[v] # "idle" /\ Served(v)

\* The workers never wait for each other for ever, for clients of the pool, the tip's
\* lock, an account or an insert, whatever the order of their statements: one of
\* those in flight can always take its next step, or is told by the database to
\* start over, which it can be only inside its transaction.
NobodyStuck ==
  /\ SomebodyIsServed
  /\ \A w \in Worker : pc[w] # "idle" /\ Served(w) =>
       ENABLED (Progress(w) \/ SerializationFailure(w))
=============================================================================
