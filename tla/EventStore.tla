----------------------------- MODULE EventStore -----------------------------
(***************************************************************************)
(* The postgres event store: append() of                                   *)
(* packages/adapters/src/postgres/event-store.ts, run by several workers   *)
(* against one database.                                                   *)
(*                                                                         *)
(* A worker is one in-flight append.  Each statement it sends is an        *)
(* action; the retry loop is the way back to "connect".  The database is   *)
(* modelled from how the code uses it: a SERIALIZABLE transaction reads    *)
(* from the snapshot its first statement takes, FOR UPDATE makes it wait   *)
(* for the holder of the same tip row, an INSERT waits for an uncommitted  *)
(* row it conflicts with, a duplicate key is 23505, and any statement that *)
(* overlaps another transaction may fail with 40001 (or 40P01).            *)
(***************************************************************************)
EXTENDS Naturals, FiniteSets

CONSTANTS
  Worker,      \* concurrent callers of append
  Event,       \* event ids (canonical hashes)
  Partition,   \* partition keys
  None,        \* expected_tip_hash = null
  Nonceless,   \* mutating events submitted with nonce = null
  Forged,      \* events whose event_id is not their canonical hash
  OutOfScope,  \* partitions whose scope is not config.expectedScope
  MaxRetries,  \* config.maxSerializationRetries (8 by default)
  PoolSize,    \* max of the pg Pool (10 by default)
  MaxCalls     \* bound of the model: appends made in all

ASSUME ConstantsOK ==
  /\ None \notin Event
  /\ Nonceless \subseteq Event /\ Forged \subseteq Event
  /\ OutOfScope \subseteq Partition
  /\ MaxRetries \in Nat /\ PoolSize \in Nat /\ MaxCalls \in Nat

VARIABLES
  event_store, \* committed rows of the table
  pc,          \* what each worker does next
  call,        \* the arguments of its current (or last) append
  tip,         \* tipRow: the partition's tip in the transaction's snapshot
  attempt,     \* serialization retries used
  outcome,     \* what the last append returned
  calls,       \* history: appends started so far
  origin       \* history: which call committed each event, and on which tip

vars == <<event_store, pc, call, tip, attempt, outcome, calls, origin>>

-----------------------------------------------------------------------------
(* Types.                                                                  *)

TipHash == Event \union {None}

Row == [event_id : Event, partition : Partition, monotonic_sequence : Nat \ {0}]

\* tipRow === undefined: the partition is empty in the snapshot.
NoRow == [event_id |-> None, monotonic_sequence |-> 0]

TipRow == [event_id : TipHash, monotonic_sequence : Nat]

\* "emit" is CompletionEventPort.emit: append on the tip it has just read.
\* id numbers the calls, for the history only.
Call == [op : {"append", "emit"}, event : Event, partition : Partition,
         expected : TipHash, id : Nat]

NoCall == [op |-> "append", event |-> None, partition |-> None, expected |-> None, id |-> 0]

Phase ==
  {"idle", "getTip", "connect", "select", "lock", "lookup", "insert", "commit"}

Rejection == {"NonceRequired", "SchemaValidation", "PartitionScopeMismatch"}

Tag == {"none", "Appended", "CASFailed", "DuplicateEvent",
        "EventStoreUnavailable", "defect", "lost"} \union Rejection

\* actual_version is the sequence an append got, or the one CASFailed reports.
Outcome == [tag : Tag, expected_version : Nat, actual_version : Nat]

Origin == [call : Nat, expected : TipHash]

NoOrigin == [call |-> 0, expected |-> None]

TypeOK ==
  /\ event_store \subseteq Row
  /\ pc \in [Worker -> Phase]
  /\ call \in [Worker -> Call \union {NoCall}]
  /\ tip \in [Worker -> TipRow]
  /\ attempt \in [Worker -> 0..MaxRetries]
  /\ outcome \in [Worker -> Outcome]
  /\ calls \in 0..MaxCalls
  /\ origin \in [Event -> Origin]

-----------------------------------------------------------------------------
(* The table and the transactions on it.                                   *)

RowsOf(p) == {r \in event_store : r.partition = p}

\* ORDER BY monotonic_sequence DESC LIMIT 1: the rows it can return.
TipsOf(p) ==
  IF RowsOf(p) = {}
  THEN {NoRow}
  ELSE {[event_id |-> r.event_id, monotonic_sequence |-> r.monotonic_sequence] :
          r \in {q \in RowsOf(p) :
                   \A o \in RowsOf(p) : o.monotonic_sequence <= q.monotonic_sequence}}

\* The row a worker inserts: nextSeq is one past the tip it read.
NewRow(w) == [event_id |-> call[w].event, partition |-> call[w].partition,
              monotonic_sequence |-> tip[w].monotonic_sequence + 1]

\* Primary key event_id, and unique (scope, partition_value, monotonic_sequence).
SameId(r, q) == r.event_id = q.event_id
SameSlot(r, q) ==
  r.partition = q.partition /\ r.monotonic_sequence = q.monotonic_sequence

\* Workers that hold a client of the pool, and those with an open transaction.
Holders == {w \in Worker : pc[w] \in {"select", "lock", "lookup", "insert", "commit"}}
ClientFree == Cardinality(Holders) < PoolSize
InTransaction == {w \in Worker : pc[w] \in {"lock", "insert", "commit"}}

\* Mutant: FOR SHARE, which two transactions hold and neither can write under.
TipShared(w) ==
  \E v \in Worker \ {w} :
    /\ pc[v] \in {"lock", "insert", "commit"}
    /\ tip[w] # NoRow /\ tip[v] = tip[w]

\* Another transaction holds the row lock FOR UPDATE asks for.
TipLocked(w) ==
  \E v \in Worker \ {w} :
    /\ pc[v] \in {"insert", "commit"}
    /\ tip[w] # NoRow /\ tip[v] = tip[w]

\* Another transaction has inserted, and not committed, a conflicting row.
InsertBlocked(w) ==
  \E v \in Worker \ {w} :
    /\ pc[v] = "commit"
    /\ SameId(NewRow(v), NewRow(w)) \/ SameSlot(NewRow(v), NewRow(w))

\* The transaction overlaps another one: the database may answer 40001.
Overlapped(w) ==
  \/ InTransaction \ {w} # {}
  \/ tip[w] \notin TipsOf(call[w].partition)

-----------------------------------------------------------------------------
(* One append.                                                             *)

Answer(w, tag, expectedVersion, actualVersion) ==
  outcome' = [outcome EXCEPT ![w] =
    [tag |-> tag, expected_version |-> expectedVersion, actual_version |-> actualVersion]]

\* Return to the caller; the finally block has released the client.
Return(w, tag, expectedVersion, actualVersion) ==
  /\ Answer(w, tag, expectedVersion, actualVersion)
  /\ pc' = [pc EXCEPT ![w] = "idle"]
  /\ tip' = [tip EXCEPT ![w] = NoRow]
  /\ attempt' = [attempt EXCEPT ![w] = 0]
  /\ UNCHANGED <<call, calls>>

Goto(w, phase) ==
  /\ pc' = [pc EXCEPT ![w] = phase]
  /\ UNCHANGED <<call, attempt, outcome, calls>>

\* The checks made before a transaction is opened, cheapest first.
Precheck(c) ==
  CASE c.partition \in OutOfScope -> "PartitionScopeMismatch"
    [] c.event \in Nonceless      -> "NonceRequired"
    [] c.event \in Forged         -> "SchemaValidation"
    [] OTHER                      -> "none"

\* Open the transaction, or reject the call before there is one.
Admit(w, c) ==
  IF Precheck(c) = "none"
  THEN pc' = [pc EXCEPT ![w] = "connect"] /\ UNCHANGED outcome
  ELSE pc' = [pc EXCEPT ![w] = "idle"] /\ Answer(w, Precheck(c), 0, 0)

Start(w, c) ==
  /\ pc[w] = "idle" /\ calls < MaxCalls
  /\ calls' = calls + 1
  /\ call' = [call EXCEPT ![w] = c]
  /\ UNCHANGED <<event_store, tip, attempt, origin>>

\* contract.append(event, options)
Append(w) ==
  \E e \in Event, p \in Partition, x \in TipHash :
    LET c == [op |-> "append", event |-> e, partition |-> p, expected |-> x,
              id |-> calls + 1]
    IN  Start(w, c) /\ Admit(w, c)

\* port.emit(event) begins with getTip, which refuses a partition out of its scope as
\* append does.
Emit(w) ==
  \E e \in Event, p \in Partition :
    LET c == [op |-> "emit", event |-> e, partition |-> p, expected |-> None,
              id |-> calls + 1]
    IN  /\ Start(w, c)
        /\ IF p \in OutOfScope
           THEN Admit(w, c)
           ELSE pc' = [pc EXCEPT ![w] = "getTip"] /\ UNCHANGED outcome

\* getTip answers, and emit appends on what it read.  Nothing keeps the tip
\* from moving before the append's own transaction reads it again.
GetTip(w) ==
  /\ pc[w] = "getTip" /\ ClientFree
  /\ \E t \in TipsOf(call[w].partition) :
       LET c == [call[w] EXCEPT !.expected = t.event_id]
       IN  call' = [call EXCEPT ![w] = c] /\ Admit(w, c)
  /\ UNCHANGED <<event_store, tip, attempt, calls, origin>>

\* pool.connect() and BEGIN ISOLATION LEVEL SERIALIZABLE.
Connect(w) ==
  /\ pc[w] = "connect" /\ ClientFree
  /\ Goto(w, "select")
  /\ UNCHANGED <<event_store, tip, origin>>

\* SELECT ... FOR UPDATE is the first statement: its snapshot fixes the tip.
SelectTip(w) ==
  /\ pc[w] = "select"
  /\ \E t \in TipsOf(call[w].partition) : tip' = [tip EXCEPT ![w] = t]
  /\ Goto(w, "lock")
  /\ UNCHANGED <<event_store, origin>>

\* Mutant: any caller that expects a non-empty partition passes.
CasHoldsLoosely(w) ==
  call[w].expected = tip[w].event_id \/ (call[w].expected # None /\ tip[w] # NoRow)

\* options.expected_tip_hash = currentTip
CasHolds(w) == call[w].expected = tip[w].event_id

\* The lock is granted, and expected_tip_hash is compared with the tip.  On a
\* mismatch the transaction is rolled back; a caller that named a tip is
\* answered only after that tip's sequence has been looked up.
LockTip(w) ==
  /\ pc[w] = "lock" /\ ~TipLocked(w)
  /\ \/ CasHolds(w) /\ Goto(w, "insert") /\ UNCHANGED tip
     \/ ~CasHolds(w) /\ call[w].expected # None /\ Goto(w, "lookup") /\ UNCHANGED tip
     \/ /\ ~CasHolds(w) /\ call[w].expected = None
        /\ Return(w, "CASFailed", 0, tip[w].monotonic_sequence)
  /\ UNCHANGED <<event_store, origin>>

\* WHERE scope, partition_value and event_id = expected_tip_hash.
ExpectedRows(w) == {r \in RowsOf(call[w].partition) : r.event_id = call[w].expected}

\* The look-up goes through pool.query: it takes a second client while this
\* worker still holds its own.
LookupExpected(w) ==
  /\ pc[w] = "lookup" /\ ClientFree
  /\ IF ExpectedRows(w) = {}
     THEN Return(w, "CASFailed", 0, tip[w].monotonic_sequence)
     ELSE \E r \in ExpectedRows(w) :
            Return(w, "CASFailed", r.monotonic_sequence, tip[w].monotonic_sequence)
  /\ UNCHANGED <<event_store, origin>>

\* Mutant: the retry limit is forgotten.
RetryUnbounded(w) ==
  /\ attempt' = [attempt EXCEPT ![w] = @ + 1]
  /\ tip' = [tip EXCEPT ![w] = NoRow]
  /\ pc' = [pc EXCEPT ![w] = "connect"]
  /\ UNCHANGED <<call, outcome, calls>>

\* attempt += 1; continue.
Retry(w) ==
  /\ attempt[w] < MaxRetries
  /\ attempt' = [attempt EXCEPT ![w] = @ + 1]
  /\ tip' = [tip EXCEPT ![w] = NoRow]
  /\ pc' = [pc EXCEPT ![w] = "connect"]
  /\ UNCHANGED <<call, outcome, calls>>

\* Mutant: the unique index on (partition, sequence) is missing.
SlotTakenUnchecked(w) == FALSE

IdTaken(w) == \E r \in event_store : SameId(r, NewRow(w))
SlotTaken(w) == \E r \in event_store : SameSlot(r, NewRow(w))

\* INSERT.  The primary key is checked before the other index; a taken slot is
\* retried while retries are left, and is a DuplicateEvent when they are not.
Insert(w) ==
  /\ pc[w] = "insert" /\ ~InsertBlocked(w)
  /\ \/ ~IdTaken(w) /\ ~SlotTaken(w) /\ Goto(w, "commit") /\ UNCHANGED tip
     \/ IdTaken(w) /\ Return(w, "DuplicateEvent", 0, 0)
     \/ ~IdTaken(w) /\ SlotTaken(w) /\ Retry(w)
     \/ /\ ~IdTaken(w) /\ SlotTaken(w) /\ attempt[w] >= MaxRetries
        /\ Return(w, "DuplicateEvent", 0, 0)
  /\ UNCHANGED <<event_store, origin>>

\* The row becomes visible to every later snapshot.
MakeDurable(w) ==
  /\ event_store' = event_store \union {NewRow(w)}
  /\ origin' = [origin EXCEPT ![call[w].event] =
       [call |-> call[w].id, expected |-> call[w].expected]]

\* Mutant: a COMMIT that the server turned into a rollback counts as done.
CommitUnchecked(w) ==
  /\ pc[w] = "commit"
  /\ MakeDurable(w) \/ UNCHANGED <<event_store, origin>>
  /\ Return(w, "Appended", 0, NewRow(w).monotonic_sequence)

Commit(w) ==
  /\ pc[w] = "commit"
  /\ MakeDurable(w)
  /\ Return(w, "Appended", 0, NewRow(w).monotonic_sequence)

\* 40001 or 40P01 from a statement or from COMMIT: roll back and start over, or
\* give up when no retry is left.
SerializationFailure(w) ==
  /\ pc[w] \in {"lock", "insert", "commit"} /\ Overlapped(w)
  /\ \/ Retry(w)
     \/ attempt[w] >= MaxRetries /\ Return(w, "EventStoreUnavailable", 0, 0)
  /\ UNCHANGED <<event_store, origin>>

\* getTip wraps its query in Effect.promise: a rejection is a defect.  The
\* append's own catch turns every error into EventStoreUnavailable.
FaultTag(w) == IF pc[w] = "getTip" THEN "defect" ELSE "EventStoreUnavailable"

\* Any other error (connection refused or lost, statement cancelled).  When the
\* connection is lost during COMMIT the transaction may have taken effect.
Fault(w) ==
  /\ pc[w] # "idle"
  /\ \/ UNCHANGED <<event_store, origin>>
     \/ pc[w] = "commit" /\ MakeDurable(w)
  /\ Return(w, FaultTag(w), 0, 0)

\* The process dies: the server aborts the transaction, unless COMMIT was
\* already on its way, and nobody receives an answer.
Crash(w) ==
  /\ pc[w] # "idle"
  /\ \/ UNCHANGED <<event_store, origin>>
     \/ pc[w] = "commit" /\ MakeDurable(w)
  /\ Return(w, "lost", 0, 0)

-----------------------------------------------------------------------------

Init ==
  /\ event_store = {}
  /\ pc = [w \in Worker |-> "idle"]
  /\ call = [w \in Worker |-> NoCall]
  /\ tip = [w \in Worker |-> NoRow]
  /\ attempt = [w \in Worker |-> 0]
  /\ outcome = [w \in Worker |-> [tag |-> "none", expected_version |-> 0, actual_version |-> 0]]
  /\ calls = 0
  /\ origin = [e \in Event |-> NoOrigin]

Progress(w) ==
  \/ GetTip(w) \/ Connect(w) \/ SelectTip(w) \/ LockTip(w) \/ LookupExpected(w)
  \/ Insert(w) \/ Commit(w)

Next == \E w \in Worker :
  \/ Append(w) \/ Emit(w)
  \/ Progress(w)
  \/ SerializationFailure(w) \/ Fault(w) \/ Crash(w)

Spec == Init /\ [][Next]_vars

-----------------------------------------------------------------------------
(* What makes the store correct.                                           *)

\* The partition is one chain: sequences 1, 2, 3, ... without gap or fork, and
\* no event is stored twice, in whatever partition (CL-EventStore-2, -4).
\* Two writers that passed CAS on the same snapshot must not both commit.
Gapless ==
  \A r \in event_store :
    /\ \A q \in event_store : SameId(r, q) \/ SameSlot(r, q) => r = q
    /\ r.monotonic_sequence > 1 =>
         \E q \in RowsOf(r.partition) : q.monotonic_sequence = r.monotonic_sequence - 1

\* CL-EventStore-3 as the chain records it: every event follows exactly the tip
\* its caller named, however the transactions overlapped and were retried.
ChainFollowsClaims ==
  \A r \in event_store :
    LET claimed == origin[r.event_id].expected
    IN  IF r.monotonic_sequence = 1
        THEN claimed = None
        ELSE \E q \in RowsOf(r.partition) :
               /\ q.event_id = claimed
               /\ q.monotonic_sequence = r.monotonic_sequence - 1

\* Appended is durable at the sequence it reports.
AppendedIsDurable(w) ==
  outcome[w].tag = "Appended" =>
    \E r \in event_store :
      /\ r.event_id = call[w].event /\ r.partition = call[w].partition
      /\ r.monotonic_sequence = outcome[w].actual_version
      /\ origin[r.event_id].call = call[w].id

\* A definite refusal means this call stored nothing; only EventStoreUnavailable
\* (and a lost answer) leave the caller in doubt.
RefusalStoredNothing(w) ==
  outcome[w].tag \in {"CASFailed", "DuplicateEvent"} \union Rejection =>
    \A e \in Event : origin[e].call # call[w].id

\* CASFailed never refuses a caller that held the right tip: versions that are
\* equal name a tip the partition does not contain (they are read in different
\* transactions).  And emit, which names the tip itself, loses the compare-and-set
\* only to an append that was committed between its two reads.
ConflictIsReal(w) ==
  outcome[w].tag = "CASFailed" =>
    /\ outcome[w].expected_version = outcome[w].actual_version
         => outcome[w].expected_version = 0
    /\ call[w].op = "emit"
         => \E r \in RowsOf(call[w].partition) : origin[r.event_id].expected = call[w].expected

\* A caller can act on what append and emit answer, whatever was retried, lost or
\* committed by others meanwhile.
AnswerIsTrue ==
  \A w \in Worker : pc[w] = "idle" =>
    AppendedIsDurable(w) /\ RefusalStoredNothing(w) /\ ConflictIsReal(w)

\* What the next statement of a worker waits for is there: a client of the pool, the
\* tip's lock, the end of a transaction with a conflicting row; and a tip to read.
Served(w) ==
  /\ pc[w] \in {"getTip", "connect", "lookup"} => ClientFree
  /\ pc[w] \in {"getTip", "select"} => TipsOf(call[w].partition) # {}
  /\ pc[w] = "lock" => ~TipLocked(w)
  /\ pc[w] = "insert" => ~InsertBlocked(w)

\* Nobody waits in a circle.
SomebodyIsServed ==
  \A w \in Worker : pc[w] # "idle" => \E v \in Worker : pc[v] # "idle" /\ Served(v)

\* The workers never wait for each other in a circle, for clients of the pool, the
\* tip's lock or an insert: one of those in flight can always take its next step,
\* without a database error that would set it free.
NobodyStuck ==
  /\ SomebodyIsServed
  /\ \A w \in Worker : pc[w] # "idle" /\ Served(w) => ENABLED Progress(w)

\* A worker's next statement completes, and what it waits for (a client, the tip
\* lock, a conflicting insert) is handed to the waiters in turn.
Fairness == \A w \in Worker : SF_vars(Progress(w))

FairSpec == Spec /\ Fairness

\* Every append returns: it neither retries for ever nor waits for ever.
EveryCallReturns == \A w \in Worker : pc[w] # "idle" ~> pc[w] = "idle"
=============================================================================
