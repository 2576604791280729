------------------------------ MODULE Progress ------------------------------
(***************************************************************************)
(* The postgres progress port: advanceProgress() of                        *)
(* packages/adapters/src/postgres/progress.ts, run by several workers.     *)
(*                                                                         *)
(* One SERIALIZABLE transaction reads and locks the record, compares its   *)
(* version with version_before and writes the merged record by an upsert   *)
(* that is guarded by the version once more.  FOR UPDATE locks nothing     *)
(* when there is no row yet.  A statement that meets a row the snapshot    *)
(* does not show fails with 40001, and is retried with the transaction.    *)
(*                                                                         *)
(* Callers number the versions one after the other: version_after is       *)
(* version_before + 1, as in the port's conformance suite.                 *)
(***************************************************************************)
EXTENDS Naturals, Sequences, FiniteSets

CONSTANTS
  Worker,     \* concurrent callers of advanceProgress
  Event,      \* ProgressAdvanced events, each one step
  Key,        \* (activity_id, identity_id) pairs
  Unknown,    \* keys whose activity or identity is not in config.known...
  None,
  MaxRetries, \* MAX_RETRIES (8)
  PoolSize,   \* max of the pg Pool
  MaxVersion, \* bound of the model: the largest version_before a caller names
  MaxCalls    \* bound of the model: calls made in all

ASSUME ConstantsOK ==
  /\ None \notin Event /\ Unknown \subseteq Key
  /\ MaxRetries \in Nat /\ PoolSize \in Nat \ {0} /\ MaxVersion \in Nat /\ MaxCalls \in Nat

VARIABLES
  records,  \* committed rows of progress_records
  pc,       \* what each worker does next
  call,     \* the event of its current (or last) call
  stored,   \* the record in its transaction's snapshot
  attempt,  \* retries used
  outcome,  \* what the last call returned
  wrote,    \* history: the last call's transaction took effect
  calls     \* calls started so far

vars == <<records, pc, call, stored, attempt, outcome, wrote, calls>>

-----------------------------------------------------------------------------

Record == [version : Nat, steps_completed : Seq(Event)]

\* No row: storedVersion is 0.
NoRecord == [version |-> 0, steps_completed |-> <<>>]

Call == [event : Event, key : Key, version_before : 0..MaxVersion]
NoCall == [event |-> None, key |-> None, version_before |-> 0]

Tag == {"none", "Advanced", "NotFound", "ConcurrentUpdate", "AdapterUnavailable", "lost"}

\* version is current_version of a ConcurrentUpdate.
Outcome == [tag : Tag, version : Nat]

TypeOK ==
  /\ records \in [Key -> Record]
  /\ pc \in [Worker -> {"idle", "connect", "select", "compare", "upsert", "commit"}]
  /\ call \in [Worker -> Call \union {NoCall}]
  /\ stored \in [Worker -> Record]
  /\ attempt \in [Worker -> 0..MaxRetries]
  /\ outcome \in [Worker -> Outcome]
  /\ wrote \in [Worker -> BOOLEAN]
  /\ calls \in 0..MaxCalls

-----------------------------------------------------------------------------

Holders == {w \in Worker : pc[w] \in {"select", "compare", "upsert", "commit"}}
InTransaction == {w \in Worker : pc[w] \in {"compare", "upsert", "commit"}}

SameKey(v, w) == call[v].key = call[w].key

\* Another transaction holds the row lock, or has inserted the row and not
\* committed it.
RowLocked(w) ==
  \E v \in Worker \ {w} : SameKey(v, w) /\ stored[v] # NoRecord /\ pc[v] \in {"upsert", "commit"}
InsertPending(w) == \E v \in Worker \ {w} : SameKey(v, w) /\ pc[v] = "commit"

\* The row has been written since the snapshot was taken.
Stale(w) == records[call[w].key] # stored[w]

Return(w, tag, version) ==
  /\ outcome' = [outcome EXCEPT ![w] = [tag |-> tag, version |-> version]]
  /\ pc' = [pc EXCEPT ![w] = "idle"]
  /\ stored' = [stored EXCEPT ![w] = NoRecord]
  /\ attempt' = [attempt EXCEPT ![w] = 0]
  /\ UNCHANGED <<call, calls>>

Goto(w, phase) ==
  /\ pc' = [pc EXCEPT ![w] = phase]
  /\ UNCHANGED <<call, attempt, outcome, calls>>

\* advanceProgress(event)
AdvanceProgress(w) ==
  /\ pc[w] = "idle" /\ calls < MaxCalls
  /\ \E c \in Call :
       /\ call' = [call EXCEPT ![w] = c]
       /\ IF c.key \in Unknown
          THEN /\ outcome' = [outcome EXCEPT ![w] = [tag |-> "NotFound", version |-> 0]]
               /\ UNCHANGED pc
          ELSE /\ pc' = [pc EXCEPT ![w] = "connect"]
               /\ UNCHANGED outcome
  /\ wrote' = [wrote EXCEPT ![w] = FALSE]
  /\ calls' = calls + 1
  /\ UNCHANGED <<records, stored, attempt>>

\* pool.connect() and BEGIN ISOLATION LEVEL SERIALIZABLE.
Connect(w) ==
  /\ pc[w] = "connect" /\ Cardinality(Holders) < PoolSize
  /\ Goto(w, "select")
  /\ UNCHANGED <<records, stored, wrote>>

\* SELECT ... FOR UPDATE takes the snapshot; then it waits for the row.
Select(w) ==
  /\ pc[w] = "select"
  /\ stored' = [stored EXCEPT ![w] = records[call[w].key]]
  /\ Goto(w, "compare")
  /\ UNCHANGED <<records, wrote>>

\* Mutant: version_before is not compared; the upsert's guard is relied on.
VersionMatchesAlways(w) == TRUE

\* event.version_before === storedVersion
VersionMatches(w) == call[w].version_before = stored[w].version

\* The lock is granted, of a row nobody has written since.
Compare(w) ==
  /\ pc[w] = "compare" /\ ~RowLocked(w)
  /\ stored[w] # NoRecord => ~Stale(w)
  /\ IF VersionMatches(w)
     THEN Goto(w, "upsert") /\ UNCHANGED stored
     ELSE Return(w, "ConcurrentUpdate", stored[w].version)
  /\ UNCHANGED <<records, wrote>>

\* INSERT ... ON CONFLICT DO UPDATE ... WHERE version = version_before.  No row is
\* changed when the guard fails; the version is then read again.
GuardHolds(w) ==
  records[call[w].key] = NoRecord \/ records[call[w].key].version = call[w].version_before

Upsert(w) ==
  /\ pc[w] = "upsert" /\ ~InsertPending(w) /\ ~Stale(w)
  /\ IF GuardHolds(w)
     THEN Goto(w, "commit") /\ UNCHANGED stored
     ELSE Return(w, "ConcurrentUpdate", records[call[w].key].version)
  /\ UNCHANGED <<records, wrote>>

\* Mutant: the record holds the new steps only.
MergedForgetful(w) == <<call[w].event>>

\* [...storedRecord.steps_completed, ...event.new_step_completions]
Merged(w) == Append(stored[w].steps_completed, call[w].event)

MakeDurable(w) ==
  /\ records' = [records EXCEPT ![call[w].key] =
       [version |-> call[w].version_before + 1, steps_completed |-> Merged(w)]]
  /\ wrote' = [wrote EXCEPT ![w] = TRUE]

Commit(w) ==
  /\ pc[w] = "commit"
  /\ MakeDurable(w)
  /\ Return(w, "Advanced", 0)

\* Mutant: attempt is not advanced.
RetryForever(w) ==
  /\ pc' = [pc EXCEPT ![w] = "connect"]
  /\ stored' = [stored EXCEPT ![w] = NoRecord]
  /\ UNCHANGED <<call, attempt, outcome, calls>>

\* Mutant: the retry limit is forgotten.
RetryUnbounded(w) ==
  /\ attempt' = [attempt EXCEPT ![w] = @ + 1]
  /\ pc' = [pc EXCEPT ![w] = "connect"]
  /\ stored' = [stored EXCEPT ![w] = NoRecord]
  /\ UNCHANGED <<call, outcome, calls>>

Retry(w) ==
  /\ attempt[w] < MaxRetries
  /\ attempt' = [attempt EXCEPT ![w] = @ + 1]
  /\ pc' = [pc EXCEPT ![w] = "connect"]
  /\ stored' = [stored EXCEPT ![w] = NoRecord]
  /\ UNCHANGED <<call, outcome, calls>>

\* 40001 or 40P01 of a transaction that overlaps another one.
SerializationFailure(w) ==
  /\ w \in InTransaction
  /\ InTransaction # {w} \/ Stale(w)
  /\ \/ Retry(w)
     \/ attempt[w] >= MaxRetries /\ Return(w, "AdapterUnavailable", 0)
  /\ UNCHANGED <<records, wrote>>

\* Mutant: an error is reported as a lost race.
FaultTagConcurrent(w) == "ConcurrentUpdate"

FaultTag(w) == "AdapterUnavailable"

\* Any other error, or the end of the process ("lost").  A COMMIT under way may
\* have taken effect.
Fault(w) ==
  /\ pc[w] # "idle"
  /\ \/ UNCHANGED <<records, wrote>>
     \/ pc[w] = "commit" /\ MakeDurable(w)
  /\ \E tag \in {FaultTag(w), "lost"} : Return(w, tag, 0)

-----------------------------------------------------------------------------

Init ==
  /\ records = [k \in Key |-> NoRecord]
  /\ pc = [w \in Worker |-> "idle"]
  /\ call = [w \in Worker |-> NoCall]
  /\ stored = [w \in Worker |-> NoRecord]
  /\ attempt = [w \in Worker |-> 0]
  /\ outcome = [w \in Worker |-> [tag |-> "none", version |-> 0]]
  /\ wrote = [w \in Worker |-> FALSE]
  /\ calls = 0

Step(w) == Connect(w) \/ Select(w) \/ Compare(w) \/ Upsert(w) \/ Commit(w)

Next == \E w \in Worker :
  AdvanceProgress(w) \/ Step(w) \/ SerializationFailure(w) \/ Fault(w)

Spec == Init /\ [][Next]_vars

\* A statement is answered, and a lock or a client is handed to the waiters in turn.
Fairness == \A w \in Worker : SF_vars(Step(w) \/ SerializationFailure(w))

FairSpec == Spec /\ Fairness

-----------------------------------------------------------------------------

\* An advance that was acknowledged stays in the record, at the version it made,
\* whoever advanced the record at the same time - the first advance included,
\* which has no row to lock (defect #21.1).
NoLostAdvance ==
  \A w \in Worker : pc[w] = "idle" /\ outcome[w].tag = "Advanced" =>
    LET r == records[call[w].key] IN
    /\ r.version > call[w].version_before
    /\ \E k \in DOMAIN r.steps_completed :
         k = call[w].version_before + 1 /\ r.steps_completed[k] = call[w].event

\* ConcurrentUpdate is definite: this call wrote nothing, and the version it
\* reports is one the record has had and the caller did not name.
ConflictIsReal ==
  \A w \in Worker : pc[w] = "idle" /\ outcome[w].tag = "ConcurrentUpdate" =>
    /\ ~wrote[w]
    /\ outcome[w].version # call[w].version_before
    /\ outcome[w].version <= records[call[w].key].version

\* Every call returns, whatever it races with.
EveryCallReturns == \A w \in Worker : pc[w] # "idle" ~> pc[w] = "idle"
=============================================================================
