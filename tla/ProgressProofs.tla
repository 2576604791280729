--------------------------- MODULE ProgressProofs ---------------------------
(***************************************************************************)
(* Theorems of Progress, for every number of workers, records and retries: *)
(* an acknowledged advance is never lost, a record moves only from the     *)
(* version its caller named, and a reported conflict is a real one.        *)
(***************************************************************************)
EXTENDS ProgressRefinement, SequenceTheorems, TLAPS

-----------------------------------------------------------------------------
(* Types.                                                                  *)

\* A worker that is under way, or that has an answer, works on a real call.
RealCall(w) == pc[w] # "idle" \/ outcome[w].tag # "none" => call[w] \in Call

TypeInv == TypeOK /\ \A w \in Worker : RealCall(w)

LEMMA NoRecordTyped == NoRecord \in Record
BY EmptySeq DEF NoRecord, Record

LEMMA ReturnTyped ==
  ASSUME TypeInv, NEW w \in Worker, NEW tag \in Tag, NEW version \in Nat,
         Return(w, tag, version), pc[w] # "idle",
         records' \in [Key -> Record], wrote' \in [Worker -> BOOLEAN]
  PROVE  TypeInv'
<1>1. [tag |-> tag, version |-> version] \in Outcome
  BY DEF Outcome
<1>2. TypeOK'
  <2>1. stored' \in [Worker -> Record]
    BY NoRecordTyped DEF TypeInv, TypeOK, Return
  <2>2. attempt' \in [Worker -> 0..MaxRetries] /\ outcome' \in [Worker -> Outcome]
    BY <1>1, ConstantsOK DEF TypeInv, TypeOK, Return
  <2>. QED
    BY <2>1, <2>2 DEF TypeInv, TypeOK, Return
<1>3. ASSUME NEW v \in Worker PROVE RealCall(v)'
  BY DEF TypeInv, TypeOK, RealCall, Return
<1>. QED
  BY <1>2, <1>3 DEF TypeInv

LEMMA GotoTyped ==
  ASSUME TypeInv, NEW w \in Worker, NEW phase \in {"select", "compare", "upsert", "commit"},
         Goto(w, phase), pc[w] # "idle",
         stored' \in [Worker -> Record], UNCHANGED <<records, wrote>>
  PROVE  TypeInv'
BY DEF TypeInv, TypeOK, RealCall, Goto

LEMMA RetryTyped ==
  ASSUME TypeInv, NEW w \in Worker, Retry(w), pc[w] # "idle", UNCHANGED <<records, wrote>>
  PROVE  TypeInv'
BY NoRecordTyped, ConstantsOK DEF TypeInv, TypeOK, RealCall, Retry

\* What COMMIT writes is a record.
LEMMA DurableTyped ==
  ASSUME TypeInv, NEW w \in Worker, pc[w] # "idle", MakeDurable(w)
  PROVE  records' \in [Key -> Record] /\ wrote' \in [Worker -> BOOLEAN]
<1>1. /\ call[w].event \in Event
      /\ call[w].version_before + 1 \in Nat
      /\ stored[w].steps_completed \in Seq(Event)
  BY DEF TypeInv, TypeOK, RealCall, Call, Record
<1>2. Merged(w) \in Seq(Event)
  BY <1>1, AppendProperties DEF Merged
<1>. QED
  BY <1>1, <1>2 DEF MakeDurable, TypeInv, TypeOK, Record

LEMMA TypeInductive == TypeInv /\ [Next]_vars => TypeInv'
<1> SUFFICES ASSUME TypeInv, [Next]_vars PROVE TypeInv'
  OBVIOUS
<1>1. ASSUME NEW w \in Worker, AdvanceProgress(w) PROVE TypeInv'
  <2>1. PICK c \in Call : call' = [call EXCEPT ![w] = c]
    BY <1>1 DEF AdvanceProgress
  <2>2. calls' \in 0..MaxCalls
    BY <1>1, ConstantsOK DEF AdvanceProgress, TypeInv, TypeOK
  <2>3. pc' \in [Worker -> {"idle", "connect", "select", "compare", "upsert", "commit"}]
    BY <1>1 DEF AdvanceProgress, TypeInv, TypeOK
  <2>4. /\ outcome' \in [Worker -> Outcome]
        /\ \A v \in Worker \ {w} : pc'[v] = pc[v] /\ outcome'[v] = outcome[v]
    BY <1>1 DEF AdvanceProgress, TypeInv, TypeOK, Outcome, Tag
  <2>. QED
    BY <1>1, <2>1, <2>2, <2>3, <2>4 DEF AdvanceProgress, TypeInv, TypeOK, RealCall
<1>2. ASSUME NEW w \in Worker, Connect(w) PROVE TypeInv'
  BY <1>2, GotoTyped DEF Connect, TypeInv, TypeOK
<1>3. ASSUME NEW w \in Worker, Select(w) PROVE TypeInv'
  <2>1. records[call[w].key] \in Record
    BY <1>3 DEF Select, TypeInv, TypeOK, RealCall, Call
  <2>. QED
    BY <1>3, <2>1, GotoTyped DEF Select, TypeInv, TypeOK
<1>4. ASSUME NEW w \in Worker, Compare(w) PROVE TypeInv'
  <2>1. stored[w].version \in Nat
    BY DEF TypeInv, TypeOK, Record
  <2>2. "ConcurrentUpdate" \in Tag
    BY DEF Tag
  <2>. QED
    BY <1>4, <2>1, <2>2, GotoTyped, ReturnTyped DEF Compare, TypeInv, TypeOK
<1>5. ASSUME NEW w \in Worker, Upsert(w) PROVE TypeInv'
  <2>1. records[call[w].key].version \in Nat
    BY <1>5 DEF Upsert, TypeInv, TypeOK, RealCall, Call, Record
  <2>2. "ConcurrentUpdate" \in Tag
    BY DEF Tag
  <2>. QED
    BY <1>5, <2>1, <2>2, GotoTyped, ReturnTyped DEF Upsert, TypeInv, TypeOK
<1>6. ASSUME NEW w \in Worker, Commit(w) PROVE TypeInv'
  BY <1>6, DurableTyped, ReturnTyped DEF Commit, Tag
<1>7. ASSUME NEW w \in Worker, SerializationFailure(w) PROVE TypeInv'
  BY <1>7, RetryTyped, ReturnTyped
  DEF SerializationFailure, InTransaction, TypeInv, TypeOK, Tag
<1>8. ASSUME NEW w \in Worker, Fault(w) PROVE TypeInv'
  BY <1>8, DurableTyped, ReturnTyped DEF Fault, FaultTag, TypeInv, TypeOK, Tag
<1>9. CASE UNCHANGED vars
  BY <1>9 DEF vars, TypeInv, TypeOK, RealCall
<1>. QED
  BY <1>1, <1>2, <1>3, <1>4, <1>5, <1>6, <1>7, <1>8, <1>9 DEF Next, Step

-----------------------------------------------------------------------------
(* Safety.                                                                 *)

\* A record at version n consists of n steps.
OneStepPerVersion == \A k \in Key : Len(records[k].steps_completed) = records[k].version

\* A call that is under way has written nothing, and its snapshot is of the past.
\* Past the comparison it is at the version the caller named, past the upsert it
\* is the record itself.
Standing(w) ==
  /\ pc[w] # "idle" => ~wrote[w]
  /\ pc[w] \in {"compare", "upsert", "commit"} =>
       stored[w].version <= records[call[w].key].version
  /\ pc[w] \in {"upsert", "commit"} => VersionMatches(w)
  /\ pc[w] = "commit" => ~Stale(w)

\* What was reported is true.
AdvanceKept(w) ==
  pc[w] = "idle" /\ outcome[w].tag = "Advanced" =>
    /\ records[call[w].key].version > call[w].version_before
    /\ records[call[w].key].steps_completed[call[w].version_before + 1] = call[w].event
ConflictTrue(w) ==
  pc[w] = "idle" /\ outcome[w].tag = "ConcurrentUpdate" =>
    /\ ~wrote[w]
    /\ outcome[w].version # call[w].version_before
    /\ outcome[w].version <= records[call[w].key].version

\* One transaction at a time has an uncommitted row of a record.
OneWriter ==
  \A v, w \in Worker : v # w /\ pc[v] = "commit" /\ pc[w] = "commit" => ~SameKey(v, w)

Part(w) == Standing(w) /\ AdvanceKept(w) /\ ConflictTrue(w)

SafetyInv == OneStepPerVersion /\ OneWriter /\ \A w \in Worker : Part(w)

\* A worker that a step of w leaves alone.
Undisturbed(v) ==
  /\ pc'[v] = pc[v] /\ call'[v] = call[v] /\ stored'[v] = stored[v]
  /\ outcome'[v] = outcome[v] /\ wrote'[v] = wrote[v]

\* A step of w that writes no record and does not take it to COMMIT.
LEMMA LocalKeeps ==
  ASSUME SafetyInv, NEW w \in Worker, UNCHANGED records, Part(w)', pc'[w] # "commit",
         \A v \in Worker \ {w} : Undisturbed(v)
  PROVE  SafetyInv'
<1>1. OneStepPerVersion'
  BY DEF SafetyInv, OneStepPerVersion
<1>2. OneWriter'
  BY DEF SafetyInv, OneWriter, SameKey, Undisturbed
<1>3. ASSUME NEW v \in Worker \ {w} PROVE Part(v)'
  BY <1>3 DEF SafetyInv, Part, Standing, AdvanceKept, ConflictTrue, VersionMatches, Stale,
              Undisturbed
<1>. QED
  BY <1>1, <1>2, <1>3 DEF SafetyInv

\* A return that reports neither an advance nor a conflict.
LEMMA OtherReturnKeeps ==
  ASSUME TypeInv, SafetyInv, NEW w \in Worker, NEW tag, NEW version,
         Return(w, tag, version), tag \notin {"Advanced", "ConcurrentUpdate"},
         UNCHANGED <<records, wrote>>
  PROVE  SafetyInv'
<1>1. Part(w)'
  BY DEF Return, Part, Standing, AdvanceKept, ConflictTrue, TypeInv, TypeOK
<1>2. \A v \in Worker \ {w} : Undisturbed(v)
  BY DEF Return, Undisturbed, TypeInv, TypeOK
<1>. QED
  BY <1>1, <1>2, LocalKeeps DEF Return, TypeInv, TypeOK

\* A conflict is reported of a version the record has had.
LEMMA ConflictReturnKeeps ==
  ASSUME TypeInv, SafetyInv, NEW w \in Worker, NEW version, pc[w] # "idle",
         Return(w, "ConcurrentUpdate", version), UNCHANGED <<records, wrote>>,
         version # call[w].version_before, version <= records[call[w].key].version
  PROVE  SafetyInv'
<1>1. Part(w)'
  BY DEF Return, Part, Standing, AdvanceKept, ConflictTrue, TypeInv, TypeOK, SafetyInv
<1>2. \A v \in Worker \ {w} : Undisturbed(v)
  BY DEF Return, Undisturbed, TypeInv, TypeOK
<1>. QED
  BY <1>1, <1>2, LocalKeeps DEF Return, TypeInv, TypeOK

LEMMA RetryKeeps ==
  ASSUME TypeInv, SafetyInv, NEW w \in Worker, Retry(w), pc[w] # "idle",
         UNCHANGED <<records, wrote>>
  PROVE  SafetyInv'
<1>1. Part(w)'
  BY DEF Retry, Part, Standing, AdvanceKept, ConflictTrue, TypeInv, TypeOK, SafetyInv
<1>2. \A v \in Worker \ {w} : Undisturbed(v)
  BY DEF Retry, Undisturbed, TypeInv, TypeOK
<1>. QED
  BY <1>1, <1>2, LocalKeeps DEF Retry, TypeInv, TypeOK

-----------------------------------------------------------------------------
(* COMMIT.                                                                 *)

\* The transaction that commits adds its step to the record as it stands.
LEMMA DurableAppends ==
  ASSUME TypeInv, SafetyInv, NEW w \in Worker, pc[w] = "commit", MakeDurable(w)
  PROVE  /\ call[w] \in Call
         /\ call[w].version_before = records[call[w].key].version
         /\ records' = [records EXCEPT ![call[w].key] =
              [version |-> records[call[w].key].version + 1,
               steps_completed |-> Append(records[call[w].key].steps_completed, call[w].event)]]
BY DEF TypeInv, RealCall, SafetyInv, Part, Standing, Stale, VersionMatches, MakeDurable, Merged

\* What that leaves of a record's past.
Grown(k) ==
  /\ records[k].version <= records'[k].version
  /\ \A i \in 1..records[k].version :
       records'[k].steps_completed[i] = records[k].steps_completed[i]

LEMMA DurableGrows ==
  ASSUME TypeInv, SafetyInv, NEW w \in Worker, pc[w] = "commit", MakeDurable(w)
  PROVE  /\ OneStepPerVersion'
         /\ \A k \in Key : Grown(k)
         /\ records'[call[w].key].version = call[w].version_before + 1
         /\ records'[call[w].key].steps_completed[call[w].version_before + 1] = call[w].event
<1>. DEFINE key == call[w].key
            old == records[key]
            new == [version |-> old.version + 1,
                    steps_completed |-> Append(old.steps_completed, call[w].event)]
<1>1. /\ call[w] \in Call /\ call[w].version_before = old.version
      /\ records' = [records EXCEPT ![key] = new]
  BY DurableAppends
<1>2. /\ key \in Key /\ call[w].event \in Event /\ old \in Record
      /\ Len(old.steps_completed) = old.version
      /\ \A k \in Key : records[k] \in Record
  BY <1>1 DEF Call, TypeInv, TypeOK, SafetyInv, OneStepPerVersion
<1>3. /\ Len(new.steps_completed) = Len(old.steps_completed) + 1
      /\ \A i \in 1..Len(old.steps_completed) :
           new.steps_completed[i] = old.steps_completed[i]
      /\ new.steps_completed[Len(old.steps_completed) + 1] = call[w].event
  BY <1>2, AppendProperties DEF Record
<1>4. records'[key] = new /\ \A k \in Key \ {key} : records'[k] = records[k]
  BY <1>1, <1>2 DEF TypeInv, TypeOK
<1>. HIDE DEF old
<1>5. new.version = old.version + 1
  OBVIOUS
<1>6. OneStepPerVersion'
  BY <1>2, <1>3, <1>4, <1>5 DEF OneStepPerVersion, SafetyInv
<1>7. ASSUME NEW k \in Key PROVE Grown(k)
  <2>1. CASE k = key
    <3>1. old.version \in Nat
      BY <1>2 DEF Record
    <3>2. records[k] = old /\ records'[k] = new
      BY <1>4, <2>1 DEF old
    <3>. QED
      BY <1>2, <1>3, <1>5, <3>1, <3>2 DEF Grown
  <2>2. CASE k # key
    BY <1>2, <1>4, <2>2 DEF Grown, Record
  <2>. QED
    BY <2>1, <2>2
<1>. QED
  BY <1>1, <1>2, <1>3, <1>4, <1>5, <1>6, <1>7

\* The answers given before remain true, and transactions on the record are behind
\* it from now on.
LEMMA DurableKeeps ==
  ASSUME TypeInv, SafetyInv, NEW w \in Worker, pc[w] = "commit", MakeDurable(w),
         NEW tag, NEW version, Return(w, tag, version), tag # "ConcurrentUpdate"
  PROVE  SafetyInv'
<1>1. /\ OneStepPerVersion' /\ \A k \in Key : Grown(k)
      /\ records'[call[w].key].version = call[w].version_before + 1
      /\ records'[call[w].key].steps_completed[call[w].version_before + 1] = call[w].event
  BY DurableGrows
<1>2. /\ pc' = [pc EXCEPT ![w] = "idle"] /\ UNCHANGED call
      /\ pc'[w] = "idle" /\ outcome'[w] = [tag |-> tag, version |-> version]
  BY DEF Return, TypeInv, TypeOK
<1>3. \A v \in Worker \ {w} : Undisturbed(v)
  BY DEF Return, MakeDurable, Undisturbed, TypeInv, TypeOK
<1>4. OneWriter'
  BY <1>2 DEF SafetyInv, OneWriter, SameKey, TypeInv, TypeOK
<1>5. Part(w)'
  <2>1. call[w] \in Call
    BY DurableAppends
  <2>2. call[w].version_before \in Nat
    BY <2>1, ConstantsOK DEF Call
  <2>. QED
    BY <1>1, <1>2, <2>2 DEF Part, Standing, AdvanceKept, ConflictTrue
<1>6. ASSUME NEW v \in Worker \ {w} PROVE Part(v)'
  <2>1. Undisturbed(v) /\ Part(v) /\ RealCall(v) /\ stored[v].version \in Nat
        /\ outcome[v].version \in Nat
    BY <1>3 DEF SafetyInv, TypeInv, TypeOK, Record, Outcome
  <2>2. CASE call[v] \in Call
    <3>. DEFINE k == call[v].key
    <3>1. /\ k \in Key /\ Grown(k) /\ call[v].version_before \in Nat
          /\ records[k].version \in Nat /\ records'[k].version \in Nat
      <4>1. k \in Key /\ call[v].version_before \in Nat
        BY <2>2, ConstantsOK DEF Call
      <4>2. records'[k] \in Record /\ records[k] \in Record
        BY <4>1, DurableTyped DEF TypeInv, TypeOK
      <4>. QED
        BY <1>1, <4>1, <4>2 DEF Record
    <3>2. Standing(v)'
      <4>1. ASSUME pc[v] = "commit" PROVE ~Stale(v)'
        <5>1. k # call[w].key
          BY <4>1 DEF SafetyInv, OneWriter, SameKey
        <5>2. records'[k] = records[k]
          BY <5>1, <3>1, DurableAppends DEF TypeInv, TypeOK
        <5>. QED
          BY <4>1, <5>2, <2>1 DEF Part, Standing, Stale, Undisturbed
      <4>. QED
        BY <2>1, <3>1, <4>1 DEF Part, Standing, VersionMatches, Undisturbed, Grown
    <3>3. AdvanceKept(v)'
      BY <2>1, <3>1 DEF Part, AdvanceKept, Undisturbed, Grown
    <3>4. ConflictTrue(v)'
      BY <2>1, <3>1 DEF Part, ConflictTrue, Undisturbed, Grown
    <3>. QED
      BY <3>2, <3>3, <3>4 DEF Part
  <2>3. CASE call[v] \notin Call
    BY <2>1, <2>3 DEF RealCall, Part, Standing, AdvanceKept, ConflictTrue, Undisturbed
  <2>. QED
    BY <2>2, <2>3
<1>. QED
  BY <1>1, <1>4, <1>5, <1>6 DEF SafetyInv

-----------------------------------------------------------------------------

\* The upsert waits for the uncommitted row of another transaction and fails on a row
\* that has changed, so of two callers that read the same version one reaches COMMIT,
\* whether or not the record had a row for FOR UPDATE to lock.
LEMMA UpsertKeeps ==
  ASSUME TypeInv, SafetyInv, NEW w \in Worker, Upsert(w)
  PROVE  SafetyInv'
<1>1. call[w] \in Call /\ VersionMatches(w) /\ stored[w].version \in Nat
  BY DEF Upsert, TypeInv, TypeOK, RealCall, Record, SafetyInv, Part, Standing
<1>2. stored[w] = records[call[w].key]
  BY DEF Upsert, Stale
<1>3. CASE Goto(w, "commit") /\ UNCHANGED stored
  <2>1. \A v \in Worker \ {w} : Undisturbed(v)
    BY <1>3 DEF Upsert, Goto, Undisturbed, TypeInv, TypeOK
  <2>2. pc'[w] = "commit"
    BY <1>3 DEF Goto, TypeInv, TypeOK
  <2>3. Part(w)'
    BY <1>1, <1>2, <1>3, <2>2
    DEF Upsert, Goto, Part, Standing, AdvanceKept, ConflictTrue, VersionMatches, Stale, SafetyInv
  <2>4. OneWriter'
    BY <1>3, <2>1 DEF Upsert, Goto, InsertPending, OneWriter, SameKey, Undisturbed, SafetyInv
  <2>5. ASSUME NEW v \in Worker \ {w} PROVE Part(v)'
    BY <2>1, <2>5 DEF Upsert, SafetyInv, Part, Standing, AdvanceKept, ConflictTrue,
                      VersionMatches, Stale, Undisturbed
  <2>. QED
    BY <2>3, <2>4, <2>5 DEF Upsert, SafetyInv, OneStepPerVersion
<1>4. CASE ~GuardHolds(w) /\ Return(w, "ConcurrentUpdate", records[call[w].key].version)
  BY <1>1, <1>2, <1>4, ConflictReturnKeeps DEF Upsert, GuardHolds
<1>. QED
  BY <1>3, <1>4 DEF Upsert

LEMMA SafetyInductive == TypeInv /\ SafetyInv /\ [Next]_vars => SafetyInv'
<1> SUFFICES ASSUME TypeInv, SafetyInv, [Next]_vars PROVE SafetyInv'
  OBVIOUS
<1>1. ASSUME NEW w \in Worker, AdvanceProgress(w) PROVE SafetyInv'
  <2>1. /\ UNCHANGED <<records, stored>> /\ wrote'[w] = FALSE
        /\ \/ pc'[w] = "connect"
           \/ pc'[w] = "idle" /\ outcome'[w].tag = "NotFound"
    BY <1>1 DEF AdvanceProgress, TypeInv, TypeOK
  <2>2. \A v \in Worker \ {w} : Undisturbed(v)
    BY <1>1 DEF AdvanceProgress, Undisturbed, TypeInv, TypeOK
  <2>3. Part(w)'
    BY <2>1 DEF Part, Standing, AdvanceKept, ConflictTrue
  <2>. QED
    BY <2>1, <2>2, <2>3, LocalKeeps
<1>2. ASSUME NEW w \in Worker, Connect(w) PROVE SafetyInv'
  <2>1. Part(w)' /\ pc'[w] # "commit" /\ \A v \in Worker \ {w} : Undisturbed(v)
    BY <1>2 DEF Connect, Goto, Part, Standing, AdvanceKept, ConflictTrue, Undisturbed,
                SafetyInv, TypeInv, TypeOK
  <2>. QED
    BY <1>2, <2>1, LocalKeeps DEF Connect
<1>3. ASSUME NEW w \in Worker, Select(w) PROVE SafetyInv'
  <2>1. call[w] \in Call /\ records[call[w].key].version \in Nat
    BY <1>3 DEF Select, TypeInv, TypeOK, RealCall, Call, Record
  <2>2. stored'[w] = records[call[w].key] /\ pc'[w] = "compare"
        /\ UNCHANGED <<records, wrote, call>>
    BY <1>3 DEF Select, Goto, TypeInv, TypeOK
  <2>3. Part(w)'
    BY <1>3, <2>1, <2>2 DEF Select, Part, Standing, AdvanceKept, ConflictTrue, SafetyInv
  <2>4. \A v \in Worker \ {w} : Undisturbed(v)
    BY <1>3 DEF Select, Goto, Undisturbed, TypeInv, TypeOK
  <2>. QED
    BY <2>2, <2>3, <2>4, LocalKeeps
<1>4. ASSUME NEW w \in Worker, Compare(w) PROVE SafetyInv'
  <2>1. CASE VersionMatches(w) /\ Goto(w, "upsert") /\ UNCHANGED stored
    <3>1. Part(w)' /\ pc'[w] # "commit" /\ \A v \in Worker \ {w} : Undisturbed(v)
      BY <1>4, <2>1 DEF Compare, Goto, Part, Standing, AdvanceKept, ConflictTrue,
                        VersionMatches, Undisturbed, SafetyInv, TypeInv, TypeOK
    <3>. QED
      BY <1>4, <3>1, LocalKeeps DEF Compare
  <2>2. CASE ~VersionMatches(w) /\ Return(w, "ConcurrentUpdate", stored[w].version)
    <3>1. stored[w].version <= records[call[w].key].version
      BY <1>4 DEF Compare, SafetyInv, Part, Standing
    <3>. QED
      BY <1>4, <2>2, <3>1, ConflictReturnKeeps DEF Compare, VersionMatches
  <2>. QED
    BY <1>4, <2>1, <2>2 DEF Compare
<1>5. ASSUME NEW w \in Worker, Commit(w) PROVE SafetyInv'
  BY <1>5, DurableKeeps DEF Commit
<1>6. ASSUME NEW w \in Worker, SerializationFailure(w) PROVE SafetyInv'
  BY <1>6, RetryKeeps, OtherReturnKeeps DEF SerializationFailure, InTransaction
<1>7. ASSUME NEW w \in Worker, Fault(w) PROVE SafetyInv'
  BY <1>7, DurableKeeps, OtherReturnKeeps DEF Fault, FaultTag
<1>8. CASE UNCHANGED vars
  BY <1>8 DEF vars, SafetyInv, OneStepPerVersion, OneWriter, SameKey, Part, Standing,
              AdvanceKept, ConflictTrue, VersionMatches, Stale
<1>. QED
  BY <1>1, <1>2, <1>3, <1>4, <1>5, <1>6, <1>7, <1>8, UpsertKeeps DEF Next, Step

LEMMA SafetyInvariant == Spec => [](TypeInv /\ SafetyInv)
<1>1. Init => TypeInv /\ SafetyInv
  <2>1. Init => TypeInv
    BY NoRecordTyped, ConstantsOK DEF Init, TypeInv, TypeOK, RealCall, Outcome, Tag
  <2>2. Init => OneStepPerVersion
    BY EmptySeq DEF Init, OneStepPerVersion, NoRecord
  <2>. QED
    BY <2>1, <2>2 DEF Init, SafetyInv, OneWriter, Part, Standing, AdvanceKept, ConflictTrue
<1>. QED
  BY <1>1, TypeInductive, SafetyInductive, PTL DEF Spec

-----------------------------------------------------------------------------

\* Every state is well typed: in particular no advance is retried more often than
\* maxSerializationRetries allows, and every version and step list is one a record can have.
THEOREM TypeCorrect == Spec => []TypeOK
<1>1. TypeInv => TypeOK
  BY DEF TypeInv
<1>. QED
  BY <1>1, SafetyInvariant, PTL

\* An acknowledged advance stays in the record, at the version it made: for any
\* number of callers, and for the first advance as for every later one.
THEOREM AdvanceNeverLost == Spec => []NoLostAdvance
<1>1. ASSUME TypeInv, SafetyInv, NEW w \in Worker, pc[w] = "idle", outcome[w].tag = "Advanced"
      PROVE  LET r == records[call[w].key] IN
             /\ r.version > call[w].version_before
             /\ \E k \in DOMAIN r.steps_completed :
                  k = call[w].version_before + 1 /\ r.steps_completed[k] = call[w].event
  <2>. DEFINE r == records[call[w].key]
  <2>1. call[w] \in Call
    BY <1>1 DEF TypeInv, RealCall
  <2>2. /\ r \in Record /\ Len(r.steps_completed) = r.version
        /\ call[w].version_before \in Nat
    BY <2>1, <1>1, ConstantsOK DEF Call, TypeInv, TypeOK, SafetyInv, OneStepPerVersion
  <2>3. /\ r.version > call[w].version_before
        /\ r.steps_completed[call[w].version_before + 1] = call[w].event
    BY <1>1 DEF SafetyInv, Part, AdvanceKept
  <2>4. DOMAIN r.steps_completed = 1..r.version /\ r.version \in Nat
    BY <2>2, LenProperties DEF Record
  <2>5. call[w].version_before + 1 \in DOMAIN r.steps_completed
    BY <2>2, <2>3, <2>4
  <2>. QED
    BY <2>3, <2>5
<1>2. TypeInv /\ SafetyInv => NoLostAdvance
  BY <1>1 DEF NoLostAdvance
<1>. QED
  BY <1>2, SafetyInvariant, PTL

\* A reported conflict is definite: the call wrote nothing, and the record had moved
\* away from the version it named.
THEOREM ConflictsAreReal == Spec => []ConflictIsReal
<1>1. SafetyInv => ConflictIsReal
  BY DEF SafetyInv, Part, ConflictTrue, ConflictIsReal
<1>. QED
  BY <1>1, SafetyInvariant, PTL

\* Every step of a transaction is one step of the reference port, or none.
Mapped == Promise!PromiseNext \/ UNCHANGED Promise!promiseVars

\* A step of w that leaves the records alone and does not return.
LEMMA WithinStutters ==
  ASSUME TypeInv, NEW w \in Worker, NEW phase, pc[w] # "idle", phase # "idle",
         pc' = [pc EXCEPT ![w] = phase], UNCHANGED <<records, call, outcome>>
  PROVE  Mapped
<1>1. [v \in Worker |-> pc[v] # "idle"]' = [v \in Worker |-> pc[v] # "idle"]
  BY DEF TypeInv, TypeOK
<1>. QED
  BY <1>1 DEF Mapped, Promise!promiseVars

\* A return is an answer.
LEMMA ReturnAnswers ==
  ASSUME TypeInv, NEW w \in Worker, NEW tag, NEW version, Return(w, tag, version)
  PROVE  Promise!Answered(w, tag, version)
<1>1. [v \in Worker |-> pc[v] # "idle"]'
        = [[v \in Worker |-> pc[v] # "idle"] EXCEPT ![w] = FALSE]
  BY DEF Return, TypeInv, TypeOK
<1>. QED
  BY <1>1 DEF Promise!Answered, Return

\* One that reports a failure.
LEMMA FailureMapped ==
  ASSUME TypeInv, NEW w \in Worker, NEW tag \in {"AdapterUnavailable", "lost"},
         Return(w, tag, 0), pc[w] # "idle", UNCHANGED records
  PROVE  Mapped
<1>1. [v \in Worker |-> pc[v] # "idle"][w]
  OBVIOUS
<1>2. Promise!Unavailable(w)
  BY <1>1, ReturnAnswers DEF Promise!Unavailable
<1>. QED
  BY <1>2 DEF Mapped, Promise!PromiseNext

\* One that reports a conflict, of a version the record has had.
LEMMA ConflictMapped ==
  ASSUME TypeInv, NEW w \in Worker, NEW version \in 0 .. records[call[w].key].version,
         Return(w, "ConcurrentUpdate", version), version # call[w].version_before,
         pc[w] # "idle", UNCHANGED records
  PROVE  Mapped
<1>1. [v \in Worker |-> pc[v] # "idle"][w]
  OBVIOUS
<1>2. Promise!ConcurrentUpdate(w)
  BY <1>1, ReturnAnswers DEF Promise!ConcurrentUpdate
<1>. QED
  BY <1>2 DEF Mapped, Promise!PromiseNext

\* COMMIT is the advance, whether its answer arrives or not.
LEMMA DurableMapped ==
  ASSUME TypeInv, SafetyInv, NEW w \in Worker, pc[w] = "commit", MakeDurable(w),
         NEW tag \in {"Advanced", "AdapterUnavailable", "lost"}, Return(w, tag, 0)
  PROVE  Mapped
<1>1. [v \in Worker |-> pc[v] # "idle"][w]
  OBVIOUS
<1>2. /\ call[w].version_before = records[call[w].key].version
      /\ records' = [records EXCEPT ![call[w].key] = Promise!nextRecord(call[w])]
  BY DurableAppends DEF Promise!nextRecord
<1>3. Promise!Advance(w)
  BY <1>1, <1>2, ReturnAnswers DEF Promise!Advance
<1>. QED
  BY <1>3 DEF Mapped, Promise!PromiseNext

LEMMA CallMapped ==
  ASSUME TypeInv, NEW w \in Worker, AdvanceProgress(w)
  PROVE  Mapped
<1>. DEFINE busy == [v \in Worker |-> pc[v] # "idle"]
<1>1. PICK c \in Call :
        /\ call' = [call EXCEPT ![w] = c]
        /\ IF c.key \in Unknown
           THEN /\ outcome' = [outcome EXCEPT ![w] = [tag |-> "NotFound", version |-> 0]]
                /\ UNCHANGED pc
           ELSE /\ pc' = [pc EXCEPT ![w] = "connect"]
                /\ UNCHANGED outcome
  BY DEF AdvanceProgress
<1>2. c \in Promise!ProgressAdvanced
  BY DEF Call, Promise!ProgressAdvanced
<1>3. ~busy[w] /\ UNCHANGED records
  BY DEF AdvanceProgress
<1>4. CASE c.key \in Unknown
  <2>1. UNCHANGED busy
    BY <1>1, <1>4
  <2>2. Promise!NotFound(w)
    BY <1>1, <1>2, <1>3, <1>4, <2>1 DEF Promise!NotFound
  <2>. QED
    BY <2>2 DEF Mapped, Promise!PromiseNext
<1>5. CASE c.key \notin Unknown
  <2>1. busy' = [busy EXCEPT ![w] = TRUE]
    BY <1>1, <1>5 DEF TypeInv, TypeOK
  <2>2. Promise!Invoke(w)
    BY <1>1, <1>2, <1>3, <1>5, <2>1 DEF Promise!Invoke
  <2>. QED
    BY <2>2 DEF Mapped, Promise!PromiseNext
<1>. QED
  BY <1>4, <1>5

LEMMA StepMapped == TypeInv /\ SafetyInv /\ [Next]_vars => Mapped
<1> SUFFICES ASSUME TypeInv, SafetyInv, [Next]_vars PROVE Mapped
  OBVIOUS
<1>1. ASSUME NEW w \in Worker, AdvanceProgress(w) PROVE Mapped
  BY <1>1, CallMapped
<1>2. ASSUME NEW w \in Worker, Connect(w) \/ Select(w) PROVE Mapped
  BY <1>2, WithinStutters DEF Connect, Select, Goto
<1>3. ASSUME NEW w \in Worker, Compare(w) PROVE Mapped
  <2>1. CASE VersionMatches(w) /\ Goto(w, "upsert")
    BY <1>3, <2>1, WithinStutters DEF Compare, Goto
  <2>2. CASE ~VersionMatches(w) /\ Return(w, "ConcurrentUpdate", stored[w].version)
    <3>1. /\ stored[w].version \in Nat /\ records[call[w].key].version \in Nat
          /\ stored[w].version <= records[call[w].key].version
      BY <1>3 DEF Compare, TypeInv, TypeOK, RealCall, Call, Record, SafetyInv, Part, Standing
    <3>2. stored[w].version \in 0 .. records[call[w].key].version
      BY <3>1
    <3>. QED
      BY <1>3, <2>2, <3>2, ConflictMapped DEF Compare, VersionMatches
  <2>. QED
    BY <1>3, <2>1, <2>2 DEF Compare
<1>4. ASSUME NEW w \in Worker, Upsert(w) PROVE Mapped
  <2>1. CASE GuardHolds(w) /\ Goto(w, "commit")
    BY <1>4, <2>1, WithinStutters DEF Upsert, Goto
  <2>2. CASE ~GuardHolds(w) /\ Return(w, "ConcurrentUpdate", records[call[w].key].version)
    <3>1. records[call[w].key].version \in Nat
      BY <1>4 DEF Upsert, TypeInv, TypeOK, RealCall, Call, Record
    <3>2. records[call[w].key].version \in 0 .. records[call[w].key].version
      BY <3>1
    <3>. QED
      BY <1>4, <2>2, <3>2, ConflictMapped DEF Upsert, GuardHolds
  <2>. QED
    BY <1>4, <2>1, <2>2 DEF Upsert
<1>5. ASSUME NEW w \in Worker, Commit(w) PROVE Mapped
  BY <1>5, DurableMapped DEF Commit
<1>6. ASSUME NEW w \in Worker, SerializationFailure(w) PROVE Mapped
  BY <1>6, WithinStutters, FailureMapped DEF SerializationFailure, InTransaction, Retry
<1>7. ASSUME NEW w \in Worker, Fault(w) PROVE Mapped
  BY <1>7, DurableMapped, FailureMapped DEF Fault, FaultTag
<1>8. CASE UNCHANGED vars
  BY <1>8 DEF vars, Mapped, Promise!promiseVars
<1>. QED
  BY <1>1, <1>2, <1>3, <1>4, <1>5, <1>6, <1>7, <1>8 DEF Next, Step

\* The port implements the reference one, for any number of callers, records and
\* retries: a record only moves from the version its caller named, by that caller's
\* step and in one step, and every answer is one the reference could have given.
THEOREM ImplementsReference == Spec => ImplementsPromise
<1>1. Init => Promise!PromiseInit
  BY DEF Init, Promise!PromiseInit, NoRecord, NoCall, Promise!NotStarted
<1>2. TypeInv /\ SafetyInv /\ [Next]_vars => [Promise!PromiseNext]_(Promise!promiseVars)
  BY StepMapped DEF Mapped
<1>. QED
  BY <1>1, <1>2, SafetyInvariant, PTL DEF Spec, ImplementsPromise, Promise!PromiseSpec
=============================================================================
