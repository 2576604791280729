-------------------------- MODULE EventStoreProofs --------------------------
(***************************************************************************)
(* Theorems of EventStore, for every set of workers, events and            *)
(* partitions, every retry budget and every pool size.                     *)
(***************************************************************************)
EXTENDS EventStoreRefinement, FiniteSetTheorems, WellFoundedInduction, TLAPS

\* A worker that is not idle works on a call somebody made.
ActiveCall == \A w \in Worker : pc[w] # "idle" => call[w] \in Call

\* The tip a transaction works from is a row of the table, or the partition was
\* empty in its snapshot; past the comparison it is the tip the caller named.
TipFromTable(w) ==
  tip[w] = NoRow \/ \E r \in RowsOf(call[w].partition) :
                      /\ r.event_id = tip[w].event_id
                      /\ r.monotonic_sequence = tip[w].monotonic_sequence

TxnInv ==
  \A w \in Worker :
    /\ pc[w] \in {"lock", "lookup", "insert", "commit"} => TipFromTable(w)
    /\ pc[w] \in {"insert", "commit"} => CasHolds(w)

\* A row inserted and not yet committed conflicts neither with a committed row
\* nor with the uncommitted row of another worker.
PendingInv ==
  \A w \in Worker : pc[w] = "commit" =>
    /\ ~IdTaken(w) /\ ~SlotTaken(w)
    /\ \A v \in Worker \ {w} : pc[v] = "commit" =>
         ~SameId(NewRow(v), NewRow(w)) /\ ~SameSlot(NewRow(v), NewRow(w))

ChainInv == Gapless /\ ChainFollowsClaims

-----------------------------------------------------------------------------

\* What returning does, whatever the answer is.
LEMMA ReturnEffect ==
  ASSUME TypeOK, ActiveCall, NEW w \in Worker, NEW t \in Tag, NEW x \in Nat, NEW y \in Nat,
         Return(w, t, x, y)
  PROVE  /\ pc' = [pc EXCEPT ![w] = "idle"] /\ call' = call /\ calls' = calls
         /\ tip' = [tip EXCEPT ![w] = NoRow] /\ attempt' = [attempt EXCEPT ![w] = 0]
         /\ outcome' \in [Worker -> Outcome]
<1>1. [tag |-> t, expected_version |-> x, actual_version |-> y] \in Outcome
  BY DEF Outcome
<1>2. outcome' \in [Worker -> Outcome]
  BY <1>1 DEF Return, Answer, TypeOK
<1>. QED
  BY <1>2 DEF Return

\* Preservation of the types by the variables of the workers.
LEMMA ReturnTyped ==
  ASSUME TypeOK, ActiveCall, NEW w \in Worker, NEW t \in Tag, NEW x \in Nat, NEW y \in Nat,
         Return(w, t, x, y), event_store' \subseteq Row, origin' \in [Event -> Origin]
  PROVE  TypeOK' /\ ActiveCall'
<1>1. /\ pc' = [pc EXCEPT ![w] = "idle"] /\ call' = call /\ calls' = calls
      /\ tip' = [tip EXCEPT ![w] = NoRow] /\ attempt' = [attempt EXCEPT ![w] = 0]
      /\ outcome' \in [Worker -> Outcome]
  BY ReturnEffect
<1>2. NoRow \in TipRow /\ 0 \in 0..MaxRetries /\ "idle" \in Phase
  BY ConstantsOK DEF NoRow, TipRow, TipHash, Phase
<1>3. /\ pc' \in [Worker -> Phase] /\ tip' \in [Worker -> TipRow]
      /\ attempt' \in [Worker -> 0..MaxRetries]
  BY <1>1, <1>2 DEF TypeOK
<1>. QED
  BY <1>1, <1>3 DEF TypeOK, ActiveCall

LEMMA RetryTyped ==
  ASSUME TypeOK, ActiveCall, NEW w \in Worker, pc[w] # "idle", Retry(w),
         UNCHANGED <<event_store, origin>>
  PROVE  TypeOK' /\ ActiveCall'
BY ConstantsOK DEF Retry, TypeOK, ActiveCall, NoRow, TipRow, TipHash, Phase

LEMMA GotoTyped ==
  ASSUME TypeOK, ActiveCall, NEW w \in Worker, NEW phase \in Phase, pc[w] # "idle",
         Goto(w, phase), tip' \in [Worker -> TipRow], UNCHANGED <<event_store, origin>>
  PROVE  TypeOK' /\ ActiveCall'
BY DEF Goto, TypeOK, ActiveCall

LEMMA AdmitEffect ==
  ASSUME TypeOK, NEW w \in Worker, NEW c, Admit(w, c)
  PROVE  /\ \/ pc' = [pc EXCEPT ![w] = "connect"] /\ outcome' = outcome
            \/ pc' = [pc EXCEPT ![w] = "idle"]
         /\ outcome' \in [Worker -> Outcome]
<1>1. Precheck(c) \in Tag
  BY DEF Precheck, Tag, Rejection
<1>. QED
  BY <1>1 DEF Admit, Answer, TypeOK, Outcome

LEMMA TipsTyped ==
  ASSUME TypeOK, NEW p \in Partition, NEW t \in TipsOf(p)
  PROVE  /\ t \in TipRow
         /\ t = NoRow \/ \E r \in RowsOf(p) : /\ r.event_id = t.event_id
                                              /\ r.monotonic_sequence = t.monotonic_sequence
<1>. USE DEF TypeOK, TipRow, TipHash, NoRow, RowsOf, Row
<1>1. CASE RowsOf(p) = {}
  BY <1>1 DEF TipsOf
<1>2. CASE RowsOf(p) # {}
  <2>1. PICK r \in RowsOf(p) : t = [event_id |-> r.event_id,
                                    monotonic_sequence |-> r.monotonic_sequence]
    BY <1>2 DEF TipsOf
  <2>. QED
    BY <2>1
<1>. QED
  BY <1>1, <1>2

\* COMMIT adds a well-typed row.
LEMMA DurableTyped ==
  ASSUME TypeOK, ActiveCall, NEW w \in Worker, pc[w] # "idle", MakeDurable(w)
  PROVE  NewRow(w) \in Row /\ event_store' \subseteq Row /\ origin' \in [Event -> Origin]
<1>1. call[w] \in Call /\ tip[w].monotonic_sequence \in Nat
  BY DEF ActiveCall, TypeOK, TipRow
<1>2. NewRow(w) \in Row
  BY <1>1 DEF NewRow, Row, Call
<1>3. [call |-> call[w].id, expected |-> call[w].expected] \in Origin
  BY <1>1 DEF Call, Origin
<1>. QED
  BY <1>1, <1>2, <1>3 DEF MakeDurable, TypeOK, Call

\* The type invariant is inductive together with ActiveCall.
LEMMA TypeInductive ==
  TypeOK /\ ActiveCall /\ [Next]_vars => TypeOK' /\ ActiveCall'
<1> SUFFICES ASSUME TypeOK, ActiveCall, [Next]_vars PROVE TypeOK' /\ ActiveCall'
  OBVIOUS
<1>0. /\ \A tag \in {"none", "Appended", "CASFailed", "DuplicateEvent",
                     "EventStoreUnavailable", "defect", "lost"} : tag \in Tag
      /\ \A w \in Worker : tip[w].monotonic_sequence \in Nat
      /\ event_store \subseteq Row /\ origin \in [Event -> Origin]
      /\ tip \in [Worker -> TipRow]
  BY DEF Tag, TypeOK, TipRow
<1>1. ASSUME NEW w \in Worker, Append(w) PROVE TypeOK' /\ ActiveCall'
  <2>1. PICK e \in Event, p \in Partition, x \in TipHash :
          LET c == [op |-> "append", event |-> e, partition |-> p, expected |-> x,
                    id |-> calls + 1]
          IN  Start(w, c) /\ Admit(w, c)
    BY <1>1 DEF Append
  <2>. DEFINE c == [op |-> "append", event |-> e, partition |-> p, expected |-> x,
                    id |-> calls + 1]
  <2>2. c \in Call
    BY DEF Call, TypeOK
  <2>. HIDE DEF c
  <2>3. Start(w, c) /\ Admit(w, c)
    BY <2>1 DEF c
  <2>. QED
    BY <2>2, <2>3, AdmitEffect, ConstantsOK DEF Start, TypeOK, ActiveCall, Phase
<1>2. ASSUME NEW w \in Worker, Emit(w) PROVE TypeOK' /\ ActiveCall'
  <2>1. PICK e \in Event, p \in Partition :
          LET c == [op |-> "emit", event |-> e, partition |-> p, expected |-> None,
                    id |-> calls + 1]
          IN  /\ Start(w, c)
              /\ \/ Admit(w, c)
                 \/ pc' = [pc EXCEPT ![w] = "getTip"] /\ UNCHANGED outcome
    BY <1>2 DEF Emit
  <2>. DEFINE c == [op |-> "emit", event |-> e, partition |-> p, expected |-> None,
                    id |-> calls + 1]
  <2>2. c \in Call
    BY DEF Call, TypeOK, TipHash
  <2>. HIDE DEF c
  <2>3. Start(w, c)
    BY <2>1 DEF c
  <2>4. CASE Admit(w, c)
    BY <2>2, <2>3, <2>4, AdmitEffect, ConstantsOK DEF Start, TypeOK, ActiveCall, Phase
  <2>5. CASE pc' = [pc EXCEPT ![w] = "getTip"] /\ UNCHANGED outcome
    BY <2>2, <2>3, <2>5, ConstantsOK DEF Start, TypeOK, ActiveCall, Phase
  <2>. QED
    BY <2>1, <2>4, <2>5 DEF c
<1>3. ASSUME NEW w \in Worker, GetTip(w) PROVE TypeOK' /\ ActiveCall'
  <2>1. call[w] \in Call
    BY <1>3 DEF GetTip, ActiveCall
  <2>2. PICK t \in TipsOf(call[w].partition) :
          LET c == [call[w] EXCEPT !.expected = t.event_id]
          IN  call' = [call EXCEPT ![w] = c] /\ Admit(w, c)
    BY <1>3 DEF GetTip
  <2>. DEFINE c == [call[w] EXCEPT !.expected = t.event_id]
  <2>3. t \in TipRow
    BY <2>1, TipsTyped DEF Call
  <2>4. c \in Call
    BY <2>1, <2>3 DEF Call, TipRow
  <2>. HIDE DEF c
  <2>5. call' = [call EXCEPT ![w] = c] /\ Admit(w, c)
    BY <2>2 DEF c
  <2>. QED
    BY <1>3, <2>4, <2>5, AdmitEffect DEF GetTip, TypeOK, ActiveCall, Phase
<1>4. ASSUME NEW w \in Worker, Connect(w) PROVE TypeOK' /\ ActiveCall'
  BY <1>0, <1>4, GotoTyped DEF Connect, Phase
<1>5. ASSUME NEW w \in Worker, SelectTip(w) PROVE TypeOK' /\ ActiveCall'
  <2>1. call[w].partition \in Partition
    BY <1>5 DEF SelectTip, ActiveCall, Call
  <2>2. tip' \in [Worker -> TipRow]
    BY <1>5, <2>1, TipsTyped DEF SelectTip, TypeOK
  <2>. QED
    BY <1>5, <2>2, GotoTyped DEF SelectTip, Phase
<1>6. ASSUME NEW w \in Worker, LockTip(w) PROVE TypeOK' /\ ActiveCall'
  <2>1. CASE Goto(w, "insert") /\ UNCHANGED tip
    BY <1>0, <1>6, <2>1, GotoTyped DEF LockTip, Phase
  <2>2. CASE Goto(w, "lookup") /\ UNCHANGED tip
    BY <1>0, <1>6, <2>2, GotoTyped DEF LockTip, Phase
  <2>3. CASE Return(w, "CASFailed", 0, tip[w].monotonic_sequence)
    BY <1>0, <1>6, <2>3, ReturnTyped DEF LockTip
  <2>. QED
    BY <1>6, <2>1, <2>2, <2>3 DEF LockTip
<1>7. ASSUME NEW w \in Worker, LookupExpected(w) PROVE TypeOK' /\ ActiveCall'
  <2>1. PICK x \in Nat : Return(w, "CASFailed", x, tip[w].monotonic_sequence)
    BY <1>7 DEF LookupExpected, ExpectedRows, RowsOf, TypeOK, Row
  <2>. QED
    BY <1>0, <1>7, <2>1, ReturnTyped DEF LookupExpected
<1>8. ASSUME NEW w \in Worker, Insert(w) PROVE TypeOK' /\ ActiveCall'
  <2>1. CASE Goto(w, "commit") /\ UNCHANGED tip
    BY <1>0, <1>8, <2>1, GotoTyped DEF Insert, Phase
  <2>2. CASE Return(w, "DuplicateEvent", 0, 0)
    BY <1>0, <1>8, <2>2, ReturnTyped DEF Insert
  <2>3. CASE Retry(w)
    BY <1>8, <2>3, RetryTyped DEF Insert
  <2>. QED
    BY <1>8, <2>1, <2>2, <2>3 DEF Insert
<1>9. ASSUME NEW w \in Worker, Commit(w) PROVE TypeOK' /\ ActiveCall'
  <2>1. NewRow(w) \in Row /\ event_store' \subseteq Row /\ origin' \in [Event -> Origin]
    BY <1>9, DurableTyped DEF Commit
  <2>2. NewRow(w).monotonic_sequence \in Nat
    BY <2>1 DEF Row
  <2>. QED
    BY <1>0, <1>9, <2>1, <2>2, ReturnTyped DEF Commit
<1>10. ASSUME NEW w \in Worker, SerializationFailure(w) PROVE TypeOK' /\ ActiveCall'
  BY <1>0, <1>10, RetryTyped, ReturnTyped DEF SerializationFailure
<1>11. ASSUME NEW w \in Worker, Fault(w) PROVE TypeOK' /\ ActiveCall'
  <2>1. event_store' \subseteq Row /\ origin' \in [Event -> Origin]
    BY <1>0, <1>11, DurableTyped DEF Fault
  <2>. QED
    BY <1>0, <1>11, <2>1, ReturnTyped DEF Fault, FaultTag
<1>12. ASSUME NEW w \in Worker, Crash(w) PROVE TypeOK' /\ ActiveCall'
  <2>1. event_store' \subseteq Row /\ origin' \in [Event -> Origin]
    BY <1>0, <1>12, DurableTyped DEF Crash
  <2>. QED
    BY <1>0, <1>12, <2>1, ReturnTyped DEF Crash
<1>13. CASE UNCHANGED vars
  BY <1>13 DEF vars, TypeOK, ActiveCall
<1>. QED
  BY <1>1, <1>2, <1>3, <1>4, <1>5, <1>6, <1>7, <1>8, <1>9, <1>10, <1>11, <1>12, <1>13
  DEF Next, Progress

LEMMA Typed == Spec => [](TypeOK /\ ActiveCall)
<1>1. Init => TypeOK /\ ActiveCall
  BY ConstantsOK DEF Init, TypeOK, ActiveCall, NoCall, NoRow, NoOrigin, TipRow, TipHash,
                     Phase, Outcome, Tag, Rejection, Origin
<1>. QED
  BY <1>1, TypeInductive, PTL DEF Spec

\* Every state of every behaviour is well typed: in particular no append retries
\* more often than maxSerializationRetries allows.
THEOREM TypeCorrect == Spec => []TypeOK
BY Typed, PTL

-----------------------------------------------------------------------------
(* The chain.                                                              *)

\* A transaction that has passed the comparison inserts right behind the row its
\* caller named, or opens an empty partition that its caller said was empty.
LEMMA NewRowFollows ==
  ASSUME TypeOK, ActiveCall, TxnInv, NEW w \in Worker, pc[w] = "commit"
  PROVE  /\ NewRow(w) \in Row /\ NewRow(w).event_id = call[w].event
         /\ IF NewRow(w).monotonic_sequence = 1
            THEN call[w].expected = None
            ELSE \E q \in RowsOf(NewRow(w).partition) :
                   /\ q.event_id = call[w].expected
                   /\ q.monotonic_sequence = NewRow(w).monotonic_sequence - 1
<1>1. call[w] \in Call /\ tip[w] \in TipRow
  BY DEF ActiveCall, TypeOK
<1>2. NewRow(w) \in Row
  BY <1>1 DEF NewRow, Row, Call, TipRow
<1>3. call[w].expected = tip[w].event_id /\ TipFromTable(w)
  BY DEF TxnInv, CasHolds
<1>4. CASE tip[w] = NoRow
  BY <1>2, <1>3, <1>4 DEF NewRow, NoRow
<1>5. CASE tip[w] # NoRow
  <2>1. PICK r \in RowsOf(call[w].partition) :
          r.event_id = tip[w].event_id /\ r.monotonic_sequence = tip[w].monotonic_sequence
    BY <1>3, <1>5 DEF TipFromTable
  <2>2. r.monotonic_sequence \in Nat \ {0}
    BY <2>1 DEF RowsOf, TypeOK, Row
  <2>. QED
    BY <1>2, <1>3, <2>1, <2>2 DEF NewRow
<1>. QED
  BY <1>4, <1>5

\* A COMMIT keeps the chain.
LEMMA DurableKeepsChain ==
  ASSUME TypeOK, ActiveCall, TxnInv, PendingInv, ChainInv,
         NEW w \in Worker, pc[w] = "commit", MakeDurable(w)
  PROVE  ChainInv'
<1>. DEFINE n == NewRow(w)
<1>1. /\ n \in Row /\ n.event_id = call[w].event
      /\ IF n.monotonic_sequence = 1
         THEN call[w].expected = None
         ELSE \E q \in RowsOf(n.partition) :
                q.event_id = call[w].expected /\ q.monotonic_sequence = n.monotonic_sequence - 1
  BY NewRowFollows
<1>2. \A r \in event_store : ~SameId(r, n) /\ ~SameSlot(r, n)
  BY DEF PendingInv, IdTaken, SlotTaken
<1>3. event_store' = event_store \union {n}
  BY DEF MakeDurable
<1>4. event_store \subseteq Row
  BY DEF TypeOK
<1>5. /\ origin'[n.event_id].expected = call[w].expected
      /\ \A r \in event_store : origin'[r.event_id] = origin[r.event_id]
  <2>1. origin \in [Event -> Origin] /\ n.event_id \in Event
    BY <1>1 DEF TypeOK, Row
  <2>2. \A r \in event_store : r.event_id \in Event /\ r.event_id # n.event_id
    BY <1>2, <1>4 DEF Row, SameId
  <2>. QED
    BY <1>1, <2>1, <2>2 DEF MakeDurable
<1>. HIDE DEF n
<1>6. Gapless'
  <2> SUFFICES ASSUME NEW r \in event_store'
               PROVE  /\ \A q \in event_store' : SameId(r, q) \/ SameSlot(r, q) => r = q
                      /\ r.monotonic_sequence > 1 =>
                           \E q \in event_store' :
                             /\ q.partition = r.partition
                             /\ q.monotonic_sequence = r.monotonic_sequence - 1
    BY DEF Gapless, RowsOf, SameId, SameSlot
  <2>1. \A q \in event_store' : SameId(r, q) \/ SameSlot(r, q) => r = q
    BY <1>2, <1>3 DEF ChainInv, Gapless, SameId, SameSlot
  <2>2. CASE r \in event_store
    BY <1>3, <2>1, <2>2 DEF ChainInv, Gapless, RowsOf
  <2>3. CASE r = n
    BY <1>1, <1>3, <2>1, <2>3 DEF RowsOf, Row
  <2>. QED
    BY <1>3, <2>2, <2>3
<1>7. ChainFollowsClaims'
  <2> SUFFICES ASSUME NEW r \in event_store'
               PROVE  IF r.monotonic_sequence = 1
                      THEN origin'[r.event_id].expected = None
                      ELSE \E q \in event_store' :
                             /\ q.partition = r.partition
                             /\ q.event_id = origin'[r.event_id].expected
                             /\ q.monotonic_sequence = r.monotonic_sequence - 1
    BY DEF ChainFollowsClaims, RowsOf
  <2>1. CASE r \in event_store
    BY <1>3, <1>5, <2>1 DEF ChainInv, ChainFollowsClaims, RowsOf
  <2>2. CASE r = n
    BY <1>1, <1>3, <1>5, <2>2 DEF RowsOf
  <2>. QED
    BY <1>3, <2>1, <2>2
<1>. QED
  BY <1>6, <1>7 DEF ChainInv

\* A step of w that commits nothing, and leaves the other workers where they are.
Local(w) ==
  /\ UNCHANGED <<event_store, origin>>
  /\ \A v \in Worker \ {w} : pc'[v] = pc[v] /\ call'[v] = call[v] /\ tip'[v] = tip[v]

\* Operators of a worker that a local step of another one does not change.
LEMMA LocalFrame ==
  ASSUME NEW w \in Worker, Local(w), NEW v \in Worker \ {w}
  PROVE  /\ NewRow(v)' = NewRow(v) /\ CasHolds(v)' = CasHolds(v)
         /\ TipFromTable(v)' = TipFromTable(v)
         /\ IdTaken(v)' = IdTaken(v) /\ SlotTaken(v)' = SlotTaken(v)
BY DEF Local, NewRow, CasHolds, TipFromTable, IdTaken, SlotTaken, RowsOf

\* A local step keeps the invariants when its own worker meets them.
LEMMA LocalKeeps ==
  ASSUME TxnInv, PendingInv, ChainInv, NEW w \in Worker, Local(w), 
         pc'[w] \in {"lock", "lookup", "insert", "commit"} => TipFromTable(w)',
         pc'[w] \in {"insert", "commit"} => CasHolds(w)',
         pc'[w] # "commit"
  PROVE  TxnInv' /\ PendingInv' /\ ChainInv'
<1>1. TxnInv'
  <2> SUFFICES ASSUME NEW v \in Worker
               PROVE  /\ pc'[v] \in {"lock", "lookup", "insert", "commit"} => TipFromTable(v)'
                      /\ pc'[v] \in {"insert", "commit"} => CasHolds(v)'
    BY DEF TxnInv
  <2>1. CASE v # w
    BY <2>1, LocalFrame DEF TxnInv, Local
  <2>. QED
    BY <2>1
<1>2. PendingInv'
  <2> SUFFICES ASSUME NEW v \in Worker, pc'[v] = "commit"
               PROVE  /\ ~IdTaken(v)' /\ ~SlotTaken(v)'
                      /\ \A u \in Worker \ {v} : pc'[u] = "commit" =>
                           ~SameId(NewRow(u)', NewRow(v)') /\ ~SameSlot(NewRow(u)', NewRow(v)')
    BY DEF PendingInv, SameId, SameSlot
  <2>1. v # w /\ pc[v] = "commit"
    BY DEF Local
  <2>2. ~IdTaken(v)' /\ ~SlotTaken(v)' /\ NewRow(v)' = NewRow(v)
    BY <2>1, LocalFrame DEF PendingInv
  <2>3. ASSUME NEW u \in Worker \ {v}, pc'[u] = "commit"
        PROVE  ~SameId(NewRow(u)', NewRow(v)') /\ ~SameSlot(NewRow(u)', NewRow(v)')
    <3>1. u # w /\ pc[u] = "commit"
      BY <2>3 DEF Local
    <3>2. NewRow(u)' = NewRow(u)
      BY <3>1, LocalFrame
    <3>. QED
      BY <2>1, <2>2, <2>3, <3>1, <3>2 DEF PendingInv
  <2>. QED
    BY <2>2, <2>3
<1>3. ChainInv'
  BY DEF ChainInv, Gapless, ChainFollowsClaims, Local, RowsOf, SameId, SameSlot
<1>. QED
  BY <1>1, <1>2, <1>3

\* A COMMIT that takes effect, followed by the worker's return.
LEMMA DurableKeeps ==
  ASSUME TypeOK, ActiveCall, TxnInv, PendingInv, ChainInv,
         NEW w \in Worker, pc[w] = "commit", MakeDurable(w), pc'[w] = "idle",
         \A v \in Worker \ {w} : pc'[v] = pc[v] /\ call'[v] = call[v] /\ tip'[v] = tip[v]
  PROVE  TxnInv' /\ PendingInv' /\ ChainInv'
<1>. DEFINE n == NewRow(w)
<1>1. event_store' = event_store \union {n}
  BY DEF MakeDurable
<1>. HIDE DEF n
<1>2. TxnInv'
  <2> SUFFICES ASSUME NEW v \in Worker
               PROVE  /\ pc'[v] \in {"lock", "lookup", "insert", "commit"} => TipFromTable(v)'
                      /\ pc'[v] \in {"insert", "commit"} => CasHolds(v)'
    BY DEF TxnInv
  <2>1. CASE v = w
    BY <2>1
  <2>2. CASE v # w
    <3>1. TipFromTable(v) => TipFromTable(v)'
      BY <1>1, <2>2 DEF TipFromTable, RowsOf
    <3>2. CasHolds(v)' = CasHolds(v)
      BY <2>2 DEF CasHolds
    <3>. QED
      BY <2>2, <3>1, <3>2 DEF TxnInv
  <2>. QED
    BY <2>1, <2>2
<1>3. PendingInv'
  <2> SUFFICES ASSUME NEW v \in Worker, pc'[v] = "commit"
               PROVE  /\ ~IdTaken(v)' /\ ~SlotTaken(v)'
                      /\ \A u \in Worker \ {v} : pc'[u] = "commit" =>
                           ~SameId(NewRow(u)', NewRow(v)') /\ ~SameSlot(NewRow(u)', NewRow(v)')
    BY DEF PendingInv, SameId, SameSlot
  <2>0. \A u \in Worker \ {w} : NewRow(u)' = NewRow(u)
    BY DEF NewRow
  <2>1. v # w /\ pc[v] = "commit" /\ NewRow(v)' = NewRow(v)
    BY <2>0
  <2>2. ~SameId(n, NewRow(v)) /\ ~SameSlot(n, NewRow(v))
    BY <2>1 DEF PendingInv, n
  <2>3. \A r \in event_store' : ~SameId(r, NewRow(v)) /\ ~SameSlot(r, NewRow(v))
    BY <1>1, <2>1, <2>2 DEF PendingInv, IdTaken, SlotTaken
  <2>4. ~IdTaken(v)' /\ ~SlotTaken(v)'
    BY <2>1, <2>3 DEF IdTaken, SlotTaken, SameId, SameSlot
  <2>5. ASSUME NEW u \in Worker \ {v}, pc'[u] = "commit"
        PROVE  ~SameId(NewRow(u)', NewRow(v)') /\ ~SameSlot(NewRow(u)', NewRow(v)')
    <3>1. u # w /\ pc[u] = "commit" /\ NewRow(u)' = NewRow(u)
      BY <2>0, <2>5
    <3>. QED
      BY <2>1, <2>5, <3>1 DEF PendingInv
  <2>. QED
    BY <2>4, <2>5
<1>4. ChainInv'
  BY DurableKeepsChain
<1>. QED
  BY <1>2, <1>3, <1>4

IInv == TypeOK /\ ActiveCall /\ TxnInv /\ PendingInv /\ ChainInv

\* Returning, or starting over, without a commit.
LEMMA LeavingKeeps ==
  ASSUME IInv, NEW w \in Worker, NEW phase \in {"idle", "connect"},
         pc' = [pc EXCEPT ![w] = phase], call' = call, tip' = [tip EXCEPT ![w] = NoRow],
         UNCHANGED <<event_store, origin>>
  PROVE  TxnInv' /\ PendingInv' /\ ChainInv'
<1>1. Local(w) /\ pc'[w] = phase
  BY DEF Local, IInv, TypeOK
<1>. QED
  BY <1>1, LocalKeeps DEF IInv

\* A refusal, or an error answer.
LEMMA ReturnKeeps ==
  ASSUME IInv, NEW w \in Worker, NEW t \in Tag, NEW x \in Nat, NEW y \in Nat,
         Return(w, t, x, y), UNCHANGED <<event_store, origin>>
  PROVE  TxnInv' /\ PendingInv' /\ ChainInv'
BY ReturnEffect, LeavingKeeps DEF IInv

\* A worker that moves on with its call and its tip.
LEMMA GotoKeeps ==
  ASSUME IInv, NEW w \in Worker, NEW phase \in Phase \ {"commit"}, Goto(w, phase),
         UNCHANGED <<event_store, origin, tip>>,
         phase \in {"lock", "lookup", "insert"} => TipFromTable(w),
         phase = "insert" => CasHolds(w)
  PROVE  TxnInv' /\ PendingInv' /\ ChainInv'
<1>1. Local(w) /\ pc'[w] = phase
  BY DEF Local, Goto, IInv, TypeOK
<1>2. TipFromTable(w)' = TipFromTable(w) /\ CasHolds(w)' = CasHolds(w)
  BY DEF Goto, TipFromTable, CasHolds, RowsOf
<1>. QED
  BY <1>1, <1>2, LocalKeeps DEF IInv

\* A commit, acknowledged or not.
LEMMA DurableReturnKeeps ==
  ASSUME IInv, NEW w \in Worker, NEW t \in Tag, NEW x \in Nat, NEW y \in Nat,
         pc[w] = "commit", MakeDurable(w), Return(w, t, x, y)
  PROVE  TxnInv' /\ PendingInv' /\ ChainInv'
<1>1. /\ pc'[w] = "idle"
      /\ \A v \in Worker \ {w} : pc'[v] = pc[v] /\ call'[v] = call[v] /\ tip'[v] = tip[v]
  BY DEF Return, IInv, TypeOK
<1>. QED
  BY <1>1, DurableKeeps DEF IInv

\* An insertion that no other row, committed or not, conflicts with.
LEMMA InsertionKeeps ==
  ASSUME IInv, NEW w \in Worker, pc[w] = "insert", ~InsertBlocked(w), ~IdTaken(w),
         ~SlotTaken(w), Goto(w, "commit"), UNCHANGED <<event_store, origin, tip>>
  PROVE  TxnInv' /\ PendingInv' /\ ChainInv'
<1>1. \A v \in Worker :
        /\ NewRow(v)' = NewRow(v) /\ CasHolds(v)' = CasHolds(v)
        /\ TipFromTable(v)' = TipFromTable(v)
        /\ IdTaken(v)' = IdTaken(v) /\ SlotTaken(v)' = SlotTaken(v)
  BY DEF Goto, NewRow, CasHolds, TipFromTable, IdTaken, SlotTaken, RowsOf
<1>2. pc'[w] = "commit" /\ \A v \in Worker \ {w} : pc'[v] = pc[v]
  BY DEF Goto, IInv, TypeOK
<1>3. TxnInv'
  BY <1>1, <1>2 DEF IInv, TxnInv
<1>4. \A v \in Worker \ {w} : pc[v] = "commit" =>
        ~SameId(NewRow(v), NewRow(w)) /\ ~SameSlot(NewRow(v), NewRow(w))
  BY DEF InsertBlocked
<1>5. ASSUME NEW v \in Worker, pc'[v] = "commit"
      PROVE  /\ ~IdTaken(v) /\ ~SlotTaken(v)
             /\ \A u \in Worker \ {v} : pc'[u] = "commit" =>
                  ~SameId(NewRow(u), NewRow(v)) /\ ~SameSlot(NewRow(u), NewRow(v))
  <2>1. CASE v = w
    BY <1>2, <1>4, <2>1
  <2>2. CASE v # w
    <3>1. pc[v] = "commit"
      BY <1>2, <1>5, <2>2
    <3>2. \A u \in Worker \ {v, w} : pc'[u] = "commit" =>
            ~SameId(NewRow(u), NewRow(v)) /\ ~SameSlot(NewRow(u), NewRow(v))
      BY <1>2, <3>1 DEF IInv, PendingInv
    <3>3. ~SameId(NewRow(w), NewRow(v)) /\ ~SameSlot(NewRow(w), NewRow(v))
      BY <1>4, <2>2, <3>1 DEF SameId, SameSlot
    <3>. QED
      BY <3>1, <3>2, <3>3 DEF IInv, PendingInv
  <2>. QED
    BY <2>1, <2>2
<1>6. PendingInv'
  BY <1>1, <1>5 DEF PendingInv, SameId, SameSlot
<1>7. ChainInv'
  BY DEF IInv, ChainInv, Gapless, ChainFollowsClaims, RowsOf, SameId, SameSlot
<1>. QED
  BY <1>3, <1>6, <1>7

\* The chain is inductive together with what the open transactions rely on.
LEMMA ChainInductive == IInv /\ [Next]_vars => IInv'
<1> SUFFICES ASSUME IInv, [Next]_vars PROVE TxnInv' /\ PendingInv' /\ ChainInv'
  BY TypeInductive DEF IInv
<1>. DEFINE Kept == TxnInv' /\ PendingInv' /\ ChainInv'
<1>0. /\ \A tag \in {"CASFailed", "DuplicateEvent", "Appended", "EventStoreUnavailable",
                     "defect", "lost"} : tag \in Tag
      /\ 0 \in Nat /\ \A w \in Worker : tip[w].monotonic_sequence \in Nat
      /\ \A phase \in {"select", "lock", "lookup", "insert"} : phase \in Phase \ {"commit"}
  BY DEF Tag, Phase, IInv, TypeOK, TipRow
<1>1. ASSUME NEW w \in Worker, Append(w) \/ Emit(w) PROVE Kept
  <2>1. Local(w) /\ pc'[w] \in {"idle", "connect", "getTip"}
    BY <1>1 DEF Append, Emit, Start, Admit, Local, IInv, TypeOK
  <2>. QED
    BY <2>1, LocalKeeps DEF IInv
<1>2. ASSUME NEW w \in Worker, GetTip(w) PROVE Kept
  <2>1. Local(w) /\ pc'[w] \in {"idle", "connect"}
    BY <1>2 DEF GetTip, Admit, Local, IInv, TypeOK
  <2>. QED
    BY <2>1, LocalKeeps DEF IInv
<1>3. ASSUME NEW w \in Worker, Connect(w) PROVE Kept
  BY <1>0, <1>3, GotoKeeps DEF Connect
<1>4. ASSUME NEW w \in Worker, SelectTip(w) PROVE Kept
  <2>1. PICK t \in TipsOf(call[w].partition) : tip' = [tip EXCEPT ![w] = t]
    BY <1>4 DEF SelectTip
  <2>2. call[w].partition \in Partition
    BY <1>4 DEF SelectTip, IInv, ActiveCall, Call
  <2>3. Local(w) /\ pc'[w] = "lock" /\ tip'[w] = t
    BY <1>4, <2>1 DEF SelectTip, Goto, Local, IInv, TypeOK
  <2>4. TipFromTable(w)'
    BY <1>4, <2>2, <2>3, TipsTyped DEF SelectTip, Goto, TipFromTable, RowsOf, IInv
  <2>. QED
    BY <2>3, <2>4, LocalKeeps DEF IInv
<1>5. ASSUME NEW w \in Worker, LockTip(w) PROVE Kept
  <2>1. TipFromTable(w)
    BY <1>5 DEF LockTip, IInv, TxnInv
  <2>2. CASE CasHolds(w) /\ Goto(w, "insert") /\ UNCHANGED tip
    BY <1>0, <1>5, <2>1, <2>2, GotoKeeps DEF LockTip
  <2>3. CASE Goto(w, "lookup") /\ UNCHANGED tip
    BY <1>0, <1>5, <2>1, <2>3, GotoKeeps DEF LockTip
  <2>4. CASE Return(w, "CASFailed", 0, tip[w].monotonic_sequence)
    BY <1>0, <1>5, <2>4, ReturnKeeps DEF LockTip
  <2>. QED
    BY <1>5, <2>2, <2>3, <2>4 DEF LockTip
<1>6. ASSUME NEW w \in Worker, LookupExpected(w) PROVE Kept
  <2>1. PICK x \in Nat : Return(w, "CASFailed", x, tip[w].monotonic_sequence)
    BY <1>6 DEF LookupExpected, ExpectedRows, RowsOf, IInv, TypeOK, Row
  <2>. QED
    BY <1>0, <1>6, <2>1, ReturnKeeps DEF LookupExpected
<1>7. ASSUME NEW w \in Worker, Insert(w) PROVE Kept
  <2>1. CASE ~IdTaken(w) /\ ~SlotTaken(w) /\ Goto(w, "commit") /\ UNCHANGED tip
    BY <1>7, <2>1, InsertionKeeps DEF Insert
  <2>2. CASE Return(w, "DuplicateEvent", 0, 0)
    BY <1>0, <1>7, <2>2, ReturnKeeps DEF Insert
  <2>3. CASE Retry(w)
    BY <1>7, <2>3, LeavingKeeps DEF Insert, Retry
  <2>. QED
    BY <1>7, <2>1, <2>2, <2>3 DEF Insert
<1>8. ASSUME NEW w \in Worker, Commit(w) PROVE Kept
  <2>1. NewRow(w).monotonic_sequence \in Nat
    BY <1>8, DurableTyped DEF Commit, IInv, Row
  <2>. QED
    BY <1>0, <1>8, <2>1, DurableReturnKeeps DEF Commit
<1>9. ASSUME NEW w \in Worker, SerializationFailure(w) PROVE Kept
  <2>1. CASE Retry(w)
    BY <1>9, <2>1, LeavingKeeps DEF SerializationFailure, Retry
  <2>2. CASE Return(w, "EventStoreUnavailable", 0, 0)
    BY <1>0, <1>9, <2>2, ReturnKeeps DEF SerializationFailure
  <2>. QED
    BY <1>9, <2>1, <2>2 DEF SerializationFailure
<1>10. ASSUME NEW w \in Worker, NEW t \in Tag, Return(w, t, 0, 0),
              UNCHANGED <<event_store, origin>> \/ (pc[w] = "commit" /\ MakeDurable(w))
       PROVE  Kept
  BY <1>0, <1>10, ReturnKeeps, DurableReturnKeeps
<1>11. ASSUME NEW w \in Worker, Fault(w) \/ Crash(w) PROVE Kept
  BY <1>0, <1>10, <1>11 DEF Fault, Crash, FaultTag
<1>12. CASE UNCHANGED vars
  BY <1>12 DEF vars, IInv, TxnInv, PendingInv, ChainInv, Gapless, ChainFollowsClaims,
               TipFromTable, CasHolds, NewRow, IdTaken, SlotTaken, RowsOf, SameId, SameSlot
<1>. QED
  BY <1>1, <1>2, <1>3, <1>4, <1>5, <1>6, <1>7, <1>8, <1>9, <1>11, <1>12 DEF Next, Progress

LEMMA Chained == Spec => []IInv
<1>1. Init => TxnInv /\ PendingInv /\ ChainInv
  BY DEF Init, TxnInv, PendingInv, ChainInv, Gapless, ChainFollowsClaims
<1>2. Spec => [](TypeOK /\ ActiveCall)
  BY Typed
<1>3. Init /\ (TypeOK /\ ActiveCall) => IInv
  BY <1>1 DEF IInv
<1>. QED
  BY <1>2, <1>3, ChainInductive, PTL DEF Spec

\* No two rows share an event id or a place in a partition, and no sequence is
\* skipped, for any number of workers and any interleaving of their statements.
THEOREM GaplessChain == Spec => []Gapless
<1>1. IInv => Gapless
  BY DEF IInv, ChainInv
<1>. QED
  BY <1>1, Chained, PTL

\* Every row follows exactly the tip its caller named: the compare-and-set holds
\* in the chain, not only at the moment it was evaluated.
THEOREM ChainIsClaimed == Spec => []ChainFollowsClaims
<1>1. IInv => ChainFollowsClaims
  BY DEF IInv, ChainInv
<1>. QED
  BY <1>1, Chained, PTL

-----------------------------------------------------------------------------
(* The answers.                                                            *)

\* Below every row of a partition its whole chain is stored.
Dense ==
  \A r \in event_store : \A n \in Nat \ {0} : n <= r.monotonic_sequence =>
    \E q \in RowsOf(r.partition) : q.monotonic_sequence = n

\* Calls are numbered: every row's call has been made, and no two workers share one.
Numbered ==
  /\ \A e \in Event : origin[e].call <= calls
  /\ \A w \in Worker : call[w].id <= calls
  /\ \A v, w \in Worker : v # w /\ call[v].id = call[w].id => call[v].id = 0

StoredNothing(w) == \A e \in Event : origin[e].call # call[w].id

\* The row that emit has seen as the tip is still there, and the transaction's own
\* snapshot shows it, or a later row of its chain, as the tip.
EmitOnTip(w) ==
  call[w].op = "emit" /\ call[w].expected # None =>
    \E r \in RowsOf(call[w].partition) :
      /\ r.event_id = call[w].expected
      /\ pc[w] \in {"lock", "lookup"} => r.monotonic_sequence <= tip[w].monotonic_sequence

\* What a worker's answer rests on, before and after it has been given.
AnswerInv(w) ==
  /\ pc[w] # "idle" => call[w].id # 0 /\ StoredNothing(w)
  /\ pc[w] = "lookup" => ~CasHolds(w) /\ call[w].expected # None
  /\ pc[w] \notin {"idle", "getTip"} => EmitOnTip(w)
  /\ pc[w] = "idle" => AppendedIsDurable(w) /\ RefusalStoredNothing(w) /\ ConflictIsReal(w)

HistoryInv == Dense /\ Numbered /\ \A w \in Worker : AnswerInv(w)

\* What a step does to the table: nothing, or the commit of w's row.
Stored(w) ==
  \/ UNCHANGED <<event_store, origin>>
  \/ pc[w] = "commit" /\ MakeDurable(w)

\* The rest of the system sees of a step of w at most the row it commits.
OwnStep(w) ==
  /\ Stored(w)
  /\ \A v \in Worker \ {w} :
       pc'[v] = pc[v] /\ call'[v] = call[v] /\ tip'[v] = tip[v] /\ outcome'[v] = outcome[v]
  /\ \/ call'[w].id = call[w].id /\ calls' = calls
     \/ call'[w].id = calls + 1 /\ calls' = calls + 1 /\ UNCHANGED origin

LEMMA CallIds == ASSUME TypeOK PROVE calls \in Nat /\ \A w \in Worker : call[w].id \in Nat
BY DEF TypeOK, Call, NoCall

\* The history of a row never changes, and a commit is recorded under its own call.
LEMMA StoredHistory ==
  ASSUME IInv, NEW w \in Worker, Stored(w)
  PROVE  /\ event_store \subseteq event_store'
         /\ \A r \in event_store : r.event_id \in Event /\ origin'[r.event_id] = origin[r.event_id]
         /\ \A e \in Event : origin'[e] = origin[e]
                             \/ (pc[w] = "commit" /\ origin'[e].call = call[w].id)
<1>0. \A r \in event_store : r.event_id \in Event
  BY DEF IInv, TypeOK, Row
<1>1. CASE UNCHANGED <<event_store, origin>>
  BY <1>0, <1>1
<1>2. CASE pc[w] = "commit" /\ MakeDurable(w)
  <2>1. \A r \in event_store : r.event_id # call[w].event
    BY <1>2 DEF IInv, PendingInv, IdTaken, SameId, NewRow
  <2>. QED
    BY <1>0, <1>2, <2>1 DEF MakeDurable, IInv, TypeOK
<1>. QED
  BY <1>1, <1>2 DEF Stored

LEMMA DenseKept ==
  ASSUME IInv, Dense, NEW w \in Worker, Stored(w)
  PROVE  Dense'
<1>1. CASE UNCHANGED <<event_store, origin>>
  BY <1>1 DEF Dense, RowsOf
<1>2. CASE pc[w] = "commit" /\ MakeDurable(w)
  <2>. DEFINE new == NewRow(w)
  <2>1. /\ new \in Row
        /\ new.monotonic_sequence # 1 =>
             \E q \in RowsOf(new.partition) : q.monotonic_sequence = new.monotonic_sequence - 1
    BY <1>2, NewRowFollows DEF IInv
  <2>2. event_store' = event_store \union {new}
    BY <1>2 DEF MakeDurable
  <2>. HIDE DEF new
  <2> SUFFICES ASSUME NEW r \in event_store', NEW n \in Nat \ {0}, n <= r.monotonic_sequence
               PROVE  \E q \in event_store' :
                        q.partition = r.partition /\ q.monotonic_sequence = n
    BY DEF Dense, RowsOf
  <2>3. CASE r \in event_store
    BY <2>2, <2>3 DEF Dense, RowsOf
  <2>4. CASE r = new /\ n = new.monotonic_sequence
    BY <2>2, <2>4
  <2>5. CASE r = new /\ n # new.monotonic_sequence
    <3>1. new.monotonic_sequence \in Nat /\ n < new.monotonic_sequence
      BY <2>1, <2>5 DEF Row
    <3>2. PICK q \in RowsOf(new.partition) : q.monotonic_sequence = new.monotonic_sequence - 1
      BY <2>1, <3>1
    <3>3. q \in event_store /\ q.partition = new.partition /\ n <= q.monotonic_sequence
      BY <3>1, <3>2 DEF RowsOf
    <3>4. PICK s \in RowsOf(q.partition) : s.monotonic_sequence = n
      BY <3>3 DEF Dense
    <3>. QED
      BY <2>2, <2>5, <3>3, <3>4 DEF RowsOf
  <2>. QED
    BY <2>2, <2>3, <2>4, <2>5
<1>. QED
  BY <1>1, <1>2 DEF Stored

LEMMA NumberedKept ==
  ASSUME IInv, Numbered, NEW w \in Worker, OwnStep(w)
  PROVE  Numbered'
<1>1. calls \in Nat /\ (\A v \in Worker : call[v].id \in Nat) /\ \A e \in Event : origin[e].call \in Nat
  BY CallIds DEF IInv, TypeOK, Origin
<1>2. CASE call'[w].id = call[w].id /\ calls' = calls
  <2>1. \A v \in Worker : call'[v].id = call[v].id
    BY <1>2 DEF OwnStep
  <2>2. \A e \in Event : origin'[e].call = origin[e].call \/ origin'[e].call = call[w].id
    BY StoredHistory DEF OwnStep
  <2>. QED
    BY <1>2, <2>1, <2>2 DEF Numbered
<1>3. CASE call'[w].id = calls + 1 /\ calls' = calls + 1 /\ UNCHANGED origin
  <2>1. \A v \in Worker \ {w} : call'[v].id = call[v].id /\ call[v].id # calls + 1
    BY <1>1 DEF OwnStep, Numbered
  <2>2. \A e \in Event : origin'[e].call <= calls'
    BY <1>1, <1>3 DEF Numbered
  <2>3. \A v \in Worker : call'[v].id <= calls'
    BY <1>1, <1>3, <2>1 DEF Numbered
  <2>4. ASSUME NEW u \in Worker, NEW v \in Worker, u # v, call'[u].id = call'[v].id
        PROVE  call'[u].id = 0
    BY <1>3, <2>1, <2>4 DEF Numbered
  <2>. QED
    BY <2>2, <2>3, <2>4 DEF Numbered
<1>. QED
  BY <1>2, <1>3 DEF OwnStep

\* A step of another worker makes no answer untrue, and takes no row away that an
\* answer under way rests on.
LEMMA OthersAnswer ==
  ASSUME IInv, HistoryInv, NEW w \in Worker, OwnStep(w), NEW v \in Worker \ {w}
  PROVE  AnswerInv(v)'
<1>1. pc'[v] = pc[v] /\ call'[v] = call[v] /\ tip'[v] = tip[v] /\ outcome'[v] = outcome[v]
  BY DEF OwnStep
<1>2. /\ event_store \subseteq event_store'
      /\ \A r \in event_store : r.event_id \in Event /\ origin'[r.event_id] = origin[r.event_id]
      /\ \A e \in Event : origin'[e] = origin[e]
                          \/ (pc[w] = "commit" /\ origin'[e].call = call[w].id)
  BY StoredHistory DEF OwnStep
<1>3. pc[w] = "commit" => call[w].id # call[v].id
  BY DEF HistoryInv, AnswerInv, Numbered
<1>4. StoredNothing(v) => StoredNothing(v)'
  BY <1>1, <1>2, <1>3 DEF StoredNothing
<1>5. EmitOnTip(v) => EmitOnTip(v)'
  BY <1>1, <1>2 DEF EmitOnTip, RowsOf
<1>6. AppendedIsDurable(v) => AppendedIsDurable(v)'
  BY <1>1, <1>2 DEF AppendedIsDurable
<1>7. RefusalStoredNothing(v) => RefusalStoredNothing(v)'
  BY <1>1, <1>4 DEF RefusalStoredNothing, StoredNothing
<1>8. ConflictIsReal(v) => ConflictIsReal(v)'
  BY <1>1, <1>2 DEF ConflictIsReal, RowsOf
<1>9. CasHolds(v)' = CasHolds(v) 
  BY <1>1 DEF CasHolds
<1>. QED
  BY <1>1, <1>4, <1>5, <1>6, <1>7, <1>8, <1>9 DEF HistoryInv, AnswerInv

LEMMA HistoryKept ==
  ASSUME IInv, HistoryInv, NEW w \in Worker, OwnStep(w), AnswerInv(w)'
  PROVE  HistoryInv'
BY DenseKept, NumberedKept, OthersAnswer DEF HistoryInv, OwnStep

\* An answer that is no success, given without storing anything.
LEMMA RefusalAnswers ==
  ASSUME IInv, HistoryInv, NEW w \in Worker, NEW t \in Tag \ {"Appended"}, NEW x \in Nat,
         NEW y \in Nat, pc[w] # "idle", Return(w, t, x, y), UNCHANGED <<event_store, origin>>,
         t = "CASFailed" =>
           /\ x = y => x = 0
           /\ call[w].op = "emit" =>
                \E r \in RowsOf(call[w].partition) : origin[r.event_id].expected = call[w].expected
  PROVE  HistoryInv'
<1>1. /\ pc'[w] = "idle" /\ call' = call
      /\ outcome'[w] = [tag |-> t, expected_version |-> x, actual_version |-> y]
  BY DEF Return, Answer, IInv, TypeOK
<1>2. OwnStep(w)
  BY DEF OwnStep, Stored, Return, Answer, IInv, TypeOK
<1>3. RefusalStoredNothing(w)'
  BY <1>1 DEF RefusalStoredNothing, HistoryInv, AnswerInv, StoredNothing
<1>4. AppendedIsDurable(w)' /\ ConflictIsReal(w)'
  BY <1>1 DEF AppendedIsDurable, ConflictIsReal, RowsOf
<1>. QED
  BY <1>1, <1>2, <1>3, <1>4, HistoryKept DEF AnswerInv

\* A commit, acknowledged or not.
LEMMA CommitAnswers ==
  ASSUME IInv, HistoryInv, NEW w \in Worker,
         NEW t \in {"Appended", "EventStoreUnavailable", "lost"}, NEW x \in Nat, NEW y \in Nat,
         pc[w] = "commit", MakeDurable(w), Return(w, t, x, y),
         t = "Appended" => y = NewRow(w).monotonic_sequence
  PROVE  HistoryInv'
<1>1. /\ pc'[w] = "idle" /\ call' = call
      /\ outcome'[w] = [tag |-> t, expected_version |-> x, actual_version |-> y]
  BY DEF Return, Answer, IInv, TypeOK
<1>2. OwnStep(w)
  BY DEF OwnStep, Stored, Return, Answer, IInv, TypeOK
<1>3. RefusalStoredNothing(w)' /\ ConflictIsReal(w)'
  BY <1>1 DEF RefusalStoredNothing, ConflictIsReal, Rejection
<1>4. AppendedIsDurable(w)'
  <2>1. /\ NewRow(w).event_id = call[w].event /\ NewRow(w).partition = call[w].partition
        /\ NewRow(w) \in event_store' /\ call[w].event \in Event
    BY DEF NewRow, MakeDurable, IInv, ActiveCall, Call
  <2>2. origin'[call[w].event].call = call[w].id
    BY <2>1 DEF MakeDurable, IInv, TypeOK
  <2>. QED
    BY <1>1, <2>1, <2>2 DEF AppendedIsDurable
<1>. QED
  BY <1>1, <1>2, <1>3, <1>4, HistoryKept DEF AnswerInv

\* Going on, or back to a new attempt.
LEMMA GoingOnAnswers ==
  ASSUME IInv, HistoryInv, NEW w \in Worker, pc[w] \notin {"idle", "getTip"},
         NEW phase \in Phase \ {"idle", "getTip"}, pc' = [pc EXCEPT ![w] = phase],
         UNCHANGED <<event_store, origin, call, calls, outcome>>,
         \A v \in Worker \ {w} : tip'[v] = tip[v],
         phase = "lookup" => tip' = tip /\ ~CasHolds(w) /\ call[w].expected # None,
         phase \in {"lock", "lookup"} => EmitOnTip(w)'
  PROVE  HistoryInv'
<1>1. OwnStep(w) /\ pc'[w] = phase
  BY DEF OwnStep, Stored, IInv, TypeOK
<1>2. StoredNothing(w)' /\ call'[w].id # 0
  BY DEF HistoryInv, AnswerInv, StoredNothing
<1>3. phase \notin {"lock", "lookup"} => EmitOnTip(w)'
  BY <1>1 DEF HistoryInv, AnswerInv, EmitOnTip, RowsOf
<1>4. phase = "lookup" => (~CasHolds(w))' /\ call'[w].expected # None
  BY DEF CasHolds
<1>. QED
  BY <1>1, <1>2, <1>3, <1>4, HistoryKept DEF AnswerInv

\* A conflict on a partition that is not at the tip emit has read: some row was put
\* behind that tip in the meantime.
LEMMA EmitOvertaken ==
  ASSUME IInv, HistoryInv, NEW w \in Worker, pc[w] \in {"lock", "lookup"}, ~CasHolds(w),
         call[w].op = "emit"
  PROVE  \E r \in RowsOf(call[w].partition) : origin[r.event_id].expected = call[w].expected
<1>1. TipFromTable(w) /\ EmitOnTip(w) /\ event_store \subseteq Row
  BY DEF IInv, TxnInv, TypeOK, HistoryInv, AnswerInv
<1>2. CASE call[w].expected = None
  <2>1. tip[w] # NoRow
    BY <1>2 DEF CasHolds, NoRow
  <2>2. PICK q \in RowsOf(call[w].partition) : TRUE
    BY <1>1, <2>1 DEF TipFromTable
  <2>3. q.monotonic_sequence \in Nat \ {0} /\ q \in event_store /\ q.partition = call[w].partition
    BY <1>1, <2>2 DEF RowsOf, Row
  <2>4. PICK r \in RowsOf(q.partition) : r.monotonic_sequence = 1
    BY <2>3 DEF HistoryInv, Dense
  <2>5. origin[r.event_id].expected = None
    BY <2>4 DEF IInv, ChainInv, ChainFollowsClaims, RowsOf
  <2>. QED
    BY <1>2, <2>3, <2>4, <2>5
<1>3. CASE call[w].expected # None
  <2>1. PICK s \in RowsOf(call[w].partition) :
          s.event_id = call[w].expected /\ s.monotonic_sequence <= tip[w].monotonic_sequence
    BY <1>1, <1>3 DEF EmitOnTip
  <2>2. s \in event_store /\ s.partition = call[w].partition /\ s.monotonic_sequence \in Nat \ {0}
    BY <1>1, <2>1 DEF RowsOf, Row
  <2>3. tip[w] # NoRow
    BY <2>1, <2>2 DEF NoRow
  <2>4. PICK q \in RowsOf(call[w].partition) :
          q.event_id = tip[w].event_id /\ q.monotonic_sequence = tip[w].monotonic_sequence
    BY <1>1, <2>3 DEF TipFromTable
  <2>5. q \in event_store /\ q.partition = call[w].partition /\ q.monotonic_sequence \in Nat \ {0}
    BY <1>1, <2>4 DEF RowsOf, Row
  <2>6. s # q
    BY <2>1, <2>4 DEF CasHolds
  <2>7. s.monotonic_sequence + 1 <= q.monotonic_sequence
    BY <2>1, <2>2, <2>4, <2>5, <2>6 DEF IInv, ChainInv, Gapless, SameSlot
  <2>8. PICK r \in RowsOf(q.partition) : r.monotonic_sequence = s.monotonic_sequence + 1
    BY <2>2, <2>5, <2>7 DEF HistoryInv, Dense
  <2>9. r \in event_store /\ r.partition = q.partition /\ r.monotonic_sequence # 1
    BY <2>2, <2>8 DEF RowsOf
  <2>10. PICK t \in RowsOf(r.partition) :
           /\ t.event_id = origin[r.event_id].expected
           /\ t.monotonic_sequence = r.monotonic_sequence - 1
    BY <2>9 DEF IInv, ChainInv, ChainFollowsClaims
  <2>11. t = s
    BY <2>2, <2>5, <2>8, <2>9, <2>10 DEF IInv, ChainInv, Gapless, SameSlot, RowsOf
  <2>. QED
    BY <2>1, <2>5, <2>8, <2>10, <2>11
<1>. QED
  BY <1>2, <1>3

\* The two versions of a conflict are those of two different rows.
LEMMA LookupTellsApart ==
  ASSUME IInv, HistoryInv, NEW w \in Worker, pc[w] = "lookup", NEW r \in ExpectedRows(w)
  PROVE  r.monotonic_sequence # tip[w].monotonic_sequence
<1>1. /\ r \in event_store /\ r.partition = call[w].partition /\ r.event_id = call[w].expected
      /\ r.monotonic_sequence # 0
  BY DEF ExpectedRows, RowsOf, IInv, TypeOK, Row
<1>2. r.event_id # tip[w].event_id
  BY <1>1 DEF HistoryInv, AnswerInv, CasHolds
<1>3. TipFromTable(w)
  BY DEF IInv, TxnInv
<1>4. CASE tip[w] = NoRow
  BY <1>1, <1>4 DEF NoRow
<1>5. CASE tip[w] # NoRow
  BY <1>1, <1>2, <1>3, <1>5 DEF TipFromTable, RowsOf, IInv, ChainInv, Gapless, SameSlot
<1>. QED
  BY <1>4, <1>5

\* A new call.
LEMMA StartAnswers ==
  ASSUME IInv, HistoryInv, NEW w \in Worker, Append(w) \/ Emit(w)
  PROVE  HistoryInv'
<1>1. PICK c : /\ Start(w, c) /\ c.id = calls + 1
               /\ \/ pc' = [pc EXCEPT ![w] = "getTip"] /\ UNCHANGED outcome
                  \/ (c.op = "append" \/ c.partition \in OutOfScope) /\ Admit(w, c)
  <2>1. CASE Append(w)
    <3>1. PICK e \in Event, p \in Partition, x \in TipHash :
            LET c == [op |-> "append", event |-> e, partition |-> p, expected |-> x,
                      id |-> calls + 1]
            IN  Start(w, c) /\ Admit(w, c)
      BY <2>1 DEF Append
    <3>. DEFINE c == [op |-> "append", event |-> e, partition |-> p, expected |-> x,
                      id |-> calls + 1]
    <3>2. c.op = "append" /\ c.id = calls + 1
      OBVIOUS
    <3>. HIDE DEF c
    <3>. QED
      BY <3>1, <3>2 DEF c
  <2>2. CASE Emit(w)
    <3>1. PICK e \in Event, p \in Partition :
            LET c == [op |-> "emit", event |-> e, partition |-> p, expected |-> None,
                      id |-> calls + 1]
            IN  /\ Start(w, c)
                /\ \/ pc' = [pc EXCEPT ![w] = "getTip"] /\ UNCHANGED outcome
                   \/ p \in OutOfScope /\ Admit(w, c)
      BY <2>2 DEF Emit
    <3>. DEFINE c == [op |-> "emit", event |-> e, partition |-> p, expected |-> None,
                      id |-> calls + 1]
    <3>2. c.id = calls + 1 /\ c.partition = p
      OBVIOUS
    <3>. HIDE DEF c
    <3>. QED
      BY <3>1, <3>2 DEF c
  <2>. QED
    BY <2>1, <2>2
<1>2. Precheck(c) = "none" \/ Precheck(c) \in Rejection
  BY DEF Precheck, Rejection
<1>3. /\ pc[w] = "idle" /\ calls' = calls + 1 /\ call'[w] = c
      /\ UNCHANGED <<event_store, origin, tip>>
      /\ \A v \in Worker \ {w} : call'[v] = call[v]
  BY <1>1 DEF Start, IInv, TypeOK
<1>4. /\ \/ pc'[w] = "getTip"
         \/ pc'[w] = "connect" /\ call'[w].op = "append"
         \/ pc'[w] = "idle" /\ outcome'[w].tag \in Rejection
      /\ \A v \in Worker \ {w} : pc'[v] = pc[v] /\ outcome'[v] = outcome[v]
  <2>1. ASSUME c.partition \in OutOfScope PROVE Precheck(c) # "none"
    BY <2>1 DEF Precheck
  <2>. QED
    BY <1>1, <1>2, <1>3, <2>1 DEF Admit, Answer, IInv, TypeOK
<1>5. OwnStep(w)
  BY <1>1, <1>3, <1>4 DEF OwnStep, Stored
<1>6. calls \in Nat /\ \A e \in Event : origin[e].call \in Nat
  BY CallIds DEF IInv, TypeOK, Origin
<1>7. StoredNothing(w)' /\ call'[w].id # 0
  BY <1>1, <1>3, <1>6 DEF HistoryInv, Numbered, StoredNothing
<1>8. pc'[w] # "idle" => AnswerInv(w)'
  BY <1>4, <1>7 DEF AnswerInv, EmitOnTip
<1>9. pc'[w] = "idle" => AnswerInv(w)'
  BY <1>4, <1>7 DEF AnswerInv, AppendedIsDurable, RefusalStoredNothing, ConflictIsReal, Rejection,
                    StoredNothing
<1>. QED
  BY <1>5, <1>8, <1>9, HistoryKept

\* emit has read the tip.
LEMMA GetTipAnswers ==
  ASSUME IInv, HistoryInv, NEW w \in Worker, GetTip(w)
  PROVE  HistoryInv'
<1>1. call[w] \in Call
  BY DEF GetTip, IInv, ActiveCall
<1>2. PICK t \in TipsOf(call[w].partition) :
        LET c == [call[w] EXCEPT !.expected = t.event_id]
        IN  call' = [call EXCEPT ![w] = c] /\ Admit(w, c)
  BY DEF GetTip
<1>. DEFINE c == [call[w] EXCEPT !.expected = t.event_id]
<1>3. /\ c.id = call[w].id /\ c.expected = t.event_id /\ c.partition = call[w].partition
      /\ Precheck(c) = "none" \/ Precheck(c) \in Rejection
  BY <1>1 DEF Call, Precheck, Rejection
<1>4. \/ t = NoRow
      \/ \E r \in RowsOf(call[w].partition) : r.event_id = t.event_id
  BY <1>1, TipsTyped DEF Call, IInv
<1>. HIDE DEF c
<1>5. call'[w] = c /\ Admit(w, c) /\ \A v \in Worker \ {w} : call'[v] = call[v]
  BY <1>2 DEF c, IInv, TypeOK
<1>6. /\ \/ pc'[w] = "connect"
         \/ pc'[w] = "idle" /\ outcome'[w].tag \in Rejection
      /\ \A v \in Worker \ {w} : pc'[v] = pc[v] /\ outcome'[v] = outcome[v]
  BY <1>3, <1>5 DEF Admit, Answer, IInv, TypeOK
<1>7. OwnStep(w)
  BY <1>3, <1>5, <1>6 DEF OwnStep, Stored, GetTip
<1>8. StoredNothing(w)' /\ call'[w].id # 0
  BY <1>3, <1>5 DEF GetTip, HistoryInv, AnswerInv, StoredNothing
<1>9. pc'[w] = "connect" => EmitOnTip(w)'
  <2>1. UNCHANGED event_store /\ call'[w].expected = t.event_id
        /\ call'[w].partition = call[w].partition
    BY <1>3, <1>5 DEF GetTip
  <2>2. CASE t = NoRow
    BY <2>1, <2>2 DEF EmitOnTip, NoRow
  <2>3. CASE \E r \in RowsOf(call[w].partition) : r.event_id = t.event_id
    BY <2>1, <2>3 DEF EmitOnTip, RowsOf
  <2>. QED
    BY <1>4, <2>2, <2>3
<1>10. pc'[w] = "idle" => AnswerInv(w)'
  BY <1>6, <1>8 DEF AnswerInv, AppendedIsDurable, RefusalStoredNothing, ConflictIsReal, Rejection,
                    StoredNothing
<1>11. pc'[w] = "connect" => AnswerInv(w)'
  BY <1>8, <1>9 DEF AnswerInv
<1>. QED
  BY <1>6, <1>7, <1>10, <1>11, HistoryKept

\* The snapshot is taken.
LEMMA SelectTipAnswers ==
  ASSUME IInv, HistoryInv, NEW w \in Worker, SelectTip(w)
  PROVE  HistoryInv'
<1>1. PICK t \in TipsOf(call[w].partition) : tip' = [tip EXCEPT ![w] = t]
  BY DEF SelectTip
<1>2. pc[w] = "select" /\ pc' = [pc EXCEPT ![w] = "lock"] /\ tip'[w] = t
      /\ UNCHANGED <<event_store, origin, call, calls, outcome>>
      /\ \A v \in Worker \ {w} : tip'[v] = tip[v]
  BY <1>1 DEF SelectTip, Goto, IInv, TypeOK
<1>3. \A r \in RowsOf(call[w].partition) : r.monotonic_sequence <= t.monotonic_sequence
  BY DEF TipsOf
<1>4. EmitOnTip(w)
  BY <1>2 DEF HistoryInv, AnswerInv
<1>5. EmitOnTip(w)'
  BY <1>2, <1>3, <1>4 DEF EmitOnTip, RowsOf
<1>. QED
  BY <1>2, <1>5, GoingOnAnswers DEF Phase

\* The comparison with the tip.
LEMMA LockTipAnswers ==
  ASSUME IInv, HistoryInv, NEW w \in Worker, LockTip(w)
  PROVE  HistoryInv'
<1>0. pc[w] = "lock" /\ EmitOnTip(w) /\ tip[w].monotonic_sequence \in Nat
  BY DEF LockTip, HistoryInv, AnswerInv, IInv, TypeOK, TipRow
<1>1. CASE CasHolds(w) /\ Goto(w, "insert") /\ UNCHANGED tip
  BY <1>0, <1>1, GoingOnAnswers DEF LockTip, Goto, Phase
<1>2. CASE ~CasHolds(w) /\ call[w].expected # None /\ Goto(w, "lookup") /\ UNCHANGED tip
  <2>1. EmitOnTip(w)'
    BY <1>0, <1>2 DEF LockTip, Goto, EmitOnTip, RowsOf
  <2>. QED
    BY <1>0, <1>2, <2>1, GoingOnAnswers DEF LockTip, Goto, Phase
<1>3. CASE ~CasHolds(w) /\ Return(w, "CASFailed", 0, tip[w].monotonic_sequence)
  BY <1>0, <1>3, EmitOvertaken, RefusalAnswers DEF LockTip, Tag
<1>. QED
  BY <1>1, <1>2, <1>3 DEF LockTip

LEMMA LookupAnswers ==
  ASSUME IInv, HistoryInv, NEW w \in Worker, LookupExpected(w)
  PROVE  HistoryInv'
<1>1. pc[w] = "lookup" /\ ~CasHolds(w) /\ tip[w].monotonic_sequence \in Nat
  BY DEF LookupExpected, HistoryInv, AnswerInv, IInv, TypeOK, TipRow
<1>2. PICK x \in Nat : /\ Return(w, "CASFailed", x, tip[w].monotonic_sequence)
                       /\ x = tip[w].monotonic_sequence => x = 0
  BY <1>1, LookupTellsApart DEF LookupExpected, ExpectedRows, RowsOf, IInv, TypeOK, Row
<1>. QED
  BY <1>1, <1>2, EmitOvertaken, RefusalAnswers DEF LookupExpected, Tag

LEMMA HistoryInductive == IInv /\ HistoryInv /\ [Next]_vars => HistoryInv'
<1> SUFFICES ASSUME IInv, HistoryInv, [Next]_vars PROVE HistoryInv'
  OBVIOUS
<1>0. /\ \A t \in {"DuplicateEvent", "EventStoreUnavailable", "defect", "lost"} :
           t \in Tag \ {"Appended"} /\ t # "CASFailed"
      /\ 0 \in Nat
  BY DEF Tag
<1>1. ASSUME NEW w \in Worker, Connect(w) PROVE HistoryInv'
  BY <1>1, GoingOnAnswers DEF Connect, Goto, Phase
<1>2. ASSUME NEW w \in Worker, Retry(w), pc[w] \in {"lock", "insert", "commit"},
             UNCHANGED <<event_store, origin>>
      PROVE  HistoryInv'
  BY <1>2, GoingOnAnswers DEF Retry, Phase, IInv, TypeOK
<1>3. ASSUME NEW w \in Worker, Insert(w) PROVE HistoryInv'
  <2>1. CASE Goto(w, "commit") /\ UNCHANGED tip
    BY <1>3, <2>1, GoingOnAnswers DEF Insert, Goto, Phase
  <2>2. CASE Return(w, "DuplicateEvent", 0, 0)
    BY <1>0, <1>3, <2>2, RefusalAnswers DEF Insert
  <2>. QED
    BY <1>2, <1>3, <2>1, <2>2 DEF Insert
<1>4. ASSUME NEW w \in Worker, Commit(w) PROVE HistoryInv'
  <2>1. NewRow(w).monotonic_sequence \in Nat
    BY <1>4, DurableTyped DEF Commit, IInv, Row
  <2>. QED
    BY <1>0, <1>4, <2>1, CommitAnswers DEF Commit
<1>5. ASSUME NEW w \in Worker, SerializationFailure(w) PROVE HistoryInv'
  BY <1>0, <1>2, <1>5, RefusalAnswers DEF SerializationFailure
<1>6. ASSUME NEW w \in Worker, Fault(w) \/ Crash(w) PROVE HistoryInv'
  <2>1. PICK t \in {"EventStoreUnavailable", "defect", "lost"} :
          pc[w] # "idle" /\ Return(w, t, 0, 0) /\ (pc[w] = "commit" => t # "defect")
    BY <1>6 DEF Fault, Crash, FaultTag
  <2>2. CASE UNCHANGED <<event_store, origin>>
    BY <1>0, <2>1, <2>2, RefusalAnswers
  <2>3. CASE pc[w] = "commit" /\ MakeDurable(w)
    BY <1>0, <2>1, <2>3, CommitAnswers
  <2>. QED
    BY <1>6, <2>2, <2>3 DEF Fault, Crash
<1>7. CASE UNCHANGED vars
  BY <1>7 DEF vars, HistoryInv, Dense, Numbered, AnswerInv, StoredNothing, EmitOnTip, CasHolds,
              AppendedIsDurable, RefusalStoredNothing, ConflictIsReal, RowsOf
<1>. QED
  BY <1>1, <1>3, <1>4, <1>5, <1>6, <1>7, StartAnswers, GetTipAnswers, SelectTipAnswers,
     LockTipAnswers, LookupAnswers DEF Next, Progress

LEMMA Recorded == Spec => [](IInv /\ HistoryInv)
<1>1. Init => HistoryInv
  BY DEF Init, HistoryInv, Dense, Numbered, AnswerInv, NoCall, NoOrigin, AppendedIsDurable,
         RefusalStoredNothing, ConflictIsReal, Rejection
<1>. QED
  BY <1>1, Chained, HistoryInductive, PTL DEF Spec

\* A caller can act on the answer of append and of emit: an acknowledged event is in the
\* chain at the reported sequence, a refused call has stored nothing, and a conflict names
\* a tip that really was not, or no longer is, the partition's.
THEOREM AnswersAreTrue == Spec => []AnswerIsTrue
<1>1. HistoryInv => AnswerIsTrue
  BY DEF HistoryInv, AnswerInv, AnswerIsTrue
<1>. QED
  BY <1>1, Recorded, PTL

-----------------------------------------------------------------------------
(* The refinement of EventLog.                                             *)

Lists == INSTANCE Sequences

\* The sequences of a partition are 1 .. n, where n counts its rows.
CountInv ==
  \A p \in Partition :
    /\ IsFiniteSet(RowsOf(p))
    /\ \A r \in RowsOf(p) : r.monotonic_sequence <= Cardinality(RowsOf(p))
    /\ RowsOf(p) # {} => \E r \in RowsOf(p) : r.monotonic_sequence = Cardinality(RowsOf(p))

StoreInv == IInv /\ HistoryInv /\ CountInv

\* A free slot behind the tip of the snapshot: the snapshot's tip is still the tip.
LEMMA FreeSlotIsNext ==
  ASSUME StoreInv, NEW w \in Worker, call[w] \in Call, TipFromTable(w), ~SlotTaken(w)
  PROVE  tip[w].monotonic_sequence = Cardinality(RowsOf(call[w].partition))
<1>. DEFINE p == call[w].partition
            n == Cardinality(RowsOf(p))
            s == tip[w].monotonic_sequence
<1>0. p \in Partition /\ event_store \subseteq Row /\ s \in Nat
  BY DEF Call, StoreInv, IInv, TypeOK, TipRow
<1>1. /\ IsFiniteSet(RowsOf(p)) /\ n \in Nat /\ \A r \in RowsOf(p) : r.monotonic_sequence <= n
      /\ RowsOf(p) # {} => \E r \in RowsOf(p) : r.monotonic_sequence = n
      /\ n = 0 <=> RowsOf(p) = {}
  BY <1>0, FS_CardinalityType, FS_EmptySet DEF StoreInv, CountInv
<1>2. \A r \in RowsOf(p) : r.monotonic_sequence # s + 1
  BY DEF SlotTaken, NewRow, SameSlot, RowsOf
<1>3. \A r \in RowsOf(p) : r.monotonic_sequence <= s
  <2> SUFFICES ASSUME NEW r \in RowsOf(p), ~(r.monotonic_sequence <= s) PROVE FALSE
    OBVIOUS
  <2>1. r \in event_store /\ r.partition = p /\ r.monotonic_sequence \in Nat
    BY <1>0 DEF RowsOf, Row
  <2>2. s + 1 \in Nat \ {0} /\ s + 1 <= r.monotonic_sequence
    BY <1>0, <2>1
  <2>3. \E q \in RowsOf(p) : q.monotonic_sequence = s + 1
    BY <2>1, <2>2 DEF StoreInv, HistoryInv, Dense
  <2>. QED
    BY <1>2, <2>3
<1>4. CASE RowsOf(p) = {}
  BY <1>1, <1>4 DEF TipFromTable, NoRow
<1>5. CASE RowsOf(p) # {}
  <2>1. n <= s
    BY <1>1, <1>3, <1>5
  <2>2. tip[w] # NoRow
    BY <1>1, <1>5, <2>1 DEF NoRow
  <2>3. s <= n
    BY <1>1, <2>2 DEF TipFromTable
  <2>. QED
    BY <1>0, <1>1, <2>1, <2>3
<1>. QED
  BY <1>4, <1>5

\* A commit puts one row behind the last one of its partition.
LEMMA CommitCounts ==
  ASSUME StoreInv, NEW w \in Worker, pc[w] = "commit", MakeDurable(w),
         NEW p \in Partition, p = call[w].partition
  PROVE  /\ NewRow(w) \in Row /\ NewRow(w) \notin event_store
         /\ NewRow(w).monotonic_sequence = Cardinality(RowsOf(p)) + 1
         /\ RowsOf(p)' = RowsOf(p) \union {NewRow(w)}
         /\ Cardinality(RowsOf(p)') = Cardinality(RowsOf(p)) + 1 /\ IsFiniteSet(RowsOf(p)')
         /\ \A o \in Partition \ {p} : RowsOf(o)' = RowsOf(o)
<1>1. call[w] \in Call /\ NewRow(w) \in Row
  BY NewRowFollows DEF StoreInv, IInv, ActiveCall
<1>2. ~IdTaken(w) /\ ~SlotTaken(w) /\ TipFromTable(w)
  BY DEF StoreInv, IInv, PendingInv, TxnInv
<1>3. NewRow(w).monotonic_sequence = Cardinality(RowsOf(p)) + 1
  BY <1>1, <1>2, FreeSlotIsNext DEF NewRow
<1>4. NewRow(w) \notin event_store
  BY <1>2 DEF IdTaken, SameId
<1>5. event_store' = event_store \union {NewRow(w)} /\ NewRow(w).partition = p
  BY DEF MakeDurable, NewRow
<1>6. RowsOf(p)' = RowsOf(p) \union {NewRow(w)} /\ \A o \in Partition \ {p} : RowsOf(o)' = RowsOf(o)
  BY <1>5 DEF RowsOf
<1>7. IsFiniteSet(RowsOf(p)) /\ NewRow(w) \notin RowsOf(p)
  BY <1>4 DEF StoreInv, CountInv, RowsOf
<1>. QED
  BY <1>1, <1>3, <1>4, <1>6, <1>7, FS_AddElement

LEMMA CountKept ==
  ASSUME StoreInv, NEW w \in Worker, Stored(w)
  PROVE  CountInv'
<1>1. CASE UNCHANGED <<event_store, origin>>
  BY <1>1 DEF StoreInv, CountInv, RowsOf
<1>2. CASE pc[w] = "commit" /\ MakeDurable(w)
  <2>1. call[w].partition \in Partition /\ event_store \subseteq Row
    BY <1>2 DEF StoreInv, IInv, ActiveCall, TypeOK, Call
  <2>. DEFINE new == NewRow(w)
  <2> SUFFICES ASSUME NEW p \in Partition
               PROVE  /\ IsFiniteSet(RowsOf(p)')
                      /\ \A r \in RowsOf(p)' : r.monotonic_sequence <= Cardinality(RowsOf(p)')
                      /\ RowsOf(p)' # {} => \E r \in RowsOf(p)' :
                           r.monotonic_sequence = Cardinality(RowsOf(p)')
    BY DEF CountInv
  <2>2. CASE p # call[w].partition
    <3>1. RowsOf(p)' = RowsOf(p)
      BY <1>2, <2>1, <2>2, CommitCounts
    <3>. QED
      BY <3>1 DEF StoreInv, CountInv
  <2>3. CASE p = call[w].partition
    <3>1. /\ RowsOf(p)' = RowsOf(p) \union {new}
          /\ Cardinality(RowsOf(p)') = Cardinality(RowsOf(p)) + 1 /\ IsFiniteSet(RowsOf(p)')
          /\ new.monotonic_sequence = Cardinality(RowsOf(p)) + 1
      BY <1>2, <2>3, CommitCounts
    <3>2. /\ \A r \in RowsOf(p) : r.monotonic_sequence <= Cardinality(RowsOf(p))
          /\ \A r \in RowsOf(p) : r.monotonic_sequence \in Nat
          /\ Cardinality(RowsOf(p)) \in Nat
      BY <2>1, FS_CardinalityType DEF StoreInv, CountInv, RowsOf, Row
    <3>. DEFINE n == Cardinality(RowsOf(p))
    <3>3. \A r \in RowsOf(p)' : r.monotonic_sequence <= n + 1
      <4>. HIDE DEF new, n
      <4>1. \A r \in RowsOf(p) : r.monotonic_sequence <= n + 1
        BY <3>2 DEF n
      <4>2. new.monotonic_sequence <= n + 1
        BY <3>1, <3>2 DEF n
      <4>. QED
        BY <3>1, <4>1, <4>2
    <3>4. new \in RowsOf(p)'
      BY <3>1
    <3>. QED
      BY <3>1, <3>3, <3>4
  <2>. QED
    BY <2>2, <2>3
<1>. QED
  BY <1>1, <1>2 DEF Stored

\* Every step is some worker's own.
LEMMA StepStores ==
  ASSUME [Next]_vars
  PROVE  UNCHANGED <<event_store, origin>> \/ \E w \in Worker : Stored(w)
BY DEF Next, Progress, Append, Emit, Start, GetTip, Connect, SelectTip, LockTip, LookupExpected,
       Insert, Commit, SerializationFailure, Fault, Crash, vars, Stored

LEMMA CountInductive == StoreInv /\ [Next]_vars => CountInv'
<1> SUFFICES ASSUME StoreInv, [Next]_vars PROVE CountInv'
  OBVIOUS
<1>1. CASE UNCHANGED <<event_store, origin>>
  BY <1>1 DEF StoreInv, CountInv, RowsOf
<1>. QED
  BY <1>1, StepStores, CountKept

LEMMA Counted == Spec => []StoreInv
<1>1. Init => CountInv
  BY FS_EmptySet DEF Init, CountInv, RowsOf
<1>. QED
  BY <1>1, CountInductive, Recorded, PTL DEF Spec, StoreInv

\* Rows numbered 1 .. n, read in order.
LEMMA InOrder ==
  ASSUME NEW rows, NEW n \in Nat, NEW r \in rows, r.monotonic_sequence \in 1..n,
         \A q \in rows : q.monotonic_sequence = r.monotonic_sequence => q = r
  PROVE  [i \in 1..n |-> (CHOOSE q \in rows : q.monotonic_sequence = i).event_id]
           [r.monotonic_sequence] = r.event_id
<1>1. (CHOOSE q \in rows : q.monotonic_sequence = r.monotonic_sequence) = r
  OBVIOUS
<1>. QED
  BY <1>1

\* What the log shows of a partition.
LEMMA LogShape ==
  ASSUME StoreInv, NEW p \in Partition
  PROVE  /\ Cardinality(RowsOf(p)) \in Nat
         /\ DOMAIN StoredLog(p) = 1..Cardinality(RowsOf(p))
         /\ Lists!Len(StoredLog(p)) = Cardinality(RowsOf(p))
         /\ \A r \in RowsOf(p) : /\ r.monotonic_sequence \in 1..Cardinality(RowsOf(p))
                                 /\ StoredLog(p)[r.monotonic_sequence] = r.event_id
         /\ \A i \in 1..Cardinality(RowsOf(p)) : \E r \in RowsOf(p) :
              r.monotonic_sequence = i /\ StoredLog(p)[i] = r.event_id
<1>. DEFINE n == Cardinality(RowsOf(p))
<1>1. /\ n \in Nat /\ \A r \in RowsOf(p) : r.monotonic_sequence \in 1..n
      /\ n # 0 => RowsOf(p) # {}
  <2>1. /\ IsFiniteSet(RowsOf(p)) /\ \A r \in RowsOf(p) : r.monotonic_sequence <= n
        /\ \A r \in RowsOf(p) : r.monotonic_sequence \in Nat \ {0}
    BY DEF StoreInv, CountInv, IInv, TypeOK, RowsOf, Row
  <2>2. n \in Nat /\ (n # 0 => RowsOf(p) # {})
    BY <2>1, FS_CardinalityType, FS_EmptySet
  <2>. HIDE DEF n
  <2>. QED
    BY <2>1, <2>2
<1>2. \A q, r \in RowsOf(p) : q.monotonic_sequence = r.monotonic_sequence => q = r
  BY DEF StoreInv, IInv, ChainInv, Gapless, SameSlot, RowsOf
<1>3. \A r \in RowsOf(p) : StoredLog(p)[r.monotonic_sequence] = r.event_id
  BY <1>1, <1>2, InOrder DEF StoredLog
<1>4. ASSUME NEW i \in 1..n PROVE \E r \in RowsOf(p) : r.monotonic_sequence = i
  <2>1. PICK r \in RowsOf(p) : r.monotonic_sequence = n
    BY <1>1, <1>4 DEF StoreInv, CountInv
  <2>. QED
    BY <1>1, <1>4, <2>1 DEF StoreInv, HistoryInv, Dense, RowsOf
<1>5. DOMAIN StoredLog(p) = 1..n /\ Lists!Len(StoredLog(p)) = n
  BY <1>1 DEF StoredLog
<1>. QED
  BY <1>1, <1>3, <1>4, <1>5

\* The tip a snapshot can show is the end of the log.
LEMMA LogTip ==
  ASSUME StoreInv, NEW p \in Partition
  PROVE  /\ RowsOf(p) = {} => Promise!TipOf(p) = None
         /\ \A r \in RowsOf(p) : r.monotonic_sequence = Cardinality(RowsOf(p)) =>
              Promise!TipOf(p) = r.event_id
         /\ \A t \in TipsOf(p) : Promise!TipOf(p) = t.event_id
<1>. DEFINE n == Cardinality(RowsOf(p))
<1>1. /\ n \in Nat /\ DOMAIN StoredLog(p) = 1..n /\ Lists!Len(StoredLog(p)) = n
      /\ \A r \in RowsOf(p) : r.monotonic_sequence \in 1..n
      /\ \A r \in RowsOf(p) : StoredLog(p)[r.monotonic_sequence] = r.event_id
  BY LogShape
<1>2. Promise!TipOf(p) = IF StoredLog(p) = <<>> THEN None ELSE StoredLog(p)[n]
  BY <1>1 DEF Promise!TipOf
<1>3. RowsOf(p) = {} => Promise!TipOf(p) = None
  <2>1. RowsOf(p) = {} => n = 0
    BY FS_EmptySet
  <2>2. n = 0 => StoredLog(p) = <<>>
    BY DEF StoredLog
  <2>. QED
    BY <1>2, <2>1, <2>2
<1>4. ASSUME NEW r \in RowsOf(p), r.monotonic_sequence = n PROVE Promise!TipOf(p) = r.event_id
  BY <1>1, <1>2, <1>4
<1>5. ASSUME NEW t \in TipsOf(p) PROVE Promise!TipOf(p) = t.event_id
  <2>1. CASE RowsOf(p) = {}
    BY <1>3, <1>5, <2>1 DEF TipsOf, NoRow
  <2>2. CASE RowsOf(p) # {}
    <3>1. PICK q \in RowsOf(p) : /\ t.event_id = q.event_id
                                 /\ \A o \in RowsOf(p) : o.monotonic_sequence <= q.monotonic_sequence
      BY <1>5, <2>2 DEF TipsOf
    <3>2. PICK r \in RowsOf(p) : r.monotonic_sequence = n
      BY <2>2 DEF StoreInv, CountInv
    <3>3. q.monotonic_sequence = n
      BY <1>1, <3>1, <3>2
    <3>. QED
      BY <1>4, <3>1, <3>3
  <2>. QED
    BY <2>1, <2>2
<1>. QED
  BY <1>3, <1>4, <1>5

\* The log holds the ids of the stored rows.
LEMMA LogKnows ==
  ASSUME StoreInv, NEW e
  PROVE  Promise!Known(e) <=> \E r \in event_store : r.event_id = e
<1>1. \A p \in Partition : Promise!Stored(e, p) <=> \E r \in RowsOf(p) : r.event_id = e
  <2> SUFFICES ASSUME NEW p \in Partition
               PROVE  (\E i \in DOMAIN StoredLog(p) : StoredLog(p)[i] = e) <=>
                        \E r \in RowsOf(p) : r.event_id = e
    BY DEF Promise!Stored
  <2>. QED
    BY LogShape
<1>2. \A r \in event_store : r.partition \in Partition /\ r \in RowsOf(r.partition)
  BY DEF StoreInv, IInv, TypeOK, Row, RowsOf
<1>3. \A p \in Partition : RowsOf(p) \subseteq event_store
  BY DEF RowsOf
<1>. QED
  BY <1>1, <1>2, <1>3 DEF Promise!Known

\* A step of w leaves the others' part of the abstract state alone.
LEMMA OthersView ==
  ASSUME NEW w \in Worker, OwnStep(w), NEW v \in Worker \ {w}
  PROVE  LogPhase(v)' = LogPhase(v) /\ LogRequest(v)' = LogRequest(v)
         /\ LogAnswer(v)' = LogAnswer(v)
<1>1. pc'[v] = pc[v] /\ call'[v] = call[v] /\ tip'[v] = tip[v] /\ outcome'[v] = outcome[v]
  BY DEF OwnStep
<1>2. LogPhase(v)' = LogPhase(v)
  BY <1>1 DEF LogPhase, CasHolds
<1>. QED
  BY <1>1, <1>2 DEF LogRequest, LogAnswer

LEMMA SameLog ==
  ASSUME UNCHANGED event_store, NEW p \in Partition PROVE StoredLog(p)' = StoredLog(p)
BY DEF StoredLog, RowsOf

Phases == [w \in Worker |-> LogPhase(w)]
Requests == [w \in Worker |-> LogRequest(w)]
Answers == [w \in Worker |-> LogAnswer(w)]
Logs == [p \in Partition |-> StoredLog(p)]

LEMMA ViewChanges ==
  ASSUME NEW w \in Worker, OwnStep(w)
  PROVE  /\ Phases' = [Phases EXCEPT ![w] = LogPhase(w)']
         /\ Requests' = [Requests EXCEPT ![w] = LogRequest(w)']
         /\ Answers' = [Answers EXCEPT ![w] = LogAnswer(w)']
         /\ UNCHANGED event_store => Logs' = Logs
         /\ LogPhase(w)' = LogPhase(w) => Phases' = Phases
         /\ LogRequest(w)' = LogRequest(w) => Requests' = Requests
         /\ LogAnswer(w)' = LogAnswer(w) => Answers' = Answers
BY OthersView, SameLog DEF Phases, Requests, Answers, Logs

\* A caller's request appears, or is answered at once.
LEMMA SubmitStep ==
  ASSUME NEW w \in Worker, OwnStep(w), UNCHANGED event_store, call'[w] \in Call,
         LogPhase(w) = "idle", LogPhase(w)' = "open", LogAnswer(w)' = LogAnswer(w)
  PROVE  Promise!Invoke(w)
<1>1. LogRequest(w)' \in Promise!Request
  BY DEF LogRequest, Promise!Request, Promise!TipHashes, Call, TipHash
<1>2. Promise!Submit(w, LogRequest(w)')
  BY ViewChanges DEF Promise!Submit, Phases, Requests, Answers, Logs
<1>. QED
  BY <1>1, <1>2 DEF Promise!Invoke

LEMMA RejectStep ==
  ASSUME NEW w \in Worker, OwnStep(w), UNCHANGED event_store,
         LogPhase(w) = "idle", LogPhase(w)' = "idle", LogAnswer(w)' = "none"
  PROVE  Promise!Reject(w)
<1>1. LogRequest(w)' = LogRequest(w)
  BY DEF LogRequest
<1>. QED
  BY <1>1, ViewChanges DEF Promise!Reject, Phases, Requests, Answers, Logs

\* Nothing the log shows changes.
LEMMA StutterStep ==
  ASSUME NEW w \in Worker, OwnStep(w), UNCHANGED event_store, LogPhase(w)' = LogPhase(w),
         LogPhase(w) = "idle" \/ call'[w] = call[w], LogAnswer(w)' = LogAnswer(w)
  PROVE  UNCHANGED Promise!logVars
<1>1. LogRequest(w)' = LogRequest(w)
  BY DEF LogRequest
<1>. QED
  BY <1>1, ViewChanges DEF Promise!logVars, Phases, Requests, Answers, Logs

LEMMA RefuseStep ==
  ASSUME NEW w \in Worker, OwnStep(w), UNCHANGED event_store, LogPhase(w) = "open",
         LogPhase(w)' = "refused", call'[w] = call[w], LogAnswer(w)' = LogAnswer(w),
         Promise!TipOf(call[w].partition) # call[w].expected
  PROVE  Promise!Refuse(w)
<1>1. LogRequest(w)' = LogRequest(w) /\ LogRequest(w).partition = call[w].partition
      /\ LogRequest(w).expected = call[w].expected
  BY DEF LogRequest
<1>. QED
  BY <1>1, ViewChanges DEF Promise!Refuse, Phases, Requests, Answers, Logs

LEMMA ReopenStep ==
  ASSUME NEW w \in Worker, OwnStep(w), UNCHANGED event_store, LogPhase(w) = "refused",
         LogPhase(w)' = "open", call'[w] = call[w], LogAnswer(w)' = LogAnswer(w)
  PROVE  Promise!Reopen(w)
<1>1. LogRequest(w)' = LogRequest(w)
  BY DEF LogRequest
<1>. QED
  BY <1>1, ViewChanges DEF Promise!Reopen, Phases, Requests, Answers, Logs

\* The request is answered.
LEMMA FinishStep ==
  ASSUME NEW w \in Worker, OwnStep(w), LogPhase(w)' = "idle", NEW a, LogAnswer(w)' = a
  PROVE  Promise!Finish(w, a)
<1>1. LogRequest(w)' = Promise!NoRequest
  BY DEF LogRequest, Promise!NoRequest
<1>. QED
  BY <1>1, ViewChanges DEF Promise!Finish, Phases, Requests, Answers

\* The phases of a worker, by its statements.
LEMMA PhaseOf ==
  ASSUME NEW w \in Worker
  PROVE  /\ LogPhase(w) = "idle" <=> pc[w] \in {"idle", "getTip"}
         /\ LogPhase(w) = "refused" <=> pc[w] \in {"lock", "lookup"} /\ ~CasHolds(w)
         /\ LogPhase(w) \in {"idle", "open", "refused"}
BY DEF LogPhase

Refines == Promise!LogNext \/ UNCHANGED Promise!logVars

LEMMA AbstractStep ==
  ASSUME NEW w \in Worker,
         \/ Promise!Invoke(w) \/ Promise!Reject(w) \/ Promise!Serve(w) \/ Promise!GiveUp(w)
         \/ UNCHANGED Promise!logVars
  PROVE  Refines
BY DEF Refines, Promise!LogNext

\* An answer without an effect.
LEMMA ReturnView ==
  ASSUME StoreInv, NEW w \in Worker, NEW t \in Tag, NEW x \in Nat, NEW y \in Nat,
         Return(w, t, x, y), Stored(w)
  PROVE  /\ OwnStep(w) /\ LogPhase(w)' = "idle" /\ call' = call
         /\ LogAnswer(w)' = IF t \in {"Appended", "CASFailed", "DuplicateEvent"} THEN t ELSE "none"
<1>1. /\ pc'[w] = "idle" /\ call' = call
      /\ outcome'[w] = [tag |-> t, expected_version |-> x, actual_version |-> y]
      /\ OwnStep(w)
  BY DEF Return, Answer, OwnStep, StoreInv, IInv, TypeOK
<1>. QED
  BY <1>1 DEF LogPhase, LogAnswer

LEMMA NoAnswerStep ==
  ASSUME StoreInv, NEW w \in Worker, pc[w] # "idle",
         NEW t \in {"EventStoreUnavailable", "defect", "lost"},
         Return(w, t, 0, 0), UNCHANGED <<event_store, origin>>
  PROVE  Refines
<1>1. t \in Tag /\ 0 \in Nat /\ Stored(w)
  BY DEF Tag, Stored
<1>2. OwnStep(w) /\ LogPhase(w)' = "idle" /\ LogAnswer(w)' = "none"
  BY <1>1, ReturnView
<1>3. CASE LogPhase(w) = "idle"
  BY <1>2, <1>3, RejectStep, AbstractStep
<1>4. CASE LogPhase(w) # "idle"
  <2>1. Phases[w] # "idle" /\ Logs' = Logs
    BY <1>2, <1>4, ViewChanges DEF Phases
  <2>2. Promise!GiveUp(w)
    BY <1>2, <2>1, FinishStep DEF Promise!GiveUp, Phases, Logs
  <2>. QED
    BY <2>2, AbstractStep
<1>. QED
  BY <1>3, <1>4

\* The tip of the snapshot differs, and the caller is told so.
LEMMA ConflictStep ==
  ASSUME StoreInv, NEW w \in Worker, pc[w] \in {"lock", "lookup"}, ~CasHolds(w),
         NEW x \in Nat, NEW y \in Nat, Return(w, "CASFailed", x, y),
         UNCHANGED <<event_store, origin>>
  PROVE  Refines
<1>1. "CASFailed" \in Tag /\ Stored(w)
  BY DEF Tag, Stored
<1>2. OwnStep(w) /\ LogPhase(w)' = "idle" /\ LogAnswer(w)' = "CASFailed"
  BY <1>1, ReturnView
<1>3. LogPhase(w) = "refused" /\ Logs' = Logs
  BY <1>2, PhaseOf, ViewChanges
<1>4. Promise!AnswerCASFailed(w)
  BY <1>2, <1>3, FinishStep DEF Promise!AnswerCASFailed, Phases, Logs
<1>. QED
  BY <1>4, AbstractStep DEF Promise!Serve

\* A taken slot: the partition has moved on from the tip the caller named.
LEMMA SlotTakenMoved ==
  ASSUME StoreInv, NEW w \in Worker, pc[w] = "insert", SlotTaken(w)
  PROVE  Promise!TipOf(call[w].partition) # call[w].expected
<1>. DEFINE p == call[w].partition
            n == Cardinality(RowsOf(p))
<1>1. /\ p \in Partition /\ TipFromTable(w) /\ call[w].expected = tip[w].event_id
      /\ event_store \subseteq Row /\ tip[w].monotonic_sequence \in Nat
  BY DEF StoreInv, IInv, ActiveCall, Call, TxnInv, CasHolds, TypeOK, TipRow
<1>2. PICK r \in RowsOf(p) : r.monotonic_sequence = tip[w].monotonic_sequence + 1
  BY DEF SlotTaken, NewRow, SameSlot, RowsOf
<1>3. n \in Nat /\ \A s \in RowsOf(p) : s.monotonic_sequence \in 1..n
  BY <1>1, LogShape
<1>4. PICK last \in RowsOf(p) : last.monotonic_sequence = n
  BY <1>1, <1>2 DEF StoreInv, CountInv
<1>5. Promise!TipOf(p) = last.event_id
  BY <1>1, <1>4, LogTip
<1>6. last.monotonic_sequence # tip[w].monotonic_sequence
  <2>. HIDE DEF n, p
  <2>. QED
    BY <1>1, <1>2, <1>3, <1>4
<1>7. CASE tip[w] = NoRow
  <2>1. last.event_id \in Event
    BY <1>1, <1>4 DEF RowsOf, Row
  <2>. QED
    BY <1>1, <1>5, <1>7, <2>1, ConstantsOK DEF NoRow
<1>8. CASE tip[w] # NoRow
  <2>1. PICK s \in RowsOf(p) : /\ s.event_id = tip[w].event_id
                               /\ s.monotonic_sequence = tip[w].monotonic_sequence
    BY <1>1, <1>8 DEF TipFromTable
  <2>2. s # last
    BY <1>6, <2>1
  <2>3. s.event_id # last.event_id
    BY <1>4, <2>1, <2>2 DEF StoreInv, IInv, ChainInv, Gapless, SameId, RowsOf
  <2>. QED
    BY <1>1, <1>5, <2>1, <2>3
<1>. QED
  BY <1>7, <1>8

LEMMA DuplicateStep ==
  ASSUME StoreInv, NEW w \in Worker, pc[w] = "insert", IdTaken(w) \/ SlotTaken(w),
         Return(w, "DuplicateEvent", 0, 0), UNCHANGED <<event_store, origin>>
  PROVE  Refines
<1>1. "DuplicateEvent" \in Tag /\ 0 \in Nat /\ Stored(w)
  BY DEF Tag, Stored
<1>2. OwnStep(w) /\ LogPhase(w)' = "idle" /\ LogAnswer(w)' = "DuplicateEvent"
  BY <1>1, ReturnView
<1>3. LogPhase(w) = "open" /\ Logs' = Logs
  BY <1>2, PhaseOf, ViewChanges
<1>4. LogRequest(w).event = call[w].event /\ LogRequest(w).partition = call[w].partition
      /\ LogRequest(w).expected = call[w].expected
  BY <1>3 DEF LogRequest
<1>5. Promise!Known(call[w].event) \/ Promise!TipOf(call[w].partition) # call[w].expected
  BY LogKnows, SlotTakenMoved DEF IdTaken, SameId, NewRow
<1>6. Promise!AnswerDuplicate(w)
  BY <1>2, <1>3, <1>4, <1>5, FinishStep DEF Promise!AnswerDuplicate, Phases, Requests, Logs
<1>. QED
  BY <1>6, AbstractStep DEF Promise!Serve

\* A commit, acknowledged or not, is the moment at which the append takes effect.
LEMMA ApplyStep ==
  ASSUME StoreInv, StoreInv', NEW w \in Worker, pc[w] = "commit", MakeDurable(w),
         NEW t \in {"Appended", "EventStoreUnavailable", "lost"}, NEW x \in Nat, NEW y \in Nat,
         Return(w, t, x, y)
  PROVE  Refines
<1>. DEFINE p == call[w].partition
            n == Cardinality(RowsOf(p))
            new == NewRow(w)
<1>1. t \in Tag /\ Stored(w) /\ call[w] \in Call /\ p \in Partition
  BY DEF Tag, Stored, StoreInv, IInv, ActiveCall, Call
<1>2. OwnStep(w) /\ LogPhase(w)' = "idle" /\ LogAnswer(w)' \in {"Appended", "none"}
  BY <1>1, ReturnView
<1>3. LogPhase(w) = "open"
  BY PhaseOf
<1>4. LogRequest(w).event = call[w].event /\ LogRequest(w).partition = p
      /\ LogRequest(w).expected = call[w].expected
  BY <1>3 DEF LogRequest
<1>5. ~IdTaken(w) /\ ~SlotTaken(w) /\ TipFromTable(w) /\ call[w].expected = tip[w].event_id
  BY DEF StoreInv, IInv, PendingInv, TxnInv, CasHolds
<1>6. ~Promise!Known(call[w].event)
  BY <1>5, LogKnows DEF IdTaken, SameId, NewRow
<1>7. tip[w].monotonic_sequence = n
  BY <1>1, <1>5, FreeSlotIsNext
<1>8. Promise!TipOf(p) = call[w].expected
  <2>1. CASE tip[w] = NoRow
    <3>1. n = 0
      BY <1>7, <2>1 DEF NoRow
    <3>2. RowsOf(p) = {}
      BY <1>1, <3>1, FS_EmptySet DEF StoreInv, CountInv
    <3>. QED
      BY <1>1, <1>5, <2>1, <3>2, LogTip DEF NoRow
  <2>2. CASE tip[w] # NoRow
    BY <1>1, <1>5, <1>7, <2>2, LogTip DEF TipFromTable
  <2>. QED
    BY <2>1, <2>2
<1>9. Logs' = [Logs EXCEPT ![p] = Lists!Append(@, call[w].event)]
  <2> SUFFICES ASSUME NEW q \in Partition
               PROVE  StoredLog(q)' = IF q = p THEN Lists!Append(StoredLog(q), call[w].event)
                                      ELSE StoredLog(q)
    BY <1>1 DEF Logs
  <2>1. CASE q # p
    <3>1. RowsOf(q)' = RowsOf(q)
      BY <1>1, <2>1, CommitCounts
    <3>. QED
      BY <2>1, <3>1 DEF StoredLog
  <2>2. CASE q = p
    <3>. DEFINE m == Cardinality(RowsOf(q))
    <3>1. /\ new.monotonic_sequence = m + 1 /\ RowsOf(q)' = RowsOf(q) \union {new}
          /\ Cardinality(RowsOf(q)') = m + 1
      BY <2>2, CommitCounts
    <3>2. /\ m \in Nat /\ DOMAIN StoredLog(q) = 1..m
          /\ \A r \in RowsOf(q) : r.monotonic_sequence \in 1..m
          /\ \A i \in 1..m : \E r \in RowsOf(q) :
               r.monotonic_sequence = i /\ StoredLog(q)[i] = r.event_id
      BY LogShape
    <3>3. StoredLog(q)' =
            [i \in 1..(m + 1) |-> (CHOOSE r \in RowsOf(q)' : r.monotonic_sequence = i).event_id]
      BY <3>1 DEF StoredLog
    <3>4. \A r, s \in RowsOf(q)' : r.monotonic_sequence = s.monotonic_sequence => r = s
      BY DEF StoreInv, IInv, ChainInv, Gapless, SameSlot, RowsOf
    <3>5. ASSUME NEW r \in RowsOf(q)' PROVE StoredLog(q)'[r.monotonic_sequence] = r.event_id
      <4>1. m + 1 \in Nat /\ r.monotonic_sequence \in 1..(m + 1)
        <5>. HIDE DEF m, new
        <5>. QED
          BY <3>1, <3>2
      <4>. HIDE DEF m
      <4>. QED
        BY <3>3, <3>4, <4>1, InOrder
    <3>6. ASSUME NEW i \in 1..m PROVE StoredLog(q)'[i] = StoredLog(q)[i]
      BY <3>1, <3>2, <3>5
    <3>7. StoredLog(q)'[m + 1] = call[w].event
      BY <3>1, <3>5 DEF NewRow
    <3>8. Lists!Append(StoredLog(q), call[w].event) =
            [i \in 1..(m + 1) |-> IF i = m + 1 THEN call[w].event ELSE StoredLog(q)[i]]
      <4>1. Lists!Len(StoredLog(q)) = m
        BY LogShape
      <4>2. \A i \in 1..m : StoredLog(q)[i] \in Event
        BY <3>2 DEF RowsOf, StoreInv, IInv, TypeOK, Row
      <4>3. StoredLog(q) \in Lists!Seq(Event)
        <5>1. StoredLog(q) = [i \in 1..m |-> StoredLog(q)[i]]
          BY DEF StoredLog
        <5>. HIDE DEF m
        <5>. QED
          BY <3>2, <4>2, <5>1
      <4>. HIDE DEF m
      <4>. QED
        BY <3>2, <4>1, <4>3
    <3>9. StoredLog(q)' = [i \in 1..(m + 1) |-> StoredLog(q)'[i]]
      BY <3>3
    <3>10. ASSUME NEW i \in 1..(m + 1)
           PROVE  StoredLog(q)'[i] = IF i = m + 1 THEN call[w].event ELSE StoredLog(q)[i]
      <4>. HIDE DEF m
      <4>. QED
        BY <3>2, <3>6, <3>7
    <3>. HIDE DEF m
    <3>. QED
      BY <2>2, <3>8, <3>9, <3>10
  <2>. QED
    BY <2>1, <2>2
<1>10. Promise!Apply(w)
  <2>1. PICK a \in {"Appended", "none"} : LogAnswer(w)' = a
    BY <1>2
  <2>2. Promise!Finish(w, a)
    BY <1>2, <2>1, FinishStep
  <2>3. Phases[w] = "open" /\ Requests[w].event = call[w].event /\ Requests[w].partition = p
        /\ Requests[w].expected = call[w].expected
    BY <1>3, <1>4 DEF Phases, Requests
  <2>. HIDE DEF p
  <2>. QED
    BY <1>6, <1>8, <1>9, <2>2, <2>3 DEF Promise!Apply, Phases, Requests, Logs
<1>. QED
  BY <1>10, AbstractStep DEF Promise!Serve

\* A call is made, and admitted or rejected before there is a transaction.
LEMMA StartStep ==
  ASSUME StoreInv, NEW w \in Worker, Append(w) \/ Emit(w) \/ GetTip(w), IInv'
  PROVE  Refines
<1>1. /\ pc[w] \in {"idle", "getTip"} /\ pc'[w] \in {"idle", "getTip", "connect"}
      /\ UNCHANGED <<event_store, origin>>
      /\ pc'[w] = "idle" => outcome'[w].tag \in Rejection
      /\ pc'[w] # "idle" => outcome' = outcome
      /\ \A v \in Worker \ {w} :
           pc'[v] = pc[v] /\ call'[v] = call[v] /\ tip'[v] = tip[v] /\ outcome'[v] = outcome[v]
  <2>1. \A c : Precheck(c) = "none" \/ Precheck(c) \in Rejection
    BY DEF Precheck, Rejection
  <2>2. CASE Emit(w)
    <3>1. PICK c : /\ Start(w, c)
                   /\ \/ pc' = [pc EXCEPT ![w] = "getTip"] /\ UNCHANGED outcome
                      \/ Admit(w, c)
      BY <2>2 DEF Emit
    <3>2. CASE pc' = [pc EXCEPT ![w] = "getTip"] /\ UNCHANGED outcome
      BY <3>1, <3>2 DEF Start, StoreInv, IInv, TypeOK
    <3>3. CASE Admit(w, c)
      BY <2>1, <3>1, <3>3 DEF Start, Admit, Answer, StoreInv, IInv, TypeOK
    <3>. QED
      BY <3>1, <3>2, <3>3
  <2>3. CASE Append(w)
    <3>1. PICK c : Start(w, c) /\ Admit(w, c)
      BY <2>3 DEF Append
    <3>. QED
      BY <2>1, <3>1 DEF Start, Admit, Answer, StoreInv, IInv, TypeOK
  <2>4. CASE GetTip(w)
    <3>1. PICK c : call' = [call EXCEPT ![w] = c] /\ Admit(w, c)
      BY <2>4 DEF GetTip
    <3>. QED
      BY <2>1, <2>4, <3>1 DEF GetTip, Admit, Answer, StoreInv, IInv, TypeOK
  <2>. QED
    BY <2>2, <2>3, <2>4
<1>2. OwnStep(w)
  <2>1. \/ call'[w].id = call[w].id /\ calls' = calls
        \/ call'[w].id = calls + 1 /\ calls' = calls + 1
    <3>1. CASE Append(w)
      <4>1. PICK e \in Event, p \in Partition, x \in TipHash :
              Start(w, [op |-> "append", event |-> e, partition |-> p, expected |-> x,
                        id |-> calls + 1])
        BY <3>1 DEF Append
      <4>. QED
        BY <4>1 DEF Start, StoreInv, IInv, TypeOK
    <3>2. CASE Emit(w)
      <4>1. PICK e \in Event, p \in Partition :
              Start(w, [op |-> "emit", event |-> e, partition |-> p, expected |-> None,
                        id |-> calls + 1])
        BY <3>2 DEF Emit
      <4>. QED
        BY <4>1 DEF Start, StoreInv, IInv, TypeOK
    <3>3. CASE GetTip(w)
      <4>1. PICK t : call' = [call EXCEPT ![w] = [call[w] EXCEPT !.expected = t]]
        BY <3>3 DEF GetTip
      <4>2. call[w] \in Call
        BY <3>3 DEF GetTip, StoreInv, IInv, ActiveCall
      <4>. QED
        BY <3>3, <4>1, <4>2 DEF GetTip, StoreInv, IInv, TypeOK, Call
    <3>. QED
      BY <3>1, <3>2, <3>3
  <2>. QED
    BY <1>1, <2>1 DEF OwnStep, Stored
<1>3. LogPhase(w) = "idle"
  BY <1>1 DEF LogPhase
<1>4. CASE pc'[w] = "idle"
  <2>1. LogPhase(w)' = "idle" /\ LogAnswer(w)' = "none"
    BY <1>1, <1>4 DEF LogPhase, LogAnswer, Rejection
  <2>. QED
    BY <1>1, <1>2, <1>3, <2>1, RejectStep, AbstractStep
<1>5. CASE pc'[w] = "getTip"
  <2>1. LogPhase(w)' = "idle" /\ LogAnswer(w)' = LogAnswer(w)
    BY <1>1, <1>5 DEF LogPhase, LogAnswer
  <2>. QED
    BY <1>1, <1>2, <1>3, <2>1, StutterStep, AbstractStep
<1>6. CASE pc'[w] = "connect"
  <2>1. LogPhase(w)' = "open" /\ LogAnswer(w)' = LogAnswer(w)
    BY <1>1, <1>6 DEF LogPhase, LogAnswer
  <2>2. call'[w] \in Call
    BY <1>6 DEF IInv, ActiveCall
  <2>. QED
    BY <1>1, <1>2, <1>3, <2>1, <2>2, SubmitStep, AbstractStep
<1>. QED
  BY <1>1, <1>4, <1>5, <1>6

\* The steps of a transaction that neither take effect nor answer.
LEMMA QuietStep ==
  ASSUME StoreInv, NEW w \in Worker, pc[w] \notin {"idle", "getTip"},
         NEW phase \in Phase \ {"idle", "getTip"}, pc' = [pc EXCEPT ![w] = phase],
         UNCHANGED <<event_store, origin, call, calls, outcome>>,
         \A v \in Worker \ {w} : tip'[v] = tip[v]
  PROVE  /\ OwnStep(w) /\ LogAnswer(w)' = LogAnswer(w) /\ call'[w] = call[w]
         /\ LogPhase(w) = LogPhase(w)' => Refines
         /\ LogPhase(w) = "refused" => Refines
         /\ LogPhase(w)' = "open" => Refines
<1>1. OwnStep(w) /\ LogAnswer(w)' = LogAnswer(w) /\ call'[w] = call[w] /\ pc'[w] = phase
  BY DEF OwnStep, Stored, LogAnswer, StoreInv, IInv, TypeOK
<1>2. LogPhase(w) \in {"open", "refused"} /\ LogPhase(w)' \in {"open", "refused"}
  BY <1>1 DEF LogPhase
<1>3. LogPhase(w) = LogPhase(w)' => Refines
  BY <1>1, StutterStep, AbstractStep
<1>4. LogPhase(w) = "refused" /\ LogPhase(w)' = "open" => Refines
  BY <1>1, ReopenStep, AbstractStep DEF Promise!Serve
<1>. QED
  BY <1>1, <1>2, <1>3, <1>4

LEMMA SelectStep ==
  ASSUME StoreInv, NEW w \in Worker, SelectTip(w)
  PROVE  Refines
<1>1. PICK t \in TipsOf(call[w].partition) : tip' = [tip EXCEPT ![w] = t]
  BY DEF SelectTip
<1>2. /\ pc[w] = "select" /\ pc' = [pc EXCEPT ![w] = "lock"] /\ tip'[w] = t /\ pc'[w] = "lock"
      /\ UNCHANGED <<event_store, origin, call, calls, outcome>>
      /\ \A v \in Worker \ {w} : tip'[v] = tip[v]
      /\ call[w].partition \in Partition
  BY <1>1 DEF SelectTip, Goto, StoreInv, IInv, TypeOK, ActiveCall, Call
<1>3. /\ OwnStep(w) /\ LogAnswer(w)' = LogAnswer(w) /\ call'[w] = call[w]
      /\ LogPhase(w)' = "open" => Refines
  BY <1>2, QuietStep DEF Phase
<1>4. LogPhase(w) = "open" /\ LogPhase(w)' = IF CasHolds(w)' THEN "open" ELSE "refused"
  BY <1>2 DEF LogPhase
<1>5. CASE ~CasHolds(w)'
  <2>1. Promise!TipOf(call[w].partition) = t.event_id
    BY <1>2, LogTip
  <2>2. Promise!TipOf(call[w].partition) # call[w].expected
    BY <1>2, <1>5, <2>1 DEF CasHolds
  <2>. QED
    BY <1>2, <1>3, <1>4, <1>5, <2>2, RefuseStep, AbstractStep DEF Promise!Serve
<1>. QED
  BY <1>3, <1>4, <1>5

LEMMA LockStep ==
  ASSUME StoreInv, NEW w \in Worker, LockTip(w)
  PROVE  Refines
<1>0. pc[w] = "lock" /\ UNCHANGED <<event_store, origin>> /\ tip[w].monotonic_sequence \in Nat
  BY DEF LockTip, StoreInv, IInv, TypeOK, TipRow
<1>1. CASE CasHolds(w) /\ Goto(w, "insert") /\ UNCHANGED tip
  <2>1. LogPhase(w)' = "open"
    BY <1>0, <1>1 DEF Goto, LogPhase, StoreInv, IInv, TypeOK
  <2>. QED
    BY <1>0, <1>1, <2>1, QuietStep DEF Goto, Phase
<1>2. CASE ~CasHolds(w) /\ Goto(w, "lookup") /\ UNCHANGED tip
  <2>1. LogPhase(w) = "refused"
    BY <1>0, <1>2 DEF LogPhase
  <2>. QED
    BY <1>0, <1>2, <2>1, QuietStep DEF Goto, Phase
<1>3. CASE ~CasHolds(w) /\ Return(w, "CASFailed", 0, tip[w].monotonic_sequence)
  BY <1>0, <1>3, ConflictStep
<1>. QED
  BY <1>1, <1>2, <1>3 DEF LockTip

LEMMA LookupStep ==
  ASSUME StoreInv, NEW w \in Worker, LookupExpected(w)
  PROVE  Refines
<1>1. pc[w] = "lookup" /\ ~CasHolds(w) /\ tip[w].monotonic_sequence \in Nat
  BY DEF LookupExpected, StoreInv, HistoryInv, AnswerInv, IInv, TypeOK, TipRow
<1>2. PICK x \in Nat : Return(w, "CASFailed", x, tip[w].monotonic_sequence)
  BY DEF LookupExpected, ExpectedRows, RowsOf, StoreInv, IInv, TypeOK, Row
<1>. QED
  BY <1>1, <1>2, ConflictStep DEF LookupExpected

\* Every step of the store is a step of the log, or one that the log does not show.
LEMMA StepSimulates ==
  StoreInv /\ StoreInv' /\ [Next]_vars => [Promise!LogNext]_Promise!logVars
<1> SUFFICES ASSUME StoreInv, StoreInv', [Next]_vars PROVE Refines
  BY DEF Refines
<1>1. ASSUME NEW w \in Worker, Append(w) \/ Emit(w) \/ GetTip(w) PROVE Refines
  BY <1>1, StartStep DEF StoreInv
<1>2. ASSUME NEW w \in Worker, Connect(w) PROVE Refines
  <2>1. LogPhase(w)' = "open"
    BY <1>2 DEF Connect, Goto, LogPhase, StoreInv, IInv, TypeOK
  <2>. QED
    BY <1>2, <2>1, QuietStep DEF Connect, Goto, Phase
<1>3. ASSUME NEW w \in Worker, pc[w] \in {"lock", "insert", "commit"}, Retry(w),
             UNCHANGED <<event_store, origin>>
      PROVE  Refines
  <2>1. LogPhase(w)' = "open" /\ \A v \in Worker \ {w} : tip'[v] = tip[v]
    BY <1>3 DEF Retry, LogPhase, StoreInv, IInv, TypeOK
  <2>. QED
    BY <1>3, <2>1, QuietStep DEF Retry, Phase
<1>4. ASSUME NEW w \in Worker, Insert(w) PROVE Refines
  <2>1. CASE Goto(w, "commit") /\ UNCHANGED tip
    <3>1. LogPhase(w)' = "open"
      BY <1>4, <2>1 DEF Insert, Goto, LogPhase, StoreInv, IInv, TypeOK
    <3>. QED
      BY <1>4, <2>1, <3>1, QuietStep DEF Insert, Goto, Phase
  <2>2. CASE (IdTaken(w) \/ SlotTaken(w)) /\ Return(w, "DuplicateEvent", 0, 0)
    BY <1>4, <2>2, DuplicateStep DEF Insert
  <2>. QED
    BY <1>3, <1>4, <2>1, <2>2 DEF Insert
<1>5. ASSUME NEW w \in Worker, Commit(w) PROVE Refines
  <2>1. NewRow(w).monotonic_sequence \in Nat
    BY <1>5, DurableTyped DEF Commit, StoreInv, IInv, Row
  <2>. QED
    BY <1>5, <2>1, ApplyStep DEF Commit
<1>6. ASSUME NEW w \in Worker, SerializationFailure(w) PROVE Refines
  BY <1>3, <1>6, NoAnswerStep DEF SerializationFailure
<1>7. ASSUME NEW w \in Worker, Fault(w) \/ Crash(w) PROVE Refines
  <2>1. PICK t \in {"EventStoreUnavailable", "defect", "lost"} :
          pc[w] # "idle" /\ Return(w, t, 0, 0) /\ (pc[w] = "commit" => t # "defect")
    BY <1>7 DEF Fault, Crash, FaultTag
  <2>2. CASE UNCHANGED <<event_store, origin>>
    BY <2>1, <2>2, NoAnswerStep
  <2>3. CASE pc[w] = "commit" /\ MakeDurable(w)
    BY <2>1, <2>3, ApplyStep
  <2>. QED
    BY <1>7, <2>2, <2>3 DEF Fault, Crash
<1>8. CASE UNCHANGED vars
  BY <1>8 DEF vars, Refines, Promise!logVars, StoredLog, RowsOf, LogRequest, LogPhase, LogAnswer,
              CasHolds
<1>. QED
  BY <1>1, <1>2, <1>4, <1>5, <1>6, <1>7, <1>8, SelectStep, LockStep, LookupStep
  DEF Next, Progress

\* The append on postgres implements the atomic append of the reference adapter, as
\* EventLog states it: for any number of workers and whatever is interleaved, retried,
\* cut short or answered by an error, each append happens in one step or not at all, and a
\* definite answer was true of the log at a moment between the call and the answer.
THEOREM RefinesEventLog == Spec => ImplementsPromise
<1>1. Init => Promise!LogInit
  <2> SUFFICES ASSUME Init PROVE Promise!LogInit
    OBVIOUS
  <2>1. \A p \in Partition : StoredLog(p) = <<>>
    <3>1. \A p \in Partition : RowsOf(p) = {}
      BY DEF Init, RowsOf
    <3>. QED
      BY <3>1, FS_EmptySet DEF StoredLog
  <2>2. \A w \in Worker : /\ LogPhase(w) = "idle" /\ LogAnswer(w) = "none"
                          /\ LogRequest(w) = Promise!NoRequest
    BY DEF Init, LogPhase, LogAnswer, LogRequest, Promise!NoRequest
  <2>. QED
    BY <2>1, <2>2 DEF Promise!LogInit
<1>. QED
  BY <1>1, Counted, StepSimulates, PTL DEF Spec, ImplementsPromise, Promise!LogSpec

-----------------------------------------------------------------------------
(* Waiting.                                                                *)

\* A finite set of numbers has a greatest one.
LEMMA GreatestNat ==
  ASSUME NEW S \in SUBSET Nat, IsFiniteSet(S), S # {}
  PROVE  \E n \in S : \A m \in S : m <= n
<1>. DEFINE Greatest(R, n) == n \in R /\ \A m \in R : m <= n
            K == {k \in Nat : \E R \in SUBSET Nat :
                    /\ IsFiniteSet(R) /\ R # {} /\ Cardinality(R) = k
                    /\ ~\E n \in R : Greatest(R, n)}
<1>1. SUFFICES ASSUME K # {} PROVE FALSE
  <2>1. Cardinality(S) \in Nat
    BY FS_CardinalityType
  <2>. QED
    BY <1>1, <2>1
<1>2. K \in SUBSET Nat
  OBVIOUS
<1>. HIDE DEF K
<1>3. PICK k \in K : \A j \in K : <<j, k>> \notin OpToRel(<, Nat)
  BY <1>1, <1>2, NatLessThanWellFounded, WFMin
<1>4. PICK R \in SUBSET Nat :
        /\ IsFiniteSet(R) /\ R # {} /\ Cardinality(R) = k
        /\ ~\E n \in R : Greatest(R, n)
  BY DEF K
<1>5. PICK x \in R : TRUE
  BY <1>4
<1>. DEFINE Q == R \ {x}
<1>6. IsFiniteSet(Q) /\ Cardinality(Q) = k - 1
  BY <1>4, <1>5, FS_RemoveElement
<1>7. Cardinality(Q) \in Nat /\ k \in Nat
  BY <1>2, <1>6, FS_CardinalityType
<1>8. Cardinality(Q) \notin K
  <2>1. <<Cardinality(Q), k>> \in OpToRel(<, Nat)
    BY <1>6, <1>7 DEF OpToRel
  <2>. QED
    BY <1>3, <2>1
<1>9. CASE Q = {}
  <2>1. R = {x}
    BY <1>5, <1>9
  <2>2. Greatest(R, x)
    BY <2>1
  <2>. QED
    BY <1>4, <1>5, <2>2
<1>10. CASE Q # {}
  <2>1. PICK n \in Q : Greatest(Q, n)
    BY <1>6, <1>7, <1>8, <1>10 DEF K
  <2>2. n \in Nat /\ x \in Nat
    BY <1>5
  <2>3. Greatest(R, n) \/ Greatest(R, x)
    BY <1>5, <2>1, <2>2
  <2>. QED
    BY <1>4, <1>5, <2>1, <2>3
<1>. QED
  BY <1>9, <1>10

\* The table is finite at any time.
RowsFinite == IsFiniteSet(event_store)

LEMMA StaysFinite == Spec => []RowsFinite
<1>1. Init => RowsFinite
  BY FS_EmptySet DEF Init, RowsFinite
<1>2. ASSUME RowsFinite, [Next]_vars PROVE RowsFinite'
  <2>1. ASSUME NEW w \in Worker, MakeDurable(w) PROVE RowsFinite'
    BY <1>2, <2>1, FS_AddElement DEF MakeDurable, RowsFinite
  <2>2. ASSUME event_store' = event_store PROVE RowsFinite'
    BY <1>2, <2>2 DEF RowsFinite
  <2>3. ASSUME NEW w \in Worker, Progress(w) PROVE RowsFinite'
    BY <2>1, <2>2, <2>3 DEF Progress, GetTip, Connect, SelectTip, LockTip, LookupExpected, Insert,
                            Commit
  <2>4. ASSUME NEW w \in Worker,
               Append(w) \/ Emit(w) \/ SerializationFailure(w) \/ Fault(w) \/ Crash(w)
        PROVE  RowsFinite'
    BY <2>1, <2>2, <2>4 DEF Append, Emit, Start, SerializationFailure, Fault, Crash
  <2>. QED
    BY <1>2, <2>2, <2>3, <2>4 DEF Next, vars
<1>. QED
  BY <1>1, <1>2, PTL DEF Spec

\* So every partition has a tip, if it is only that of an empty one.
LEMMA TipToRead ==
  ASSUME event_store \subseteq Row, IsFiniteSet(event_store), NEW p
  PROVE  TipsOf(p) # {}
<1>1. CASE RowsOf(p) = {}
  BY <1>1 DEF TipsOf
<1>2. CASE RowsOf(p) # {}
  <2>. DEFINE S == {r.monotonic_sequence : r \in RowsOf(p)}
  <2>1. IsFiniteSet(RowsOf(p)) /\ S \in SUBSET Nat /\ S # {}
    <3>1. RowsOf(p) \in SUBSET event_store
      BY DEF RowsOf
    <3>. QED
      BY <1>2, <3>1, FS_Subset DEF Row
  <2>. DEFINE f == [r \in RowsOf(p) |-> r.monotonic_sequence]
  <2>2. IsFiniteSet(S)
    <3>1. f \in Surjection(RowsOf(p), S)
      BY DEF Surjection
    <3>. QED
      BY <2>1, <3>1, FS_Surjection DEF ExistsSurjection
  <2>. HIDE DEF S
  <2>3. PICK n \in S : \A m \in S : m <= n
    BY <2>1, <2>2, GreatestNat
  <2>4. PICK r \in RowsOf(p) : r.monotonic_sequence = n
    BY DEF S
  <2>5. \A o \in RowsOf(p) : o.monotonic_sequence <= r.monotonic_sequence
    BY <2>3, <2>4 DEF S
  <2>. QED
    BY <1>2, <2>5 DEF TipsOf
<1>. QED
  BY <1>1, <1>2

\* Nobody waits in a circle, with any number of workers, as long as the pool has a client more
\* than there are workers.  A transaction past its insert waits for nothing but itself, one
\* that is to insert only for those, one that is to lock only for these two, and a client is
\* always free, even for the look-up of a worker that holds one (event-store.ts:143-243).
THEOREM NobodyWaitsInACircle ==
  ASSUME IsFiniteSet(Worker), Cardinality(Worker) < PoolSize
  PROVE  Spec => []SomebodyIsServed
<1>1. ASSUME TypeOK, RowsFinite PROVE SomebodyIsServed
  <2>1. ClientFree
    <3>1. Holders \in SUBSET Worker
      BY DEF Holders
    <3>2. Cardinality(Holders) <= Cardinality(Worker)
      BY <3>1, FS_Subset
    <3>3. Cardinality(Holders) \in Nat /\ Cardinality(Worker) \in Nat
      BY <3>1, FS_Subset, FS_CardinalityType
    <3>. QED
      BY <3>2, <3>3, ConstantsOK DEF ClientFree
  <2>2. \A p : TipsOf(p) # {}
    BY <1>1, TipToRead DEF TypeOK, RowsFinite
  <2>3. SUFFICES ASSUME NEW w \in Worker, pc[w] # "idle"
                 PROVE  \E v \in Worker : pc[v] # "idle" /\ Served(v)
    BY DEF SomebodyIsServed
  <2>4. CASE \E v \in Worker : pc[v] = "commit"
    BY <2>4 DEF Served
  <2>5. CASE ~\E v \in Worker : pc[v] = "commit"
    <3>1. \A v \in Worker : ~InsertBlocked(v)
      BY <2>5 DEF InsertBlocked
    <3>2. CASE \E v \in Worker : pc[v] = "insert"
      BY <3>1, <3>2 DEF Served
    <3>3. CASE ~\E v \in Worker : pc[v] = "insert"
      <4>1. ~TipLocked(w)
        BY <2>5, <3>3 DEF TipLocked
      <4>2. Served(w)
        BY <2>1, <2>2, <3>1, <4>1 DEF Served
      <4>. QED
        BY <2>3, <4>2
    <3>. QED
      BY <3>2, <3>3
  <2>. QED
    BY <2>4, <2>5
<1>. QED
  BY <1>1, StaysFinite, TypeCorrect, PTL
=============================================================================
