----------------------- MODULE AtomicCompletionProofs -----------------------
(***************************************************************************)
(* Theorems of AtomicCompletion, for every set of workers and completions, *)
(* every retry budget and pool size, and whether or not the ledger key is  *)
(* pinned to the event.                                                    *)
(***************************************************************************)
EXTENDS AtomicCompletion, FiniteSetTheorems, WellFoundedInduction, TLAPS

\* Past the check of the proc's answer, a transaction holds a ledger row whenever
\* its reward needs one.
Paying(w) == pc[w] = "commit" => ~Divergent(w)

Domains == DOMAIN pc = Worker /\ DOMAIN call = Worker /\ DOMAIN snapshot = Worker

PayingInv == Domains /\ \A w \in Worker : Paying(w)

-----------------------------------------------------------------------------

\* A step of w that leaves it anywhere but before COMMIT.
LEMMA AwayFromCommit ==
  ASSUME PayingInv, NEW w \in Worker, Domains', pc'[w] # "commit",
         \A v \in Worker \ {w} :
           pc'[v] = pc[v] /\ call'[v] = call[v] /\ snapshot'[v] = snapshot[v]
  PROVE  PayingInv'
<1>1. ASSUME NEW v \in Worker, v # w PROVE Paying(v)'
  BY <1>1 DEF PayingInv, Paying, Divergent, sumProcDelta, NewLedgerRows, KeyUsed
<1>. QED
  BY <1>1 DEF PayingInv, Paying

LEMMA ReturnPaying ==
  ASSUME PayingInv, NEW w \in Worker, NEW tag, Return(w, tag) PROVE PayingInv'
BY AwayFromCommit DEF Return, PayingInv, Domains

LEMMA RetryPaying ==
  ASSUME PayingInv, NEW w \in Worker, Retry(w) PROVE PayingInv'
BY AwayFromCommit DEF Retry, PayingInv, Domains

LEMMA GotoPaying ==
  ASSUME PayingInv, NEW w \in Worker, NEW phase, phase # "commit", Goto(w, phase)
  PROVE  PayingInv'
BY AwayFromCommit DEF Goto, PayingInv, Domains

\* Nothing that a worker's part depends on changes.
LEMMA IdlePaying ==
  ASSUME PayingInv, UNCHANGED <<pc, call, snapshot>> PROVE PayingInv'
BY DEF PayingInv, Domains, Paying, Divergent, sumProcDelta, NewLedgerRows, KeyUsed

\* Only the check of the proc's answer leads to COMMIT.
LEMMA PayingInductive == PayingInv /\ [Next]_vars => PayingInv'
<1> SUFFICES ASSUME PayingInv, [Next]_vars PROVE PayingInv'
  OBVIOUS
<1>1. ASSUME NEW w \in Worker, GrantAndComplete(w) PROVE PayingInv'
  <2>1. PICK c : call' = [call EXCEPT ![w] = c] /\ UNCHANGED snapshot
    BY <1>1 DEF GrantAndComplete
  <2>2. pc' = [pc EXCEPT ![w] = "connect"] \/ (pc' = pc /\ pc[w] = "idle")
    BY <1>1 DEF GrantAndComplete
  <2>. QED
    BY <2>1, <2>2, AwayFromCommit DEF PayingInv, Domains
<1>2. ASSUME NEW w \in Worker, Connect(w) PROVE PayingInv'
  BY <1>2, GotoPaying DEF Connect
<1>3. ASSUME NEW w \in Worker, Select(w) PROVE PayingInv'
  BY <1>3, AwayFromCommit DEF Select, PayingInv, Domains
<1>4. ASSUME NEW w \in Worker, Lock(w) \/ LookupExpected(w) PROVE PayingInv'
  BY <1>4, GotoPaying, ReturnPaying DEF Lock, LookupExpected
<1>5. ASSUME NEW w \in Worker, AppendEvent(w) \/ RecordGrant(w) PROVE PayingInv'
  BY <1>5, GotoPaying, ReturnPaying, RetryPaying DEF AppendEvent, RecordGrant
<1>6. ASSUME NEW w \in Worker, ApplyResourceMutation(w) PROVE PayingInv'
  <2>1. CASE \E tag : Return(w, tag)
    BY <2>1, ReturnPaying
  <2>2. CASE ~Divergent(w) /\ Goto(w, "commit")
    <3>1. Domains' /\ \A v \in Worker \ {w} : pc'[v] = pc[v]
      BY <2>2 DEF Goto, PayingInv, Domains
    <3>2. \A v \in Worker : Divergent(v)' = Divergent(v)
      BY <2>2 DEF Goto, Divergent, sumProcDelta, NewLedgerRows, KeyUsed
    <3>. QED
      BY <2>2, <3>1, <3>2 DEF PayingInv, Paying
  <2>. QED
    BY <1>6, <2>1, <2>2 DEF ApplyResourceMutation
<1>7. ASSUME NEW w \in Worker, Commit(w) \/ Fault(w) \/ Crash(w) PROVE PayingInv'
  BY <1>7, ReturnPaying DEF Commit, Fault, Crash
<1>8. ASSUME NEW w \in Worker, SerializationFailure(w) PROVE PayingInv'
  BY <1>8, ReturnPaying, RetryPaying DEF SerializationFailure
<1>9. CASE OtherAppend \/ OtherGrant \/ OtherMutation \/ UNCHANGED vars
  BY <1>9, IdlePaying DEF OtherAppend, OtherGrant, OtherMutation, Elsewhere, vars
<1>. QED
  BY <1>1, <1>2, <1>3, <1>4, <1>5, <1>6, <1>7, <1>8, <1>9 DEF Next, Progress

-----------------------------------------------------------------------------

\* The author of a row that joins a table.
LEMMA AuthorJoins ==
  ASSUME NEW table, NEW row
  PROVE  Authors(table \union {row}) = Authors(table) \union ({row.by} \ {NoCall})
BY DEF Authors

\* COMMIT enters its call in the three tables at once.
LEMMA CommitKeepsUnit ==
  ASSUME AllOrNothing, NEW w \in Worker, ~Divergent(w), MakeDurable(w)
  PROVE  AllOrNothing'
<1>. DEFINE own == {call[w]} \ {NoCall}
<1>1. NewEvent(w).by = call[w] /\ NewGrant(w).by = call[w]
  BY DEF NewEvent, NewGrant
<1>2. /\ Authors(event_store') = Authors(event_store) \union own
      /\ Authors(reward_grants') = Authors(reward_grants) \union own
  BY <1>1, AuthorJoins DEF MakeDurable
<1>3. CASE call[w].input.amount = "zero"
  <2>1. ledger' = ledger
    BY <1>3 DEF MakeDurable, NewLedgerRows
  <2>. QED
    BY <1>2, <1>3, <2>1 DEF AllOrNothing, Authors
<1>4. CASE call[w].input.amount # "zero"
  <2>. DEFINE row == [user |-> call[w].input.recipient,
                      idempotency_key |-> call[w].input.key, by |-> call[w]]
  <2>1. ledger' = ledger \union {row}
    BY <1>4 DEF MakeDurable, Divergent, sumProcDelta, NewLedgerRows
  <2>2. row.by = call[w]
    OBVIOUS
  <2>. HIDE DEF row
  <2>3. Authors(ledger') = Authors(ledger) \union own
    BY <2>1, <2>2, AuthorJoins
  <2>. QED
    BY <1>2, <1>4, <2>3 DEF AllOrNothing
<1>. QED
  BY <1>3, <1>4

\* A row of another writer has no author.
LEMMA OthersKeepUnit ==
  ASSUME AllOrNothing, OtherAppend \/ OtherGrant \/ OtherMutation
  PROVE  AllOrNothing'
<1>1. ASSUME NEW table, NEW row, row.by = NoCall
      PROVE  Authors(table \union {row}) = Authors(table)
  BY <1>1, AuthorJoins
<1>2. CASE OtherAppend
  <2>1. PICK row : row.by = NoCall /\ event_store' = event_store \union {row}
    BY <1>2 DEF OtherAppend
  <2>. QED
    BY <1>1, <1>2, <2>1 DEF OtherAppend, AllOrNothing
<1>3. CASE OtherGrant
  <2>1. PICK row : row.by = NoCall /\ reward_grants' = reward_grants \union {row}
    BY <1>3 DEF OtherGrant
  <2>. QED
    BY <1>1, <1>3, <2>1 DEF OtherGrant, AllOrNothing
<1>4. CASE OtherMutation
  <2>1. PICK row : row.by = NoCall /\ ledger' = ledger \union {row}
    <3>1. PICK u \in Recipient, k \in CoarseKey :
            ledger' = ledger \union {[user |-> u, idempotency_key |-> k, by |-> NoCall]}
      BY <1>4 DEF OtherMutation
    <3>. QED
      BY <3>1
  <2>. QED
    BY <1>1, <1>4, <2>1 DEF OtherMutation, AllOrNothing
<1>. QED
  BY <1>2, <1>3, <1>4

LEMMA UnitInductive ==
  PayingInv /\ AllOrNothing /\ [Next]_vars => AllOrNothing'
<1> SUFFICES ASSUME PayingInv, AllOrNothing, [Next]_vars PROVE AllOrNothing'
  OBVIOUS
<1>1. CASE UNCHANGED tables
  BY <1>1 DEF tables, AllOrNothing
<1>2. ASSUME NEW w \in Worker, pc[w] = "commit", MakeDurable(w) PROVE AllOrNothing'
  BY <1>2, CommitKeepsUnit DEF PayingInv, Paying
<1>3. ASSUME NEW w \in Worker, GrantAndComplete(w) \/ Progress(w)
      PROVE  UNCHANGED tables \/ (pc[w] = "commit" /\ MakeDurable(w))
  BY <1>3 DEF GrantAndComplete, Progress, Connect, Select, Lock, LookupExpected, AppendEvent,
              RecordGrant, ApplyResourceMutation, Commit
<1>4. ASSUME NEW w \in Worker, SerializationFailure(w) \/ Fault(w) \/ Crash(w)
      PROVE  UNCHANGED tables \/ (pc[w] = "commit" /\ MakeDurable(w))
  BY <1>4 DEF SerializationFailure, Fault, Crash, Landed
<1>5. CASE UNCHANGED vars
  BY <1>1, <1>5 DEF vars, tables
<1>. QED
  BY <1>1, <1>2, <1>3, <1>4, <1>5, OthersKeepUnit DEF Next

\* A completion, its grant and its ledger row are durable together or not at all:
\* in every reachable state, with any number of workers, failures at any statement
\* and any use of the host's coarse keys.
THEOREM UnitOfWork == Spec => []AllOrNothing
<1>1. Init => PayingInv /\ AllOrNothing
  BY DEF Init, PayingInv, Domains, Paying, AllOrNothing, Authors
<1>. QED
  BY <1>1, PayingInductive, UnitInductive, PTL DEF Spec

-----------------------------------------------------------------------------
(* A completion pays once.                                                 *)

\* The transactions that have inserted their event.
AfterAppend == {"grant", "mutate", "commit"}

EventsOnce == \A r, q \in event_store : r.event_id = q.event_id => r = q

GrantsOnce == \A g, h \in reward_grants : SameGrant(g, h) => g = h

\* A completion's row is of its own event.
OwnEvent == \A r \in event_store : r.by # NoCall => r.event_id = r.by.input.event

\* What a transaction has inserted and not committed is nobody else's.
Fresh(w) ==
  /\ pc[w] \in AfterAppend => ~IdTaken(w)
  /\ pc[w] \in {"mutate", "commit"} => ~GrantTaken(w)

Apart(v, w) ==
  pc[v] \in AfterAppend /\ pc[w] \in AfterAppend => call[v].input.event # call[w].input.event

OnceInv ==
  /\ Domains /\ EventsOnce /\ GrantsOnce /\ OwnEvent
  /\ \A w \in Worker : Fresh(w)
  /\ \A v, w \in Worker : v # w => Apart(v, w)

\* A step of w, of which the others see nothing, that leaves its inserts fresh.
LEMMA WorkKeepsOnce ==
  ASSUME OnceInv, NEW w \in Worker, Domains', UNCHANGED tables, Fresh(w)',
         \A v \in Worker \ {w} : pc'[v] = pc[v] /\ call'[v] = call[v],
         \A v \in Worker \ {w} : Apart(v, w)'
  PROVE  OnceInv'
<1>1. (EventsOnce /\ GrantsOnce /\ OwnEvent)'
  BY DEF OnceInv, EventsOnce, GrantsOnce, OwnEvent, SameGrant, tables
<1>2. ASSUME NEW v \in Worker, v # w PROVE Fresh(v)'
  BY <1>2 DEF OnceInv, Fresh, IdTaken, GrantTaken, SameGrant, NewGrant, deriveGrantedEventId, tables
<1>3. ASSUME NEW u \in Worker, NEW v \in Worker, u # v PROVE Apart(u, v)'
  BY <1>3 DEF OnceInv, Apart
<1>. QED
  BY <1>1, <1>2, <1>3 DEF OnceInv

\* A step of w that takes it out of its transaction, or not yet past the append.
LEMMA AwayKeepsOnce ==
  ASSUME OnceInv, NEW w \in Worker, Domains', UNCHANGED tables, pc'[w] \notin AfterAppend,
         \A v \in Worker \ {w} : pc'[v] = pc[v] /\ call'[v] = call[v]
  PROVE  OnceInv'
<1>1. Fresh(w)' /\ \A v \in Worker \ {w} : Apart(v, w)'
  BY DEF Fresh, Apart, AfterAppend
<1>. QED
  BY <1>1, WorkKeepsOnce

LEMMA ReturnKeepsOnce ==
  ASSUME OnceInv, NEW w \in Worker, NEW tag, Return(w, tag), UNCHANGED tables
  PROVE  OnceInv'
BY AwayKeepsOnce DEF Return, OnceInv, Domains, AfterAppend

LEMMA RetryKeepsOnce ==
  ASSUME OnceInv, NEW w \in Worker, Retry(w), UNCHANGED tables
  PROVE  OnceInv'
BY AwayKeepsOnce DEF Retry, OnceInv, Domains, AfterAppend

LEMMA GotoKeepsOnce ==
  ASSUME OnceInv, NEW w \in Worker, NEW phase, phase \notin AfterAppend, Goto(w, phase),
         UNCHANGED tables
  PROVE  OnceInv'
BY AwayKeepsOnce DEF Goto, OnceInv, Domains

\* The primary key: the insert of an event waits for one that is not committed, and
\* finds one that is.
LEMMA AppendKeepsOnce ==
  ASSUME OnceInv, NEW w \in Worker, AppendEvent(w)
  PROVE  OnceInv'
<1>1. CASE ~IdTaken(w) /\ ~SlotTaken(w) /\ Goto(w, "grant")
  <2>1. Domains' /\ pc'[w] = "grant" /\ UNCHANGED <<tables, call>>
        /\ \A v \in Worker \ {w} : pc'[v] = pc[v]
    BY <1>1 DEF AppendEvent, Goto, OnceInv, Domains
  <2>2. Fresh(w)'
    BY <1>1, <2>1 DEF Fresh, IdTaken, tables
  <2>3. ASSUME NEW v \in Worker \ {w} PROVE Apart(v, w)'
    <3>1. v \in Appended => NewEvent(v).event_id # NewEvent(w).event_id
      BY DEF AppendEvent, EventBlocked
    <3>2. pc[v] \in AfterAppend => call[v].input.event # call[w].input.event
      BY <3>1 DEF Appended, AfterAppend, NewEvent
    <3>. QED
      BY <2>1, <3>2 DEF Apart
  <2>. QED
    BY <2>1, <2>2, <2>3, WorkKeepsOnce
<1>2. CASE \E tag : Return(w, tag)
  BY <1>2, ReturnKeepsOnce DEF AppendEvent
<1>3. CASE Retry(w)
  BY <1>3, RetryKeepsOnce DEF AppendEvent
<1>. QED
  BY <1>1, <1>2, <1>3 DEF AppendEvent

\* The later statements of a transaction.
LEMMA StatementKeepsOnce ==
  ASSUME OnceInv, NEW w \in Worker, NEW phase \in {"mutate", "commit"}, Goto(w, phase),
         pc[w] \in AfterAppend, ~GrantTaken(w), UNCHANGED tables
  PROVE  OnceInv'
<1>1. Domains' /\ pc'[w] = phase /\ UNCHANGED call /\ \A v \in Worker \ {w} : pc'[v] = pc[v]
  BY DEF Goto, OnceInv, Domains
<1>2. Fresh(w)'
  BY <1>1 DEF OnceInv, Fresh, IdTaken, GrantTaken, SameGrant, NewGrant, deriveGrantedEventId, tables
<1>3. \A v \in Worker \ {w} : Apart(v, w)'
  BY <1>1 DEF OnceInv, Apart
<1>. QED
  BY <1>1, <1>2, <1>3, WorkKeepsOnce

\* COMMIT: the new event and the new grant are fresh, and nobody else is about to add
\* them.
LEMMA CommitKeepsOnce ==
  ASSUME OnceInv, NEW w \in Worker, pc[w] = "commit", MakeDurable(w), NEW tag, Return(w, tag)
  PROVE  OnceInv'
<1>. DEFINE e == NewEvent(w)
            g == NewGrant(w)
<1>1. /\ e.event_id = call[w].input.event /\ e.by = call[w]
      /\ g.originating_event_id = call[w].input.event
      /\ event_store' = event_store \union {e} /\ reward_grants' = reward_grants \union {g}
  BY DEF NewEvent, NewGrant, MakeDurable
<1>2. /\ \A r \in event_store : r.event_id # call[w].input.event
      /\ \A h \in reward_grants : ~SameGrant(h, g)
  BY DEF OnceInv, Fresh, AfterAppend, IdTaken, GrantTaken
<1>3. /\ Domains' /\ pc'[w] = "idle" /\ UNCHANGED call
      /\ \A v \in Worker \ {w} : pc'[v] = pc[v]
  BY DEF Return, OnceInv, Domains
<1>. HIDE DEF e, g
<1>4. EventsOnce' /\ OwnEvent'
  BY <1>1, <1>2 DEF OnceInv, EventsOnce, OwnEvent
<1>5. GrantsOnce'
  BY <1>1, <1>2 DEF OnceInv, GrantsOnce, SameGrant
<1>6. ASSUME NEW v \in Worker PROVE Fresh(v)'
  <2>1. CASE v = w
    BY <1>3, <2>1 DEF Fresh, AfterAppend
  <2>2. CASE v # w /\ pc[v] \in AfterAppend
    <3>1. call[v].input.event # call[w].input.event
      BY <2>2 DEF OnceInv, Apart, AfterAppend
    <3>2. NewGrant(v).originating_event_id = call[v].input.event
      BY DEF NewGrant
    <3>3. NewGrant(v)' = NewGrant(v)
      BY <1>3 DEF NewGrant, deriveGrantedEventId
    <3>4. ~SameGrant(g, NewGrant(v))
      BY <1>1, <3>1, <3>2 DEF SameGrant
    <3>5. ~IdTaken(v)'
      BY <1>1, <1>3, <2>2, <3>1 DEF OnceInv, Fresh, IdTaken
    <3>6. pc[v] \in {"mutate", "commit"} => ~GrantTaken(v)'
      BY <1>1, <2>2, <3>3, <3>4 DEF OnceInv, Fresh, GrantTaken, SameGrant
    <3>. QED
      BY <1>3, <2>2, <3>5, <3>6 DEF Fresh
  <2>3. CASE v # w /\ pc[v] \notin AfterAppend
    BY <1>3, <2>3 DEF Fresh, AfterAppend
  <2>. QED
    BY <2>1, <2>2, <2>3
<1>7. ASSUME NEW u \in Worker, NEW v \in Worker, u # v PROVE Apart(u, v)'
  BY <1>3, <1>7 DEF OnceInv, Apart, AfterAppend
<1>. QED
  BY <1>3, <1>4, <1>5, <1>6, <1>7 DEF OnceInv

\* The other writers are held to the same unique indexes.
LEMMA OthersKeepOnce ==
  ASSUME OnceInv, OtherAppend \/ OtherGrant \/ OtherMutation
  PROVE  OnceInv'
<1>1. UNCHANGED <<pc, call, snapshot>>
  BY DEF OtherAppend, OtherGrant, OtherMutation, Elsewhere
<1>2. Domains' /\ \A u, v \in Worker : u # v => Apart(u, v)'
  BY <1>1 DEF OnceInv, Domains, Apart
<1>3. \A v \in Worker : NewGrant(v)' = NewGrant(v)
  BY <1>1 DEF NewGrant, deriveGrantedEventId
<1>4. CASE OtherAppend
  <2>1. PICK row : /\ event_store' = event_store \union {row} /\ row.by = NoCall
                   /\ ~\E r \in event_store : r.event_id = row.event_id
                   /\ ~EventBlocked(row)
    BY <1>4 DEF OtherAppend
  <2>2. UNCHANGED reward_grants
    BY <1>4 DEF OtherAppend
  <2>3. EventsOnce' /\ OwnEvent' /\ GrantsOnce'
    BY <2>1, <2>2 DEF OnceInv, EventsOnce, OwnEvent, GrantsOnce, SameGrant
  <2>4. ASSUME NEW v \in Worker PROVE Fresh(v)'
    <3>1. pc[v] \in AfterAppend => call[v].input.event # row.event_id
      BY <2>1 DEF EventBlocked, Appended, AfterAppend, NewEvent
    <3>2. pc[v] \in AfterAppend => ~IdTaken(v)'
      BY <1>1, <2>1, <3>1 DEF OnceInv, Fresh, IdTaken
    <3>3. pc[v] \in {"mutate", "commit"} => ~GrantTaken(v)'
      BY <1>3, <2>2 DEF OnceInv, Fresh, GrantTaken, SameGrant
    <3>. QED
      BY <1>1, <3>2, <3>3 DEF Fresh
  <2>. QED
    BY <1>2, <2>3, <2>4 DEF OnceInv
<1>5. CASE OtherGrant
  <2>1. PICK row : /\ reward_grants' = reward_grants \union {row}
                   /\ ~\E g \in reward_grants : SameGrant(g, row)
                   /\ ~GrantBlocked(row)
    BY <1>5 DEF OtherGrant
  <2>2. UNCHANGED event_store
    BY <1>5 DEF OtherGrant
  <2>3. EventsOnce' /\ OwnEvent' /\ GrantsOnce'
    BY <2>1, <2>2 DEF OnceInv, EventsOnce, OwnEvent, GrantsOnce, SameGrant
  <2>4. ASSUME NEW v \in Worker PROVE Fresh(v)'
    <3>1. pc[v] \in {"mutate", "commit"} => ~SameGrant(row, NewGrant(v))
      BY <2>1 DEF GrantBlocked, Granted, SameGrant
    <3>2. pc[v] \in {"mutate", "commit"} => ~GrantTaken(v)'
      BY <1>3, <2>1, <3>1 DEF OnceInv, Fresh, GrantTaken, SameGrant
    <3>3. pc[v] \in AfterAppend => ~IdTaken(v)'
      BY <1>1, <2>2 DEF OnceInv, Fresh, IdTaken
    <3>. QED
      BY <1>1, <3>2, <3>3 DEF Fresh
  <2>. QED
    BY <1>2, <2>3, <2>4 DEF OnceInv
<1>6. CASE OtherMutation
  <2>1. UNCHANGED <<event_store, reward_grants>>
    BY <1>6 DEF OtherMutation
  <2>. QED
    BY <1>1, <1>2, <1>3, <2>1
    DEF OnceInv, EventsOnce, OwnEvent, GrantsOnce, Fresh, IdTaken, GrantTaken, SameGrant
<1>. QED
  BY <1>4, <1>5, <1>6

LEMMA OnceInductive == OnceInv /\ [Next]_vars => OnceInv'
<1> SUFFICES ASSUME OnceInv, [Next]_vars PROVE OnceInv'
  OBVIOUS
<1>1. ASSUME NEW w \in Worker, GrantAndComplete(w) PROVE OnceInv'
  <2>1. PICK c : call' = [call EXCEPT ![w] = c] /\ UNCHANGED <<tables, snapshot>>
    BY <1>1 DEF GrantAndComplete
  <2>2. pc' = [pc EXCEPT ![w] = "connect"] \/ (pc' = pc /\ pc[w] = "idle")
    BY <1>1 DEF GrantAndComplete
  <2>. QED
    BY <2>1, <2>2, AwayKeepsOnce DEF OnceInv, Domains, AfterAppend
<1>2. ASSUME NEW w \in Worker, Connect(w) \/ Lock(w) \/ LookupExpected(w) PROVE OnceInv'
  BY <1>2, GotoKeepsOnce, ReturnKeepsOnce DEF Connect, Lock, LookupExpected, AfterAppend
<1>3. ASSUME NEW w \in Worker, Select(w) PROVE OnceInv'
  BY <1>3, AwayKeepsOnce DEF Select, OnceInv, Domains, AfterAppend
<1>4. ASSUME NEW w \in Worker, RecordGrant(w) PROVE OnceInv'
  BY <1>4, StatementKeepsOnce, ReturnKeepsOnce DEF RecordGrant, AfterAppend
<1>5. ASSUME NEW w \in Worker, ApplyResourceMutation(w) PROVE OnceInv'
  <2>1. pc[w] \in AfterAppend /\ ~GrantTaken(w)
    BY <1>5 DEF ApplyResourceMutation, OnceInv, Fresh, AfterAppend
  <2>. QED
    BY <1>5, <2>1, StatementKeepsOnce, ReturnKeepsOnce DEF ApplyResourceMutation
<1>6. ASSUME NEW w \in Worker, SerializationFailure(w) PROVE OnceInv'
  BY <1>6, RetryKeepsOnce, ReturnKeepsOnce DEF SerializationFailure
<1>7. ASSUME NEW w \in Worker, Commit(w) \/ Fault(w) \/ Crash(w) PROVE OnceInv'
  BY <1>7, CommitKeepsOnce, ReturnKeepsOnce DEF Commit, Fault, Crash, Landed
<1>8. CASE UNCHANGED vars
  BY <1>8 DEF vars, OnceInv, Domains, EventsOnce, GrantsOnce, OwnEvent, Fresh, Apart, IdTaken,
              GrantTaken, SameGrant, NewGrant, deriveGrantedEventId
<1>. QED
  BY <1>1, <1>2, <1>3, <1>4, <1>5, <1>6, <1>7, <1>8, AppendKeepsOnce, OthersKeepOnce
  DEF Next, Progress

\* A completion moves a balance at most once, and is granted at most once to a
\* recipient, however it is retried, raced or cut short: for any number of workers
\* and whether or not the ledger key is pinned to the event.
THEOREM NeverPaidTwice == Spec => []PaidOnce
<1>1. Init => OnceInv
  BY DEF Init, OnceInv, Domains, EventsOnce, GrantsOnce, OwnEvent, Fresh, Apart, AfterAppend
<1>2. ASSUME OnceInv, AllOrNothing,
             NEW c \in Authors(ledger), NEW d \in Authors(ledger), c.input.event = d.input.event
      PROVE  c = d
  <2>1. c \in Authors(event_store) /\ d \in Authors(event_store)
    BY <1>2 DEF AllOrNothing
  <2>2. PICK q, r \in event_store : q.by = c /\ r.by = d /\ c # NoCall /\ d # NoCall
    BY <2>1 DEF Authors
  <2>. QED
    BY <1>2, <2>2 DEF OnceInv, OwnEvent, EventsOnce
<1>3. OnceInv /\ AllOrNothing => PaidOnce
  BY <1>2 DEF PaidOnce, OnceInv, GrantsOnce
<1>. QED
  BY <1>1, <1>3, OnceInductive, UnitOfWork, PTL DEF Spec

-----------------------------------------------------------------------------
(* Types.                                                                  *)

ActiveCall == \A w \in Worker : pc[w] # "idle" => call[w] \in Call

TypeInv == TypeOK /\ Domains /\ ActiveCall

LEMMA CallTyped == ASSUME NEW c \in Call
  PROVE  /\ c \in By /\ c.input \in Input /\ c.expected \in TipHash /\ c.id \in Nat
         /\ c.input.event \in Event /\ c.input.partition \in Partition
         /\ c.input.recipient \in Recipient /\ c.input.amount \in Amount
         /\ c.input.key \in Event \union CoarseKey
BY ConstantsOK DEF Call, By

LEMMA NoSnapshotTyped == NoSnapshot.tip \in TipRow /\ NoSnapshot.account \subseteq LedgerRow
BY DEF NoSnapshot, NoRow, TipRow, TipHash

\* The tip a snapshot can show: a row of the partition, behind which the slot is free.
LEMMA TipsTyped ==
  ASSUME event_store \subseteq EventRow, NEW p \in Partition, NEW t \in TipsOf(p)
  PROVE  /\ t \in TipRow
         /\ t = NoRow \/ \E r \in RowsOf(p) : /\ r.event_id = t.event_id
                                              /\ r.monotonic_sequence = t.monotonic_sequence
         /\ \A r \in RowsOf(p) : r.monotonic_sequence <= t.monotonic_sequence
<1>. USE DEF TipRow, TipHash, NoRow, RowsOf, EventRow
<1>1. CASE RowsOf(p) = {}
  BY <1>1 DEF TipsOf
<1>2. CASE RowsOf(p) # {}
  <2>1. PICK r \in RowsOf(p) :
          /\ t = [event_id |-> r.event_id, monotonic_sequence |-> r.monotonic_sequence]
          /\ \A o \in RowsOf(p) : o.monotonic_sequence <= r.monotonic_sequence
    BY <1>2 DEF TipsOf
  <2>. QED
    BY <2>1
<1>. QED
  BY <1>1, <1>2

LEMMA ReturnTyped ==
  ASSUME TypeInv, NEW w \in Worker, NEW tag \in Tag, Return(w, tag),
         event_store' \subseteq EventRow, reward_grants' \subseteq GrantRow,
         ledger' \subseteq LedgerRow
  PROVE  TypeInv'
<1>1. /\ pc' \in [Worker -> Phase] /\ attempt' \in [Worker -> 0..MaxRetries]
      /\ outcome' \in [Worker -> Tag] /\ Domains' /\ ActiveCall'
  BY ConstantsOK DEF TypeInv, TypeOK, Domains, ActiveCall, Return, Phase
<1>2. \A v \in Worker : snapshot'[v].tip \in TipRow /\ snapshot'[v].account \subseteq ledger \union LedgerRow
  BY NoSnapshotTyped DEF TypeInv, TypeOK, Domains, Return
<1>3. \A v \in Worker : snapshot'[v].account \subseteq LedgerRow
  BY <1>2 DEF TypeInv, TypeOK
<1>. QED
  BY <1>1, <1>2, <1>3 DEF TypeInv, TypeOK, Return

LEMMA RetryTyped ==
  ASSUME TypeInv, NEW w \in Worker, pc[w] # "idle", Retry(w), UNCHANGED tables
  PROVE  TypeInv'
<1>1. /\ pc' \in [Worker -> Phase] /\ attempt' \in [Worker -> 0..MaxRetries]
      /\ Domains' /\ ActiveCall'
  BY ConstantsOK DEF TypeInv, TypeOK, Domains, ActiveCall, Retry, Phase
<1>2. \A v \in Worker : snapshot'[v].tip \in TipRow /\ snapshot'[v].account \subseteq LedgerRow
  BY NoSnapshotTyped DEF TypeInv, TypeOK, Domains, Retry
<1>. QED
  BY <1>1, <1>2 DEF TypeInv, TypeOK, Retry, tables

LEMMA GotoTyped ==
  ASSUME TypeInv, NEW w \in Worker, NEW phase \in Phase, pc[w] # "idle", Goto(w, phase),
         UNCHANGED tables
  PROVE  TypeInv'
BY DEF TypeInv, TypeOK, Domains, ActiveCall, Goto, tables

\* What COMMIT writes fits the tables.
LEMMA DurableTyped ==
  ASSUME TypeInv, NEW w \in Worker, pc[w] # "idle", MakeDurable(w)
  PROVE  /\ event_store' \subseteq EventRow /\ reward_grants' \subseteq GrantRow
         /\ ledger' \subseteq LedgerRow
<1>1. call[w] \in Call /\ snapshot[w].tip \in TipRow
  BY DEF TypeInv, TypeOK, ActiveCall
<1>2. NewEvent(w) \in EventRow
  BY <1>1, CallTyped DEF NewEvent, EventRow, TipRow
<1>3. NewGrant(w) \in GrantRow
  BY <1>1, CallTyped DEF NewGrant, GrantRow, GrantedId, deriveGrantedEventId
<1>4. NewLedgerRows(w) \subseteq LedgerRow
  BY <1>1, CallTyped DEF NewLedgerRows, LedgerRow
<1>. QED
  BY <1>2, <1>3, <1>4 DEF MakeDurable, TypeInv, TypeOK

LEMMA LandedTyped ==
  ASSUME TypeInv, NEW w \in Worker, pc[w] # "idle", Landed(w)
  PROVE  /\ event_store' \subseteq EventRow /\ reward_grants' \subseteq GrantRow
         /\ ledger' \subseteq LedgerRow
BY DurableTyped DEF Landed, tables, TypeInv, TypeOK

LEMMA TypeInductive == TypeInv /\ [Next]_vars => TypeInv'
<1> SUFFICES ASSUME TypeInv, [Next]_vars PROVE TypeInv'
  OBVIOUS
<1>0. /\ event_store \subseteq EventRow /\ reward_grants \subseteq GrantRow
      /\ ledger \subseteq LedgerRow
      /\ Refusal \subseteq Tag /\ {"RewardGranted", "lost"} \subseteq Tag
      /\ \A w \in Worker : FaultTags(w) \subseteq Tag /\ Exhausted(w) \in Tag
  BY DEF TypeInv, TypeOK, Tag, FaultTags, Exhausted
<1>1. ASSUME NEW w \in Worker, GrantAndComplete(w) PROVE TypeInv'
  <2>1. PICK i \in Input, x \in TipHash :
          /\ call' = [call EXCEPT ![w] = [input |-> i, expected |-> x, id |-> calls + 1]]
          /\ \/ /\ pc' = [pc EXCEPT ![w] = "connect"] /\ UNCHANGED outcome
             \/ /\ Precheck(w, i) # "none" /\ UNCHANGED pc
                /\ outcome' = [outcome EXCEPT ![w] = Precheck(w, i)]
    BY <1>1 DEF GrantAndComplete
  <2>2. [input |-> i, expected |-> x, id |-> calls + 1] \in Call
    BY DEF Call, TypeInv, TypeOK
  <2>3. Precheck(w, i) # "none" => Precheck(w, i) \in Tag
    BY DEF Precheck, Tag, Refusal
  <2>4. /\ pc' \in [Worker -> Phase] /\ outcome' \in [Worker -> Tag]
        /\ call' \in [Worker -> By]
    BY <2>1, <2>2, <2>3 DEF TypeInv, TypeOK, Phase, By
  <2>5. calls' \in 0..MaxCalls
    BY <1>1, ConstantsOK DEF GrantAndComplete, TypeInv, TypeOK
  <2>6. Domains' /\ ActiveCall'
    BY <1>1, <2>1, <2>2 DEF GrantAndComplete, TypeInv, TypeOK, Domains, ActiveCall
  <2>. QED
    BY <1>1, <2>4, <2>5, <2>6 DEF GrantAndComplete, TypeInv, TypeOK, tables
<1>2. ASSUME NEW w \in Worker, Connect(w) PROVE TypeInv'
  BY <1>2, GotoTyped DEF Connect, Phase
<1>3. ASSUME NEW w \in Worker, Select(w) PROVE TypeInv'
  <2>1. PICK t \in TipsOf(call[w].input.partition) : snapshot' = [snapshot EXCEPT ![w] =
          [tip |-> t, account |-> Account(call[w].input.recipient)]]
    BY <1>3 DEF Select
  <2>2. t \in TipRow
    <3>1. call[w].input.partition \in Partition
      BY <1>3, CallTyped DEF Select, TypeInv, ActiveCall
    <3>. QED
      BY <1>0, <3>1, TipsTyped
  <2>3. Account(call[w].input.recipient) \subseteq LedgerRow
    BY <1>0 DEF Account
  <2>4. \A v \in Worker : snapshot'[v].tip \in TipRow /\ snapshot'[v].account \subseteq LedgerRow
    BY <2>1, <2>2, <2>3 DEF TypeInv, TypeOK, Domains
  <2>5. pc' \in [Worker -> Phase] /\ Domains' /\ ActiveCall'
    BY <1>3, <2>1 DEF Select, TypeInv, TypeOK, Domains, ActiveCall, Phase
  <2>. QED
    BY <1>3, <2>4, <2>5 DEF Select, TypeInv, TypeOK, tables
<1>4. ASSUME NEW w \in Worker, NEW tag \in Tag, Return(w, tag), UNCHANGED tables PROVE TypeInv'
  BY <1>0, <1>4, ReturnTyped DEF tables
<1>5. ASSUME NEW w \in Worker, Lock(w) \/ LookupExpected(w) PROVE TypeInv'
  BY <1>0, <1>4, <1>5, GotoTyped DEF Lock, LookupExpected, Phase, Refusal
<1>6. ASSUME NEW w \in Worker, AppendEvent(w) \/ RecordGrant(w) PROVE TypeInv'
  BY <1>0, <1>4, <1>6, GotoTyped, RetryTyped DEF AppendEvent, RecordGrant, Phase, Refusal
<1>7. ASSUME NEW w \in Worker, ApplyResourceMutation(w) PROVE TypeInv'
  BY <1>0, <1>4, <1>7, GotoTyped DEF ApplyResourceMutation, Phase, Refusal
<1>8. ASSUME NEW w \in Worker, SerializationFailure(w) PROVE TypeInv'
  BY <1>0, <1>4, <1>8, RetryTyped DEF SerializationFailure
<1>9. ASSUME NEW w \in Worker, Commit(w) PROVE TypeInv'
  BY <1>0, <1>9, DurableTyped, ReturnTyped DEF Commit
<1>10. ASSUME NEW w \in Worker, Fault(w) \/ Crash(w) PROVE TypeInv'
  BY <1>0, <1>10, LandedTyped, ReturnTyped DEF Fault, Crash
<1>11. ASSUME OtherAppend \/ OtherGrant \/ OtherMutation PROVE TypeInv'
  <2>1. /\ event_store' \subseteq EventRow /\ reward_grants' \subseteq GrantRow
        /\ ledger' \subseteq LedgerRow
    <3>1. CASE OtherAppend
      <4>1. PICK e \in OtherEvent, p \in Partition : \E t \in TipsOf(p) :
              event_store' = event_store \union
                {[event_id |-> e, partition |-> p,
                  monotonic_sequence |-> t.monotonic_sequence + 1, by |-> NoCall]}
        BY <3>1 DEF OtherAppend
      <4>2. \A t \in TipsOf(p) : t.monotonic_sequence \in Nat
        BY <1>0, TipsTyped DEF TipRow
      <4>. QED
        BY <1>0, <3>1, <4>1, <4>2 DEF OtherAppend, EventRow, By
    <3>2. CASE OtherGrant
      <4>1. PICK i \in Input : reward_grants' = reward_grants \union
              {[originating_event_id |-> i.event, recipient |-> i.recipient,
                granted_event_id |-> None, by |-> NoCall]}
        BY <3>2 DEF OtherGrant
      <4>2. i.event \in Event /\ i.recipient \in Recipient
        BY ConstantsOK
      <4>. QED
        BY <1>0, <3>2, <4>1, <4>2 DEF OtherGrant, GrantRow, By
    <3>3. CASE OtherMutation
      BY <1>0, <3>3 DEF OtherMutation, LedgerRow, By
    <3>. QED
      BY <1>11, <3>1, <3>2, <3>3
  <2>. QED
    BY <1>11, <2>1 DEF OtherAppend, OtherGrant, OtherMutation, Elsewhere, TypeInv, TypeOK,
                       Domains, ActiveCall
<1>12. CASE UNCHANGED vars
  BY <1>12 DEF vars, TypeInv, TypeOK, Domains, ActiveCall
<1>. QED
  BY <1>1, <1>2, <1>3, <1>5, <1>6, <1>7, <1>8, <1>9, <1>10, <1>11, <1>12 DEF Next, Progress

LEMMA Typed == Spec => []TypeInv
<1>1. Init => TypeInv
  BY ConstantsOK, NoSnapshotTyped DEF Init, TypeInv, TypeOK, Domains, ActiveCall, Phase, Tag, By
<1>. QED
  BY <1>1, TypeInductive, PTL DEF Spec

\* Every state is well typed: in particular no call starts over more often than
\* maxSerializationRetries allows, and every sequence, grant and ledger row fits its table.
THEOREM TypeCorrect == Spec => []TypeOK
<1>1. TypeInv => TypeOK
  BY DEF TypeInv
<1>. QED
  BY <1>1, Typed, PTL

-----------------------------------------------------------------------------
(* The chain.                                                              *)

\* The statements that run on a tip that has been compared.
AfterCompare == {"append"} \union AfterAppend

TipFromTable(w) ==
  snapshot[w].tip = NoRow \/ \E r \in RowsOf(call[w].input.partition) :
    /\ r.event_id = snapshot[w].tip.event_id
    /\ r.monotonic_sequence = snapshot[w].tip.monotonic_sequence

\* What a transaction writes goes behind the row its caller named, into a free slot.
Placed(w) ==
  /\ pc[w] \in {"lock"} \union AfterCompare => TipFromTable(w)
  /\ pc[w] \in AfterCompare => CasHolds(w)
  /\ pc[w] \in AfterAppend => ~SlotTaken(w)

SlotsApart(v, w) ==
  pc[v] \in AfterAppend /\ pc[w] \in AfterAppend => ~SameSlot(NewEvent(v), NewEvent(w))

SlotsOnce == \A r, q \in event_store : SameSlot(r, q) => r = q

\* A row has a predecessor, the one its author named.
Follows(r) ==
  /\ r.monotonic_sequence > 1 =>
       \E q \in RowsOf(r.partition) : q.monotonic_sequence = r.monotonic_sequence - 1
  /\ r.by # NoCall =>
       IF r.by.expected = None
       THEN r.monotonic_sequence = 1
       ELSE \E q \in RowsOf(r.partition) :
              /\ q.event_id = r.by.expected
              /\ q.monotonic_sequence = r.monotonic_sequence - 1

ChainInv ==
  /\ SlotsOnce /\ \A r \in event_store : Follows(r)
  /\ \A w \in Worker : Placed(w)
  /\ \A v, w \in Worker : v # w => SlotsApart(v, w)

\* A step of w, of which the others see nothing.
LEMMA WorkKeepsChain ==
  ASSUME ChainInv, NEW w \in Worker, UNCHANGED tables, Placed(w)',
         \A v \in Worker \ {w} :
           pc'[v] = pc[v] /\ call'[v] = call[v] /\ snapshot'[v] = snapshot[v],
         \A v \in Worker \ {w} : SlotsApart(v, w)'
  PROVE  ChainInv'
<1>1. SlotsOnce' /\ \A r \in event_store' : Follows(r)'
  BY DEF ChainInv, SlotsOnce, Follows, SameSlot, RowsOf, tables
<1>2. \A v \in Worker \ {w} : NewEvent(v)' = NewEvent(v)
  BY DEF NewEvent
<1>3. ASSUME NEW v \in Worker, v # w PROVE Placed(v)'
  BY <1>2, <1>3 DEF ChainInv, Placed, TipFromTable, CasHolds, SlotTaken, SameSlot, RowsOf, tables
<1>4. ASSUME NEW u \in Worker, NEW v \in Worker, u # v PROVE SlotsApart(u, v)'
  <2>1. CASE u # w /\ v # w
    BY <1>2, <1>4, <2>1 DEF ChainInv, SlotsApart, SameSlot
  <2>2. CASE v = w
    BY <1>4, <2>2
  <2>3. CASE u = w
    <3>1. SlotsApart(v, w)'
      BY <1>4, <2>3
    <3>. QED
      BY <2>3, <3>1 DEF SlotsApart, SameSlot
  <2>. QED
    BY <2>1, <2>2, <2>3
<1>. QED
  BY <1>1, <1>3, <1>4 DEF ChainInv

\* A step of w that leaves its transaction, or is not yet past the comparison.
LEMMA AwayKeepsChain ==
  ASSUME ChainInv, NEW w \in Worker, UNCHANGED tables, pc'[w] \notin AfterCompare \union {"lock"},
         \A v \in Worker \ {w} :
           pc'[v] = pc[v] /\ call'[v] = call[v] /\ snapshot'[v] = snapshot[v]
  PROVE  ChainInv'
<1>1. Placed(w)' /\ \A v \in Worker \ {w} : SlotsApart(v, w)'
  BY DEF Placed, SlotsApart, AfterCompare, AfterAppend
<1>. QED
  BY <1>1, WorkKeepsChain

LEMMA ReturnKeepsChain ==
  ASSUME Domains, ChainInv, NEW w \in Worker, NEW tag, Return(w, tag), UNCHANGED tables
  PROVE  ChainInv'
BY AwayKeepsChain DEF Return, Domains, AfterCompare, AfterAppend

LEMMA RetryKeepsChain ==
  ASSUME Domains, ChainInv, NEW w \in Worker, Retry(w), UNCHANGED tables
  PROVE  ChainInv'
BY AwayKeepsChain DEF Retry, Domains, AfterCompare, AfterAppend

\* The next statement of the same transaction.
LEMMA GotoKeepsChain ==
  ASSUME Domains, ChainInv, NEW w \in Worker, NEW phase, Goto(w, phase), UNCHANGED tables,
         phase \in {"lock"} \union AfterCompare => TipFromTable(w),
         phase \in AfterCompare => CasHolds(w),
         phase \in AfterAppend => ~SlotTaken(w),
         phase \in AfterAppend => \A v \in Worker \ {w} : pc[v] \in AfterAppend =>
           ~SameSlot(NewEvent(v), NewEvent(w))
  PROVE  ChainInv'
<1>1. /\ pc'[w] = phase /\ UNCHANGED <<call, snapshot>> /\ \A v \in Worker \ {w} : pc'[v] = pc[v]
      /\ \A v \in Worker : NewEvent(v)' = NewEvent(v)
  BY DEF Goto, Domains, NewEvent
<1>2. Placed(w)'
  BY <1>1 DEF Placed, TipFromTable, CasHolds, SlotTaken, RowsOf, SameSlot, tables
<1>3. \A v \in Worker \ {w} : SlotsApart(v, w)'
  BY <1>1 DEF SlotsApart, SameSlot
<1>. QED
  BY <1>1, <1>2, <1>3, WorkKeepsChain

\* The row a transaction commits follows the row its caller named.
LEMMA NewEventFollows ==
  ASSUME TypeInv, ChainInv, NEW w \in Worker, pc[w] = "commit"
  PROVE  /\ NewEvent(w).monotonic_sequence \in Nat \ {0}
         /\ IF call[w].expected = None
            THEN NewEvent(w).monotonic_sequence = 1
            ELSE \E q \in RowsOf(NewEvent(w).partition) :
                   /\ q.event_id = call[w].expected
                   /\ q.monotonic_sequence = NewEvent(w).monotonic_sequence - 1
         /\ NewEvent(w).monotonic_sequence > 1 =>
              \E q \in RowsOf(NewEvent(w).partition) :
                q.monotonic_sequence = NewEvent(w).monotonic_sequence - 1
<1>1. /\ snapshot[w].tip \in TipRow /\ event_store \subseteq EventRow
      /\ TipFromTable(w) /\ CasHolds(w)
  BY DEF TypeInv, TypeOK, ChainInv, Placed, AfterCompare, AfterAppend
<1>2. /\ NewEvent(w).monotonic_sequence = snapshot[w].tip.monotonic_sequence + 1
      /\ NewEvent(w).partition = call[w].input.partition
      /\ snapshot[w].tip.monotonic_sequence \in Nat
  BY <1>1 DEF NewEvent, TipRow
<1>3. CASE snapshot[w].tip = NoRow
  BY <1>1, <1>2, <1>3 DEF NoRow, CasHolds
<1>4. CASE snapshot[w].tip # NoRow
  <2>1. PICK r \in RowsOf(call[w].input.partition) :
          /\ r.event_id = snapshot[w].tip.event_id
          /\ r.monotonic_sequence = snapshot[w].tip.monotonic_sequence
    BY <1>1, <1>4 DEF TipFromTable
  <2>2. r.event_id # None
    BY <1>1, <2>1, ConstantsOK DEF RowsOf, EventRow
  <2>. QED
    BY <1>1, <1>2, <2>1, <2>2 DEF CasHolds
<1>. QED
  BY <1>3, <1>4

\* The rows that were there keep their predecessors.
LEMMA GrowthKeepsRows ==
  ASSUME ChainInv, NEW row, event_store' = event_store \union {row},
         \A r \in event_store : ~SameSlot(r, row)
  PROVE  SlotsOnce' /\ \A r \in event_store : Follows(r)'
<1>1. SlotsOnce'
  BY DEF ChainInv, SlotsOnce, SameSlot
<1>2. ASSUME NEW r \in event_store PROVE Follows(r)'
  <2>1. Follows(r)
    BY DEF ChainInv
  <2>2. RowsOf(r.partition) \subseteq RowsOf(r.partition)'
    BY DEF RowsOf
  <2>. QED
    BY <2>1, <2>2 DEF Follows
<1>. QED
  BY <1>1, <1>2

LEMMA CommitKeepsChain ==
  ASSUME TypeInv, ChainInv, NEW w \in Worker, pc[w] = "commit", MakeDurable(w),
         NEW tag, Return(w, tag)
  PROVE  ChainInv'
<1>. DEFINE e == NewEvent(w)
<1>1. /\ event_store' = event_store \union {e} /\ e.by = call[w]
      /\ \A r \in event_store : ~SameSlot(r, e)
  BY DEF MakeDurable, NewEvent, ChainInv, Placed, SlotTaken, AfterAppend
<1>2. /\ pc'[w] = "idle" /\ UNCHANGED call
      /\ \A v \in Worker \ {w} : pc'[v] = pc[v] /\ snapshot'[v] = snapshot[v]
  BY DEF Return, TypeInv, Domains
<1>3. \A v \in Worker \ {w} : NewEvent(v)' = NewEvent(v)
  BY <1>2 DEF NewEvent
<1>4. SlotsOnce' /\ \A r \in event_store : Follows(r)'
  BY <1>1, GrowthKeepsRows
<1>5. ASSUME NEW r, r = e PROVE Follows(r)'
  <2>1. RowsOf(r.partition) \subseteq RowsOf(r.partition)'
    BY <1>1 DEF RowsOf
  <2>2. /\ IF call[w].expected = None
           THEN e.monotonic_sequence = 1
           ELSE \E q \in RowsOf(e.partition) :
                  q.event_id = call[w].expected /\ q.monotonic_sequence = e.monotonic_sequence - 1
        /\ e.monotonic_sequence > 1 =>
             \E q \in RowsOf(e.partition) : q.monotonic_sequence = e.monotonic_sequence - 1
    BY NewEventFollows
  <2>. QED
    BY <1>1, <1>5, <2>1, <2>2 DEF Follows
<1>6. \A r \in event_store' : Follows(r)'
  BY <1>1, <1>4, <1>5
<1>7. ASSUME NEW v \in Worker PROVE Placed(v)'
  <2>1. CASE v = w
    BY <1>2, <2>1 DEF Placed, AfterCompare, AfterAppend
  <2>2. CASE v # w
    <3>1. TipFromTable(v) => TipFromTable(v)'
      BY <1>1, <1>2, <2>2 DEF TipFromTable, RowsOf
    <3>2. CasHolds(v)' = CasHolds(v)
      BY <1>2, <2>2 DEF CasHolds
    <3>3. pc[v] \in AfterAppend /\ ~SlotTaken(v) => ~SlotTaken(v)'
      <4>1. pc[v] \in AfterAppend => ~SameSlot(e, NewEvent(v))
        BY <2>2 DEF ChainInv, SlotsApart, SameSlot, AfterAppend
      <4>. HIDE DEF e
      <4>. QED
        BY <1>1, <1>3, <2>2, <4>1 DEF SlotTaken, SameSlot
    <3>. QED
      BY <1>2, <2>2, <3>1, <3>2, <3>3 DEF ChainInv, Placed
  <2>. QED
    BY <2>1, <2>2
<1>8. ASSUME NEW u \in Worker, NEW v \in Worker, u # v PROVE SlotsApart(u, v)'
  <2>1. CASE u = w \/ v = w
    BY <1>2, <2>1 DEF SlotsApart, AfterAppend
  <2>2. CASE u # w /\ v # w
    BY <1>2, <1>3, <1>8, <2>2 DEF ChainInv, SlotsApart, SameSlot
  <2>. QED
    BY <2>1, <2>2
<1>. QED
  BY <1>4, <1>6, <1>7, <1>8 DEF ChainInv

\* An append of the event store, behind the tip of the moment.
LEMMA OtherAppendKeepsChain ==
  ASSUME TypeInv, ChainInv, OtherAppend
  PROVE  ChainInv'
<1>1. PICK e \in OtherEvent, p \in Partition : \E t \in TipsOf(p) :
        LET row == [event_id |-> e, partition |-> p,
                    monotonic_sequence |-> t.monotonic_sequence + 1, by |-> NoCall]
        IN  /\ ~EventBlocked(row)
            /\ event_store' = event_store \union {row}
  BY DEF OtherAppend
<1>0. PICK t \in TipsOf(p) :
        LET row == [event_id |-> e, partition |-> p,
                    monotonic_sequence |-> t.monotonic_sequence + 1, by |-> NoCall]
        IN  /\ ~EventBlocked(row)
            /\ event_store' = event_store \union {row}
  BY <1>1
<1>. DEFINE row == [event_id |-> e, partition |-> p,
                    monotonic_sequence |-> t.monotonic_sequence + 1, by |-> NoCall]
<1>2. /\ row.partition = p /\ row.monotonic_sequence = t.monotonic_sequence + 1
      /\ row.by = NoCall
  OBVIOUS
<1>. HIDE DEF row
<1>3. ~EventBlocked(row) /\ event_store' = event_store \union {row}
  BY <1>0 DEF row
<1>4. /\ t \in TipRow /\ \A r \in RowsOf(p) : r.monotonic_sequence <= t.monotonic_sequence
      /\ t = NoRow \/ \E r \in RowsOf(p) : r.monotonic_sequence = t.monotonic_sequence
      /\ t.monotonic_sequence \in Nat /\ event_store \subseteq EventRow
  BY TipsTyped DEF TypeInv, TypeOK, TipRow
<1>5. \A r \in event_store : ~SameSlot(r, row)
  <2>1. \A r \in RowsOf(p) : r.monotonic_sequence \in Nat /\ r.monotonic_sequence <= t.monotonic_sequence
    BY <1>4 DEF RowsOf, EventRow
  <2>2. \A r \in RowsOf(p) : r.monotonic_sequence # row.monotonic_sequence
    BY <1>2, <1>4, <2>1
  <2>. QED
    BY <1>2, <2>2 DEF SameSlot, RowsOf
<1>6. UNCHANGED <<pc, call, snapshot>>
  BY DEF OtherAppend, Elsewhere
<1>7. \A v \in Worker : NewEvent(v)' = NewEvent(v)
  BY <1>6 DEF NewEvent
<1>8. ASSUME NEW q PROVE RowsOf(q) \subseteq RowsOf(q)'
  BY <1>3 DEF RowsOf
<1>9. SlotsOnce' /\ \A r \in event_store : Follows(r)'
  BY <1>3, <1>5, GrowthKeepsRows
<1>10. ASSUME NEW r, r = row PROVE Follows(r)'
  <2>1. row.monotonic_sequence > 1 =>
          \E q \in RowsOf(p) : q.monotonic_sequence = row.monotonic_sequence - 1
    BY <1>2, <1>4 DEF NoRow
  <2>. QED
    BY <1>2, <1>8, <1>10, <2>1 DEF Follows
<1>11. ASSUME NEW v \in Worker PROVE Placed(v)'
  <2>1. TipFromTable(v) => TipFromTable(v)'
    BY <1>6, <1>8 DEF TipFromTable
  <2>2. CasHolds(v)' = CasHolds(v)
    BY <1>6 DEF CasHolds
  <2>3. pc[v] \in AfterAppend /\ ~SlotTaken(v) => ~SlotTaken(v)'
    <3>1. pc[v] \in AfterAppend => ~SameSlot(row, NewEvent(v))
      BY <1>3 DEF EventBlocked, Appended, AfterAppend, SameSlot
    <3>. QED
      BY <1>3, <1>7, <3>1 DEF SlotTaken, SameSlot
  <2>. QED
    BY <1>6, <2>1, <2>2, <2>3 DEF ChainInv, Placed
<1>12. \A u, v \in Worker : u # v => SlotsApart(u, v)'
  BY <1>6, <1>7 DEF ChainInv, SlotsApart, SameSlot
<1>. QED
  BY <1>3, <1>9, <1>10, <1>11, <1>12 DEF ChainInv

\* The insert of the event.
LEMMA AppendKeepsChain ==
  ASSUME TypeInv, ChainInv, NEW w \in Worker, AppendEvent(w)
  PROVE  ChainInv'
<1>1. CASE ~IdTaken(w) /\ ~SlotTaken(w) /\ Goto(w, "grant")
  <2>1. TipFromTable(w) /\ CasHolds(w)
    BY DEF AppendEvent, ChainInv, Placed, AfterCompare
  <2>2. \A v \in Worker \ {w} : pc[v] \in AfterAppend => ~SameSlot(NewEvent(v), NewEvent(w))
    BY DEF AppendEvent, EventBlocked, Appended, AfterAppend
  <2>. QED
    BY <1>1, <2>1, <2>2, GotoKeepsChain DEF AppendEvent, TypeInv
<1>2. CASE \E tag : Return(w, tag)
  BY <1>2, ReturnKeepsChain DEF AppendEvent, TypeInv
<1>3. CASE Retry(w)
  BY <1>3, RetryKeepsChain DEF AppendEvent, TypeInv
<1>. QED
  BY <1>1, <1>2, <1>3 DEF AppendEvent

LEMMA ChainInductive == TypeInv /\ ChainInv /\ [Next]_vars => ChainInv'
<1> SUFFICES ASSUME TypeInv, ChainInv, [Next]_vars PROVE ChainInv'
  OBVIOUS
<1>0. Domains
  BY DEF TypeInv
<1>1. ASSUME NEW w \in Worker, GrantAndComplete(w) PROVE ChainInv'
  <2>1. PICK c : call' = [call EXCEPT ![w] = c] /\ UNCHANGED <<tables, snapshot>>
    BY <1>1 DEF GrantAndComplete
  <2>2. pc' = [pc EXCEPT ![w] = "connect"] \/ (pc' = pc /\ pc[w] = "idle")
    BY <1>1 DEF GrantAndComplete
  <2>. QED
    BY <1>0, <2>1, <2>2, AwayKeepsChain DEF Domains, AfterCompare, AfterAppend
<1>2. ASSUME NEW w \in Worker, Connect(w) \/ LookupExpected(w) PROVE ChainInv'
  BY <1>0, <1>2, GotoKeepsChain, ReturnKeepsChain DEF Connect, LookupExpected, AfterCompare, AfterAppend
<1>3. ASSUME NEW w \in Worker, Select(w) PROVE ChainInv'
  <2>1. PICK t \in TipsOf(call[w].input.partition) : snapshot' = [snapshot EXCEPT ![w] =
          [tip |-> t, account |-> Account(call[w].input.recipient)]]
    BY <1>3 DEF Select
  <2>2. call[w].input.partition \in Partition /\ event_store \subseteq EventRow
    BY <1>3, CallTyped DEF Select, TypeInv, TypeOK, ActiveCall
  <2>3. /\ snapshot'[w].tip = t /\ pc'[w] = "lock" /\ UNCHANGED <<tables, call>>
        /\ \A v \in Worker \ {w} : pc'[v] = pc[v] /\ snapshot'[v] = snapshot[v]
    BY <1>0, <1>3, <2>1 DEF Select, Domains
  <2>4. TipFromTable(w)'
    BY <2>2, <2>3, TipsTyped DEF TipFromTable, RowsOf, tables
  <2>5. Placed(w)' /\ \A v \in Worker \ {w} : SlotsApart(v, w)'
    BY <2>3, <2>4 DEF Placed, SlotsApart, AfterCompare, AfterAppend
  <2>. QED
    BY <2>3, <2>5, WorkKeepsChain
<1>4. ASSUME NEW w \in Worker, Lock(w) PROVE ChainInv'
  <2>1. TipFromTable(w)
    BY <1>4 DEF Lock, ChainInv, Placed
  <2>2. CASE CasHolds(w) /\ Goto(w, "append")
    BY <1>0, <1>4, <2>1, <2>2, GotoKeepsChain DEF Lock, AfterCompare, AfterAppend
  <2>3. CASE Goto(w, "lookup")
    BY <1>0, <1>4, <2>3, GotoKeepsChain DEF Lock, AfterCompare, AfterAppend
  <2>4. CASE Return(w, "CASFailed")
    BY <1>0, <1>4, <2>4, ReturnKeepsChain DEF Lock
  <2>. QED
    BY <1>4, <2>2, <2>3, <2>4 DEF Lock
<1>5. ASSUME NEW w \in Worker, NEW phase \in AfterAppend, Goto(w, phase), UNCHANGED tables,
             pc[w] \in AfterAppend
      PROVE  ChainInv'
  <2>1. TipFromTable(w) /\ CasHolds(w) /\ ~SlotTaken(w)
    BY <1>5 DEF ChainInv, Placed, AfterCompare
  <2>2. \A v \in Worker \ {w} : pc[v] \in AfterAppend => ~SameSlot(NewEvent(v), NewEvent(w))
    BY <1>5 DEF ChainInv, SlotsApart
  <2>. QED
    BY <1>0, <1>5, <2>1, <2>2, GotoKeepsChain
<1>6. ASSUME NEW w \in Worker, RecordGrant(w) \/ ApplyResourceMutation(w) PROVE ChainInv'
  BY <1>0, <1>5, <1>6, ReturnKeepsChain DEF RecordGrant, ApplyResourceMutation, AfterAppend
<1>7. ASSUME NEW w \in Worker, SerializationFailure(w) PROVE ChainInv'
  BY <1>0, <1>7, RetryKeepsChain, ReturnKeepsChain DEF SerializationFailure
<1>8. ASSUME NEW w \in Worker, Commit(w) \/ Fault(w) \/ Crash(w) PROVE ChainInv'
  BY <1>0, <1>8, CommitKeepsChain, ReturnKeepsChain DEF Commit, Fault, Crash, Landed
<1>9. CASE OtherGrant \/ OtherMutation \/ UNCHANGED vars
  <2>1. UNCHANGED <<event_store, pc, call, snapshot>>
    BY <1>9 DEF OtherGrant, OtherMutation, Elsewhere, vars
  <2>. QED
    BY <2>1 DEF ChainInv, SlotsOnce, Follows, Placed, SlotsApart, SameSlot, NewEvent, CasHolds,
                TipFromTable, SlotTaken, RowsOf
<1>. QED
  BY <1>1, <1>2, <1>3, <1>4, <1>6, <1>7, <1>8, <1>9, AppendKeepsChain, OtherAppendKeepsChain
  DEF Next, Progress

LEMMA Chained == Spec => []ChainInv
<1>1. Init => ChainInv
  BY DEF Init, ChainInv, SlotsOnce, Placed, SlotsApart, AfterCompare, AfterAppend
<1>. QED
  BY <1>1, Typed, ChainInductive, PTL DEF Spec

-----------------------------------------------------------------------------
(* The answers.                                                            *)

\* Calls are numbered: no two workers share one, and a row's author has been called.
Numbered ==
  /\ \A c \in Authors(event_store) : c.id <= calls
  /\ \A w \in Worker : call[w] # NoCall => call[w].id <= calls
  /\ \A v, w \in Worker : v # w /\ call[v] = call[w] => call[v] = NoCall

\* The rows of the ledger are the host's under a coarse key, or a completion's under its own.
LedgerKeys ==
  \A l \in ledger :
    l.idempotency_key \in CoarseKey
      \/ (l.by # NoCall /\ l.idempotency_key = l.by.input.event)

\* What a worker's answer rests on, before and after it has been given.
AnswerInv(w) ==
  /\ snapshot[w].account \subseteq ledger
  /\ pc[w] # "idle" =>
       /\ call[w] # NoCall /\ call[w] \notin Authors(event_store)
       /\ w \notin OptedOut => call[w].input.key = call[w].input.event
  /\ pc[w] = "idle" =>
       /\ outcome[w] = "RewardGranted" => call[w] \in Authors(event_store)
       /\ outcome[w] \in Refusal => call[w] \notin Authors(event_store)
       /\ w \notin OptedOut => outcome[w] # "ZeroDelta"

HistoryInv == Numbered /\ LedgerKeys /\ \A w \in Worker : AnswerInv(w)

LEMMA StillNumbered ==
  ASSUME HistoryInv, UNCHANGED <<event_store, call, calls>> PROVE Numbered'
BY DEF HistoryInv, Numbered, Authors

\* A step of w within its call.
LEMMA WorkKeepsHistory ==
  ASSUME HistoryInv, NEW w \in Worker, UNCHANGED <<tables, call, calls>>, AnswerInv(w)',
         \A v \in Worker \ {w} :
           pc'[v] = pc[v] /\ snapshot'[v] = snapshot[v] /\ outcome'[v] = outcome[v]
  PROVE  HistoryInv'
<1>1. LedgerKeys'
  BY DEF HistoryInv, LedgerKeys, tables
<1>2. ASSUME NEW v \in Worker, v # w PROVE AnswerInv(v)'
  BY <1>2 DEF HistoryInv, AnswerInv, Authors, tables
<1>. QED
  BY <1>1, <1>2, StillNumbered DEF HistoryInv, tables

\* An answer given without a COMMIT.
LEMMA ReturnKeepsHistory ==
  ASSUME TypeInv, HistoryInv, NEW w \in Worker, NEW tag, Return(w, tag), UNCHANGED tables,
         pc[w] # "idle", tag # "RewardGranted", tag = "ZeroDelta" => w \in OptedOut
  PROVE  HistoryInv'
<1>1. /\ pc'[w] = "idle" /\ outcome'[w] = tag /\ snapshot'[w] = NoSnapshot
      /\ \A v \in Worker \ {w} :
           pc'[v] = pc[v] /\ snapshot'[v] = snapshot[v] /\ outcome'[v] = outcome[v]
  BY DEF Return, TypeInv, TypeOK, Domains
<1>2. AnswerInv(w)'
  BY <1>1 DEF Return, HistoryInv, AnswerInv, Authors, NoSnapshot, tables
<1>. QED
  BY <1>1, <1>2, WorkKeepsHistory DEF Return

LEMMA RetryKeepsHistory ==
  ASSUME TypeInv, HistoryInv, NEW w \in Worker, pc[w] # "idle", Retry(w), UNCHANGED tables
  PROVE  HistoryInv'
<1>1. /\ pc'[w] = "connect" /\ snapshot'[w] = NoSnapshot /\ UNCHANGED <<call, outcome, calls>>
      /\ \A v \in Worker \ {w} : pc'[v] = pc[v] /\ snapshot'[v] = snapshot[v]
  BY DEF Retry, TypeInv, Domains
<1>2. AnswerInv(w)'
  BY <1>1 DEF HistoryInv, AnswerInv, Authors, NoSnapshot, tables
<1>. QED
  BY <1>1, <1>2, WorkKeepsHistory

LEMMA GotoKeepsHistory ==
  ASSUME TypeInv, HistoryInv, NEW w \in Worker, NEW phase, phase # "idle", pc[w] # "idle",
         Goto(w, phase), UNCHANGED tables
  PROVE  HistoryInv'
<1>1. /\ pc'[w] = phase /\ UNCHANGED <<call, snapshot, outcome, calls>>
      /\ \A v \in Worker \ {w} : pc'[v] = pc[v]
  BY DEF Goto, TypeInv, Domains
<1>2. AnswerInv(w)'
  BY <1>1 DEF HistoryInv, AnswerInv, Authors, tables
<1>. QED
  BY <1>1, <1>2, WorkKeepsHistory

\* The pinned key: a row under the event's own id is that of its completion, and its
\* event would have been found before the proc is called.
LEMMA OwnKeyUnused ==
  ASSUME TypeInv, HistoryInv, OnceInv, AllOrNothing,
         NEW w \in Worker, pc[w] = "mutate", Divergent(w)
  PROVE  w \in OptedOut
<1>. SUFFICES ASSUME w \notin OptedOut PROVE FALSE
  OBVIOUS
<1>1. /\ call[w].input.amount \in Amount \ {"zero"}
      /\ call[w].input.event \in Event \ CoarseKey /\ call[w].input.key = call[w].input.event
      /\ snapshot[w].account \subseteq ledger
  BY CallTyped, ConstantsOK DEF TypeInv, ActiveCall, Divergent, HistoryInv, AnswerInv
<1>2. NewLedgerRows(w) = {}
  <2>1. Delta("gain") = 1 /\ Delta("spend") = -1
    BY DEF Delta
  <2>2. Magnitude(1) # 0 /\ Magnitude(-1) # 0
    BY DEF Magnitude
  <2>. QED
    BY <1>1, <2>1, <2>2 DEF Amount, Divergent, sumProcDelta
<1>3. PICK l \in ledger : l.idempotency_key = call[w].input.event
  BY <1>1, <1>2 DEF NewLedgerRows, KeyUsed
<1>4. l.by # NoCall /\ l.by.input.event = call[w].input.event
  BY <1>1, <1>3 DEF HistoryInv, LedgerKeys
<1>5. l.by \in Authors(event_store)
  BY <1>4 DEF AllOrNothing, Authors
<1>6. PICK r \in event_store : r.by = l.by
  BY <1>5 DEF Authors
<1>7. r.event_id = call[w].input.event
  BY <1>4, <1>6 DEF OnceInv, OwnEvent
<1>. QED
  BY <1>7 DEF OnceInv, Fresh, IdTaken, AfterAppend

\* COMMIT, whoever learns of it.
LEMMA DurableKeepsHistory ==
  ASSUME TypeInv, HistoryInv, NEW w \in Worker, pc[w] = "commit", MakeDurable(w),
         NEW tag, Return(w, tag), tag \notin Refusal
  PROVE  HistoryInv'
<1>1. /\ call[w] \in Call \ {NoCall} /\ NewEvent(w).by = call[w] /\ UNCHANGED <<call, calls>>
      /\ pc'[w] = "idle" /\ outcome'[w] = tag /\ snapshot'[w] = NoSnapshot
      /\ \A v \in Worker \ {w} :
           pc'[v] = pc[v] /\ snapshot'[v] = snapshot[v] /\ outcome'[v] = outcome[v]
  BY DEF NewEvent, Return, TypeInv, TypeOK, Domains, ActiveCall, HistoryInv, AnswerInv
<1>2. Authors(event_store') = Authors(event_store) \union {call[w]}
  BY <1>1, AuthorJoins DEF MakeDurable
<1>3. Numbered'
  <2>1. \A c \in Authors(event_store)' : c.id <= calls'
    BY <1>1, <1>2 DEF HistoryInv, Numbered, Authors
  <2>. QED
    BY <1>1, <2>1 DEF HistoryInv, Numbered
<1>4. LedgerKeys'
  <2>1. \A l \in NewLedgerRows(w) : l.idempotency_key = call[w].input.key /\ l.by = call[w]
    BY DEF NewLedgerRows
  <2>2. call[w].input.key \in CoarseKey \/ call[w].input.key = call[w].input.event
    BY <1>1, CallTyped, KeysOK
  <2>. QED
    BY <1>1, <2>1, <2>2 DEF MakeDurable, HistoryInv, LedgerKeys
<1>5. ASSUME NEW v \in Worker PROVE AnswerInv(v)'
  <2>. DEFINE authors == Authors(event_store)
  <2>1. authors' = authors \union {call[w]}
    BY <1>2 DEF Authors
  <2>. HIDE DEF authors
  <2>2. ledger \subseteq ledger'
    BY DEF MakeDurable
  <2>3. CASE v = w
    <3>1. tag # "ZeroDelta"
      BY DEF Refusal
    <3>. QED
      BY <1>1, <2>1, <2>3, <3>1 DEF AnswerInv, authors, NoSnapshot
  <2>4. CASE v # w
    <3>1. call[v] # call[w]
      BY <1>1, <2>4 DEF HistoryInv, Numbered
    <3>2. AnswerInv(v)
      BY DEF HistoryInv
    <3>3. (call[v] \in authors)' <=> call[v] \in authors
      BY <1>1, <2>1, <3>1
    <3>. QED
      BY <1>1, <2>2, <2>4, <3>2, <3>3 DEF AnswerInv, authors
  <2>. QED
    BY <2>3, <2>4
<1>. QED
  BY <1>3, <1>4, <1>5 DEF HistoryInv

\* A new call has a number that no row and no other worker's call has.
LEMMA CallKeepsHistory ==
  ASSUME TypeInv, HistoryInv, NEW w \in Worker, GrantAndComplete(w)
  PROVE  HistoryInv'
<1>1. PICK i \in Input, x \in TipHash :
        /\ call' = [call EXCEPT ![w] = [input |-> i, expected |-> x, id |-> calls + 1]]
        /\ \/ /\ Precheck(w, i) = "none" /\ pc' = [pc EXCEPT ![w] = "connect"]
              /\ UNCHANGED outcome
           \/ /\ Precheck(w, i) # "none" /\ UNCHANGED pc
              /\ outcome' = [outcome EXCEPT ![w] = Precheck(w, i)]
  BY DEF GrantAndComplete
<1>. DEFINE c == [input |-> i, expected |-> x, id |-> calls + 1]
<1>2. /\ calls \in Nat /\ \A v \in Worker : call[v] \in By
      /\ \A a \in Authors(event_store) : a.id \in Nat
  BY CallTyped, ConstantsOK DEF TypeInv, TypeOK, Authors, EventRow, By, NoCall
<1>3. c.id = calls + 1 /\ c.input = i /\ c # NoCall
  BY <1>2 DEF NoCall
<1>. HIDE DEF c
<1>4. /\ call'[w] = c /\ \A v \in Worker \ {w} : call'[v] = call[v]
      /\ calls' = calls + 1 /\ UNCHANGED <<tables, snapshot>>
      /\ \A v \in Worker \ {w} : pc'[v] = pc[v] /\ outcome'[v] = outcome[v]
  BY <1>1 DEF GrantAndComplete, TypeInv, TypeOK, Domains, c
<1>5. \A v \in Worker : call[v] # NoCall => call[v].id \in Nat /\ call[v].id <= calls
  BY <1>2, CallTyped DEF HistoryInv, Numbered, By
<1>6. c \notin Authors(event_store) /\ \A v \in Worker : call[v] # c
  BY <1>2, <1>3, <1>5 DEF HistoryInv, Numbered
<1>7. Numbered'
  <2>1. \A a \in Authors(event_store)' : a.id <= calls'
    BY <1>2, <1>4 DEF HistoryInv, Numbered, Authors, tables
  <2>2. \A v \in Worker : call'[v] # NoCall => call'[v].id <= calls'
    BY <1>2, <1>3, <1>4, <1>5
  <2>3. \A u, v \in Worker : u # v /\ call'[u] = call'[v] => call'[u] = NoCall
    BY <1>4, <1>6 DEF HistoryInv, Numbered
  <2>. QED
    BY <2>1, <2>2, <2>3 DEF Numbered
<1>8. LedgerKeys'
  BY <1>4 DEF HistoryInv, LedgerKeys, tables
<1>9. ASSUME NEW v \in Worker, v # w PROVE AnswerInv(v)'
  BY <1>4, <1>9 DEF HistoryInv, AnswerInv, Authors, tables
<1>10. AnswerInv(w)'
  <2>1. CASE Precheck(w, i) = "none" /\ pc' = [pc EXCEPT ![w] = "connect"]
    <3>1. w \notin OptedOut => i.key = i.event
      BY <2>1 DEF Precheck
    <3>2. pc'[w] = "connect" /\ pc[w] = "idle"
      BY <2>1 DEF GrantAndComplete, TypeInv, Domains
    <3>. QED
      BY <1>3, <1>4, <1>6, <3>1, <3>2 DEF HistoryInv, AnswerInv, Authors, tables
  <2>2. CASE /\ Precheck(w, i) # "none" /\ UNCHANGED pc
             /\ outcome' = [outcome EXCEPT ![w] = Precheck(w, i)]
    <3>1. outcome'[w] \in {"NonceRequired", "SchemaValidation"} /\ pc'[w] = "idle"
      BY <2>2 DEF Precheck, GrantAndComplete, TypeInv, TypeOK
    <3>. QED
      BY <1>4, <1>6, <3>1 DEF HistoryInv, AnswerInv, Authors, tables
  <2>. QED
    BY <1>1, <2>1, <2>2
<1>. QED
  BY <1>7, <1>8, <1>9, <1>10 DEF HistoryInv

\* The other writers name no author and use coarse keys only.
LEMMA OthersKeepHistory ==
  ASSUME HistoryInv, OtherAppend \/ OtherGrant \/ OtherMutation
  PROVE  HistoryInv'
<1>1. UNCHANGED <<pc, call, snapshot, outcome, calls>> /\ ledger \subseteq ledger'
  BY DEF OtherAppend, OtherGrant, OtherMutation, Elsewhere
<1>2. Authors(event_store') = Authors(event_store)
  <2>1. CASE OtherAppend
    <3>1. PICK row : row.by = NoCall /\ event_store' = event_store \union {row}
      BY <2>1 DEF OtherAppend
    <3>. QED
      BY <3>1, AuthorJoins
  <2>. QED
    BY <2>1 DEF OtherGrant, OtherMutation
<1>3. LedgerKeys'
  <2>1. CASE OtherMutation
    <3>1. PICK u \in Recipient, k \in CoarseKey :
            ledger' = ledger \union {[user |-> u, idempotency_key |-> k, by |-> NoCall]}
      BY <2>1 DEF OtherMutation
    <3>. QED
      BY <3>1 DEF HistoryInv, LedgerKeys
  <2>2. CASE UNCHANGED ledger
    BY <2>2 DEF HistoryInv, LedgerKeys
  <2>. QED
    BY <2>1, <2>2 DEF OtherAppend, OtherGrant
<1>. DEFINE authors == Authors(event_store)
<1>4. authors' = authors
  BY <1>2 DEF Authors
<1>. HIDE DEF authors
<1>5. Numbered'
  BY <1>1, <1>4 DEF HistoryInv, Numbered, authors
<1>6. ASSUME NEW w \in Worker PROVE AnswerInv(w)'
  BY <1>1, <1>4 DEF HistoryInv, AnswerInv, authors
<1>. QED
  BY <1>3, <1>5, <1>6 DEF HistoryInv

LEMMA HistoryInductive ==
  TypeInv /\ OnceInv /\ AllOrNothing /\ HistoryInv /\ [Next]_vars => HistoryInv'
<1> SUFFICES ASSUME TypeInv, OnceInv, AllOrNothing, HistoryInv, [Next]_vars PROVE HistoryInv'
  OBVIOUS
<1>1. ASSUME NEW w \in Worker, Connect(w) \/ Lock(w) \/ LookupExpected(w) PROVE HistoryInv'
  BY <1>1, GotoKeepsHistory, ReturnKeepsHistory DEF Connect, Lock, LookupExpected
<1>2. ASSUME NEW w \in Worker, Select(w) PROVE HistoryInv'
  <2>1. PICK t : snapshot' = [snapshot EXCEPT ![w] =
          [tip |-> t, account |-> Account(call[w].input.recipient)]]
    BY <1>2 DEF Select
  <2>2. /\ pc'[w] = "lock" /\ snapshot'[w].account \subseteq ledger
        /\ UNCHANGED <<tables, call, outcome, calls>>
        /\ \A v \in Worker \ {w} : pc'[v] = pc[v] /\ snapshot'[v] = snapshot[v]
    BY <1>2, <2>1 DEF Select, Account, TypeInv, Domains
  <2>3. AnswerInv(w)'
    BY <1>2, <2>2 DEF Select, HistoryInv, AnswerInv, Authors, tables
  <2>. QED
    BY <2>2, <2>3, WorkKeepsHistory
<1>3. ASSUME NEW w \in Worker, AppendEvent(w) \/ RecordGrant(w) PROVE HistoryInv'
  BY <1>3, GotoKeepsHistory, ReturnKeepsHistory, RetryKeepsHistory DEF AppendEvent, RecordGrant
<1>4. ASSUME NEW w \in Worker, ApplyResourceMutation(w) PROVE HistoryInv'
  <2>1. CASE Divergent(w) /\ Return(w, "ZeroDelta")
    BY <1>4, <2>1, OwnKeyUnused, ReturnKeepsHistory DEF ApplyResourceMutation
  <2>2. CASE Goto(w, "commit")
    BY <1>4, <2>2, GotoKeepsHistory DEF ApplyResourceMutation
  <2>3. CASE Return(w, "IdempotencyConflict") \/ Return(w, "Insufficient")
    BY <1>4, <2>3, ReturnKeepsHistory DEF ApplyResourceMutation
  <2>. QED
    BY <1>4, <2>1, <2>2, <2>3 DEF ApplyResourceMutation
<1>5. ASSUME NEW w \in Worker, Commit(w) PROVE HistoryInv'
  BY <1>5, DurableKeepsHistory DEF Commit, Refusal
<1>6. ASSUME NEW w \in Worker, SerializationFailure(w) PROVE HistoryInv'
  <2>1. pc[w] # "idle" /\ Exhausted(w) \notin {"RewardGranted", "ZeroDelta"}
    BY <1>6 DEF SerializationFailure, Exhausted
  <2>. QED
    BY <1>6, <2>1, RetryKeepsHistory, ReturnKeepsHistory DEF SerializationFailure
<1>7. ASSUME NEW w \in Worker, Fault(w) \/ Crash(w) PROVE HistoryInv'
  <2>1. PICK tag : /\ tag \notin Refusal \union {"RewardGranted", "ZeroDelta"}
                   /\ Return(w, tag) /\ Landed(w) /\ pc[w] # "idle"
    BY <1>7 DEF Fault, Crash, FaultTags, Refusal
  <2>. QED
    BY <2>1, DurableKeepsHistory, ReturnKeepsHistory DEF Landed
<1>8. CASE UNCHANGED vars
  BY <1>8 DEF vars, HistoryInv, Numbered, LedgerKeys, AnswerInv, Authors
<1>. QED
  BY <1>1, <1>2, <1>3, <1>4, <1>5, <1>6, <1>7, <1>8, CallKeepsHistory, OthersKeepHistory
  DEF Next, Progress

LEMMA Remembered == Spec => []HistoryInv
<1>1. Init => HistoryInv
  BY DEF Init, HistoryInv, Numbered, LedgerKeys, AnswerInv, Authors, Refusal, NoSnapshot
<1>2. Init => OnceInv
  BY DEF Init, OnceInv, Domains, EventsOnce, GrantsOnce, OwnEvent, Fresh, Apart, AfterAppend
<1>. QED
  BY <1>1, <1>2, Typed, OnceInductive, UnitOfWork, HistoryInductive, PTL DEF Spec

\* What a caller is told is what the tables say: RewardGranted left its event and its
\* grant, a refusal left nothing in any table, and a caller whose ledger key is pinned
\* to the event never meets a key that is already used.
THEOREM AnswersAreTrue == Spec => []AnswerIsTrue
<1>1. HistoryInv /\ AllOrNothing => AnswerIsTrue
  BY DEF HistoryInv, AnswerInv, AllOrNothing, AnswerIsTrue
<1>. QED
  BY <1>1, Remembered, UnitOfWork, PTL

\* A completion stands right behind the event its caller named as the tip, and each
\* partition stays one chain without gap or fork, although event-store appends run
\* between its statements.
THEOREM ClaimedTipFollowed == Spec => []FollowsClaimedTip
<1>1. ChainInv /\ OnceInv => FollowsClaimedTip
  BY DEF ChainInv, SlotsOnce, Follows, OnceInv, EventsOnce, FollowsClaimedTip, Gapless
<1>2. Init => OnceInv
  BY DEF Init, OnceInv, Domains, EventsOnce, GrantsOnce, OwnEvent, Fresh, Apart, AfterAppend
<1>. QED
  BY <1>1, <1>2, Chained, OnceInductive, PTL DEF Spec

-----------------------------------------------------------------------------
(* Waiting.                                                                *)

\* A finite set of numbers has a greatest one.
LEMMA GreatestNat ==
  ASSUME NEW S \in SUBSET Nat, IsFiniteSet(S), S # {}
  PROVE  \E n \in S : \A m \in S : m <= n
<1>. DEFINE Greatest(R, n) == n \in R /\ \A m \in R : m <= n
            K == {k \in Nat : \E R \in SUBSET Nat :
                    /\ IsFiniteSet(R) /\ R # {} /\ Cardinality(R) = k
                    /\ ~\E n \in R : Greatest(R, n)}
<1>1. SUFFICES ASSUME K # {} PROVE FALSE
  <2>1. Cardinality(S) \in Nat
    BY FS_CardinalityType
  <2>. QED
    BY <1>1, <2>1
<1>2. K \in SUBSET Nat
  OBVIOUS
<1>. HIDE DEF K
<1>3. PICK k \in K : \A j \in K : <<j, k>> \notin OpToRel(<, Nat)
  BY <1>1, <1>2, NatLessThanWellFounded, WFMin
<1>4. PICK R \in SUBSET Nat :
        /\ IsFiniteSet(R) /\ R # {} /\ Cardinality(R) = k
        /\ ~\E n \in R : Greatest(R, n)
  BY DEF K
<1>5. PICK x \in R : TRUE
  BY <1>4
<1>. DEFINE Q == R \ {x}
<1>6. IsFiniteSet(Q) /\ Cardinality(Q) = k - 1
  BY <1>4, <1>5, FS_RemoveElement
<1>7. Cardinality(Q) \in Nat /\ k \in Nat
  BY <1>2, <1>6, FS_CardinalityType
<1>8. Cardinality(Q) \notin K
  <2>1. <<Cardinality(Q), k>> \in OpToRel(<, Nat)
    BY <1>6, <1>7 DEF OpToRel
  <2>. QED
    BY <1>3, <2>1
<1>9. CASE Q = {}
  <2>1. R = {x}
    BY <1>5, <1>9
  <2>2. Greatest(R, x)
    BY <2>1
  <2>. QED
    BY <1>4, <1>5, <2>2
<1>10. CASE Q # {}
  <2>1. PICK n \in Q : Greatest(Q, n)
    BY <1>6, <1>7, <1>8, <1>10 DEF K
  <2>2. n \in Nat /\ x \in Nat
    BY <1>5
  <2>3. Greatest(R, n) \/ Greatest(R, x)
    BY <1>5, <2>1, <2>2
  <2>. QED
    BY <1>4, <1>5, <2>1, <2>3
<1>. QED
  BY <1>9, <1>10

\* The table is finite at any time.
RowsFinite == IsFiniteSet(event_store)

LEMMA StaysFinite == Spec => []RowsFinite
<1>1. Init => RowsFinite
  BY FS_EmptySet DEF Init, RowsFinite
<1>2. ASSUME RowsFinite, [Next]_vars PROVE RowsFinite'
  <2>1. ASSUME NEW w \in Worker, MakeDurable(w) PROVE RowsFinite'
    BY <1>2, <2>1, FS_AddElement DEF MakeDurable, RowsFinite
  <2>2. ASSUME event_store' = event_store PROVE RowsFinite'
    BY <1>2, <2>2 DEF RowsFinite
  <2>3. ASSUME NEW w \in Worker, Progress(w) PROVE RowsFinite'
    BY <2>1, <2>2, <2>3 DEF Progress, Connect, Select, Lock, LookupExpected, AppendEvent,
                            RecordGrant, ApplyResourceMutation, Commit, tables
  <2>4. ASSUME NEW w \in Worker,
               GrantAndComplete(w) \/ SerializationFailure(w) \/ Fault(w) \/ Crash(w)
        PROVE  RowsFinite'
    BY <2>1, <2>2, <2>4 DEF GrantAndComplete, SerializationFailure, Fault, Crash, Landed, tables
  <2>5. ASSUME OtherAppend PROVE RowsFinite'
    BY <1>2, <2>5, FS_AddElement DEF OtherAppend, RowsFinite
  <2>6. ASSUME OtherGrant \/ OtherMutation PROVE RowsFinite'
    BY <2>2, <2>6 DEF OtherGrant, OtherMutation
  <2>. QED
    BY <1>2, <2>2, <2>3, <2>4, <2>5, <2>6 DEF Next, vars, tables
<1>. QED
  BY <1>1, <1>2, PTL DEF Spec

\* So every partition has a tip, if it is only that of an empty one.
LEMMA TipToRead ==
  ASSUME event_store \subseteq EventRow, IsFiniteSet(event_store), NEW p
  PROVE  TipsOf(p) # {}
<1>1. CASE RowsOf(p) = {}
  BY <1>1 DEF TipsOf
<1>2. CASE RowsOf(p) # {}
  <2>. DEFINE S == {r.monotonic_sequence : r \in RowsOf(p)}
  <2>1. IsFiniteSet(RowsOf(p)) /\ S \in SUBSET Nat /\ S # {}
    <3>1. RowsOf(p) \in SUBSET event_store
      BY DEF RowsOf
    <3>. QED
      BY <1>2, <3>1, FS_Subset DEF EventRow
  <2>. DEFINE f == [r \in RowsOf(p) |-> r.monotonic_sequence]
  <2>2. IsFiniteSet(S)
    <3>1. f \in Surjection(RowsOf(p), S)
      BY DEF Surjection
    <3>. QED
      BY <2>1, <3>1, FS_Surjection DEF ExistsSurjection
  <2>. HIDE DEF S
  <2>3. PICK n \in S : \A m \in S : m <= n
    BY <2>1, <2>2, GreatestNat
  <2>4. PICK r \in RowsOf(p) : r.monotonic_sequence = n
    BY DEF S
  <2>5. \A o \in RowsOf(p) : o.monotonic_sequence <= r.monotonic_sequence
    BY <2>3, <2>4 DEF S
  <2>. QED
    BY <1>2, <2>5 DEF TipsOf
<1>. QED
  BY <1>1, <1>2

\* Nobody waits in a circle, with any number of workers and a pool of any size: no statement
\* waits for a transaction that has come less far, and none of a transaction for a client
\* (atomic-completion.ts:372-620).
THEOREM NobodyWaitsInACircle ==
  ASSUME PoolSize > 0
  PROVE  Spec => []SomebodyIsServed
<1>1. ASSUME TypeOK, RowsFinite PROVE SomebodyIsServed
  <2>1. SUFFICES ASSUME NEW w \in Worker, pc[w] # "idle"
                 PROVE  \E v \in Worker : pc[v] # "idle" /\ Served(v)
    BY DEF SomebodyIsServed
  <2>2. \A p : TipsOf(p) # {}
    BY <1>1, TipToRead DEF TypeOK, RowsFinite
  <2>3. pc[w] \in Phase /\ \A v \in Worker : pc[v] \in Phase
    BY <1>1 DEF TypeOK
  <2>4. CASE \E v \in Worker : pc[v] \in {"commit", "lookup", "select"}
    BY <2>2, <2>4 DEF Served
  <2>5. CASE ~\E v \in Worker : pc[v] \in {"commit", "lookup", "select"}
    <3>1. \A u : ~AccountBlocked(u)
      BY <2>5 DEF AccountBlocked, Mutated
    <3>2. CASE \E v \in Worker : pc[v] = "mutate"
      BY <3>1, <3>2 DEF Served
    <3>3. CASE ~\E v \in Worker : pc[v] = "mutate"
      <4>1. \A g : ~GrantBlocked(g)
        BY <2>5, <3>3 DEF GrantBlocked, Granted
      <4>2. CASE \E v \in Worker : pc[v] = "grant"
        BY <4>1, <4>2 DEF Served
      <4>3. CASE ~\E v \in Worker : pc[v] = "grant"
        <5>1. \A r : ~EventBlocked(r)
          BY <2>5, <3>3, <4>3 DEF EventBlocked, Appended
        <5>2. CASE \E v \in Worker : pc[v] = "append"
          BY <5>1, <5>2 DEF Served
        <5>3. CASE ~\E v \in Worker : pc[v] = "append"
          <6>1. \A v \in Worker : ~TipLocked(v)
            BY <2>5, <3>3, <4>3, <5>3 DEF TipLocked, Appended
          <6>2. CASE \E v \in Worker : pc[v] = "lock"
            BY <6>1, <6>2 DEF Served
          <6>3. CASE ~\E v \in Worker : pc[v] = "lock"
            <7>1. Holders = {} /\ pc[w] = "connect"
              BY <2>1, <2>3, <2>5, <3>3, <4>3, <5>3, <6>3 DEF Holders, Phase
            <7>2. ClientFree
              BY <7>1, FS_EmptySet DEF ClientFree
            <7>. QED
              BY <2>1, <7>1, <7>2 DEF Served
          <6>. QED
            BY <6>2, <6>3
        <5>. QED
          BY <5>2, <5>3
      <4>. QED
        BY <4>2, <4>3
    <3>. QED
      BY <3>2, <3>3
  <2>. QED
    BY <2>4, <2>5
<1>. QED
  BY <1>1, StaysFinite, TypeCorrect, PTL
=============================================================================
