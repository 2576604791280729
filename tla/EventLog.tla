------------------------------ MODULE EventLog ------------------------------
(***************************************************************************)
(* The event store as its callers see it: append() of the in-memory        *)
(* reference adapter (packages/adapters/src/in-memory/completion-event.ts) *)
(* applied in one atomic step somewhere between the call and the answer,   *)
(* and answers that may be missing.  The compare-and-set and the push of   *)
(* the reference run without an await between them.                        *)
(*                                                                         *)
(* In two points it is what a store on postgres promises, and not what the *)
(* reference does: an event id is unique over all partitions, and a caller *)
(* whose tip has been passed may be told DuplicateEvent for CASFailed.     *)
(***************************************************************************)
EXTENDS Sequences, Naturals

CONSTANTS Worker, Event, Partition, None

VARIABLES
  log,     \* partition.events: the ids appended to each partition, in order
  request, \* the arguments of the append each worker waits for, if any
  phase,   \* "idle", "open", or "refused" once the tip was seen to differ
  answer   \* its last definite answer, "none" when it got no such answer

logVars == <<log, request, phase, answer>>

TipHashes == Event \union {None}

Request == [event : Event, partition : Partition, expected : TipHashes]
NoRequest == [event |-> None, partition |-> None, expected |-> None]

\* partition.tip
TipOf(p) == IF log[p] = <<>> THEN None ELSE log[p][Len(log[p])]

\* partition.eventIds.has(event_id)
Stored(e, p) == \E i \in DOMAIN log[p] : log[p][i] = e

\* PRIMARY KEY (event_id).
Known(e) == \E p \in Partition : Stored(e, p)

-----------------------------------------------------------------------------

LogInit ==
  /\ log = [p \in Partition |-> <<>>]
  /\ request = [w \in Worker |-> NoRequest]
  /\ phase = [w \in Worker |-> "idle"]
  /\ answer = [w \in Worker |-> "none"]

Finish(w, a) ==
  /\ phase' = [phase EXCEPT ![w] = "idle"]
  /\ request' = [request EXCEPT ![w] = NoRequest]
  /\ answer' = [answer EXCEPT ![w] = a]

Submit(w, r) ==
  /\ phase[w] = "idle"
  /\ phase' = [phase EXCEPT ![w] = "open"]
  /\ request' = [request EXCEPT ![w] = r]
  /\ UNCHANGED <<log, answer>>

Invoke(w) == phase[w] = "idle" /\ \E r \in Request : Submit(w, r)

\* Rejected before the compare-and-set (scope, nonce, event id), or no tip read.
Reject(w) ==
  /\ phase[w] = "idle"
  /\ answer' = [answer EXCEPT ![w] = "none"]
  /\ UNCHANGED <<log, request, phase>>

\* The append takes effect.  The answer may still be lost.
Apply(w) ==
  LET r == request[w] IN
  /\ phase[w] = "open"
  /\ TipOf(r.partition) = r.expected
  /\ ~Known(r.event)
  /\ log' = [log EXCEPT ![r.partition] = Append(@, r.event)]
  /\ \E a \in {"Appended", "none"} : Finish(w, a)

\* The tip is seen to differ from expected_tip_hash.
Refuse(w) ==
  /\ phase[w] = "open"
  /\ TipOf(request[w].partition) # request[w].expected
  /\ phase' = [phase EXCEPT ![w] = "refused"]
  /\ UNCHANGED <<log, request, answer>>

\* The attempt that saw it is abandoned for another one.
Reopen(w) ==
  /\ phase[w] = "refused"
  /\ phase' = [phase EXCEPT ![w] = "open"]
  /\ UNCHANGED <<log, request, answer>>

AnswerCASFailed(w) == phase[w] = "refused" /\ Finish(w, "CASFailed") /\ UNCHANGED log

AnswerDuplicate(w) ==
  /\ phase[w] = "open"
  /\ Known(request[w].event) \/ TipOf(request[w].partition) # request[w].expected
  /\ Finish(w, "DuplicateEvent")
  /\ UNCHANGED log

\* No definite answer, and no effect.
GiveUp(w) == phase[w] # "idle" /\ Finish(w, "none") /\ UNCHANGED log

\* What the store does with a request it has.
Serve(w) ==
  Apply(w) \/ Refuse(w) \/ Reopen(w) \/ AnswerCASFailed(w) \/ AnswerDuplicate(w)

LogNext == \E w \in Worker : Invoke(w) \/ Reject(w) \/ Serve(w) \/ GiveUp(w)

LogSpec == LogInit /\ [][LogNext]_logVars
=============================================================================
