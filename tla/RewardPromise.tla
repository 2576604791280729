--------------------------- MODULE RewardPromise ---------------------------
(***************************************************************************)
(* What a caller of retryGrant may rely on: grant() and query() of the     *)
(* in-memory reference adapter (packages/adapters/src/in-memory/reward.ts) *)
(* behind it, each in one atomic step.  The look for an earlier grant and  *)
(* the grants.set of the reference run without an await between them.      *)
(*                                                                         *)
(* A store that is reached over a network may lose the answer of a grant   *)
(* that took effect; the caller is then told of a failure, or tries again. *)
(* The ids of grants are whatever the provider gives, each once.           *)
(***************************************************************************)
EXTENDS Naturals

CONSTANTS Caller, Event, Recipient, None, Unresolvable

VARIABLES
  grants,  \* the grants recorded, of all keys
  busy,    \* the caller waits for its retryGrant
  request, \* the originating event and the recipient of its current (or last) call
  result   \* what its last call returned

promiseVars == <<grants, busy, request, result>>

Failures == {"TerminalGrantFailure", "RetriesExhausted", "defect", "lost"}

\* idempotencyKey(originating_event_id, recipient)
SameKey(g, r) == g.originating_event_id = r.originating_event_id /\ g.recipient = r.recipient

Returned(c, g) ==
  /\ busy' = [busy EXCEPT ![c] = FALSE]
  /\ result' = [result EXCEPT ![c] =
       [tag |-> "RewardGranted", granted |-> g.granted_event_id,
        event |-> g.originating_event_id]]

\* The set of callers is left without a record.
Failed(callers, tag) ==
  /\ busy' = [c \in Caller |-> busy[c] /\ c \notin callers]
  /\ result' = [c \in Caller |->
       IF c \in callers THEN [tag |-> tag, granted |-> 0, event |-> None] ELSE result[c]]

-----------------------------------------------------------------------------

Ask(c) ==
  /\ ~busy[c] /\ busy' = [busy EXCEPT ![c] = TRUE]
  /\ \E e \in Event, i \in Recipient :
       request' = [request EXCEPT ![c] = [originating_event_id |-> e, recipient |-> i]]
  /\ UNCHANGED <<grants, result>>

\* The grant is recorded: the first one of its key, to somebody who can be found.
Grant(c) ==
  /\ busy[c]
  /\ ~\E g \in grants : SameKey(g, request[c])
  /\ request[c].recipient \notin Unresolvable
  /\ \E g \in grants' \ grants :
       /\ SameKey(g, request[c])
       /\ \A h \in grants : h.granted_event_id # g.granted_event_id
       /\ grants' = grants \union {g}
       /\ \/ Returned(c, g)
          \/ \E tag \in Failures : Failed({c}, tag)
          \/ UNCHANGED <<busy, result>>
  /\ UNCHANGED request

\* AlreadyGranted, and the record found by query().
Recover(c) ==
  /\ busy[c]
  /\ \E g \in grants : SameKey(g, request[c]) /\ Returned(c, g)
  /\ UNCHANGED <<grants, request>>

\* The recipient cannot be resolved, a failure is injected, or no answer comes.
Fail(c) ==
  /\ busy[c]
  /\ \E tag \in Failures : Failed({c}, tag)
  /\ UNCHANGED <<grants, request>>

\* The end of a process is the end of its calls.
Lose ==
  /\ \E callers \in SUBSET {c \in Caller : busy[c]} : Failed(callers, "lost")
  /\ UNCHANGED <<grants, request>>

PromiseInit ==
  /\ grants = {}
  /\ busy = [c \in Caller |-> FALSE]
  /\ request = [c \in Caller |-> [originating_event_id |-> None, recipient |-> None]]
  /\ result = [c \in Caller |-> [tag |-> "none", granted |-> 0, event |-> None]]

PromiseNext == Lose \/ \E c \in Caller : Ask(c) \/ Grant(c) \/ Recover(c) \/ Fail(c)

PromiseSpec == PromiseInit /\ [][PromiseNext]_promiseVars
=============================================================================
