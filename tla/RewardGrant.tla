---------------------------- MODULE RewardGrant ----------------------------
(***************************************************************************)
(* Granting a reward outside the unit of work: retryGrant() of             *)
(* packages/engine/src/activities/retry.ts driving RewardPort.grant() and  *)
(* query() of packages/adapters/src/postgres/reward.ts.                    *)
(*                                                                         *)
(* Several server processes share the table reward_grants.  Each numbers   *)
(* the grants it makes with a counter of its own, which starts again when  *)
(* the process does.  A caller is one retryGrant in its process; every     *)
(* statement it sends is an action.                                        *)
(***************************************************************************)
EXTENDS Naturals

CONSTANTS
  Process,           \* server processes
  Caller,            \* concurrent retryGrant calls
  Home,              \* the process of each caller
  Event,             \* originating events
  Recipient,         \* recipients
  None,
  Unresolvable,      \* config.unresolvableIdentities
  FailingGrants,     \* config.failingGrants: records of a recipient and retryable
  SimulatedFailures, \* config.simulatedFailures: among "grant", "query" and "any"
  MaxAttempts,       \* policy.maxAttempts (3 by default)
  MaxCalls,          \* bound of the model: retryGrant calls in all
  MaxFaults,         \* bound of the model: infrastructure faults in all
  MaxRestarts        \* bound of the model: process restarts in all

ASSUME ConstantsOK ==
  /\ Home \in [Caller -> Process]
  /\ None \notin Event /\ Unresolvable \subseteq Recipient
  /\ FailingGrants \subseteq [recipient : Recipient, retryable : BOOLEAN]
  /\ SimulatedFailures \subseteq {"grant", "query", "any"}
  /\ MaxAttempts \in Nat \ {0}
  /\ MaxCalls \in Nat /\ MaxFaults \in Nat /\ MaxRestarts \in Nat

VARIABLES
  reward_grants,        \* committed rows
  counter,              \* each process's counter of synthetic ids
  pendingFailingGrants, \* each process's injected grant failures not consumed yet
  pendingFailures,      \* each process's injected AdapterUnavailable, likewise
  pc,                   \* what each caller does next
  call,                 \* originating event and recipient of its current (or last) call
  grantId,              \* the synthetic id its attempt has drawn, or the id it looks for
  attempt,              \* attempts made before the current one
  outcome,              \* what its last retryGrant returned
  disturbed,            \* history: the current (or last) call met a fault or an injected failure
  calls, faults, restarts

injected == <<pendingFailingGrants, pendingFailures>>
bounds == <<calls, faults, restarts>>
vars == <<reward_grants, counter, injected, pc, call, grantId, attempt, outcome, disturbed, bounds>>

-----------------------------------------------------------------------------
(* Types.                                                                  *)

Request == [originating_event_id : Event, recipient : Recipient]
NoRequest == [originating_event_id |-> None, recipient |-> None]

Row == [originating_event_id : Event, recipient : Recipient, granted_event_id : Nat \ {0}]

\* "wait" is the backoff between two attempts.
Phase == {"idle", "read", "insert", "reread", "query", "wait"}

Tag == {"none", "RewardGranted", "TerminalGrantFailure", "RetriesExhausted", "defect", "lost"}

\* granted is the id in the RewardGranted record, event its originating event.
Outcome == [tag : Tag, granted : Nat, event : Event \union {None}]
Plain(tag) == [tag |-> tag, granted |-> 0, event |-> None]

TypeOK ==
  /\ reward_grants \subseteq Row
  /\ counter \in [Process -> Nat]
  /\ pendingFailingGrants \in [Process -> SUBSET FailingGrants]
  /\ pendingFailures \in [Process -> SUBSET SimulatedFailures]
  /\ pc \in [Caller -> Phase]
  /\ call \in [Caller -> Request \union {NoRequest}]
  /\ grantId \in [Caller -> Nat]
  /\ attempt \in [Caller -> 0..(MaxAttempts - 1)]
  /\ outcome \in [Caller -> Outcome]
  /\ disturbed \in [Caller -> BOOLEAN]
  /\ calls \in 0..MaxCalls /\ faults \in 0..MaxFaults /\ restarts \in 0..MaxRestarts

-----------------------------------------------------------------------------
(* One attempt, and what retryGrant makes of its result.                   *)

\* WHERE originating_event_id and recipient.
Existing(c) ==
  {g \in reward_grants : /\ g.originating_event_id = call[c].originating_event_id
                         /\ g.recipient = call[c].recipient}

Finish(c, result) ==
  /\ outcome' = [outcome EXCEPT ![c] = result]
  /\ pc' = [pc EXCEPT ![c] = "idle"]
  /\ attempt' = [attempt EXCEPT ![c] = 0]
  /\ grantId' = [grantId EXCEPT ![c] = 0]

\* Mutant: the number of attempts is compared with <=.
FailRetryableOnceMore(c) ==
  IF attempt[c] < MaxAttempts
  THEN /\ pc' = [pc EXCEPT ![c] = "wait"]
       /\ attempt' = [attempt EXCEPT ![c] = @ + 1]
       /\ grantId' = [grantId EXCEPT ![c] = 0]
       /\ UNCHANGED outcome
  ELSE Finish(c, Plain("RetriesExhausted"))

\* A retryable failure: wait for the next attempt, if one is left.
FailRetryable(c) ==
  IF attempt[c] + 1 < MaxAttempts
  THEN /\ pc' = [pc EXCEPT ![c] = "wait"]
       /\ attempt' = [attempt EXCEPT ![c] = @ + 1]
       /\ grantId' = [grantId EXCEPT ![c] = 0]
       /\ UNCHANGED outcome
  ELSE Finish(c, Plain("RetriesExhausted"))

FailTerminal(c) == Finish(c, Plain("TerminalGrantFailure"))

\* What grant() fails with, but for AlreadyGranted, which is taken up before.
RewardError == [tag : {"IdentityUnresolvable", "AdapterUnavailable"}]
                 \union [tag : {"GrantFailed"}, retryable : BOOLEAN]

AdapterUnavailable == [tag |-> "AdapterUnavailable"]

isRetryable[err \in RewardError] ==
  CASE err.tag = "GrantFailed"          -> err.retryable
    [] err.tag = "IdentityUnresolvable" -> FALSE
    [] err.tag = "AdapterUnavailable"   -> TRUE

Fail(c, err) == IF isRetryable[err] THEN FailRetryable(c) ELSE FailTerminal(c)

\* AlreadyGranted: recover the record through port.query.
Recover(c, id) ==
  /\ pc' = [pc EXCEPT ![c] = "query"]
  /\ grantId' = [grantId EXCEPT ![c] = id]
  /\ UNCHANGED <<attempt, outcome>>

\* consumeFailingGrant(recipient), and consumeSimulatedFailure(op).
FailingFor(c) == {f \in pendingFailingGrants[Home[c]] : f.recipient = call[c].recipient}
SimulatedFor(c, op) == pendingFailures[Home[c]] \intersect {op, "any"}

ConsumeSimulated(c, op) ==
  /\ \E f \in SimulatedFor(c, op) :
       pendingFailures' = [pendingFailures EXCEPT ![Home[c]] = @ \ {f}]
  /\ disturbed' = [disturbed EXCEPT ![c] = TRUE]
  /\ UNCHANGED pendingFailingGrants

\* retryGrant(port, reward, recipient, originatingEventId)
RetryGrant(c) ==
  /\ pc[c] = "idle" /\ calls < MaxCalls
  /\ \E r \in Request : call' = [call EXCEPT ![c] = r]
  /\ pc' = [pc EXCEPT ![c] = "read"]
  /\ disturbed' = [disturbed EXCEPT ![c] = FALSE]
  /\ calls' = calls + 1
  /\ UNCHANGED <<reward_grants, counter, injected, grantId, attempt, outcome, faults, restarts>>

\* counter += 1
NextCount(c) == counter[Home[c]] + 1

\* grant() up to its INSERT: an injected failure; else readExisting, and
\* what follows it without an await - the injected failures, and the draw of an id.
Read(c) ==
  /\ pc[c] = "read"
  /\ IF SimulatedFor(c, "grant") # {}
     THEN ConsumeSimulated(c, "grant") /\ Fail(c, AdapterUnavailable) /\ UNCHANGED counter
     ELSE
       \/ /\ \E g \in Existing(c) : Recover(c, g.granted_event_id)
          /\ UNCHANGED <<counter, injected, disturbed>>
       \/ /\ Existing(c) = {} /\ call[c].recipient \in Unresolvable
          /\ Fail(c, [tag |-> "IdentityUnresolvable"])
          /\ UNCHANGED <<counter, injected, disturbed>>
       \/ /\ Existing(c) = {} /\ call[c].recipient \notin Unresolvable
          /\ \E f \in FailingFor(c) :
               /\ pendingFailingGrants' = [pendingFailingGrants EXCEPT ![Home[c]] = @ \ {f}]
               /\ Fail(c, [tag |-> "GrantFailed", retryable |-> f.retryable])
          /\ disturbed' = [disturbed EXCEPT ![c] = TRUE]
          /\ UNCHANGED <<counter, pendingFailures>>
       \/ /\ Existing(c) = {} /\ call[c].recipient \notin Unresolvable /\ FailingFor(c) = {}
          /\ counter' = [counter EXCEPT ![Home[c]] = NextCount(c)]
          /\ grantId' = [grantId EXCEPT ![c] = NextCount(c)]
          /\ pc' = [pc EXCEPT ![c] = "insert"]
          /\ UNCHANGED <<injected, disturbed, attempt, outcome>>
  /\ UNCHANGED <<reward_grants, call, bounds>>

NewRow(c) ==
  [originating_event_id |-> call[c].originating_event_id, recipient |-> call[c].recipient,
   granted_event_id |-> grantId[c]]

\* Mutant: reward_grants has no primary key.
TupleTakenUnchecked(c) == FALSE

\* reward_grants_pkey, and reward_grants_granted_event_id_uniq.
TupleTaken(c) == Existing(c) # {}
GrantIdTaken(c) == \E g \in reward_grants : g.granted_event_id = grantId[c]

Granted(c) ==
  Finish(c, [tag |-> "RewardGranted", granted |-> grantId[c],
             event |-> call[c].originating_event_id])

\* One autocommitted INSERT; either index answers 23505.
Insert(c) ==
  /\ pc[c] = "insert"
  /\ \/ /\ ~TupleTaken(c) /\ ~GrantIdTaken(c)
        /\ reward_grants' = reward_grants \union {NewRow(c)}
        /\ Granted(c)
     \/ /\ TupleTaken(c) \/ GrantIdTaken(c)
        /\ pc' = [pc EXCEPT ![c] = "reread"]
        /\ UNCHANGED <<reward_grants, grantId, attempt, outcome>>
  /\ UNCHANGED <<counter, injected, call, disturbed, bounds>>

\* Mutant: when it finds nothing, the INSERT is sent again.
RereadThenInsert(c) ==
  /\ pc[c] = "reread"
  /\ \/ \E g \in Existing(c) : Recover(c, g.granted_event_id)
     \/ Existing(c) = {} /\ pc' = [pc EXCEPT ![c] = "insert"] /\ UNCHANGED <<grantId, attempt, outcome>>
  /\ UNCHANGED <<reward_grants, counter, injected, call, disturbed, bounds>>

\* readExisting again: AlreadyGranted, or AdapterUnavailable when it finds nothing.
Reread(c) ==
  /\ pc[c] = "reread"
  /\ \/ \E g \in Existing(c) : Recover(c, g.granted_event_id)
     \/ Existing(c) = {} /\ Fail(c, AdapterUnavailable)
  /\ UNCHANGED <<reward_grants, counter, injected, call, disturbed, bounds>>

\* Mutant: the recipient's first grant, whatever its id.
MatchesAny(c) == {g \in reward_grants : g.recipient = call[c].recipient}

\* WHERE recipient, then find(g => g.granted_event_id === existing_grant_id).
Matches(c) ==
  {g \in reward_grants : g.recipient = call[c].recipient /\ g.granted_event_id = grantId[c]}

\* port.query(recipient), and the look for the existing grant in its answer.
Query(c) ==
  /\ pc[c] = "query"
  /\ \/ SimulatedFor(c, "query") # {} /\ ConsumeSimulated(c, "query") /\ FailTerminal(c)
     \/ /\ SimulatedFor(c, "query") = {}
        /\ \E g \in Matches(c) :
             Finish(c, [tag |-> "RewardGranted", granted |-> g.granted_event_id,
                        event |-> g.originating_event_id])
        /\ UNCHANGED <<injected, disturbed>>
     \/ /\ SimulatedFor(c, "query") = {} /\ Matches(c) = {}
        /\ FailTerminal(c)
        /\ UNCHANGED <<injected, disturbed>>
  /\ UNCHANGED <<reward_grants, counter, call, bounds>>

\* sleep(computeDelay(...)) is over.
Wake(c) ==
  /\ pc[c] = "wait"
  /\ pc' = [pc EXCEPT ![c] = "read"]
  /\ UNCHANGED <<reward_grants, counter, injected, call, grantId, attempt, outcome, disturbed, bounds>>

-----------------------------------------------------------------------------
(* Faults.                                                                 *)

\* The database does not answer.  The reads run under Effect.promise, so their
\* rejection is a defect, which Effect.either does not catch; the INSERT's is
\* AdapterUnavailable, and the row may have been committed all the same.
Fault(c) ==
  /\ faults < MaxFaults
  /\ faults' = faults + 1
  /\ disturbed' = [disturbed EXCEPT ![c] = TRUE]
  /\ \/ /\ \/ pc[c] = "read" /\ SimulatedFor(c, "grant") = {}
           \/ pc[c] = "reread"
           \/ pc[c] = "query" /\ SimulatedFor(c, "query") = {}
        /\ Finish(c, Plain("defect"))
        /\ UNCHANGED reward_grants
     \/ /\ pc[c] = "insert"
        /\ Fail(c, AdapterUnavailable)
        /\ \/ UNCHANGED reward_grants
           \/ /\ ~TupleTaken(c) /\ ~GrantIdTaken(c)
              /\ reward_grants' = reward_grants \union {NewRow(c)}
  /\ UNCHANGED <<counter, injected, call, calls, restarts>>

\* A process restarts: its callers are gone, and makePostgresRewardPort starts
\* again from its config, with let counter = 0.
Restart(p) ==
  LET lost == {c \in Caller : Home[c] = p /\ pc[c] # "idle"} IN
  /\ restarts < MaxRestarts
  /\ restarts' = restarts + 1
  /\ counter' = [counter EXCEPT ![p] = 0]
  /\ pendingFailingGrants' = [pendingFailingGrants EXCEPT ![p] = FailingGrants]
  /\ pendingFailures' = [pendingFailures EXCEPT ![p] = SimulatedFailures]
  /\ outcome' = [c \in Caller |-> IF c \in lost THEN Plain("lost") ELSE outcome[c]]
  /\ pc' = [c \in Caller |-> IF c \in lost THEN "idle" ELSE pc[c]]
  /\ attempt' = [c \in Caller |-> IF c \in lost THEN 0 ELSE attempt[c]]
  /\ grantId' = [c \in Caller |-> IF c \in lost THEN 0 ELSE grantId[c]]
  /\ UNCHANGED <<reward_grants, call, disturbed, calls, faults>>

-----------------------------------------------------------------------------

Init ==
  /\ reward_grants = {}
  /\ counter = [p \in Process |-> 0]
  /\ pendingFailingGrants = [p \in Process |-> FailingGrants]
  /\ pendingFailures = [p \in Process |-> SimulatedFailures]
  /\ pc = [c \in Caller |-> "idle"]
  /\ call = [c \in Caller |-> NoRequest]
  /\ grantId = [c \in Caller |-> 0]
  /\ attempt = [c \in Caller |-> 0]
  /\ outcome = [c \in Caller |-> Plain("none")]
  /\ disturbed = [c \in Caller |-> FALSE]
  /\ calls = 0 /\ faults = 0 /\ restarts = 0

Progress(c) == Read(c) \/ Insert(c) \/ Reread(c) \/ Query(c) \/ Wake(c)

Next ==
  \/ \E c \in Caller : RetryGrant(c) \/ Progress(c) \/ Fault(c)
  \/ \E p \in Process : Restart(p)

Spec == Init /\ [][Next]_vars

\* A statement sent is answered, and a sleep ends.
Fairness == \A c \in Caller : WF_vars(Progress(c))

FairSpec == Spec /\ Fairness

-----------------------------------------------------------------------------
(* What a grant must be.                                                   *)

\* The caller can act on the outcome.  The record retryGrant returns is the durable
\* grant of the very event and recipient it was called with: the D18 recovery looks it
\* up by granted_event_id, which processes draw without knowing of each other.  And
\* AlreadyGranted always leads to the record: undisturbed, retryGrant is terminal
\* only for a recipient that cannot be resolved and holds no grant of the event.
OutcomeIsTrue ==
  \A c \in Caller : pc[c] = "idle" =>
    /\ outcome[c].tag = "RewardGranted" =>
         /\ outcome[c].event = call[c].originating_event_id
         /\ \E g \in Existing(c) : g.granted_event_id = outcome[c].granted
    /\ outcome[c].tag = "TerminalGrantFailure" =>
         \/ disturbed[c]
         \/ call[c].recipient \in Unresolvable /\ Existing(c) = {}

\* Every call returns.
EveryCallReturns == \A c \in Caller : pc[c] # "idle" ~> pc[c] = "idle"
=============================================================================
