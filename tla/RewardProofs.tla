---------------------------- MODULE RewardProofs ----------------------------
(***************************************************************************)
(* Proofs about RewardGrant, for any number of processes, callers, events  *)
(* and recipients, whatever the processes count alike.                     *)
(***************************************************************************)
EXTENDS RewardRefinement, TLAPS

\* A call under way is about a real request, and has drawn an id when it inserts.
RealCall ==
  \A c \in Caller :
    /\ pc[c] # "idle" => call[c] \in Request
    /\ pc[c] = "insert" => grantId[c] # 0

TypeInv == TypeOK /\ RealCall

\* reward_grants_granted_event_id_uniq, and grants only to those who can be found.
UniqueIds == \A g, h \in reward_grants : g.granted_event_id = h.granted_event_id => g = h
Resolvable == \A g \in reward_grants : g.recipient \notin Unresolvable

\* What the outcome of a call that is over says.
TrueOutcome(c) ==
  /\ outcome[c].tag = "RewardGranted" =>
       /\ outcome[c].event = call[c].originating_event_id
       /\ \E g \in Existing(c) : g.granted_event_id = outcome[c].granted
  /\ outcome[c].tag = "TerminalGrantFailure" =>
       \/ disturbed[c]
       \/ call[c].recipient \in Unresolvable /\ Existing(c) = {}

\* A call that looks for a grant looks for the one of its own tuple, and one that
\* inserts does so for a recipient that was found.
Part(c) ==
  /\ pc[c] = "idle" => TrueOutcome(c)
  /\ pc[c] = "insert" => call[c].recipient \notin Unresolvable
  /\ pc[c] = "query" => \E g \in Existing(c) : g.granted_event_id = grantId[c]

SafetyInv == UniqueIds /\ Resolvable /\ \A c \in Caller : Part(c)

-----------------------------------------------------------------------------
(* Types.                                                                  *)

LEMMA InitTypes == Init => TypeInv
  BY ConstantsOK DEF Init, TypeInv, TypeOK, RealCall, Phase, Outcome, Plain, Tag, NoRequest, Request, Row

\* The variables that only the caller's own steps touch.
OwnTypes ==
  /\ pc \in [Caller -> Phase]
  /\ grantId \in [Caller -> Nat]
  /\ attempt \in [Caller -> 0..(MaxAttempts - 1)]
  /\ outcome \in [Caller -> Outcome]

LEMMA FinishTypes ==
  ASSUME TypeInv, NEW c \in Caller, NEW o \in Outcome, Finish(c, o)
  PROVE  OwnTypes'
  BY ConstantsOK DEF Finish, OwnTypes, TypeInv, TypeOK, Phase

LEMMA FailTypes ==
  ASSUME TypeInv, NEW c \in Caller, NEW err, Fail(c, err)
  PROVE  OwnTypes' /\ pc'[c] \in {"wait", "idle"} /\ \A d \in Caller \ {c} : pc'[d] = pc[d] /\ grantId'[d] = grantId[d]
<1>1. /\ Plain("RetriesExhausted") \in Outcome
      /\ Plain("TerminalGrantFailure") \in Outcome
  BY DEF Plain, Outcome, Tag
<1>2. CASE Finish(c, Plain("RetriesExhausted")) \/ Finish(c, Plain("TerminalGrantFailure"))
  BY <1>1, <1>2, FinishTypes DEF Finish, TypeInv, TypeOK
<1>3. CASE ~Finish(c, Plain("RetriesExhausted")) /\ ~Finish(c, Plain("TerminalGrantFailure"))
  <2>1. /\ attempt[c] + 1 < MaxAttempts
        /\ pc' = [pc EXCEPT ![c] = "wait"]
        /\ attempt' = [attempt EXCEPT ![c] = @ + 1]
        /\ grantId' = [grantId EXCEPT ![c] = 0]
        /\ UNCHANGED outcome
    BY <1>3 DEF Fail, FailRetryable, FailTerminal
  <2>2. attempt[c] + 1 \in 0..(MaxAttempts - 1)
    BY <2>1, ConstantsOK DEF TypeInv, TypeOK
  <2>. QED
    BY <2>1, <2>2 DEF OwnTypes, TypeInv, TypeOK, Phase
<1>. QED
  BY <1>2, <1>3

\* Whatever of the other variables an action of c changes, in its turn.
LEMMA TypesKept ==
  ASSUME TypeInv, NEW c \in Caller, OwnTypes',
         reward_grants' \subseteq Row,
         counter' \in [Process -> Nat],
         pendingFailingGrants' \in [Process -> SUBSET FailingGrants],
         pendingFailures' \in [Process -> SUBSET SimulatedFailures],
         disturbed' \in [Caller -> BOOLEAN],
         call' = call, pc[c] # "idle",
         \A d \in Caller \ {c} : pc'[d] = pc[d] /\ grantId'[d] = grantId[d],
         pc'[c] = "insert" => grantId'[c] # 0,
         calls' \in 0..MaxCalls, faults' \in 0..MaxFaults, restarts' \in 0..MaxRestarts
  PROVE  TypeInv'
  BY DEF TypeInv, TypeOK, RealCall, OwnTypes

LEMMA NewRowIsRow ==
  ASSUME TypeInv, NEW c \in Caller, pc[c] = "insert"
  PROVE  NewRow(c) \in Row
  BY DEF NewRow, Row, TypeInv, TypeOK, RealCall, Request

LEMMA RetryGrantTypes ==
  ASSUME TypeInv, NEW c \in Caller, RetryGrant(c)
  PROVE  TypeInv'
<1>1. PICK r \in Request : call' = [call EXCEPT ![c] = r]
  BY DEF RetryGrant
<1>2. calls' \in 0..MaxCalls
  BY ConstantsOK DEF RetryGrant, TypeInv, TypeOK
<1>. QED
  BY <1>1, <1>2 DEF RetryGrant, TypeInv, TypeOK, RealCall, Phase, injected

LEMMA SimulatedTypes ==
  ASSUME TypeInv, NEW c \in Caller, NEW op, ConsumeSimulated(c, op)
  PROVE  /\ pendingFailures' \in [Process -> SUBSET SimulatedFailures]
         /\ pendingFailingGrants' \in [Process -> SUBSET FailingGrants]
         /\ disturbed' \in [Caller -> BOOLEAN]
<1>1. PICK f \in SimulatedFor(c, op) :
        pendingFailures' = [pendingFailures EXCEPT ![Home[c]] = @ \ {f}]
  BY DEF ConsumeSimulated
<1>2. pendingFailures[Home[c]] \ {f} \in SUBSET SimulatedFailures
  BY ConstantsOK DEF TypeInv, TypeOK
<1>. QED
  BY <1>1, <1>2 DEF ConsumeSimulated, TypeInv, TypeOK

LEMMA RecoverTypes ==
  ASSUME TypeInv, NEW c \in Caller, NEW id \in Nat, Recover(c, id)
  PROVE  /\ OwnTypes'
         /\ pc'[c] = "query"
         /\ \A d \in Caller \ {c} : pc'[d] = pc[d] /\ grantId'[d] = grantId[d]
  BY DEF Recover, OwnTypes, TypeInv, TypeOK, Phase

LEMMA ReadTypes ==
  ASSUME TypeInv, NEW c \in Caller, Read(c)
  PROVE  TypeInv'
<1>1. /\ pc[c] = "read"
      /\ reward_grants' \subseteq Row /\ call' = call
      /\ calls' \in 0..MaxCalls /\ faults' \in 0..MaxFaults /\ restarts' \in 0..MaxRestarts
  BY DEF Read, TypeInv, TypeOK, bounds
<1>2. ASSUME NEW err, Fail(c, err)
      PROVE  /\ OwnTypes' /\ pc'[c] # "insert"
             /\ \A d \in Caller \ {c} : pc'[d] = pc[d] /\ grantId'[d] = grantId[d]
  BY <1>2, FailTypes
<1>3. CASE ConsumeSimulated(c, "grant") /\ Fail(c, AdapterUnavailable) /\ UNCHANGED counter
  <2>1. counter' \in [Process -> Nat]
    BY <1>3 DEF TypeInv, TypeOK
  <2>. QED
    BY <1>1, <1>2, <1>3, <2>1, SimulatedTypes, TypesKept
<1>4. CASE (\E g \in Existing(c) : Recover(c, g.granted_event_id)) /\ UNCHANGED <<counter, injected, disturbed>>
  <2>1. PICK g \in Existing(c) : Recover(c, g.granted_event_id)
    BY <1>4
  <2>2. g.granted_event_id \in Nat
    BY DEF Existing, TypeInv, TypeOK, Row
  <2>3. /\ OwnTypes' /\ pc'[c] # "insert"
        /\ \A d \in Caller \ {c} : pc'[d] = pc[d] /\ grantId'[d] = grantId[d]
    BY <2>1, <2>2, RecoverTypes
  <2>4. /\ counter' \in [Process -> Nat] /\ disturbed' \in [Caller -> BOOLEAN]
        /\ pendingFailingGrants' \in [Process -> SUBSET FailingGrants]
        /\ pendingFailures' \in [Process -> SUBSET SimulatedFailures]
    BY <1>4 DEF TypeInv, TypeOK, injected
  <2>. QED
    BY <1>1, <2>3, <2>4, TypesKept
<1>5. CASE Fail(c, [tag |-> "IdentityUnresolvable"]) /\ UNCHANGED <<counter, injected, disturbed>>
  <2>1. /\ counter' \in [Process -> Nat] /\ disturbed' \in [Caller -> BOOLEAN]
        /\ pendingFailingGrants' \in [Process -> SUBSET FailingGrants]
        /\ pendingFailures' \in [Process -> SUBSET SimulatedFailures]
    BY <1>5 DEF TypeInv, TypeOK, injected
  <2>. QED
    BY <1>1, <1>2, <1>5, <2>1, TypesKept
<1>6. CASE /\ \E f \in FailingFor(c) :
                /\ pendingFailingGrants' = [pendingFailingGrants EXCEPT ![Home[c]] = @ \ {f}]
                /\ Fail(c, [tag |-> "GrantFailed", retryable |-> f.retryable])
           /\ disturbed' = [disturbed EXCEPT ![c] = TRUE]
           /\ UNCHANGED <<counter, pendingFailures>>
  <2>1. PICK f \in FailingFor(c) :
          /\ pendingFailingGrants' = [pendingFailingGrants EXCEPT ![Home[c]] = @ \ {f}]
          /\ Fail(c, [tag |-> "GrantFailed", retryable |-> f.retryable])
    BY <1>6
  <2>2. pendingFailingGrants[Home[c]] \ {f} \in SUBSET FailingGrants
    BY ConstantsOK DEF TypeInv, TypeOK
  <2>3. pendingFailingGrants' \in [Process -> SUBSET FailingGrants]
    BY <2>1, <2>2 DEF TypeInv, TypeOK
  <2>4. /\ counter' \in [Process -> Nat] /\ disturbed' \in [Caller -> BOOLEAN]
        /\ pendingFailures' \in [Process -> SUBSET SimulatedFailures]
    BY <1>6 DEF TypeInv, TypeOK
  <2>. QED
    BY <1>1, <1>2, <2>1, <2>3, <2>4, TypesKept
<1>7. CASE /\ counter' = [counter EXCEPT ![Home[c]] = NextCount(c)]
           /\ grantId' = [grantId EXCEPT ![c] = NextCount(c)]
           /\ pc' = [pc EXCEPT ![c] = "insert"]
           /\ UNCHANGED <<injected, disturbed, attempt, outcome>>
  <2>1. NextCount(c) \in Nat \ {0}
    BY ConstantsOK DEF NextCount, TypeInv, TypeOK
  <2>2. /\ counter' \in [Process -> Nat] /\ disturbed' \in [Caller -> BOOLEAN]
        /\ pendingFailingGrants' \in [Process -> SUBSET FailingGrants]
        /\ pendingFailures' \in [Process -> SUBSET SimulatedFailures]
        /\ OwnTypes' /\ grantId'[c] # 0
        /\ \A d \in Caller \ {c} : pc'[d] = pc[d] /\ grantId'[d] = grantId[d]
    BY <1>7, <2>1 DEF TypeInv, TypeOK, OwnTypes, Phase, injected
  <2>. QED
    BY <1>1, <2>2, TypesKept
<1>. QED
  BY <1>3, <1>4, <1>5, <1>6, <1>7 DEF Read

\* A step that leaves the counters and the injected failures alone.
LEMMA QuietTypes ==
  ASSUME TypeInv, UNCHANGED <<counter, injected>>, UNCHANGED <<calls, restarts>>
  PROVE  /\ counter' \in [Process -> Nat]
         /\ pendingFailingGrants' \in [Process -> SUBSET FailingGrants]
         /\ pendingFailures' \in [Process -> SUBSET SimulatedFailures]
         /\ calls' \in 0..MaxCalls /\ restarts' \in 0..MaxRestarts
  BY DEF TypeInv, TypeOK, injected

LEMMA GrantedTypes ==
  ASSUME TypeInv, NEW c \in Caller, pc[c] = "insert", Granted(c)
  PROVE  /\ OwnTypes' /\ pc'[c] # "insert"
         /\ \A d \in Caller \ {c} : pc'[d] = pc[d] /\ grantId'[d] = grantId[d]
<1>. DEFINE o == [tag |-> "RewardGranted", granted |-> grantId[c],
                  event |-> call[c].originating_event_id]
<1>1. o \in Outcome
  BY DEF TypeInv, TypeOK, RealCall, Request, Outcome, Tag
<1>2. Finish(c, o)
  BY DEF Granted
<1>. QED
  BY <1>1, <1>2, FinishTypes DEF Finish, TypeInv, TypeOK

LEMMA InsertTypes ==
  ASSUME TypeInv, NEW c \in Caller, Insert(c)
  PROVE  TypeInv'
<1>1. /\ pc[c] = "insert"
      /\ call' = call /\ disturbed' \in [Caller -> BOOLEAN] /\ faults' \in 0..MaxFaults
      /\ UNCHANGED <<counter, injected, calls, restarts>>
  BY DEF Insert, TypeInv, TypeOK, bounds
<1>2. reward_grants' \subseteq Row
  BY <1>1, NewRowIsRow DEF Insert, TypeInv, TypeOK
<1>3. /\ OwnTypes' /\ pc'[c] # "insert"
      /\ \A d \in Caller \ {c} : pc'[d] = pc[d] /\ grantId'[d] = grantId[d]
  <2>1. CASE Granted(c)
    BY <1>1, <2>1, GrantedTypes
  <2>2. CASE pc' = [pc EXCEPT ![c] = "reread"] /\ UNCHANGED <<grantId, attempt, outcome>>
    BY <2>2 DEF OwnTypes, TypeInv, TypeOK, Phase
  <2>. QED
    BY <2>1, <2>2 DEF Insert
<1>. QED
  BY <1>1, <1>2, <1>3, QuietTypes, TypesKept

LEMMA RereadTypes ==
  ASSUME TypeInv, NEW c \in Caller, Reread(c)
  PROVE  TypeInv'
<1>1. /\ pc[c] = "reread"
      /\ call' = call /\ disturbed' \in [Caller -> BOOLEAN] /\ faults' \in 0..MaxFaults
      /\ reward_grants' \subseteq Row
      /\ UNCHANGED <<counter, injected, calls, restarts>>
  BY DEF Reread, TypeInv, TypeOK, bounds
<1>2. /\ OwnTypes' /\ pc'[c] # "insert"
      /\ \A d \in Caller \ {c} : pc'[d] = pc[d] /\ grantId'[d] = grantId[d]
  <2>1. ASSUME NEW g \in Existing(c), Recover(c, g.granted_event_id)
        PROVE  <1>2!:
    <3>1. g.granted_event_id \in Nat
      BY DEF Existing, TypeInv, TypeOK, Row
    <3>. QED
      BY <2>1, <3>1, RecoverTypes
  <2>2. CASE Fail(c, AdapterUnavailable)
    BY <2>2, FailTypes
  <2>. QED
    BY <2>1, <2>2 DEF Reread
<1>. QED
  BY <1>1, <1>2, QuietTypes, TypesKept

LEMMA QueryTypes ==
  ASSUME TypeInv, NEW c \in Caller, Query(c)
  PROVE  TypeInv'
<1>1. /\ pc[c] = "query"
      /\ call' = call /\ faults' \in 0..MaxFaults /\ calls' \in 0..MaxCalls
      /\ restarts' \in 0..MaxRestarts
      /\ reward_grants' \subseteq Row /\ counter' \in [Process -> Nat]
  BY DEF Query, TypeInv, TypeOK, bounds
<1>2. /\ disturbed' \in [Caller -> BOOLEAN]
      /\ pendingFailingGrants' \in [Process -> SUBSET FailingGrants]
      /\ pendingFailures' \in [Process -> SUBSET SimulatedFailures]
  <2>1. CASE ConsumeSimulated(c, "query")
    BY <2>1, SimulatedTypes
  <2>2. CASE UNCHANGED <<injected, disturbed>>
    BY <2>2 DEF TypeInv, TypeOK, injected
  <2>. QED
    BY <2>1, <2>2 DEF Query
<1>3. PICK o \in Outcome : Finish(c, o)
  <2>1. CASE FailTerminal(c)
    BY <2>1 DEF FailTerminal, Plain, Outcome, Tag
  <2>2. ASSUME NEW g \in Matches(c)
        PROVE  [tag |-> "RewardGranted", granted |-> g.granted_event_id,
                event |-> g.originating_event_id] \in Outcome
    BY DEF Matches, TypeInv, TypeOK, Row, Outcome, Tag
  <2>. QED
    BY <2>1, <2>2 DEF Query
<1>4. /\ OwnTypes' /\ pc'[c] # "insert"
      /\ \A d \in Caller \ {c} : pc'[d] = pc[d] /\ grantId'[d] = grantId[d]
  BY <1>3, FinishTypes DEF Finish, TypeInv, TypeOK
<1>. QED
  BY <1>1, <1>2, <1>4, TypesKept

LEMMA WakeTypes ==
  ASSUME TypeInv, NEW c \in Caller, Wake(c)
  PROVE  TypeInv'
  BY DEF Wake, TypeInv, TypeOK, RealCall, Phase, injected, bounds

LEMMA FaultTypes ==
  ASSUME TypeInv, NEW c \in Caller, Fault(c)
  PROVE  TypeInv'
<1>1. /\ pc[c] # "idle"
      /\ call' = call /\ disturbed' \in [Caller -> BOOLEAN]
      /\ UNCHANGED <<counter, injected, calls, restarts>>
  BY DEF Fault, TypeInv, TypeOK
<1>2. faults' \in 0..MaxFaults
  BY ConstantsOK DEF Fault, TypeInv, TypeOK
<1>3. reward_grants' \subseteq Row
  BY NewRowIsRow DEF Fault, TypeInv, TypeOK
<1>4. /\ OwnTypes' /\ pc'[c] # "insert"
      /\ \A d \in Caller \ {c} : pc'[d] = pc[d] /\ grantId'[d] = grantId[d]
  <2>1. CASE Finish(c, Plain("defect"))
    <3>1. Plain("defect") \in Outcome
      BY DEF Plain, Outcome, Tag
    <3>. QED
      BY <2>1, <3>1, FinishTypes DEF Finish, TypeInv, TypeOK
  <2>2. CASE Fail(c, AdapterUnavailable)
    BY <2>2, FailTypes
  <2>. QED
    BY <2>1, <2>2 DEF Fault
<1>. QED
  BY <1>1, <1>2, <1>3, <1>4, QuietTypes, TypesKept

LEMMA RestartTypes ==
  ASSUME TypeInv, NEW p \in Process, Restart(p)
  PROVE  TypeInv'
<1>1. restarts' \in 0..MaxRestarts
  BY ConstantsOK DEF Restart, TypeInv, TypeOK
<1>2. outcome' \in [Caller -> Outcome]
  BY DEF Restart, TypeInv, TypeOK, Plain, Outcome, Tag
<1>3. pc' \in [Caller -> Phase] /\ grantId' \in [Caller -> Nat]
      /\ attempt' \in [Caller -> 0..(MaxAttempts - 1)]
  BY ConstantsOK DEF Restart, TypeInv, TypeOK, Phase
<1>4. /\ counter' \in [Process -> Nat]
      /\ pendingFailingGrants' \in [Process -> SUBSET FailingGrants]
      /\ pendingFailures' \in [Process -> SUBSET SimulatedFailures]
  BY DEF Restart, TypeInv, TypeOK
<1>5. RealCall'
  BY DEF Restart, TypeInv, TypeOK, RealCall
<1>. QED
  BY <1>1, <1>2, <1>3, <1>4, <1>5 DEF Restart, TypeInv, TypeOK

LEMMA StepTypes == TypeInv /\ [Next]_vars => TypeInv'
<1> SUFFICES ASSUME TypeInv, [Next]_vars PROVE TypeInv'
  OBVIOUS
<1>1. CASE UNCHANGED vars
  BY <1>1 DEF vars, injected, bounds, TypeInv, TypeOK, RealCall
<1>. QED
  BY <1>1, RetryGrantTypes, ReadTypes, InsertTypes, RereadTypes, QueryTypes, WakeTypes,
     FaultTypes, RestartTypes DEF Next, Progress

\* Every variable keeps its type, and the attempts of a call their bound.
THEOREM TypeCorrect == Spec => []TypeOK
<1>1. TypeInv => TypeOK
  BY DEF TypeInv
<1>. QED
  BY <1>1, InitTypes, StepTypes, PTL DEF Spec

-----------------------------------------------------------------------------
(* Safety.                                                                 *)

LEMMA InitSafety == Init => SafetyInv
  BY DEF Init, SafetyInv, UniqueIds, Resolvable, Part, TrueOutcome, Plain

\* What a step of c may do to the table, and what it leaves to the others.
Table(c) ==
  \/ UNCHANGED reward_grants
  \/ /\ pc[c] = "insert" /\ ~GrantIdTaken(c)
     /\ reward_grants' = reward_grants \union {NewRow(c)}

Local(c) ==
  \A d \in Caller \ {c} :
    /\ pc'[d] = pc[d] /\ call'[d] = call[d] /\ grantId'[d] = grantId[d]
    /\ outcome'[d] = outcome[d] /\ disturbed'[d] = disturbed[d]

\* The rows there were stay, and a new one is of somebody who was found.
LEMMA TableKeeps ==
  ASSUME SafetyInv, NEW c \in Caller, Table(c)
  PROVE  /\ UniqueIds' /\ Resolvable'
         /\ reward_grants \subseteq reward_grants'
<1>1. CASE UNCHANGED reward_grants
  BY <1>1 DEF SafetyInv, UniqueIds, Resolvable
<1>2. CASE /\ pc[c] = "insert" /\ ~GrantIdTaken(c)
           /\ reward_grants' = reward_grants \union {NewRow(c)}
  <2>1. call[c].recipient \notin Unresolvable
    BY <1>2 DEF SafetyInv, Part
  <2>2. UniqueIds'
    BY <1>2 DEF SafetyInv, UniqueIds, GrantIdTaken, NewRow
  <2>3. Resolvable'
    BY <1>2, <2>1 DEF SafetyInv, Resolvable, NewRow
  <2>. QED
    BY <1>2, <2>2, <2>3
<1>. QED
  BY <1>1, <1>2 DEF Table

\* A caller keeps its part as long as it keeps its variables.
LEMMA PartKept ==
  ASSUME SafetyInv, NEW d \in Caller, Resolvable', reward_grants \subseteq reward_grants',
         pc'[d] = pc[d], call'[d] = call[d], grantId'[d] = grantId[d],
         outcome'[d] = outcome[d], disturbed'[d] = disturbed[d]
  PROVE  Part(d)'
<1>1. Existing(d) \subseteq Existing(d)'
  BY DEF Existing
<1>2. call[d].recipient \in Unresolvable => Existing(d)' = {}
  BY DEF Existing, Resolvable
<1>3. Part(d)
  BY DEF SafetyInv
<1>4. CASE pc[d] = "idle"
  <2>1. TrueOutcome(d)'
    BY <1>1, <1>2, <1>3, <1>4 DEF Part, TrueOutcome
  <2>. QED
    BY <1>4, <2>1 DEF Part
<1>5. CASE pc[d] # "idle"
  BY <1>1, <1>3, <1>5 DEF Part
<1>. QED
  BY <1>4, <1>5

LEMMA LocalKeeps ==
  ASSUME SafetyInv, NEW c \in Caller, Table(c), Local(c), Part(c)'
  PROVE  SafetyInv'
<1>1. UniqueIds' /\ Resolvable' /\ reward_grants \subseteq reward_grants'
  BY TableKeeps
<1>2. \A d \in Caller \ {c} : Part(d)'
  BY <1>1, PartKept DEF Local
<1>. QED
  BY <1>1, <1>2 DEF SafetyInv

\* How retryGrant leaves an attempt that failed.
LEMMA FailLeaves ==
  ASSUME TypeInv, NEW c \in Caller, NEW err, Fail(c, err)
  PROVE  /\ \/ pc'[c] = "wait" /\ UNCHANGED outcome
            \/ pc'[c] = "idle" /\ outcome'[c] \in {Plain("RetriesExhausted"), Plain("TerminalGrantFailure")}
         /\ \A d \in Caller \ {c} : /\ pc'[d] = pc[d] /\ grantId'[d] = grantId[d]
                                    /\ outcome'[d] = outcome[d]
  BY DEF Fail, FailRetryable, FailTerminal, Finish, TypeInv, TypeOK

LEMMA Retryable == isRetryable[AdapterUnavailable] = TRUE
  BY DEF isRetryable, AdapterUnavailable, RewardError

\* Without an answer of the adapter an attempt is not the end by itself.
LEMMA UnavailableLeaves ==
  ASSUME TypeInv, NEW c \in Caller, Fail(c, AdapterUnavailable)
  PROVE  pc'[c] = "idle" => outcome'[c] = Plain("RetriesExhausted")
  BY Retryable DEF Fail, FailRetryable, Finish, TypeInv, TypeOK

\* A failure of the adapter says nothing but that it failed.
LEMMA UnavailablePart ==
  ASSUME TypeInv, NEW c \in Caller, Fail(c, AdapterUnavailable)
  PROVE  Part(c)'
  BY UnavailableLeaves, FailLeaves DEF Part, TrueOutcome, Plain

\* So does any failure that is injected.
LEMMA DisturbedPart ==
  ASSUME TypeInv, NEW c \in Caller, NEW err, Fail(c, err), disturbed'[c]
  PROVE  Part(c)'
  BY FailLeaves DEF Part, TrueOutcome, Plain

\* The recovery starts from a row of the tuple.
LEMMA RecoverPart ==
  ASSUME TypeInv, NEW c \in Caller, NEW g \in Existing(c), Recover(c, g.granted_event_id),
         UNCHANGED <<reward_grants, call>>
  PROVE  Part(c)'
  BY DEF Part, Recover, Existing, TypeInv, TypeOK

LEMMA RetryGrantSafe ==
  ASSUME TypeInv, SafetyInv, NEW c \in Caller, RetryGrant(c)
  PROVE  SafetyInv'
<1>1. Part(c)'
  BY DEF RetryGrant, Part, TypeInv, TypeOK
<1>2. Table(c) /\ Local(c)
  BY DEF RetryGrant, Table, Local, TypeInv, TypeOK
<1>. QED
  BY <1>1, <1>2, LocalKeeps

LEMMA SimulatedDisturbs ==
  ASSUME TypeInv, NEW c \in Caller, NEW op, ConsumeSimulated(c, op)
  PROVE  disturbed'[c] /\ \A d \in Caller \ {c} : disturbed'[d] = disturbed[d]
  BY DEF ConsumeSimulated, TypeInv, TypeOK

LEMMA ReadSafe ==
  ASSUME TypeInv, SafetyInv, NEW c \in Caller, Read(c)
  PROVE  SafetyInv'
<1>1. pc[c] = "read" /\ UNCHANGED <<reward_grants, call>>
  BY DEF Read
<1>2. Table(c)
  BY <1>1 DEF Table
<1>3. CASE ConsumeSimulated(c, "grant") /\ Fail(c, AdapterUnavailable)
  <2>1. Local(c)
    BY <1>1, <1>3, FailLeaves, SimulatedDisturbs DEF Local
  <2>. QED
    BY <1>2, <1>3, <2>1, UnavailablePart, LocalKeeps
<1>4. CASE (\E g \in Existing(c) : Recover(c, g.granted_event_id)) /\ UNCHANGED disturbed
  <2>1. Local(c)
    BY <1>1, <1>4 DEF Local, Recover, TypeInv, TypeOK
  <2>2. Part(c)'
    BY <1>1, <1>4, RecoverPart
  <2>. QED
    BY <1>2, <2>1, <2>2, LocalKeeps
<1>5. CASE /\ Existing(c) = {} /\ call[c].recipient \in Unresolvable
           /\ Fail(c, [tag |-> "IdentityUnresolvable"]) /\ UNCHANGED disturbed
  <2>1. Local(c)
    BY <1>1, <1>5, FailLeaves DEF Local
  <2>2. Existing(c)' = {} /\ call'[c].recipient \in Unresolvable
    BY <1>1, <1>5 DEF Existing
  <2>3. Part(c)'
    BY <1>5, <2>2, FailLeaves DEF Part, TrueOutcome, Plain
  <2>. QED
    BY <1>2, <2>1, <2>3, LocalKeeps
<1>6. CASE /\ \E f \in FailingFor(c) :
                Fail(c, [tag |-> "GrantFailed", retryable |-> f.retryable])
           /\ disturbed' = [disturbed EXCEPT ![c] = TRUE]
  <2>1. disturbed'[c] /\ \A d \in Caller \ {c} : disturbed'[d] = disturbed[d]
    BY <1>6 DEF TypeInv, TypeOK
  <2>2. Local(c)
    BY <1>1, <1>6, <2>1, FailLeaves DEF Local
  <2>3. Part(c)'
    BY <1>6, <2>1, DisturbedPart
  <2>. QED
    BY <1>2, <2>2, <2>3, LocalKeeps
<1>7. CASE /\ call[c].recipient \notin Unresolvable
           /\ grantId' = [grantId EXCEPT ![c] = NextCount(c)]
           /\ pc' = [pc EXCEPT ![c] = "insert"]
           /\ UNCHANGED <<disturbed, outcome>>
  <2>1. Local(c) /\ Part(c)'
    BY <1>1, <1>7 DEF Local, Part, TypeInv, TypeOK
  <2>. QED
    BY <1>2, <2>1, LocalKeeps
<1>. QED
  BY <1>3, <1>4, <1>5, <1>6, <1>7 DEF Read

\* A new row is one of the tuple of its caller.
LEMMA InsertedExists ==
  ASSUME NEW c \in Caller, UNCHANGED call, reward_grants' = reward_grants \union {NewRow(c)}
  PROVE  NewRow(c) \in Existing(c)'
  BY DEF Existing, NewRow

LEMMA InsertSafe ==
  ASSUME TypeInv, SafetyInv, NEW c \in Caller, Insert(c)
  PROVE  SafetyInv'
<1>1. pc[c] = "insert" /\ UNCHANGED <<call, disturbed>>
  BY DEF Insert
<1>2. Table(c)
  BY DEF Insert, Table
<1>3. CASE reward_grants' = reward_grants \union {NewRow(c)} /\ Granted(c)
  <2>1. Local(c)
    BY <1>1, <1>3 DEF Local, Granted, Finish, TypeInv, TypeOK
  <2>2. /\ pc'[c] = "idle"
        /\ outcome'[c] = [tag |-> "RewardGranted", granted |-> grantId[c],
                          event |-> call[c].originating_event_id]
    BY <1>3 DEF Granted, Finish, TypeInv, TypeOK
  <2>3. NewRow(c) \in Existing(c)' /\ NewRow(c).granted_event_id = grantId[c]
    BY <1>1, <1>3, InsertedExists DEF NewRow
  <2>4. Part(c)'
    BY <1>1, <2>2, <2>3 DEF Part, TrueOutcome
  <2>. QED
    BY <1>2, <2>1, <2>4, LocalKeeps
<1>4. CASE pc' = [pc EXCEPT ![c] = "reread"] /\ UNCHANGED <<grantId, outcome>>
  <2>1. Local(c) /\ Part(c)'
    BY <1>1, <1>4 DEF Local, Part, TypeInv, TypeOK
  <2>. QED
    BY <1>2, <2>1, LocalKeeps
<1>. QED
  BY <1>3, <1>4 DEF Insert

LEMMA RereadSafe ==
  ASSUME TypeInv, SafetyInv, NEW c \in Caller, Reread(c)
  PROVE  SafetyInv'
<1>1. UNCHANGED <<reward_grants, call, disturbed>>
  BY DEF Reread
<1>2. Table(c)
  BY <1>1 DEF Table
<1>3. CASE \E g \in Existing(c) : Recover(c, g.granted_event_id)
  <2>1. Local(c)
    BY <1>1, <1>3 DEF Local, Recover, TypeInv, TypeOK
  <2>. QED
    BY <1>1, <1>2, <1>3, <2>1, RecoverPart, LocalKeeps
<1>4. CASE Fail(c, AdapterUnavailable)
  <2>1. Local(c)
    BY <1>1, <1>4, FailLeaves DEF Local
  <2>. QED
    BY <1>2, <1>4, <2>1, UnavailablePart, LocalKeeps
<1>. QED
  BY <1>3, <1>4 DEF Reread

\* The grant that is looked for is there, and no other one has its id.
LEMMA MatchIsExisting ==
  ASSUME SafetyInv, NEW c \in Caller, pc[c] = "query"
  PROVE  Matches(c) # {} /\ Matches(c) \subseteq Existing(c)
<1>1. PICK g \in Existing(c) : g.granted_event_id = grantId[c]
  BY DEF SafetyInv, Part
<1>2. g \in Matches(c)
  BY <1>1 DEF Existing, Matches
<1>3. \A h \in Matches(c) : h = g
  BY <1>1 DEF Existing, Matches, SafetyInv, UniqueIds
<1>. QED
  BY <1>2, <1>3

LEMMA QuerySafe ==
  ASSUME TypeInv, SafetyInv, NEW c \in Caller, Query(c)
  PROVE  SafetyInv'
<1>1. pc[c] = "query" /\ UNCHANGED <<reward_grants, call>>
  BY DEF Query
<1>2. Table(c)
  BY <1>1 DEF Table
<1>3. CASE ConsumeSimulated(c, "query") /\ FailTerminal(c)
  <2>1. Local(c) /\ pc'[c] = "idle" /\ outcome'[c] = Plain("TerminalGrantFailure") /\ disturbed'[c]
    BY <1>1, <1>3, SimulatedDisturbs DEF Local, FailTerminal, Finish, TypeInv, TypeOK
  <2>2. Part(c)'
    BY <2>1 DEF Part, TrueOutcome, Plain
  <2>. QED
    BY <1>2, <2>1, <2>2, LocalKeeps
<1>4. CASE /\ \E g \in Matches(c) :
                Finish(c, [tag |-> "RewardGranted", granted |-> g.granted_event_id,
                           event |-> g.originating_event_id])
           /\ UNCHANGED <<injected, disturbed>>
  <2>1. PICK g \in Matches(c) :
          Finish(c, [tag |-> "RewardGranted", granted |-> g.granted_event_id,
                     event |-> g.originating_event_id])
    BY <1>4
  <2>2. g \in Existing(c) /\ g \in Existing(c)'
    BY <1>1, MatchIsExisting DEF Existing
  <2>3. /\ Local(c) /\ pc'[c] = "idle"
        /\ outcome'[c] = [tag |-> "RewardGranted", granted |-> g.granted_event_id,
                          event |-> g.originating_event_id]
    BY <1>1, <1>4, <2>1 DEF Local, Finish, TypeInv, TypeOK
  <2>4. g.originating_event_id = call'[c].originating_event_id
    BY <2>2 DEF Existing
  <2>5. Part(c)'
    BY <2>2, <2>3, <2>4 DEF Part, TrueOutcome
  <2>. QED
    BY <1>2, <2>3, <2>5, LocalKeeps
<1>. QED
  BY <1>1, <1>3, <1>4, MatchIsExisting DEF Query

LEMMA WakeSafe ==
  ASSUME TypeInv, SafetyInv, NEW c \in Caller, Wake(c)
  PROVE  SafetyInv'
<1>1. Table(c) /\ Local(c) /\ Part(c)'
  BY DEF Wake, Table, Local, Part, TypeInv, TypeOK
<1>. QED
  BY <1>1, LocalKeeps

LEMMA FaultSafe ==
  ASSUME TypeInv, SafetyInv, NEW c \in Caller, Fault(c)
  PROVE  SafetyInv'
<1>1. UNCHANGED call /\ \A d \in Caller \ {c} : disturbed'[d] = disturbed[d]
  BY DEF Fault, TypeInv, TypeOK
<1>2. Table(c)
  BY DEF Fault, Table
<1>3. CASE Finish(c, Plain("defect"))
  <2>1. Local(c)
    BY <1>1, <1>3 DEF Local, Finish, TypeInv, TypeOK
  <2>2. Part(c)'
    BY <1>3 DEF Part, TrueOutcome, Finish, Plain, TypeInv, TypeOK
  <2>. QED
    BY <1>2, <2>1, <2>2, LocalKeeps
<1>4. CASE Fail(c, AdapterUnavailable)
  <2>1. Local(c)
    BY <1>1, <1>4, FailLeaves DEF Local
  <2>. QED
    BY <1>2, <1>4, <2>1, UnavailablePart, LocalKeeps
<1>. QED
  BY <1>3, <1>4 DEF Fault

LEMMA RestartSafe ==
  ASSUME TypeInv, SafetyInv, NEW p \in Process, Restart(p)
  PROVE  SafetyInv'
<1>1. UNCHANGED <<reward_grants, call, disturbed>>
  BY DEF Restart
<1>2. UniqueIds' /\ Resolvable'
  BY <1>1 DEF SafetyInv, UniqueIds, Resolvable
<1>3. ASSUME NEW c \in Caller PROVE Part(c)'
  <2>1. CASE Home[c] = p /\ pc[c] # "idle"
    <3>1. pc'[c] = "idle" /\ outcome'[c] = Plain("lost")
      BY <2>1 DEF Restart
    <3>. QED
      BY <3>1 DEF Part, TrueOutcome, Plain
  <2>2. CASE ~(Home[c] = p /\ pc[c] # "idle")
    <3>1. pc'[c] = pc[c] /\ grantId'[c] = grantId[c] /\ outcome'[c] = outcome[c]
      BY <2>2 DEF Restart
    <3>. QED
      BY <1>1, <1>2, <3>1, PartKept
  <2>. QED
    BY <2>1, <2>2
<1>. QED
  BY <1>2, <1>3 DEF SafetyInv

LEMMA StepSafety == TypeInv /\ SafetyInv /\ [Next]_vars => SafetyInv'
<1> SUFFICES ASSUME TypeInv, SafetyInv, [Next]_vars PROVE SafetyInv'
  OBVIOUS
<1>1. CASE UNCHANGED vars
  BY <1>1 DEF vars, SafetyInv, UniqueIds, Resolvable, Part, TrueOutcome, Existing
<1>. QED
  BY <1>1, RetryGrantSafe, ReadSafe, InsertSafe, RereadSafe, QuerySafe, WakeSafe,
     FaultSafe, RestartSafe DEF Next, Progress

LEMMA SafetyInvariant == Spec => [](TypeInv /\ SafetyInv)
  BY InitTypes, InitSafety, StepTypes, StepSafety, PTL DEF Spec

\* A record that retryGrant returns is the durable grant of the caller's own tuple,
\* although processes draw equal ids and the recovery goes by the id; and undisturbed
\* it is terminal only for somebody who cannot be found.
THEOREM OutcomesAreTrue == Spec => []OutcomeIsTrue
<1>1. SafetyInv => OutcomeIsTrue
  BY DEF SafetyInv, Part, TrueOutcome, OutcomeIsTrue
<1>. QED
  BY <1>1, SafetyInvariant, PTL

-----------------------------------------------------------------------------
(* Refinement.                                                             *)

\* Every step of a grant is one step of the reference port, or none.
Mapped == Promise!PromiseNext \/ UNCHANGED Promise!promiseVars

busyMapped == [c \in Caller |-> pc[c] # "idle"]

\* A step within a call that leaves the table alone.
LEMMA WithinStutters ==
  ASSUME TypeInv, NEW c \in Caller, pc[c] # "idle", pc'[c] # "idle",
         \A d \in Caller \ {c} : pc'[d] = pc[d], UNCHANGED <<reward_grants, call, outcome>>
  PROVE  Mapped
<1>1. busyMapped' = busyMapped
  BY DEF busyMapped
<1>. QED
  BY <1>1 DEF Mapped, Promise!promiseVars, busyMapped

\* The end of a call without a record.
LEMMA FinishFails ==
  ASSUME TypeInv, NEW c \in Caller, NEW tag, Finish(c, Plain(tag))
  PROVE  Promise!Failed({c}, tag)
<1>1. busyMapped' = [d \in Caller |-> busyMapped[d] /\ d \notin {c}]
  BY DEF busyMapped, Finish, TypeInv, TypeOK
<1>2. outcome' = [d \in Caller |-> IF d \in {c} THEN Plain(tag) ELSE outcome[d]]
  BY DEF Finish, TypeInv, TypeOK
<1>. QED
  BY <1>1, <1>2 DEF Promise!Failed, busyMapped, Plain

\* One with a record.
LEMMA FinishReturns ==
  ASSUME TypeInv, NEW c \in Caller, NEW g,
         Finish(c, [tag |-> "RewardGranted", granted |-> g.granted_event_id,
                    event |-> g.originating_event_id])
  PROVE  Promise!Returned(c, g)
<1>1. busyMapped' = [busyMapped EXCEPT ![c] = FALSE]
  BY DEF busyMapped, Finish, TypeInv, TypeOK
<1>. QED
  BY <1>1 DEF Promise!Returned, busyMapped, Finish

LEMMA FailureMapped ==
  ASSUME TypeInv, NEW c \in Caller, NEW tag \in Promise!Failures, pc[c] # "idle",
         Finish(c, Plain(tag)), UNCHANGED <<reward_grants, call>>
  PROVE  Mapped
<1>1. Promise!Fail(c)
  BY FinishFails DEF Promise!Fail
<1>. QED
  BY <1>1 DEF Mapped, Promise!PromiseNext

\* An attempt fails: the call goes on, or ends in a failure.
LEMMA FailSplits ==
  ASSUME TypeInv, NEW c \in Caller, NEW err, Fail(c, err)
  PROVE  \/ /\ pc'[c] = "wait" /\ UNCHANGED outcome
            /\ \A d \in Caller \ {c} : pc'[d] = pc[d]
         \/ \E tag \in Promise!Failures : Finish(c, Plain(tag))
  BY DEF Fail, FailRetryable, FailTerminal, Promise!Failures, TypeInv, TypeOK

LEMMA FailMapped ==
  ASSUME TypeInv, NEW c \in Caller, NEW err, Fail(c, err), pc[c] # "idle",
         UNCHANGED <<reward_grants, call>>
  PROVE  Mapped
  BY FailSplits, WithinStutters, FailureMapped

LEMMA RecoverMapped ==
  ASSUME TypeInv, NEW c \in Caller, NEW id, Recover(c, id), pc[c] # "idle",
         UNCHANGED <<reward_grants, call>>
  PROVE  Mapped
<1>1. pc'[c] # "idle" /\ \A d \in Caller \ {c} : pc'[d] = pc[d]
  BY DEF Recover, TypeInv, TypeOK
<1>. QED
  BY <1>1, WithinStutters DEF Recover

\* The INSERT is the grant, whatever becomes of its answer.
LEMMA InsertMapped ==
  ASSUME TypeInv, SafetyInv, NEW c \in Caller, pc[c] = "insert",
         ~TupleTaken(c), ~GrantIdTaken(c), UNCHANGED call,
         reward_grants' = reward_grants \union {NewRow(c)},
         \/ Granted(c)
         \/ \E tag \in Promise!Failures : Finish(c, Plain(tag))
         \/ UNCHANGED <<busyMapped, outcome>>
  PROVE  Mapped
<1>. PICK row : row = NewRow(c)
  OBVIOUS
<1>1. /\ ~\E g \in reward_grants : Promise!SameKey(g, call[c])
      /\ Promise!SameKey(row, call[c])
  BY DEF TupleTaken, Existing, Promise!SameKey, NewRow
<1>2. call[c].recipient \notin Unresolvable
  BY DEF SafetyInv, Part
<1>3. /\ \A h \in reward_grants : h.granted_event_id # row.granted_event_id
      /\ row \in reward_grants' \ reward_grants
      /\ reward_grants' = reward_grants \union {row}
  BY DEF GrantIdTaken, NewRow
<1>4. \/ Promise!Returned(c, row)
      \/ \E tag \in Promise!Failures : Promise!Failed({c}, tag)
      \/ UNCHANGED <<busyMapped, outcome>>
  <2>1. CASE Granted(c)
    <3>1. Finish(c, [tag |-> "RewardGranted", granted |-> row.granted_event_id,
                     event |-> row.originating_event_id])
      BY <2>1 DEF Granted, NewRow
    <3>. QED
      BY <3>1, FinishReturns
  <2>. QED
    BY <2>1, FinishFails
<1>5. busyMapped[c]
  BY DEF busyMapped
<1>6. Promise!Grant(c)
  BY <1>1, <1>2, <1>3, <1>4, <1>5 DEF Promise!Grant, busyMapped
<1>. QED
  BY <1>6 DEF Mapped, Promise!PromiseNext

LEMMA RetryGrantMapped ==
  ASSUME TypeInv, NEW c \in Caller, RetryGrant(c)
  PROVE  Mapped
<1>1. ~busyMapped[c] /\ busyMapped' = [busyMapped EXCEPT ![c] = TRUE]
  BY DEF RetryGrant, busyMapped, TypeInv, TypeOK
<1>2. PICK r \in Request : call' = [call EXCEPT ![c] = r]
  BY DEF RetryGrant
<1>3. \E e \in Event, i \in Recipient : r = [originating_event_id |-> e, recipient |-> i]
  BY DEF Request
<1>4. Promise!Ask(c)
  BY <1>1, <1>2, <1>3 DEF RetryGrant, Promise!Ask, busyMapped
<1>. QED
  BY <1>4 DEF Mapped, Promise!PromiseNext

LEMMA ReadMapped ==
  ASSUME TypeInv, NEW c \in Caller, Read(c)
  PROVE  Mapped
<1>1. pc[c] # "idle" /\ UNCHANGED <<reward_grants, call>>
  BY DEF Read
<1>2. ASSUME NEW err, Fail(c, err) PROVE Mapped
  BY <1>1, <1>2, FailMapped
<1>3. ASSUME NEW id, Recover(c, id) PROVE Mapped
  BY <1>1, <1>3, RecoverMapped
<1>4. CASE pc' = [pc EXCEPT ![c] = "insert"] /\ UNCHANGED outcome
  <2>1. pc'[c] # "idle" /\ \A d \in Caller \ {c} : pc'[d] = pc[d]
    BY <1>4 DEF TypeInv, TypeOK
  <2>. QED
    BY <1>1, <1>4, <2>1, WithinStutters
<1>. QED
  BY <1>2, <1>3, <1>4 DEF Read

LEMMA QueryMapped ==
  ASSUME TypeInv, SafetyInv, NEW c \in Caller, Query(c)
  PROVE  Mapped
<1>1. pc[c] = "query" /\ UNCHANGED <<reward_grants, call>>
  BY DEF Query
<1>2. CASE FailTerminal(c)
  <2>1. "TerminalGrantFailure" \in Promise!Failures
    BY DEF Promise!Failures
  <2>. QED
    BY <1>1, <1>2, <2>1, FailureMapped DEF FailTerminal
<1>3. ASSUME NEW g \in Matches(c),
             Finish(c, [tag |-> "RewardGranted", granted |-> g.granted_event_id,
                        event |-> g.originating_event_id])
      PROVE  Mapped
  <2>1. g \in reward_grants /\ Promise!SameKey(g, call[c])
    BY <1>1, MatchIsExisting DEF Existing, Promise!SameKey
  <2>2. Promise!Returned(c, g)
    BY <1>3, FinishReturns
  <2>3. Promise!Recover(c)
    BY <1>1, <2>1, <2>2 DEF Promise!Recover
  <2>. QED
    BY <2>3 DEF Mapped, Promise!PromiseNext
<1>. QED
  BY <1>2, <1>3 DEF Query

LEMMA InsertActionMapped ==
  ASSUME TypeInv, SafetyInv, NEW c \in Caller, Insert(c)
  PROVE  Mapped
<1>1. CASE /\ ~TupleTaken(c) /\ ~GrantIdTaken(c) /\ Granted(c)
           /\ reward_grants' = reward_grants \union {NewRow(c)}
  BY <1>1, InsertMapped DEF Insert
<1>2. CASE pc' = [pc EXCEPT ![c] = "reread"] /\ UNCHANGED <<reward_grants, outcome>>
  <2>1. pc'[c] # "idle" /\ \A d \in Caller \ {c} : pc'[d] = pc[d]
    BY <1>2 DEF Insert, TypeInv, TypeOK
  <2>. QED
    BY <1>2, <2>1, WithinStutters DEF Insert
<1>. QED
  BY <1>1, <1>2 DEF Insert

LEMMA FaultMapped ==
  ASSUME TypeInv, SafetyInv, NEW c \in Caller, Fault(c)
  PROVE  Mapped
<1>1. pc[c] # "idle" /\ UNCHANGED call
  BY DEF Fault
<1>2. CASE Finish(c, Plain("defect")) /\ UNCHANGED reward_grants
  BY <1>1, <1>2, FailureMapped DEF Promise!Failures
<1>3. CASE Fail(c, AdapterUnavailable) /\ UNCHANGED reward_grants
  BY <1>1, <1>3, FailMapped
<1>4. CASE /\ pc[c] = "insert" /\ Fail(c, AdapterUnavailable)
           /\ ~TupleTaken(c) /\ ~GrantIdTaken(c)
           /\ reward_grants' = reward_grants \union {NewRow(c)}
  <2>1. CASE \E tag \in Promise!Failures : Finish(c, Plain(tag))
    BY <1>1, <1>4, <2>1, InsertMapped
  <2>2. CASE /\ pc'[c] = "wait" /\ UNCHANGED outcome
             /\ \A d \in Caller \ {c} : pc'[d] = pc[d]
    <3>1. busyMapped' = busyMapped
      BY <1>4, <2>2 DEF busyMapped
    <3>. QED
      BY <1>1, <1>4, <2>2, <3>1, InsertMapped
  <2>. QED
    BY <1>4, <2>1, <2>2, FailSplits
<1>. QED
  BY <1>2, <1>3, <1>4 DEF Fault

LEMMA RestartMapped ==
  ASSUME TypeInv, NEW p \in Process, Restart(p)
  PROVE  Mapped
<1>. DEFINE gone == {c \in Caller : Home[c] = p /\ pc[c] # "idle"}
<1>1. gone \in SUBSET {c \in Caller : busyMapped[c]}
  BY DEF busyMapped
<1>2. busyMapped' = [c \in Caller |-> busyMapped[c] /\ c \notin gone]
  BY DEF Restart, busyMapped
<1>3. outcome' = [c \in Caller |-> IF c \in gone THEN Plain("lost") ELSE outcome[c]]
  BY DEF Restart
<1>4. Promise!Failed(gone, "lost")
  BY <1>2, <1>3 DEF Promise!Failed, busyMapped, Plain
<1>5. Promise!Lose
  BY <1>1, <1>4 DEF Promise!Lose, busyMapped, Restart
<1>. QED
  BY <1>5 DEF Mapped, Promise!PromiseNext

LEMMA StepMapped == TypeInv /\ SafetyInv /\ [Next]_vars => Mapped
<1> SUFFICES ASSUME TypeInv, SafetyInv, [Next]_vars PROVE Mapped
  OBVIOUS
<1>1. ASSUME NEW c \in Caller, Reread(c) PROVE Mapped
  <2>1. pc[c] # "idle" /\ UNCHANGED <<reward_grants, call>>
    BY <1>1 DEF Reread
  <2>. QED
    BY <1>1, <2>1, FailMapped, RecoverMapped DEF Reread
<1>2. ASSUME NEW c \in Caller, Wake(c) PROVE Mapped
  <2>1. /\ pc[c] # "idle" /\ pc'[c] # "idle"
        /\ \A d \in Caller \ {c} : pc'[d] = pc[d]
        /\ UNCHANGED <<reward_grants, call, outcome>>
    BY <1>2 DEF Wake, TypeInv, TypeOK
  <2>. QED
    BY <2>1, WithinStutters
<1>3. CASE UNCHANGED vars
  BY <1>3 DEF vars, Mapped, Promise!promiseVars
<1>. QED
  BY <1>1, <1>2, <1>3, RetryGrantMapped, ReadMapped, InsertActionMapped, QueryMapped,
     FaultMapped, RestartMapped DEF Next, Progress

\* CL-Reward-2 (D18): retryGrant over the postgres port implements the reference port,
\* for any number of processes and callers: a tuple is granted once, in one step, and a
\* record that is returned is that grant.
THEOREM ImplementsReference == Spec => ImplementsPromise
<1>1. Init => Promise!PromiseInit
  BY DEF Init, Promise!PromiseInit, NoRequest, Plain
<1>2. TypeInv /\ SafetyInv /\ [Next]_vars => [Promise!PromiseNext]_(Promise!promiseVars)
  BY StepMapped DEF Mapped
<1>. QED
  BY <1>1, <1>2, SafetyInvariant, PTL DEF Spec, ImplementsPromise, Promise!PromiseSpec
=============================================================================
