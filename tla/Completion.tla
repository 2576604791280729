----------------------------- MODULE Completion -----------------------------
(***************************************************************************)
(* The completion unit of work: complete() of                              *)
(* packages/engine/src/activities/complete.ts, composed with the event log *)
(* it appends to (EventLog), the atomic seam it grants resources through   *)
(* and the identity bindings it resolves recipients with.                  *)
(*                                                                         *)
(* A completion is dispatched on its reward.  None is one append; Resource *)
(* resolves the recipient and then appends and credits in one transaction; *)
(* every other reward appends the completion and, in a second append,      *)
(* parks the reward as a pending event chained off it.  A worker may fail  *)
(* between any two of these steps, and a caller may submit the same        *)
(* completion again, with any expected tip, as often as it likes.          *)
(***************************************************************************)
EXTENDS Naturals, Sequences

CONSTANTS
  Worker,      \* concurrent callers of complete
  Completion,  \* event ids of ActivityCompleted events
  Clock,       \* timestamps: a pending event's id hashes the time it is built
  Partition, Recipient,
  Address,     \* addresses of the resolution chain
  Input,       \* [event, partition, recipient, reward] of the activities
  Aliases,     \* resourceKindAliases: the kinds of the world, and the tiers they stand for
  None,        \* null
  MaxFaults    \* bound of the model: crashes and answers that get lost

\* A reward is worth something only as a Resource, an amount of a kind of the world's.
RewardTag == {"None", "Resource", "BadgeMint", "TokenAmount", "Cosmetic", "External"}

Reward == [tag : RewardTag \ {"Resource"}] \union [tag : {"Resource"}, kind : STRING, amount : Nat]

\* What the ledger has columns for.
ResourceTier == {"common", "rare", "legendary"}

\* Whoever completes an activity derives its input from the completion event.  A kind is
\* in lower case by its schema; none is "constructor", which an object of aliases has too.
ASSUME InputOK ==
  /\ \A i \in Input :
       /\ <<i.event, i.partition, i.recipient>> \in Completion \X Partition \X Recipient
       /\ i.reward \in Reward
       /\ i.reward.tag = "Resource" => i.reward.kind # "constructor"
  /\ \A i, j \in Input : i.event = j.event => i = j
  /\ Aliases \in [DOMAIN Aliases -> ResourceTier]
  /\ None \notin Completion \union Recipient \union Address
  /\ MaxFaults \in Nat

VARIABLES
  log, request, phase, answer, \* the event log (see EventLog)
  adapter, forward, reverse,   \* the identity resolver (see Identity)
  credits, \* grants and ledger rows of the atomic seam
  pc,      \* what each worker does next
  call,    \* the input and the expected tip of its current call
  address, \* what resolveToChainAddress answered
  outcome, \* what the last call returned
  wrote,   \* history: the events the last call has stored
  moved,   \* history: the recipient was bound anew after it was resolved
  faults   \* bound: crashes and lost answers so far

\* The rewards whose delivery is not wired yet.
Deferred(reward) == reward.tag \notin {"None", "Resource"}

\* A RewardPendingEvent is identified by the completion it originates from and
\* by its timestamp.
Pending ==
  [originating : {i.event : i \in {j \in Input : Deferred(j.reward)}}, ts : Clock]

\* An id is the hash of the event with its kind: no event of one kind has the id of an
\* event of another.
ASSUME KindsApart == Completion \intersect Pending = {}

INSTANCE Identity

INSTANCE EventLog WITH Event <- Completion \union Pending

store == <<log, request, phase, answer>>
bindings == <<adapter, forward, reverse>>
localVars == <<pc, call, address, outcome, moved>>
vars == <<store, bindings, credits, localVars, wrote, faults>>

-----------------------------------------------------------------------------

CallWith(i, expected) ==
  [event |-> i.event, partition |-> i.partition, recipient |-> i.recipient,
   reward |-> i.reward, expected |-> expected]

NoCall == [event |-> None, partition |-> None, recipient |-> None,
           reward |-> None, expected |-> None]

Credit == [event : Completion, recipient : Recipient, address : Address,
           delta : [ResourceTier -> Nat]]

Step == {"idle", "resolve", "grant", "record", "complete", "pending"}

\* DeferredRecordingFailed is named by its stage, Recorded and Deferred by what
\* they report; "definite" and "doubt" tell what an AtomicGrantFailed wraps.
OutcomeTag ==
  {"none", "Granted", "Deferred", "Recorded", "UnknownResourceKind",
   "IdentityResolutionFailed", "AtomicGrantFailed definite", "AtomicGrantFailed doubt",
   "append-completion", "record-pending", "defect", "lost"}

TypeOK ==
  /\ log \in [Partition -> Seq(Completion \union Pending)]
  /\ Bindings
  /\ credits \subseteq Credit
  /\ pc \in [Worker -> Step]
  /\ DOMAIN call = Worker
  /\ \A w \in Worker : call[w] = NoCall \/ \E i \in Input, t \in TipHashes : call[w] = CallWith(i, t)
  /\ address \in [Worker -> Address \union {None}]
  /\ outcome \in [Worker -> OutcomeTag]
  /\ wrote \in [Worker -> SUBSET (Completion \union Pending)]
  /\ moved \in [Worker -> BOOLEAN]
  /\ faults \in 0..MaxFaults
  /\ \A w \in Worker :
       /\ phase[w] # "idle" => pc[w] \in {"grant", "record", "complete", "pending"}
       /\ pc[w] = "grant" => address[w] # None

-----------------------------------------------------------------------------

Return(w, tag) ==
  /\ outcome' = [outcome EXCEPT ![w] = tag]
  /\ pc' = [pc EXCEPT ![w] = "idle"]
  /\ call' = [call EXCEPT ![w] = NoCall]
  /\ address' = [address EXCEPT ![w] = None]
  /\ moved' = [moved EXCEPT ![w] = FALSE]
  /\ wrote' = [wrote EXCEPT ![w] = {}]

\* The answer of the store is used up.
Consumed(w) ==
  /\ answer' = [answer EXCEPT ![w] = "none"]
  /\ UNCHANGED <<log, request, phase>>

Goto(w, step) == pc' = [pc EXCEPT ![w] = step] /\ UNCHANGED <<call, outcome, moved, wrote>>

AppendRequest(c) == [event |-> c.event, partition |-> c.partition, expected |-> c.expected]

\* A tier is its own name, whatever the world calls it; None is a kind nobody knows.
resolveResourceTier(kind) ==
  IF kind \in ResourceTier THEN kind
  ELSE IF kind \in DOMAIN Aliases THEN Aliases[kind] ELSE None

\* The whole amount, in the column of its tier.
translateResourceReward(reward) ==
  LET tier == resolveResourceTier(reward.kind) IN
    IF tier = None THEN None
    ELSE [t \in ResourceTier |-> IF t = tier THEN reward.amount ELSE 0]

\* Mutant: an unknown resource kind becomes a zero delta, which only appends.
DispatchUnknownAsZero(reward) ==
  CASE Deferred(reward)     -> "complete"
    [] reward.tag = "None"  -> "record"
    [] OTHER                -> IF translateResourceReward(reward) = None
                               THEN "record" ELSE "resolve"

\* switch (reward._tag): an unknown kind is refused rather than paid nothing.
Dispatch(reward) ==
  CASE Deferred(reward)     -> "complete"
    [] reward.tag = "None"  -> "record"
    [] OTHER                -> IF translateResourceReward(reward) = None
                               THEN "idle" ELSE "resolve"

\* complete(): a refusal, the resolution, or the append of the completion.
Complete(w, i, expected) ==
  LET c    == CallWith(i, expected)
      step == Dispatch(i.reward)
  IN
  /\ pc[w] = "idle"
  /\ call' = [call EXCEPT ![w] = IF step = "idle" THEN NoCall ELSE c]
  /\ pc' = [pc EXCEPT ![w] = step]
  /\ outcome' = [outcome EXCEPT ![w] = IF step = "idle" THEN "UnknownResourceKind" ELSE "none"]
  /\ IF step \in {"record", "complete"}
     THEN Submit(w, AppendRequest(c))
     ELSE UNCHANGED store
  /\ UNCHANGED <<bindings, credits, address, moved, wrote, faults>>

\* Mutant: a resolution that another call is still using is shared.
AddressOfShared(w) ==
  IF \E v \in Worker : pc[v] = "grant" /\ call[v].recipient = call[w].recipient
  THEN address[CHOOSE v \in Worker : pc[v] = "grant" /\ call[v].recipient = call[w].recipient]
  ELSE resolveToChainAddress(call[w].recipient)

\* What the resolver answers for the recipient of the call.
AddressOf(w) == resolveToChainAddress(call[w].recipient)

\* Mutant: a missing row is not noticed.
UnboundIgnored(w) == FALSE

\* IdentityUnresolvableIdentity.
Unbound(w) == AddressOf(w) = None

\* grantResource: resolve the recipient, then call grantAndComplete.
Resolve(w) ==
  /\ pc[w] = "resolve"
  /\ IF Unbound(w)
     THEN /\ Return(w, "IdentityResolutionFailed")
          /\ UNCHANGED store
     ELSE /\ address' = [address EXCEPT ![w] = AddressOf(w)]
          /\ Goto(w, "grant")
          /\ Submit(w, AppendRequest(call[w]))
  /\ UNCHANGED <<bindings, credits, faults>>

Fault == faults < MaxFaults /\ faults' = faults + 1

\* The append takes effect; on the resource path the grant and the ledger row
\* are in the same transaction (AtomicCompletion).
StoreApplies(w) ==
  /\ Apply(w)
  /\ IF answer'[w] = "none" THEN Fault ELSE UNCHANGED faults
  /\ wrote' = [wrote EXCEPT ![w] = @ \union {request[w].event}]
  /\ credits' =
       IF pc[w] = "grant"
       THEN credits \union {[event |-> call[w].event, recipient |-> call[w].recipient,
                             address |-> address[w],
                             delta |-> translateResourceReward(call[w].reward)]}
       ELSE credits
  /\ UNCHANGED <<localVars, bindings>>

\* The store refuses, starts an attempt over, or gives no answer.
StoreDeclines(w) ==
  /\ \/ Refuse(w) /\ UNCHANGED faults
     \/ Reopen(w) /\ UNCHANGED faults
     \/ AnswerCASFailed(w) /\ UNCHANGED faults
     \/ AnswerDuplicate(w) /\ UNCHANGED faults
     \/ GiveUp(w) /\ Fault
  /\ UNCHANGED <<localVars, bindings, credits, wrote>>

Answered(w, step) == pc[w] = step /\ phase[w] = "idle"

\* Mutant: a duplicate is taken for the success it repeats.
GrantTagDuplicateIsFine(a) ==
  CASE a \in {"Appended", "DuplicateEvent"} -> "Granted"
    [] a = "CASFailed"                      -> "AtomicGrantFailed definite"
    [] OTHER                                -> "AtomicGrantFailed doubt"

\* AtomicGrantFailed wraps whatever the seam refused with.
GrantTag(a) ==
  CASE a = "Appended"                        -> "Granted"
    [] a \in {"CASFailed", "DuplicateEvent"} -> "AtomicGrantFailed definite"
    [] OTHER                                 -> "AtomicGrantFailed doubt"

GrantAnswered(w) ==
  /\ Answered(w, "grant")
  /\ Return(w, GrantTag(answer[w])) /\ Consumed(w)
  /\ UNCHANGED <<bindings, credits, faults>>

\* completeOffChain.
RecordAnswered(w) ==
  /\ Answered(w, "record")
  /\ Return(w, IF answer[w] = "Appended" THEN "Recorded" ELSE "append-completion")
  /\ Consumed(w)
  /\ UNCHANGED <<bindings, credits, faults>>

\* Mutant: the pending event is chained off whatever the tip is by then.
PendingTipCurrent(w) == TipOf(call[w].partition)

\* expected_tip_hash: completionTip.tip_event_id.
PendingTip(w) == call[w].event

\* deferredRecord, second half: the pending event is built from the clock.
CompletionAnswered(w) ==
  /\ Answered(w, "complete")
  /\ \/ /\ answer[w] = "Appended"
        /\ \E ts \in Clock :
             Submit(w, [event |-> [originating |-> call[w].event, ts |-> ts],
                        partition |-> call[w].partition, expected |-> PendingTip(w)])
        /\ Goto(w, "pending") /\ UNCHANGED address
     \/ answer[w] # "Appended" /\ Return(w, "append-completion") /\ Consumed(w)
  /\ UNCHANGED <<bindings, credits, faults>>

PendingAnswered(w) ==
  /\ Answered(w, "pending")
  /\ Return(w, IF answer[w] = "Appended" THEN "Deferred" ELSE "record-pending")
  /\ Consumed(w)
  /\ UNCHANGED <<bindings, credits, faults>>

\* resolveToChainAddress runs its query in Effect.promise: an error is a defect.
ResolverFault(w) ==
  /\ pc[w] = "resolve" /\ Fault
  /\ Return(w, "defect")
  /\ UNCHANGED <<store, bindings, credits>>

\* The process dies between two statements of complete().
Crash(w) ==
  /\ pc[w] # "idle" /\ phase[w] = "idle" /\ Fault
  /\ Return(w, "lost") /\ Consumed(w)
  /\ UNCHANGED <<bindings, credits>>

\* Somebody binds an identity, perhaps anew; a conflict changes nothing.
Bind(r, a) ==
  /\ resolveToChainAddress(r) # a
  /\ BindRow(r, a) \/ BindOne(r, a)
  /\ moved' = [w \in Worker |->
       moved[w] \/ (pc[w] = "grant" /\ call[w].recipient = r)]
  /\ UNCHANGED <<store, credits, pc, call, address, outcome, wrote, faults>>

-----------------------------------------------------------------------------

Init ==
  /\ LogInit
  /\ IdentityInit
  /\ credits = {}
  /\ pc = [w \in Worker |-> "idle"]
  /\ call = [w \in Worker |-> NoCall]
  /\ address = [w \in Worker |-> None]
  /\ outcome = [w \in Worker |-> "none"]
  /\ wrote = [w \in Worker |-> {}]
  /\ moved = [w \in Worker |-> FALSE]
  /\ faults = 0

\* The tips a caller can have read: None, and every event while it was the last.
TipsSeen(p) == {None} \union {log[p][k] : k \in DOMAIN log[p]}

Advance(w) ==
  \/ Resolve(w) \/ GrantAnswered(w) \/ RecordAnswered(w)
  \/ CompletionAnswered(w) \/ PendingAnswered(w)

Next ==
  \/ \E w \in Worker :
       \/ \E i \in Input : \E x \in TipsSeen(i.partition) : Complete(w, i, x)
       \/ Advance(w)
       \/ StoreApplies(w) \/ StoreDeclines(w)
       \/ ResolverFault(w) \/ Crash(w)
  \/ \E r \in Recipient, a \in Address : Bind(r, a)

Spec == Init /\ [][Next]_vars

-----------------------------------------------------------------------------

\* A parked reward directly follows the completion it belongs to, so a completion
\* is parked at most once, however often it is submitted and whoever writes to
\* the partition between the two appends (CL-Reward-3).
PendingFollowsCompletion ==
  \A p \in Partition : \A k \in DOMAIN log[p] :
    log[p][k] \in Pending => k > 1 /\ log[p][k - 1] = log[p][k].originating

\* No resource completion is durable without its credit and no credit without its
\* completion, and a completion pays once, the whole of its amount, whatever is
\* retried, re-bound or lost: "a completed-WITHOUT-reward" is never committed.
RewardMatchesCompletion ==
  \A i \in Input :
    LET paid == {c \in credits : c.event = i.event}
    IN  IF i.reward.tag = "Resource" /\ Known(i.event)
        THEN \E c \in paid :
               /\ paid = {c} /\ c.recipient = i.recipient
               /\ c.delta["common"] + c.delta["rare"] + c.delta["legendary"] = i.reward.amount
        ELSE paid = {}

\* What the caller is told is true of this very call: a success stored its event,
\* a definite refusal stored nothing, and record-pending leaves the completion
\* durable.
OutcomeIsTrue ==
  [][\A w \in Worker : pc[w] # "idle" /\ pc'[w] = "idle" =>
       /\ outcome'[w] \in {"Granted", "Recorded", "record-pending"} => wrote[w] # {}
       /\ outcome'[w] = "Deferred" =>
            \E e \in Pending : e \in wrote[w] /\ e.originating \in wrote[w]
       /\ outcome'[w] \in {"IdentityResolutionFailed", "AtomicGrantFailed definite", "defect"}
            => wrote[w] = {}]_vars

\* A credit goes to the address its recipient has, and which is nobody else's (CL-
\* Identity-4: it resolves back), unless the recipient was bound anew between that
\* call's own resolution and its transaction.
CreditsCurrentAddress ==
  [][\A c \in credits' \ credits :
       \/ /\ c.address = resolveToChainAddress(c.recipient)
          /\ resolveFromChainAddress(c.address) = c.recipient
       \/ \E w \in Worker : wrote'[w] # wrote[w] /\ moved[w]]_vars

\* A worker's own steps are taken, and the store ends every append it was given
\* (EveryCallReturns of EventStore and AtomicCompletion).
Ends(w) ==
  \/ StoreApplies(w)
  \/ (AnswerCASFailed(w) \/ AnswerDuplicate(w) \/ GiveUp(w)) /\ StoreDeclines(w)

Fairness == \A w \in Worker : WF_vars(Advance(w)) /\ SF_vars(Ends(w))

FairSpec == Spec /\ Fairness

\* A caller that submits its completions again, on the tip of the moment.
RetryingSpec ==
  FairSpec /\ \A w \in Worker : \A i \in Input :
    SF_vars(Complete(w, i, TipOf(i.partition)))

\* The comment at record-pending: the completion event is already durable, and a
\* retry re-records the reward.
CompletionIsParked ==
  \A i \in Input : Deferred(i.reward) =>
    (Known(i.event) ~> \E e \in Pending : e.originating = i.event /\ Known(e))
=============================================================================
