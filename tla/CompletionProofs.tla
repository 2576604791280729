-------------------------- MODULE CompletionProofs --------------------------
(***************************************************************************)
(* Theorems of Completion, for every set of workers, completions and       *)
(* identities, every wiring of the resolver, every table of aliases and    *)
(* any number of faults.                                                   *)
(***************************************************************************)
EXTENDS Completion, TLAPS

-----------------------------------------------------------------------------
(* The constants.                                                          *)

Ev == Completion \union Pending

LEMMA InputTyped ==
  ASSUME NEW i \in Input
  PROVE  /\ i.event \in Completion /\ i.event \notin Pending /\ i.event # None
         /\ i.partition \in Partition /\ i.recipient \in Recipient /\ i.reward \in Reward
         /\ \A j \in Input : i.event = j.event => i = j
BY InputOK, KindsApart

LEMMA CallFields ==
  ASSUME NEW i, NEW t
  PROVE  LET c == CallWith(i, t) IN
         /\ c.event = i.event /\ c.partition = i.partition /\ c.recipient = i.recipient
         /\ c.reward = i.reward /\ c.expected = t
BY DEF CallWith

LEMMA TierTyped ==
  ASSUME NEW kind PROVE resolveResourceTier(kind) \in ResourceTier \union {None}
BY InputOK DEF resolveResourceTier

\* A reward is translated to the whole of its amount, in one column.
LEMMA Translated ==
  ASSUME NEW reward \in Reward, reward.tag = "Resource", translateResourceReward(reward) # None
  PROVE  LET d == translateResourceReward(reward) IN
         /\ d \in [ResourceTier -> Nat]
         /\ d["common"] + d["rare"] + d["legendary"] = reward.amount
<1>. DEFINE tier == resolveResourceTier(reward.kind)
<1>1. reward.amount \in Nat
  BY DEF Reward
<1>2. tier \in ResourceTier
  BY TierTyped DEF translateResourceReward
<1>3. translateResourceReward(reward) = [t \in ResourceTier |-> IF t = tier THEN reward.amount ELSE 0]
  BY DEF translateResourceReward
<1>. HIDE DEF tier
<1>. QED
  BY <1>1, <1>2, <1>3 DEF ResourceTier

\* Where the dispatch leads, and with what reward.
LEMMA Dispatched ==
  ASSUME NEW reward \in Reward
  PROVE  /\ Dispatch(reward) \in {"idle", "resolve", "record", "complete"}
         /\ Dispatch(reward) = "resolve" =>
              reward.tag = "Resource" /\ translateResourceReward(reward) # None
         /\ Dispatch(reward) = "record" => reward.tag = "None"
         /\ Dispatch(reward) = "complete" => Deferred(reward)
<1>1. CASE Deferred(reward)
  BY <1>1 DEF Dispatch
<1>2. CASE reward.tag = "None"
  BY <1>2 DEF Dispatch, Deferred
<1>3. CASE reward.tag = "Resource"
  BY <1>3 DEF Dispatch, Deferred
<1>. QED
  BY <1>1, <1>2, <1>3 DEF Deferred

-----------------------------------------------------------------------------
(* Types.                                                                  *)

\* A worker works on the completion of one activity, and takes the branch of its reward.
FlowInv(w) ==
  /\ pc[w] # "idle" => \E i \in Input, t \in TipHashes : call[w] = CallWith(i, t)
  /\ pc[w] \in {"resolve", "grant"} =>
       call[w].reward.tag = "Resource" /\ translateResourceReward(call[w].reward) # None
  /\ pc[w] = "record" => call[w].reward.tag = "None"
  /\ pc[w] \in {"complete", "pending"} => Deferred(call[w].reward)

\* What it has asked the store for.
RequestInv(w) ==
  /\ phase[w] # "idle" => request[w].partition = call[w].partition
  /\ phase[w] # "idle" /\ pc[w] \in {"grant", "record", "complete"} =>
       request[w].event = call[w].event
  /\ phase[w] # "idle" /\ pc[w] = "pending" =>
       /\ request[w].event \in Pending /\ request[w].event.originating = call[w].event
       /\ request[w].expected = call[w].event

TypeInv ==
  /\ TypeOK
  /\ phase \in [Worker -> {"idle", "open", "refused"}]
  /\ DOMAIN request = Worker /\ DOMAIN answer = Worker
  /\ \A w \in Worker : FlowInv(w) /\ RequestInv(w)

\* What a call has stored so far, and what the answer it has says of that.
WroteInv(w) ==
  /\ pc[w] \in {"idle", "resolve"} => wrote[w] = {}
  /\ pc[w] \in {"grant", "record", "complete"} =>
       /\ phase[w] # "idle" => wrote[w] = {}
       /\ phase[w] = "idle" /\ answer[w] = "Appended" => call[w].event \in wrote[w]
       /\ phase[w] = "idle" /\ answer[w] \in {"CASFailed", "DuplicateEvent"} => wrote[w] = {}
  /\ pc[w] = "pending" =>
       /\ call[w].event \in wrote[w]
       /\ phase[w] = "idle" /\ answer[w] = "Appended" =>
            \E e \in Pending : e \in wrote[w] /\ e.originating = call[w].event

\* The address of an identity leads back to it.
RoundTrip ==
  \A r \in Recipient : forward[r] # None => reverse[forward[r]] = r

\* A resolved address is the recipient's, unless that was bound anew since.
Resolved(w) ==
  pc[w] = "grant" /\ ~moved[w] => address[w] = resolveToChainAddress(call[w].recipient)

BindingInv == RoundTrip /\ \A w \in Worker : Resolved(w)

\* A step of w that the other workers do not notice.
LEMMA OthersFlow ==
  ASSUME TypeInv, NEW w \in Worker, FlowInv(w)', RequestInv(w)',
         \A v \in Worker \ {w} : /\ pc'[v] = pc[v] /\ call'[v] = call[v]
                                 /\ phase'[v] = phase[v] /\ request'[v] = request[v]
  PROVE  \A v \in Worker : FlowInv(v)' /\ RequestInv(v)'
<1>1. ASSUME NEW v \in Worker, v # w PROVE FlowInv(v)' /\ RequestInv(v)'
  <2>1. FlowInv(v) /\ RequestInv(v)
    BY DEF TypeInv
  <2>2. pc'[v] = pc[v] /\ call'[v] = call[v] /\ phase'[v] = phase[v] /\ request'[v] = request[v]
    BY <1>1
  <2>. QED
    BY <2>1, <2>2 DEF FlowInv, RequestInv
<1>. QED
  BY <1>1

\* The worker answers its caller; the store has nothing of it in hand.
LEMMA ReturnTyped ==
  ASSUME TypeInv, NEW w \in Worker, NEW tag \in OutcomeTag, Return(w, tag), phase[w] = "idle",
         UNCHANGED <<log, request, phase, bindings, credits>>, DOMAIN answer' = Worker,
         faults' \in 0..MaxFaults
  PROVE  TypeInv'
<1>1. /\ pc' = [pc EXCEPT ![w] = "idle"] /\ call' = [call EXCEPT ![w] = NoCall]
      /\ address' = [address EXCEPT ![w] = None] /\ outcome' = [outcome EXCEPT ![w] = tag]
      /\ moved' = [moved EXCEPT ![w] = FALSE] /\ wrote' = [wrote EXCEPT ![w] = {}]
  BY DEF Return
<1>2. /\ pc' \in [Worker -> Step] /\ DOMAIN call' = Worker
      /\ address' \in [Worker -> Address \union {None}] /\ outcome' \in [Worker -> OutcomeTag]
      /\ moved' \in [Worker -> BOOLEAN]
  BY <1>1 DEF TypeInv, TypeOK, Step
<1>3. wrote' \in [Worker -> SUBSET (Completion \union Pending)]
  BY <1>1 DEF TypeInv, TypeOK
<1>4. \A v \in Worker :
        call'[v] = NoCall \/ \E i \in Input, t \in TipHashes : call'[v] = CallWith(i, t)
  BY <1>1 DEF TypeInv, TypeOK
<1>5. Bindings' /\ log' \in [Partition -> Seq(Completion \union Pending)] /\ credits' \subseteq Credit
  BY DEF TypeInv, TypeOK, Bindings, bindings
<1>6. \A v \in Worker :
        /\ phase'[v] # "idle" => pc'[v] \in {"grant", "record", "complete", "pending"}
        /\ pc'[v] = "grant" => address'[v] # None
  BY <1>1 DEF TypeInv, TypeOK
<1>7. FlowInv(w)' /\ RequestInv(w)'
  BY <1>1, <1>2 DEF FlowInv, RequestInv, TypeInv, TypeOK
<1>8. \A v \in Worker : FlowInv(v)' /\ RequestInv(v)'
  BY <1>1, <1>7, OthersFlow DEF TypeInv, TypeOK
<1>. QED
  BY <1>2, <1>3, <1>4, <1>5, <1>6, <1>8 DEF TypeInv, TypeOK

\* The worker hands an event to the store and waits for the answer.
LEMMA SubmitTyped ==
  ASSUME TypeInv, NEW w \in Worker, NEW r, Submit(w, r),
         UNCHANGED <<bindings, credits, moved, faults, wrote>>,
         NEW step \in {"grant", "record", "complete", "pending"},
         pc' = [pc EXCEPT ![w] = step],
         outcome' \in [Worker -> OutcomeTag],
         NEW i \in Input, NEW t \in TipHashes, call'[w] = CallWith(i, t), DOMAIN call' = Worker,
         address' \in [Worker -> Address \union {None}],
         \A v \in Worker \ {w} : call'[v] = call[v] /\ address'[v] = address[v],
         step = "grant" => address'[w] # None,
         FlowInv(w)', r.partition = i.partition,
         step # "pending" => r.event = i.event,
         step = "pending" =>
           r.event \in Pending /\ r.event.originating = i.event /\ r.expected = i.event
  PROVE  TypeInv'
<1>1. /\ phase' = [phase EXCEPT ![w] = "open"] /\ request' = [request EXCEPT ![w] = r]
      /\ UNCHANGED <<log, answer>>
  BY DEF Submit
<1>2. /\ pc' \in [Worker -> Step] /\ DOMAIN call' = Worker /\ DOMAIN request' = Worker
      /\ phase' \in [Worker -> {"idle", "open", "refused"}]
  BY <1>1 DEF TypeInv, TypeOK, Step
<1>3. \A v \in Worker :
        call'[v] = NoCall \/ \E j \in Input, x \in TipHashes : call'[v] = CallWith(j, x)
  <2>1. ASSUME NEW v \in Worker \ {w}
        PROVE  call'[v] = NoCall \/ \E j \in Input, x \in TipHashes : call'[v] = CallWith(j, x)
    BY DEF TypeInv, TypeOK
  <2>2. \E j \in Input, x \in TipHashes : call'[w] = CallWith(j, x)
    OBVIOUS
  <2>. QED
    BY <2>1, <2>2
<1>4. Bindings' /\ log' \in [Partition -> Seq(Completion \union Pending)] /\ credits' \subseteq Credit
  BY <1>1 DEF TypeInv, TypeOK, Bindings, bindings
<1>5. \A v \in Worker :
        /\ phase'[v] # "idle" => pc'[v] \in {"grant", "record", "complete", "pending"}
        /\ pc'[v] = "grant" => address'[v] # None
  BY <1>1 DEF TypeInv, TypeOK
<1>6. RequestInv(w)'
  <2>1. call'[w] = CallWith(i, t) /\ request'[w] = r /\ pc'[w] = step
    BY <1>1 DEF TypeInv, TypeOK
  <2>2. CallWith(i, t).event = i.event /\ CallWith(i, t).partition = i.partition
    BY CallFields
  <2>. QED
    BY <2>1, <2>2 DEF RequestInv
<1>7. \A v \in Worker : FlowInv(v)' /\ RequestInv(v)'
  BY <1>1, <1>6, OthersFlow DEF TypeInv, TypeOK
<1>. QED
  BY <1>1, <1>2, <1>3, <1>4, <1>5, <1>7 DEF TypeInv, TypeOK

\* The store is done with the request, or goes on with it.
LEMMA ServedTyped ==
  ASSUME TypeInv, NEW w \in Worker, phase[w] # "idle",
         UNCHANGED <<bindings, localVars>>,
         phase' \in [Worker -> {"idle", "open", "refused"}],
         DOMAIN request' = Worker, DOMAIN answer' = Worker,
         phase'[w] # "idle" => request'[w] = request[w],
         \A v \in Worker \ {w} : phase'[v] = phase[v] /\ request'[v] = request[v],
         log' \in [Partition -> Seq(Completion \union Pending)], credits' \subseteq Credit,
         wrote' \in [Worker -> SUBSET (Completion \union Pending)], faults' \in 0..MaxFaults
  PROVE  TypeInv'
<1>1. UNCHANGED <<pc, call, address, outcome, moved, adapter, forward, reverse>>
  BY DEF bindings, localVars
<1>2. Bindings'
  BY <1>1 DEF TypeInv, TypeOK, Bindings
<1>3. \A v \in Worker :
        call'[v] = NoCall \/ \E j \in Input, x \in TipHashes : call'[v] = CallWith(j, x)
  BY <1>1 DEF TypeInv, TypeOK
<1>4. FlowInv(w)' /\ RequestInv(w)'
  BY <1>1 DEF TypeInv, FlowInv, RequestInv
<1>5. \A v \in Worker : FlowInv(v)' /\ RequestInv(v)'
  BY <1>1, <1>4, OthersFlow
<1>6. \A v \in Worker :
        /\ phase'[v] # "idle" => pc'[v] \in {"grant", "record", "complete", "pending"}
        /\ pc'[v] = "grant" => address'[v] # None
  BY <1>1 DEF TypeInv, TypeOK
<1>. QED
  BY <1>1, <1>2, <1>3, <1>5, <1>6 DEF TypeInv, TypeOK

\* What a worker in a call has asked for.
LEMMA CallOf ==
  ASSUME TypeInv, NEW w \in Worker, pc[w] # "idle"
  PROVE  \E i \in Input, t \in TipHashes :
           /\ call[w] = CallWith(i, t)
           /\ call[w].event = i.event /\ call[w].partition = i.partition
           /\ call[w].recipient = i.recipient /\ call[w].reward = i.reward
BY CallFields DEF TypeInv, FlowInv

\* The credit a transaction writes.
NewCredit(w) ==
  [event |-> call[w].event, recipient |-> call[w].recipient, address |-> address[w],
   delta |-> translateResourceReward(call[w].reward)]

LEMMA CreditTyped ==
  ASSUME TypeInv, NEW w \in Worker, pc[w] = "grant" PROVE NewCredit(w) \in Credit
<1>1. PICK i \in Input : call[w].event = i.event /\ call[w].recipient = i.recipient
                         /\ call[w].reward = i.reward
  BY CallOf
<1>2. address[w] \in Address
  BY DEF TypeInv, TypeOK
<1>3. translateResourceReward(i.reward) \in [ResourceTier -> Nat]
  BY <1>1, InputTyped, Translated DEF TypeInv, FlowInv
<1>. QED
  BY <1>1, <1>2, <1>3, InputTyped DEF NewCredit, Credit

\* The event the store has in hand.
LEMMA RequestTyped ==
  ASSUME TypeInv, NEW w \in Worker, phase[w] # "idle"
  PROVE  /\ request[w].event \in Completion \union Pending /\ request[w].partition \in Partition
         /\ pc[w] # "pending" => request[w].event = call[w].event /\ call[w].event \in Completion
         /\ pc[w] \in {"grant", "record", "complete", "pending"}
<1>1. pc[w] \in {"grant", "record", "complete", "pending"} /\ RequestInv(w)
  BY DEF TypeInv, TypeOK
<1>2. PICK i \in Input : call[w].event = i.event /\ call[w].partition = i.partition
  BY <1>1, CallOf
<1>. QED
  BY <1>1, <1>2, InputTyped DEF RequestInv

LEMMA AppendTyped ==
  ASSUME NEW p \in Partition, log \in [Partition -> Seq(Ev)], NEW e \in Ev,
         log' = [log EXCEPT ![p] = Append(@, e)]
  PROVE  log' \in [Partition -> Seq(Ev)]
OBVIOUS

\* An append takes effect only on the tip it names, and once.
LEMMA Applied ==
  ASSUME TypeInv, NEW w \in Worker, Apply(w)
  PROVE  /\ phase[w] = "open" /\ ~Known(request[w].event)
         /\ TipOf(request[w].partition) = request[w].expected
         /\ log' = [log EXCEPT ![request[w].partition] = Append(@, request[w].event)]
         /\ phase' = [phase EXCEPT ![w] = "idle"]
         /\ request' = [request EXCEPT ![w] = NoRequest]
         /\ \E a \in {"Appended", "none"} : answer' = [answer EXCEPT ![w] = a]
BY DEF Apply, Finish

LEMMA Declined ==
  ASSUME TypeInv, NEW w \in Worker, StoreDeclines(w)
  PROVE  /\ phase[w] # "idle" /\ phase' \in [Worker -> {"idle", "open", "refused"}]
         /\ \A v \in Worker \ {w} :
              phase'[v] = phase[v] /\ request'[v] = request[v] /\ answer'[v] = answer[v]
         /\ DOMAIN request' = Worker /\ DOMAIN answer' = Worker
         /\ phase'[w] # "idle" => request'[w] = request[w]
         /\ phase'[w] = "idle" => answer'[w] \in {"CASFailed", "DuplicateEvent", "none"}
         /\ faults' \in 0..MaxFaults
         /\ UNCHANGED <<log, localVars, bindings, credits, wrote>>
<1>1. /\ phase \in [Worker -> {"idle", "open", "refused"}]
      /\ DOMAIN request = Worker /\ DOMAIN answer = Worker /\ faults \in 0..MaxFaults
      /\ MaxFaults \in Nat
  BY InputOK DEF TypeInv, TypeOK
<1>2. UNCHANGED <<localVars, bindings, credits, wrote>>
  BY DEF StoreDeclines
<1>3. CASE Refuse(w) /\ UNCHANGED faults
  BY <1>1, <1>2, <1>3 DEF Refuse
<1>4. CASE Reopen(w) /\ UNCHANGED faults
  BY <1>1, <1>2, <1>4 DEF Reopen
<1>5. CASE AnswerCASFailed(w) /\ UNCHANGED faults
  BY <1>1, <1>2, <1>5 DEF AnswerCASFailed, Finish
<1>6. CASE AnswerDuplicate(w) /\ UNCHANGED faults
  BY <1>1, <1>2, <1>6 DEF AnswerDuplicate, Finish
<1>7. CASE GiveUp(w) /\ Fault
  BY <1>1, <1>2, <1>7 DEF GiveUp, Finish, Fault
<1>. QED
  BY <1>3, <1>4, <1>5, <1>6, <1>7 DEF StoreDeclines

\* A binding moves no address of its own accord.
LEMMA BindTyped ==
  ASSUME TypeInv, NEW r \in Recipient, NEW a \in Address, Bind(r, a)
  PROVE  TypeInv'
<1>1. UNCHANGED <<log, request, phase, answer, credits, pc, call, address, outcome, wrote, faults>>
  BY DEF Bind, store
<1>2. Bindings'
  BY DEF Bind, BindRow, BindOne, TypeInv, TypeOK, Bindings
<1>3. moved' \in [Worker -> BOOLEAN]
  BY DEF Bind, TypeInv, TypeOK
<1>4. \A v \in Worker : FlowInv(v)' /\ RequestInv(v)'
  BY <1>1 DEF TypeInv, FlowInv, RequestInv
<1>. QED
  BY <1>1, <1>2, <1>3, <1>4 DEF TypeInv, TypeOK

LEMMA CompleteTyped ==
  ASSUME TypeInv, NEW w \in Worker, NEW i \in Input, NEW x \in TipsSeen(i.partition),
         Complete(w, i, x)
  PROVE  TypeInv'
<1>. DEFINE c == CallWith(i, x)
            step == Dispatch(i.reward)
<1>1. i.partition \in Partition /\ i.reward \in Reward
  BY InputTyped
<1>2. x \in TipHashes
  <2>1. log[i.partition] \in Seq(Completion \union Pending)
    BY <1>1 DEF TypeInv, TypeOK
  <2>. QED
    BY <2>1 DEF TipsSeen, TipHashes
<1>3. /\ pc[w] = "idle" /\ pc' = [pc EXCEPT ![w] = step]
      /\ UNCHANGED <<bindings, credits, address, moved, wrote, faults>>
      /\ outcome' = [outcome EXCEPT ![w] =
           IF step = "idle" THEN "UnknownResourceKind" ELSE "none"]
      /\ call' = [call EXCEPT ![w] = IF step = "idle" THEN NoCall ELSE c]
      /\ phase[w] = "idle"
  BY DEF Complete, TypeInv, TypeOK
<1>4. outcome' \in [Worker -> OutcomeTag]
  BY <1>3 DEF TypeInv, TypeOK, OutcomeTag
<1>5. CallWith(i, x).reward = i.reward /\ pc'[w] = step
      /\ call'[w] = IF step = "idle" THEN NoCall ELSE c
  BY <1>3, CallFields DEF TypeInv, TypeOK
<1>6. FlowInv(w)'
  BY <1>1, <1>2, <1>5, Dispatched DEF FlowInv
<1>7. CASE step \in {"record", "complete"}
  <2>1. /\ Submit(w, AppendRequest(c)) /\ call'[w] = c /\ DOMAIN call' = Worker
        /\ \A v \in Worker \ {w} : call'[v] = call[v] /\ address'[v] = address[v]
    BY <1>3, <1>7 DEF Complete, TypeInv, TypeOK
  <2>2. AppendRequest(c).event = i.event /\ AppendRequest(c).partition = i.partition
    BY CallFields DEF AppendRequest
  <2>3. address' \in [Worker -> Address \union {None}]
    BY <1>3 DEF TypeInv, TypeOK
  <2>. HIDE DEF c, step
  <2>. QED
    BY <1>2, <1>3, <1>4, <1>6, <1>7, <2>1, <2>2, <2>3, SubmitTyped DEF c
<1>8. CASE step \in {"idle", "resolve"}
  <2>1. UNCHANGED <<log, request, phase, answer>>
    BY <1>8 DEF Complete, store
  <2>2. RequestInv(w)'
    BY <1>3, <2>1 DEF RequestInv
  <2>3. \A v \in Worker : FlowInv(v)' /\ RequestInv(v)'
    BY <1>3, <1>6, <2>1, <2>2, OthersFlow DEF TypeInv, TypeOK
  <2>4. \A v \in Worker :
          call'[v] = NoCall \/ \E j \in Input, t \in TipHashes : call'[v] = CallWith(j, t)
    BY <1>2, <1>3 DEF TypeInv, TypeOK
  <2>5. pc' \in [Worker -> Step] /\ DOMAIN call' = Worker
    BY <1>3, <1>8 DEF TypeInv, TypeOK, Step
  <2>6. Bindings'
    BY <1>3 DEF TypeInv, TypeOK, Bindings, bindings
  <2>7. \A v \in Worker :
          /\ phase'[v] # "idle" => pc'[v] \in {"grant", "record", "complete", "pending"}
          /\ pc'[v] = "grant" => address'[v] # None
    BY <1>3, <1>8, <2>1 DEF TypeInv, TypeOK
  <2>. QED
    BY <1>3, <1>4, <2>1, <2>3, <2>4, <2>5, <2>6, <2>7 DEF TypeInv, TypeOK
<1>. QED
  BY <1>1, <1>7, <1>8, Dispatched

LEMMA ResolveTyped ==
  ASSUME TypeInv, NEW w \in Worker, Resolve(w)
  PROVE  TypeInv'
<1>1. phase[w] = "idle" /\ UNCHANGED <<bindings, credits, faults>>
  BY DEF Resolve, TypeInv, TypeOK
<1>2. CASE Unbound(w)
  BY <1>1, <1>2, ReturnTyped DEF Resolve, store, OutcomeTag, TypeInv, TypeOK
<1>3. CASE ~Unbound(w)
  <2>1. PICK i \in Input, t \in TipHashes :
          call[w] = CallWith(i, t) /\ call[w].event = i.event /\ call[w].partition = i.partition
          /\ call[w].recipient = i.recipient
    BY CallOf DEF Resolve
  <2>2. /\ address' = [address EXCEPT ![w] = AddressOf(w)] /\ pc' = [pc EXCEPT ![w] = "grant"]
        /\ UNCHANGED <<call, outcome, moved, wrote>> /\ Submit(w, AppendRequest(call[w]))
    BY <1>3 DEF Resolve, Goto
  <2>3. AddressOf(w) \in Address
    BY <1>3, <2>1, InputTyped DEF Unbound, AddressOf, resolveToChainAddress, TypeInv, TypeOK, Bindings
  <2>4. address' \in [Worker -> Address \union {None}] /\ address'[w] # None
    BY <2>2, <2>3, InputOK DEF TypeInv, TypeOK
  <2>5. call'[w] = CallWith(i, t) /\ DOMAIN call' = Worker
    BY <2>1, <2>2 DEF TypeInv, TypeOK
  <2>6. FlowInv(w)'
    BY <2>2 DEF Resolve, FlowInv, TypeInv, TypeOK
  <2>7. AppendRequest(call[w]).event = i.event /\ AppendRequest(call[w]).partition = i.partition
    BY <2>1 DEF AppendRequest
  <2>8. outcome' \in [Worker -> OutcomeTag] /\ \A v \in Worker \ {w} : call'[v] = call[v] /\ address'[v] = address[v]
    BY <2>2 DEF TypeInv, TypeOK
  <2>9. UNCHANGED <<bindings, credits, moved, faults, wrote>>
    BY <1>1, <2>2
  <2>. DEFINE r == AppendRequest(call[w])
  <2>10. Submit(w, r) /\ r.event = i.event /\ r.partition = i.partition
    BY <2>2, <2>7
  <2>11. i \in Input /\ t \in TipHashes /\ pc' = [pc EXCEPT ![w] = "grant"]
    BY <2>1, <2>2
  <2>. HIDE DEF r
  <2>. QED
    BY <2>4, <2>5, <2>6, <2>8, <2>9, <2>10, <2>11, SubmitTyped
<1>. QED
  BY <1>2, <1>3

LEMMA PendingTyped ==
  ASSUME TypeInv, NEW w \in Worker, NEW ts \in Clock, Answered(w, "complete"),
         Submit(w, [event |-> [originating |-> call[w].event, ts |-> ts],
                    partition |-> call[w].partition, expected |-> PendingTip(w)]),
         Goto(w, "pending"), UNCHANGED <<address, bindings, credits, faults>>
  PROVE  TypeInv'
<1>. DEFINE e == [originating |-> call[w].event, ts |-> ts]
            r == [event |-> e, partition |-> call[w].partition, expected |-> PendingTip(w)]
<1>1. pc[w] = "complete"
  BY DEF Answered
<1>2. PICK i \in Input, t \in TipHashes :
        /\ call[w] = CallWith(i, t) /\ call[w].event = i.event /\ call[w].partition = i.partition
        /\ call[w].reward = i.reward
  BY <1>1, CallOf
<1>3. Deferred(i.reward)
  BY <1>1, <1>2 DEF TypeInv, FlowInv
<1>4. e \in Pending /\ e.originating = i.event
  BY <1>2, <1>3 DEF Pending
<1>5. /\ r.event = e /\ r.partition = i.partition /\ r.expected = i.event
  BY <1>2 DEF PendingTip
<1>6. /\ pc' = [pc EXCEPT ![w] = "pending"] /\ UNCHANGED <<call, outcome, moved, wrote>>
  BY DEF Goto
<1>7. call'[w] = CallWith(i, t) /\ DOMAIN call' = Worker /\ outcome' \in [Worker -> OutcomeTag]
      /\ address' \in [Worker -> Address \union {None}]
  BY <1>2, <1>6 DEF TypeInv, TypeOK
<1>8. FlowInv(w)'
  BY <1>1, <1>6 DEF FlowInv, TypeInv, TypeOK
<1>9. Submit(w, r)
  OBVIOUS
<1>. HIDE DEF e, r
<1>. QED
  BY <1>2, <1>4, <1>5, <1>6, <1>7, <1>8, <1>9, SubmitTyped

LEMMA AppliesTyped ==
  ASSUME TypeInv, NEW w \in Worker, StoreApplies(w)
  PROVE  TypeInv'
<1>1. /\ request[w].event \in Ev /\ request[w].partition \in Partition /\ phase[w] # "idle"
      /\ UNCHANGED <<localVars, bindings>>
  BY RequestTyped DEF StoreApplies, Apply, Ev
<1>2. Apply(w)
  BY DEF StoreApplies
<1>3. /\ phase' \in [Worker -> {"idle", "open", "refused"}] /\ phase'[w] = "idle"
      /\ DOMAIN request' = Worker /\ DOMAIN answer' = Worker
      /\ \A v \in Worker \ {w} : phase'[v] = phase[v] /\ request'[v] = request[v]
  BY <1>2, Applied DEF TypeInv
<1>4. log' \in [Partition -> Seq(Completion \union Pending)]
  <2>1. log \in [Partition -> Seq(Ev)]
    BY DEF TypeInv, TypeOK, Ev
  <2>. QED
    BY <1>1, <1>2, <2>1, Applied, AppendTyped DEF Ev
<1>5. faults' \in 0..MaxFaults
  BY InputOK DEF StoreApplies, Fault, TypeInv, TypeOK
<1>6. credits' \subseteq Credit
  BY CreditTyped DEF StoreApplies, NewCredit, TypeInv, TypeOK
<1>7. wrote' \in [Worker -> SUBSET (Completion \union Pending)]
  BY <1>1 DEF StoreApplies, TypeInv, TypeOK, Ev
<1>. QED
  BY <1>1, <1>3, <1>4, <1>5, <1>6, <1>7, ServedTyped

LEMMA TypeInductive == TypeInv /\ [Next]_vars => TypeInv'
<1> SUFFICES ASSUME TypeInv, [Next]_vars PROVE TypeInv'
  OBVIOUS
<1>1. ASSUME NEW w \in Worker, NEW i \in Input, NEW x \in TipsSeen(i.partition), Complete(w, i, x)
      PROVE  TypeInv'
  BY <1>1, CompleteTyped
<1>2. ASSUME NEW w \in Worker, NEW tag \in OutcomeTag, Return(w, tag), Consumed(w),
             phase[w] = "idle", UNCHANGED <<bindings, credits>>, faults' \in 0..MaxFaults
      PROVE  TypeInv'
  BY <1>2, ReturnTyped DEF Consumed, TypeInv
<1>3. faults \in 0..MaxFaults /\ MaxFaults \in Nat
  BY InputOK DEF TypeInv, TypeOK
<1>4. ASSUME NEW w \in Worker, Advance(w) PROVE TypeInv'
  <2>1. CASE Resolve(w)
    BY <2>1, ResolveTyped
  <2>2. CASE GrantAnswered(w)
    <3>1. GrantTag(answer[w]) \in OutcomeTag
      BY DEF GrantTag, OutcomeTag
    <3>. QED
      BY <1>2, <1>3, <2>2, <3>1 DEF GrantAnswered, Answered
  <2>3. CASE RecordAnswered(w) \/ PendingAnswered(w)
    BY <1>2, <1>3, <2>3 DEF RecordAnswered, PendingAnswered, Answered, OutcomeTag
  <2>4. CASE CompletionAnswered(w)
    <3>1. CASE answer[w] # "Appended"
      BY <1>2, <1>3, <2>4, <3>1 DEF CompletionAnswered, Answered, OutcomeTag
    <3>2. CASE answer[w] = "Appended"
      BY <2>4, <3>2, PendingTyped DEF CompletionAnswered
    <3>. QED
      BY <3>1, <3>2
  <2>. QED
    BY <1>4, <2>1, <2>2, <2>3, <2>4 DEF Advance
<1>5. ASSUME NEW w \in Worker, StoreDeclines(w) PROVE TypeInv'
  <2>1. /\ log \in [Partition -> Seq(Completion \union Pending)] /\ credits \subseteq Credit
        /\ wrote \in [Worker -> SUBSET (Completion \union Pending)]
    BY DEF TypeInv, TypeOK
  <2>. QED
    BY <1>5, <2>1, Declined, ServedTyped
<1>6. ASSUME NEW w \in Worker, ResolverFault(w) \/ Crash(w) PROVE TypeInv'
  <2>1. CASE ResolverFault(w)
    <3>1. phase[w] = "idle" /\ faults' \in 0..MaxFaults /\ DOMAIN answer = Worker
      BY <1>3, <2>1 DEF ResolverFault, Fault, TypeInv, TypeOK
    <3>. QED
      BY <2>1, <3>1, ReturnTyped DEF ResolverFault, store, OutcomeTag
  <2>2. CASE Crash(w)
    <3>1. faults' \in 0..MaxFaults
      BY <1>3, <2>2 DEF Crash, Fault
    <3>. QED
      BY <1>2, <2>2, <3>1 DEF Crash, OutcomeTag
  <2>. QED
    BY <1>6, <2>1, <2>2
<1>7. CASE UNCHANGED vars
  BY <1>7 DEF vars, store, bindings, localVars, TypeInv, TypeOK, Bindings, FlowInv, RequestInv
<1>. QED
  BY <1>1, <1>4, <1>5, <1>6, <1>7, AppliesTyped, BindTyped DEF Next

LEMMA Typed == Spec => []TypeInv
<1>1. Init => TypeInv
  BY InputOK DEF Init, LogInit, IdentityInit, TypeInv, TypeOK, Bindings, FlowInv, RequestInv, Step,
                 OutcomeTag
<1>. QED
  BY <1>1, TypeInductive, PTL DEF Spec

\* Every state is well typed: a worker whose append is with the store is at a step that
\* waits for it, and no transaction is opened for an address that was not resolved.
THEOREM TypeCorrect == Spec => []TypeOK
<1>1. TypeInv => TypeOK
  BY DEF TypeInv
<1>. QED
  BY <1>1, Typed, PTL

-----------------------------------------------------------------------------
(* The log and the credits.                                                *)

\* Only the store writes, when an append takes effect.
LEMMA OnlyStoreWrites ==
  ASSUME TypeInv, [Next]_vars
  PROVE  UNCHANGED <<log, credits>> \/ \E w \in Worker : StoreApplies(w)
<1>1. ASSUME NEW w \in Worker, NEW i \in Input, NEW x, Complete(w, i, x)
      PROVE  UNCHANGED <<log, credits>>
  BY <1>1 DEF Complete, Submit, store
<1>2. ASSUME NEW w \in Worker, Advance(w) PROVE UNCHANGED <<log, credits>>
  BY <1>2 DEF Advance, Resolve, GrantAnswered, RecordAnswered, CompletionAnswered, PendingAnswered,
              Submit, Consumed, store
<1>3. ASSUME NEW w \in Worker, StoreDeclines(w) PROVE UNCHANGED <<log, credits>>
  BY <1>3, Declined
<1>4. ASSUME NEW w \in Worker, ResolverFault(w) \/ Crash(w) PROVE UNCHANGED <<log, credits>>
  BY <1>4 DEF ResolverFault, Crash, Consumed, store
<1>5. ASSUME NEW r \in Recipient, NEW a \in Address, Bind(r, a) PROVE UNCHANGED <<log, credits>>
  BY <1>5 DEF Bind, store
<1>. QED
  BY <1>1, <1>2, <1>3, <1>4, <1>5 DEF Next, vars, store

\* Where an appended event stands, and what stays.
LEMMA Appended ==
  ASSUME TypeInv, NEW w \in Worker, Apply(w)
  PROVE  LET p == request[w].partition
             n == Len(log[p])
         IN  /\ p \in Partition /\ n \in Nat /\ DOMAIN log[p] = 1..n /\ DOMAIN log'[p] = 1..n+1
             /\ \A k \in 1..n : log'[p][k] = log[p][k]
             /\ log'[p][n + 1] = request[w].event
             /\ n > 0 => log[p][n] = request[w].expected
             /\ n = 0 => request[w].expected = None
             /\ \A q \in Partition \ {p} : log'[q] = log[q]
<1>. DEFINE p == request[w].partition
<1>1. p \in Partition /\ request[w].event \in Ev
  BY RequestTyped, Applied DEF Ev
<1>2. log \in [Partition -> Seq(Ev)]
  BY DEF TypeInv, TypeOK, Ev
<1>3. log' = [log EXCEPT ![p] = Append(@, request[w].event)] /\ TipOf(p) = request[w].expected
  BY Applied
<1>. HIDE DEF p
<1>4. log[p] \in Seq(Ev) /\ log'[p] = Append(log[p], request[w].event)
      /\ \A q \in Partition \ {p} : log'[q] = log[q]
  BY <1>1, <1>2, <1>3
<1>5. Len(log[p]) = 0 <=> log[p] = <<>>
  BY <1>4
<1>. QED
  BY <1>1, <1>3, <1>4, <1>5 DEF TipOf, p

LEMMA KnownGrows ==
  ASSUME TypeInv, NEW w \in Worker, Apply(w), NEW e
  PROVE  Known(e)' <=> Known(e) \/ e = request[w].event
<1>1. PICK p \in Partition, n \in Nat :
        /\ DOMAIN log[p] = 1..n /\ DOMAIN log'[p] = 1..n+1
        /\ \A k \in 1..n : log'[p][k] = log[p][k]
        /\ log'[p][n + 1] = request[w].event
        /\ \A q \in Partition \ {p} : log'[q] = log[q]
  BY Appended
<1>2. Stored(e, p)' <=> Stored(e, p) \/ e = request[w].event
  <2>1. ASSUME NEW k \in 1..n+1, log'[p][k] = e PROVE Stored(e, p) \/ e = request[w].event
    BY <1>1, <2>1 DEF Stored
  <2>2. ASSUME NEW k \in 1..n, log[p][k] = e PROVE \E j \in 1..n+1 : log'[p][j] = e
    BY <1>1, <2>2
  <2>3. n + 1 \in 1..n+1
    BY <1>1
  <2>. QED
    BY <1>1, <2>1, <2>2, <2>3 DEF Stored
<1>. QED
  BY <1>1, <1>2 DEF Known, Stored

\* A completion is parked right behind itself.
LEMMA PendingInductive ==
  TypeInv /\ PendingFollowsCompletion /\ [Next]_vars => PendingFollowsCompletion'
<1> SUFFICES ASSUME TypeInv, PendingFollowsCompletion, [Next]_vars
             PROVE  PendingFollowsCompletion'
  OBVIOUS
<1>1. CASE UNCHANGED log
  BY <1>1 DEF PendingFollowsCompletion
<1>2. ASSUME NEW w \in Worker, StoreApplies(w) PROVE PendingFollowsCompletion'
  <2>1. PICK p \in Partition, n \in Nat :
          /\ DOMAIN log[p] = 1..n /\ DOMAIN log'[p] = 1..n+1
          /\ \A k \in 1..n : log'[p][k] = log[p][k]
          /\ log'[p][n + 1] = request[w].event
          /\ n > 0 => log[p][n] = request[w].expected
          /\ n = 0 => request[w].expected = None
          /\ \A q \in Partition \ {p} : log'[q] = log[q]
    BY <1>2, Appended DEF StoreApplies
  <2>2. ASSUME request[w].event \in Pending
        PROVE  n > 0 /\ request[w].expected = request[w].event.originating
    <3>1. phase[w] # "idle"
      BY <1>2 DEF StoreApplies, Apply
    <3>2. pc[w] = "pending"
      BY <2>2, <3>1, RequestTyped, KindsApart
    <3>3. /\ request[w].event.originating = call[w].event /\ request[w].expected = call[w].event
          /\ call[w].event \in Completion
      BY <3>1, <3>2, CallOf, InputTyped DEF TypeInv, RequestInv
    <3>. QED
      BY <2>1, <3>3, InputOK
  <2>3. ASSUME NEW k \in 1..n+1, log'[p][k] \in Pending
        PROVE  k > 1 /\ log'[p][k - 1] = log'[p][k].originating
    <3>1. CASE k = n + 1
      <4>1. n > 0 /\ log[p][n] = request[w].event.originating
        BY <2>1, <2>2, <2>3, <3>1
      <4>2. k - 1 = n /\ n \in 1..n
        BY <3>1, <4>1
      <4>. QED
        BY <2>1, <3>1, <4>1, <4>2
    <3>2. CASE k \in 1..n
      <4>1. k > 1 /\ log[p][k - 1] = log[p][k].originating
        BY <2>1, <2>3, <3>2 DEF PendingFollowsCompletion
      <4>2. k - 1 \in 1..n
        BY <3>2, <4>1
      <4>. QED
        BY <2>1, <3>2, <4>1, <4>2
    <3>. QED
      BY <3>1, <3>2
  <2>. QED
    BY <2>1, <2>3 DEF PendingFollowsCompletion
<1>. QED
  BY <1>1, <1>2, OnlyStoreWrites

\* A parked reward directly follows its completion in every partition, for any number of
\* callers that retry, on whatever tip they name.
THEOREM PendingInPlace == Spec => []PendingFollowsCompletion
<1>1. Init => PendingFollowsCompletion
  BY DEF Init, LogInit, PendingFollowsCompletion
<1>. QED
  BY <1>1, Typed, PendingInductive, PTL DEF Spec

\* Who is paid, and how much.
PaidFor(i, paid) ==
  \E c \in paid :
    /\ paid = {c} /\ c.recipient = i.recipient
    /\ c.delta["common"] + c.delta["rare"] + c.delta["legendary"] = i.reward.amount

LEMMA RewardInductive ==
  TypeInv /\ RewardMatchesCompletion /\ [Next]_vars => RewardMatchesCompletion'
<1> SUFFICES ASSUME TypeInv, RewardMatchesCompletion, [Next]_vars
             PROVE  RewardMatchesCompletion'
  OBVIOUS
<1>1. CASE UNCHANGED <<log, credits>>
  BY <1>1 DEF RewardMatchesCompletion, Known, Stored
<1>2. ASSUME NEW w \in Worker, StoreApplies(w) PROVE RewardMatchesCompletion'
  <2>1. Apply(w) /\ phase[w] # "idle" /\ ~Known(request[w].event)
    BY <1>2, Applied DEF StoreApplies
  <2>2. pc[w] \in {"grant", "record", "complete", "pending"}
    BY <2>1, RequestTyped
  <2>3. PICK i \in Input : /\ call[w].event = i.event /\ call[w].recipient = i.recipient
                           /\ call[w].reward = i.reward
    BY <2>2, CallOf
  <2>4. pc[w] = "grant" => /\ i.reward.tag = "Resource"
                           /\ translateResourceReward(i.reward) # None
    BY <2>3 DEF TypeInv, FlowInv
  <2>5. pc[w] # "grant" => i.reward.tag # "Resource"
    BY <2>2, <2>3 DEF TypeInv, FlowInv, Deferred
  <2>6. pc[w] # "pending" => request[w].event = i.event
    BY <2>1, <2>3, RequestTyped
  <2>7. pc[w] = "pending" => request[w].event \in Pending
    BY <2>1 DEF TypeInv, RequestInv
  <2>8. credits' = IF pc[w] = "grant" THEN credits \union {NewCredit(w)} ELSE credits
    BY <1>2 DEF StoreApplies, NewCredit
  <2>9. NewCredit(w).event = i.event /\ NewCredit(w).recipient = i.recipient
        /\ NewCredit(w).delta = translateResourceReward(i.reward)
    BY <2>3 DEF NewCredit
  <2>10. ASSUME NEW j \in Input
         PROVE  LET paid == {c \in credits' : c.event = j.event}
                IN  IF j.reward.tag = "Resource" /\ Known(j.event)'
                    THEN PaidFor(j, paid) ELSE paid = {}
    <3>. DEFINE before == {c \in credits : c.event = j.event}
                paid == {c \in credits' : c.event = j.event}
    <3>1. IF j.reward.tag = "Resource" /\ Known(j.event) THEN PaidFor(j, before) ELSE before = {}
      BY DEF RewardMatchesCompletion, PaidFor
    <3>2. Known(j.event)' <=> Known(j.event) \/ j.event = request[w].event
      BY <2>1, KnownGrows
    <3>3. CASE j # i \/ pc[w] # "grant"
      <4>1. paid = before
        BY <2>8, <2>9, <3>3, InputTyped
      <4>2. j.reward.tag = "Resource" => j.event # request[w].event
        BY <2>5, <2>6, <2>7, <3>3, InputTyped
      <4>. QED
        BY <3>1, <3>2, <4>1, <4>2
    <3>4. CASE j = i /\ pc[w] = "grant"
      <4>1. before = {} /\ Known(j.event)' /\ j.reward.tag = "Resource"
        BY <2>1, <2>4, <2>6, <3>1, <3>2, <3>4
      <4>2. paid = {NewCredit(w)}
        BY <2>8, <2>9, <3>4, <4>1
      <4>3. LET d == NewCredit(w).delta IN d["common"] + d["rare"] + d["legendary"] = j.reward.amount
        BY <2>4, <2>9, <3>4, InputTyped, Translated
      <4>. QED
        BY <2>9, <3>4, <4>1, <4>2, <4>3 DEF PaidFor
    <3>. QED
      BY <3>3, <3>4
  <2>. QED
    BY <2>10 DEF RewardMatchesCompletion, PaidFor
<1>. QED
  BY <1>1, <1>2, OnlyStoreWrites

\* No resource completion is durable without its one credit, of the whole amount to the
\* right recipient, and no credit without its completion.
THEOREM RewardsMatch == Spec => []RewardMatchesCompletion
<1>1. Init => RewardMatchesCompletion
  BY DEF Init, LogInit, RewardMatchesCompletion, Known, Stored
<1>. QED
  BY <1>1, Typed, RewardInductive, PTL DEF Spec

-----------------------------------------------------------------------------
(* What the caller is told.                                                *)

WroteAll == \A w \in Worker : WroteInv(w)

LEMMA OthersWrote ==
  ASSUME WroteAll, NEW w \in Worker, WroteInv(w)',
         \A v \in Worker \ {w} : /\ pc'[v] = pc[v] /\ call'[v] = call[v] /\ wrote'[v] = wrote[v]
                                 /\ phase'[v] = phase[v] /\ answer'[v] = answer[v]
  PROVE  WroteAll'
<1>1. ASSUME NEW v \in Worker, v # w PROVE WroteInv(v)'
  BY <1>1 DEF WroteAll, WroteInv
<1>. QED
  BY <1>1 DEF WroteAll

LEMMA ReturnWrote ==
  ASSUME TypeInv, WroteAll, NEW w \in Worker, NEW tag, Return(w, tag),
         Consumed(w) \/ UNCHANGED store
  PROVE  WroteAll'
<1>1. /\ pc'[w] = "idle" /\ wrote'[w] = {}
      /\ \A v \in Worker \ {w} : /\ pc'[v] = pc[v] /\ call'[v] = call[v] /\ wrote'[v] = wrote[v]
                                 /\ phase'[v] = phase[v] /\ answer'[v] = answer[v]
  BY DEF Return, Consumed, store, TypeInv, TypeOK
<1>2. WroteInv(w)'
  BY <1>1 DEF WroteInv
<1>. QED
  BY <1>1, <1>2, OthersWrote

LEMMA CompleteWrote ==
  ASSUME TypeInv, WroteAll, NEW w \in Worker, NEW i \in Input, NEW x, Complete(w, i, x)
  PROVE  WroteAll'
<1>1. /\ pc[w] = "idle" /\ pc'[w] = Dispatch(i.reward) /\ UNCHANGED wrote
      /\ \A v \in Worker \ {w} : pc'[v] = pc[v] /\ call'[v] = call[v]
  BY DEF Complete, TypeInv, TypeOK
<1>2. /\ \A v \in Worker \ {w} : phase'[v] = phase[v] /\ answer'[v] = answer[v]
      /\ Dispatch(i.reward) \in {"record", "complete"} => phase'[w] = "open"
  BY DEF Complete, Submit, store, TypeInv, TypeOK
<1>3. Dispatch(i.reward) \in {"idle", "resolve", "record", "complete"}
  BY InputTyped, Dispatched
<1>4. WroteInv(w)'
  BY <1>1, <1>2, <1>3 DEF WroteAll, WroteInv
<1>. QED
  BY <1>1, <1>2, <1>4, OthersWrote

LEMMA WroteInductive == TypeInv /\ WroteAll /\ [Next]_vars => WroteAll'
<1> SUFFICES ASSUME TypeInv, WroteAll, [Next]_vars PROVE WroteAll'
  OBVIOUS
<1>1. ASSUME NEW w \in Worker, Resolve(w) PROVE WroteAll'
  <2>1. CASE Unbound(w)
    BY <1>1, <2>1, ReturnWrote DEF Resolve
  <2>2. CASE ~Unbound(w)
    <3>1. /\ pc[w] = "resolve" /\ pc'[w] = "grant" /\ phase'[w] = "open"
          /\ UNCHANGED <<call, wrote, answer>>
          /\ \A v \in Worker \ {w} : pc'[v] = pc[v] /\ phase'[v] = phase[v]
      BY <1>1, <2>2 DEF Resolve, Goto, Submit, TypeInv, TypeOK
    <3>2. WroteInv(w)'
      BY <3>1 DEF WroteAll, WroteInv
    <3>. QED
      BY <3>1, <3>2, OthersWrote
  <2>. QED
    BY <2>1, <2>2
<1>2. ASSUME NEW w \in Worker,
             GrantAnswered(w) \/ RecordAnswered(w) \/ PendingAnswered(w) \/ ResolverFault(w)
               \/ Crash(w)
      PROVE  WroteAll'
  BY <1>2, ReturnWrote
  DEF GrantAnswered, RecordAnswered, PendingAnswered, ResolverFault, Crash
<1>3. ASSUME NEW w \in Worker, CompletionAnswered(w) PROVE WroteAll'
  <2>1. CASE answer[w] # "Appended"
    BY <1>3, <2>1, ReturnWrote DEF CompletionAnswered
  <2>2. CASE answer[w] = "Appended"
    <3>1. /\ pc[w] = "complete" /\ phase[w] = "idle" /\ pc'[w] = "pending" /\ phase'[w] = "open"
          /\ UNCHANGED <<call, wrote, answer>>
          /\ \A v \in Worker \ {w} : pc'[v] = pc[v] /\ phase'[v] = phase[v]
      BY <1>3, <2>2 DEF CompletionAnswered, Answered, Goto, Submit, TypeInv, TypeOK
    <3>2. WroteInv(w)'
      BY <2>2, <3>1 DEF WroteAll, WroteInv
    <3>. QED
      BY <3>1, <3>2, OthersWrote
  <2>. QED
    BY <2>1, <2>2
<1>4. ASSUME NEW w \in Worker, StoreApplies(w) PROVE WroteAll'
  <2>1. /\ phase[w] # "idle" /\ UNCHANGED <<pc, call>> /\ phase'[w] = "idle"
        /\ answer'[w] \in {"Appended", "none"}
        /\ wrote'[w] = wrote[w] \union {request[w].event}
        /\ \A v \in Worker \ {w} :
             wrote'[v] = wrote[v] /\ phase'[v] = phase[v] /\ answer'[v] = answer[v]
    BY <1>4, Applied DEF StoreApplies, localVars, TypeInv, TypeOK
  <2>2. pc[w] \in {"grant", "record", "complete"} => request[w].event = call[w].event
    BY <2>1 DEF TypeInv, RequestInv
  <2>3. pc[w] = "pending" =>
          request[w].event \in Pending /\ request[w].event.originating = call[w].event
    BY <2>1 DEF TypeInv, RequestInv
  <2>4. pc[w] \in {"grant", "record", "complete", "pending"}
    BY <2>1, RequestTyped
  <2>5. WroteInv(w)'
    BY <2>1, <2>2, <2>3, <2>4 DEF WroteAll, WroteInv
  <2>. QED
    BY <2>1, <2>5, OthersWrote
<1>5. ASSUME NEW w \in Worker, StoreDeclines(w) PROVE WroteAll'
  <2>1. /\ phase[w] # "idle" /\ UNCHANGED <<pc, call, wrote>>
        /\ phase'[w] = "idle" => answer'[w] \in {"CASFailed", "DuplicateEvent", "none"}
        /\ \A v \in Worker \ {w} : phase'[v] = phase[v] /\ answer'[v] = answer[v]
    BY <1>5, Declined DEF localVars
  <2>2. WroteInv(w)'
    BY <2>1 DEF WroteAll, WroteInv
  <2>. QED
    BY <2>1, <2>2, OthersWrote
<1>6. ASSUME UNCHANGED <<pc, call, wrote, phase, answer>> PROVE WroteAll'
  BY <1>6 DEF WroteAll, WroteInv
<1>7. ASSUME NEW r \in Recipient, NEW a \in Address, Bind(r, a) PROVE WroteAll'
  BY <1>6, <1>7 DEF Bind, store
<1>8. CASE UNCHANGED vars
  BY <1>6, <1>8 DEF vars, store, localVars
<1>. QED
  BY <1>1, <1>2, <1>3, <1>4, <1>5, <1>7, <1>8, CompleteWrote DEF Next, Advance

OutcomeTrue(w) ==
  /\ outcome'[w] \in {"Granted", "Recorded", "record-pending"} => wrote[w] # {}
  /\ outcome'[w] = "Deferred" =>
       \E e \in Pending : e \in wrote[w] /\ e.originating \in wrote[w]
  /\ outcome'[w] \in {"IdentityResolutionFailed", "AtomicGrantFailed definite", "defect"}
       => wrote[w] = {}

\* The step that answers a caller.
LEMMA AnswerStep ==
  ASSUME TypeInv, WroteAll, [Next]_vars, NEW w \in Worker, pc[w] # "idle", pc'[w] = "idle"
  PROVE  OutcomeTrue(w)
<1>1. /\ outcome \in [Worker -> OutcomeTag] /\ pc \in [Worker -> Step] /\ WroteInv(w)
  BY DEF TypeInv, TypeOK, WroteAll
<1>2. ASSUME NEW v \in Worker, v # w, NEW tag, Return(v, tag) PROVE FALSE
  BY <1>1, <1>2 DEF Return
<1>3. ASSUME NEW tag, Return(w, tag) PROVE outcome'[w] = tag
  BY <1>1, <1>3 DEF Return
<1>4. ASSUME NEW v \in Worker, NEW i \in Input, NEW x, Complete(v, i, x) PROVE FALSE
  BY <1>1, <1>4 DEF Complete
<1>5. ASSUME NEW v \in Worker, Resolve(v) PROVE OutcomeTrue(w)
  <2>1. CASE Unbound(v)
    <3>1. v = w /\ outcome'[w] = "IdentityResolutionFailed" /\ pc[w] = "resolve"
      BY <1>2, <1>3, <1>5, <2>1 DEF Resolve
    <3>. QED
      BY <1>1, <3>1 DEF WroteInv, OutcomeTrue
  <2>2. CASE ~Unbound(v)
    BY <1>1, <1>5, <2>2 DEF Resolve, Goto
  <2>. QED
    BY <2>1, <2>2
<1>6. ASSUME NEW v \in Worker, GrantAnswered(v) PROVE OutcomeTrue(w)
  <2>1. v = w /\ outcome'[w] = GrantTag(answer[w]) /\ pc[w] = "grant" /\ phase[w] = "idle"
    BY <1>2, <1>3, <1>6 DEF GrantAnswered, Answered
  <2>2. CASE answer[w] = "Appended"
    <3>1. GrantTag(answer[w]) = "Granted"
      BY <2>2 DEF GrantTag
    <3>. QED
      BY <1>1, <2>1, <2>2, <3>1 DEF WroteInv, OutcomeTrue
  <2>3. CASE answer[w] \in {"CASFailed", "DuplicateEvent"}
    <3>1. GrantTag(answer[w]) = "AtomicGrantFailed definite"
      BY <2>3 DEF GrantTag
    <3>. QED
      BY <1>1, <2>1, <2>3, <3>1 DEF WroteInv, OutcomeTrue
  <2>4. CASE answer[w] \notin {"Appended", "CASFailed", "DuplicateEvent"}
    <3>1. GrantTag(answer[w]) = "AtomicGrantFailed doubt"
      BY <2>4 DEF GrantTag
    <3>. QED
      BY <2>1, <3>1 DEF OutcomeTrue
  <2>. QED
    BY <2>2, <2>3, <2>4
<1>7. ASSUME NEW v \in Worker, RecordAnswered(v) PROVE OutcomeTrue(w)
  <2>1. /\ v = w /\ pc[w] = "record" /\ phase[w] = "idle"
        /\ outcome'[w] = IF answer[w] = "Appended" THEN "Recorded" ELSE "append-completion"
    BY <1>2, <1>3, <1>7 DEF RecordAnswered, Answered
  <2>. QED
    BY <1>1, <2>1 DEF WroteInv, OutcomeTrue
<1>8. ASSUME NEW v \in Worker, CompletionAnswered(v) PROVE OutcomeTrue(w)
  <2>1. CASE Goto(v, "pending")
    BY <1>1, <2>1 DEF Goto
  <2>2. CASE Return(v, "append-completion")
    BY <1>2, <1>3, <2>2 DEF OutcomeTrue
  <2>. QED
    BY <1>8, <2>1, <2>2 DEF CompletionAnswered
<1>9. ASSUME NEW v \in Worker, PendingAnswered(v) PROVE OutcomeTrue(w)
  <2>1. /\ v = w /\ pc[w] = "pending" /\ phase[w] = "idle"
        /\ outcome'[w] = IF answer[w] = "Appended" THEN "Deferred" ELSE "record-pending"
    BY <1>2, <1>3, <1>9 DEF PendingAnswered, Answered
  <2>. QED
    BY <1>1, <2>1 DEF WroteInv, OutcomeTrue
<1>10. ASSUME NEW v \in Worker, ResolverFault(v) PROVE OutcomeTrue(w)
  <2>1. v = w /\ pc[w] = "resolve"
    BY <1>2, <1>10 DEF ResolverFault
  <2>2. outcome'[w] = "defect"
    BY <1>3, <1>10, <2>1 DEF ResolverFault
  <2>. QED
    BY <1>1, <2>1, <2>2 DEF WroteInv, OutcomeTrue
<1>11. ASSUME NEW v \in Worker, Crash(v) PROVE OutcomeTrue(w)
  <2>1. v = w
    BY <1>2, <1>11 DEF Crash
  <2>2. outcome'[w] = "lost"
    BY <1>3, <1>11, <2>1 DEF Crash
  <2>. QED
    BY <2>2 DEF OutcomeTrue
<1>12. ASSUME NEW v \in Worker, StoreApplies(v) \/ StoreDeclines(v) PROVE FALSE
  BY <1>12 DEF StoreApplies, StoreDeclines, localVars
<1>13. ASSUME NEW r \in Recipient, NEW a \in Address, Bind(r, a) PROVE FALSE
  BY <1>13 DEF Bind
<1>14. CASE UNCHANGED vars
  BY <1>14 DEF vars, localVars
<1>. QED
  BY <1>4, <1>5, <1>6, <1>7, <1>8, <1>9, <1>10, <1>11, <1>12, <1>13, <1>14 DEF Next, Advance

\* Granted, Recorded and Deferred are told only of what this call has stored, a definite
\* refusal only of a call that has stored nothing, and record-pending only when the
\* completion is in the log.
THEOREM OutcomesAreTrue == Spec => OutcomeIsTrue
<1>1. Init => WroteAll
  BY DEF Init, WroteAll, WroteInv
<1>2. TypeInv /\ WroteAll /\ [Next]_vars =>
        [\A w \in Worker : pc[w] # "idle" /\ pc'[w] = "idle" =>
           /\ outcome'[w] \in {"Granted", "Recorded", "record-pending"} => wrote[w] # {}
           /\ outcome'[w] = "Deferred" =>
                \E e \in Pending : e \in wrote[w] /\ e.originating \in wrote[w]
           /\ outcome'[w] \in {"IdentityResolutionFailed", "AtomicGrantFailed definite", "defect"}
                => wrote[w] = {}]_vars
  BY AnswerStep DEF OutcomeTrue
<1>. QED
  BY <1>1, <1>2, Typed, WroteInductive, PTL DEF Spec, OutcomeIsTrue

-----------------------------------------------------------------------------
(* Where a credit goes.                                                    *)

\* Both adapters keep the way back when they bind; a conflict is refused by both.
LEMMA BindKeepsRoundTrip ==
  ASSUME TypeInv, RoundTrip, NEW r \in Recipient, NEW a \in Address, Bind(r, a)
  PROVE  /\ RoundTrip' /\ forward'[r] = a
         /\ \A q \in Recipient \ {r} : forward'[q] = forward[q]
<1>1. /\ ~BindConflict(r, a) /\ forward' = [forward EXCEPT ![r] = a]
      /\ \/ reverse' = [b \in Address |->
              IF b = a THEN r ELSE IF reverse[b] = r THEN None ELSE reverse[b]]
         \/ reverse' = [reverse EXCEPT ![a] = r]
  BY DEF Bind, BindRow, BindOne
<1>2. /\ forward \in [Recipient -> Address \union {None}]
      /\ reverse \in [Address -> Recipient \union {None}]
      /\ None \notin Recipient /\ None \notin Address
  BY InputOK DEF TypeInv, TypeOK, Bindings
<1>3. forward'[r] = a /\ reverse'[a] = r /\ \A q \in Recipient \ {r} : forward'[q] = forward[q]
  BY <1>1, <1>2
<1>4. ASSUME NEW q \in Recipient, q # r, forward[q] # None PROVE reverse'[forward[q]] = q
  <2>1. forward[q] \in Address /\ reverse[forward[q]] = q
    BY <1>2, <1>4 DEF RoundTrip
  <2>2. forward[q] # a
    BY <1>1, <1>2, <1>4, <2>1 DEF BindConflict, resolveFromChainAddress
  <2>. QED
    BY <1>1, <1>2, <1>4, <2>1, <2>2
<1>. QED
  BY <1>3, <1>4 DEF RoundTrip

LEMMA BindingInductive == TypeInv /\ BindingInv /\ [Next]_vars => BindingInv'
<1> SUFFICES ASSUME TypeInv, BindingInv, [Next]_vars PROVE BindingInv'
  OBVIOUS
\* Whoever is at its grant was there before, with the same address.
<1>1. ASSUME UNCHANGED bindings,
             \A v \in Worker : pc'[v] = "grant" =>
               \/ /\ pc[v] = "grant" /\ address'[v] = address[v] /\ moved'[v] = moved[v]
                  /\ call'[v] = call[v]
               \/ address'[v] = resolveToChainAddress(call'[v].recipient)
      PROVE  BindingInv'
  <2>1. RoundTrip'
    BY <1>1 DEF BindingInv, RoundTrip, bindings
  <2>2. ASSUME NEW v \in Worker PROVE Resolved(v)'
    BY <1>1 DEF BindingInv, Resolved, resolveToChainAddress, bindings
  <2>. QED
    BY <2>1, <2>2 DEF BindingInv
<1>2. /\ pc \in [Worker -> Step] /\ DOMAIN call = Worker
      /\ address \in [Worker -> Address \union {None}] /\ moved \in [Worker -> BOOLEAN]
  BY DEF TypeInv, TypeOK
<1>3. ASSUME NEW w \in Worker, NEW tag, Return(w, tag), UNCHANGED bindings PROVE BindingInv'
  BY <1>1, <1>2, <1>3 DEF Return
<1>4. ASSUME NEW w \in Worker, NEW i \in Input, NEW x, Complete(w, i, x) PROVE BindingInv'
  <2>1. Dispatch(i.reward) # "grant"
    BY InputTyped, Dispatched
  <2>2. /\ pc' = [pc EXCEPT ![w] = Dispatch(i.reward)] /\ UNCHANGED <<bindings, address, moved>>
        /\ \A v \in Worker \ {w} : call'[v] = call[v]
    BY <1>2, <1>4 DEF Complete
  <2>. QED
    BY <1>1, <1>2, <2>1, <2>2
<1>5. ASSUME NEW w \in Worker, Resolve(w) PROVE BindingInv'
  <2>1. CASE Unbound(w)
    BY <1>3, <1>5, <2>1 DEF Resolve
  <2>2. CASE ~Unbound(w)
    <3>1. /\ pc' = [pc EXCEPT ![w] = "grant"] /\ address' = [address EXCEPT ![w] = AddressOf(w)]
          /\ UNCHANGED <<call, moved, bindings>>
      BY <1>5, <2>2 DEF Resolve, Goto
    <3>2. address'[w] = resolveToChainAddress(call'[w].recipient)
      BY <1>2, <3>1 DEF AddressOf
    <3>. QED
      BY <1>1, <1>2, <3>1, <3>2
  <2>. QED
    BY <2>1, <2>2
<1>6. ASSUME NEW w \in Worker, GrantAnswered(w) \/ RecordAnswered(w) \/ PendingAnswered(w)
                                 \/ ResolverFault(w) \/ Crash(w)
      PROVE  BindingInv'
  BY <1>3, <1>6 DEF GrantAnswered, RecordAnswered, PendingAnswered, ResolverFault, Crash
<1>7. ASSUME NEW w \in Worker, CompletionAnswered(w) PROVE BindingInv'
  <2>1. CASE Return(w, "append-completion")
    BY <1>3, <1>7, <2>1 DEF CompletionAnswered
  <2>2. CASE Goto(w, "pending") /\ UNCHANGED address
    BY <1>1, <1>2, <1>7, <2>2 DEF CompletionAnswered, Goto
  <2>. QED
    BY <1>7, <2>1, <2>2 DEF CompletionAnswered
<1>8. ASSUME NEW w \in Worker, StoreApplies(w) \/ StoreDeclines(w) PROVE BindingInv'
  BY <1>1, <1>8 DEF StoreApplies, StoreDeclines, localVars
<1>9. ASSUME NEW r \in Recipient, NEW a \in Address, Bind(r, a) PROVE BindingInv'
  <2>1. /\ RoundTrip' /\ \A q \in Recipient \ {r} : forward'[q] = forward[q]
    BY <1>9, BindKeepsRoundTrip DEF BindingInv
  <2>2. /\ UNCHANGED <<pc, call, address>>
        /\ \A v \in Worker : moved'[v] = (moved[v] \/ (pc[v] = "grant" /\ call[v].recipient = r))
    BY <1>9 DEF Bind
  <2>3. ASSUME NEW v \in Worker PROVE Resolved(v)'
    <3>1. CASE pc[v] = "grant" /\ call[v].recipient # r /\ ~moved[v]
      <4>1. call[v].recipient \in Recipient
        BY <3>1, CallOf, InputTyped
      <4>. QED
        BY <2>1, <2>2, <3>1, <4>1 DEF BindingInv, Resolved, resolveToChainAddress
    <3>2. CASE pc[v] # "grant" \/ call[v].recipient = r \/ moved[v]
      BY <2>2, <3>2 DEF Resolved
    <3>. QED
      BY <3>1, <3>2
  <2>. QED
    BY <2>1, <2>3 DEF BindingInv
<1>10. CASE UNCHANGED vars
  BY <1>1, <1>10 DEF vars, localVars
<1>. QED
  BY <1>4, <1>5, <1>6, <1>7, <1>8, <1>9, <1>10 DEF Next, Advance

LEMMA CreditStep ==
  ASSUME TypeInv, WroteAll, BindingInv, [Next]_vars, NEW c \in credits' \ credits
  PROVE  \/ /\ c.address = resolveToChainAddress(c.recipient)
            /\ resolveFromChainAddress(c.address) = c.recipient
         \/ \E w \in Worker : wrote'[w] # wrote[w] /\ moved[w]
<1>1. PICK w \in Worker : StoreApplies(w)
  BY OnlyStoreWrites
<1>2. pc[w] = "grant" /\ c = NewCredit(w) /\ phase[w] # "idle"
  BY <1>1 DEF StoreApplies, Apply, NewCredit
<1>3. CASE moved[w]
  <2>1. wrote[w] = {} /\ wrote'[w] = wrote[w] \union {request[w].event}
    BY <1>1, <1>2 DEF StoreApplies, WroteAll, WroteInv, TypeInv, TypeOK
  <2>. QED
    BY <1>3, <2>1
<1>4. CASE ~moved[w]
  <2>1. c.address = address[w] /\ c.recipient = call[w].recipient
    BY <1>2 DEF NewCredit
  <2>2. address[w] = forward[call[w].recipient]
    BY <1>2, <1>4 DEF BindingInv, Resolved, resolveToChainAddress
  <2>3. address[w] # None /\ call[w].recipient \in Recipient
    BY <1>2, CallOf, InputTyped DEF TypeInv, TypeOK
  <2>. QED
    BY <2>1, <2>2, <2>3 DEF BindingInv, RoundTrip, resolveToChainAddress, resolveFromChainAddress
<1>. QED
  BY <1>3, <1>4

\* Whoever re-binds whom while completions are under way, and whichever adapter is wired,
\* a credit goes to the address its recipient has and that leads back to it; only the call
\* whose recipient moved between its resolution and its transaction is excepted.
THEOREM CreditsReachTheirOwner == Spec => CreditsCurrentAddress
<1>1. Init => WroteAll /\ BindingInv
  BY DEF Init, IdentityInit, WroteAll, WroteInv, BindingInv, RoundTrip, Resolved
<1>2. TypeInv /\ WroteAll /\ BindingInv /\ [Next]_vars =>
        [\A c \in credits' \ credits :
           \/ /\ c.address = resolveToChainAddress(c.recipient)
              /\ resolveFromChainAddress(c.address) = c.recipient
           \/ \E w \in Worker : wrote'[w] # wrote[w] /\ moved[w]]_vars
  BY CreditStep
<1>. QED
  BY <1>1, <1>2, Typed, WroteInductive, BindingInductive, PTL DEF Spec, CreditsCurrentAddress
=============================================================================
