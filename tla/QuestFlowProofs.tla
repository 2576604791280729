--------------------------- MODULE QuestFlowProofs ---------------------------
(***************************************************************************)
(* Theorems of QuestFlow, for every set of players, quests, interactions   *)
(* and essays, any number of handlers and of failed saves that land late.  *)
(***************************************************************************)
EXTENDS QuestFlow, FiniteSetTheorems, TLAPS

\* A state with a verdict is one that was judged, and a completed one was approved.
Sound(s) ==
  /\ s \in States
  /\ (s.verdict # None) = (Rank(s.phase) >= 3)
  /\ s.phase = "completed" => s.verdict = "APPROVED"

\* Somebody's essay for this quest was approved.
Earned(q, key) ==
  \E e \in approved : e.quest = q /\ PlayerKey(e.player) = key /\ Dispatchable(e)

Merited(s) == s.verdict = "APPROVED" => Earned(s.quest_id, PlayerKey(s.player))

\* A state that may be stored, now or later.
Storable(s) == Sound(s) /\ Merited(s)

\* What a handler works on at each of its steps.
TaskInv(w) ==
  LET t == task[w] IN
  /\ DOMAIN t = DOMAIN NoTask
  /\ pc[w] # "idle" => /\ t.kind \in {"accept", "modal", "resolve"}
                       /\ t.quest \in Quest /\ t.player \in Player
  /\ pc[w] = "idle" => t = NoTask
  /\ pc[w] = "load" => t.kind \in {"modal", "resolve"}
  /\ pc[w] = "load" /\ t.kind = "resolve" =>
       /\ t.status \in VerdictStatus
       /\ t.status = "APPROVED" => Earned(t.quest, PlayerKey(t.player))
  /\ pc[w] = "grade" => t.base \in Essay /\ Dispatchable(t.base) /\ t.kind = "resolve"
  /\ pc[w] = "save" =>
       /\ Storable(t.next)
       /\ t.kind = "accept" => t.next.phase = "accepted"
       /\ t.kind = "resolve" => t.base # None
       /\ t.kind = "modal" /\ t.base = None => t.next.phase = "submitted"
       /\ t.kind # "accept" /\ t.base # None => Rank(t.next.phase) >= Rank(t.base.phase)
  /\ pc[w] = "finalize" => Storable(t.next) /\ t.next.phase = "judged" /\ t.kind = "resolve"

FlowInv ==
  /\ DOMAIN rows = Key /\ DOMAIN task = Worker
  /\ pc \in [Worker -> {"idle", "load", "save", "grade", "finalize"}]
  /\ \A k \in Key : rows[k] # None =>
       Storable(rows[k]) /\ composeKey(rows[k].quest_id, rows[k].player) = k
  /\ \A s \in late : Storable(s)
  /\ IsFiniteSet(late) /\ Cardinality(late) <= MaxLate
  /\ approved \subseteq Essay
  /\ \A w \in Worker : TaskInv(w)

-----------------------------------------------------------------------------
(* The state machine.                                                      *)

LEMMA Ranks ==
  /\ Rank("browsing") = 0 /\ Rank("accepted") = 1 /\ Rank("submitted") = 2
  /\ Rank("judged") = 3 /\ Rank("completed") = 4 /\ Rank("failed") = 4
BY DEF Rank

LEMMA OrElseIn ==
  ASSUME NEW states, NEW state
  PROVE  OrElse(states, state) \in states \/ (states = {} /\ OrElse(states, state) = state)
BY DEF OrElse

LEMMA Accepted ==
  ASSUME NEW q \in Quest, NEW p \in Player
  PROVE  LET s == State(q, p, "browsing")
             a == OrElse(accept(s), s)
         IN  Storable(a) /\ a.quest_id = q /\ a.player = p /\ a.phase = "accepted"
<1>. DEFINE s == State(q, p, "browsing")
            a == [s EXCEPT !.phase = "accepted"]
<1>1. accept(s) = {a}
  BY DEF accept, State
<1>2. OrElse(accept(s), s) = a
  BY <1>1, OrElseIn
<1>3. a = [quest_id |-> q, player |-> p, phase |-> "accepted", verdict |-> None]
  BY DEF State
<1>4. Storable(a) /\ a.quest_id = q /\ a.player = p /\ a.phase = "accepted"
  BY <1>3, Ranks, QuestFlowOK DEF Storable, Sound, Merited, States
<1>. QED
  BY <1>2, <1>4

LEMMA FreshStorable ==
  ASSUME NEW q \in Quest, NEW p \in Player
  PROVE  LET s == State(q, p, "accepted") IN
         Storable(s) /\ s.quest_id = q /\ s.player = p
BY Ranks, QuestFlowOK DEF Storable, Sound, Merited, States, State

LEMMA FreshSubmitted ==
  ASSUME NEW q, NEW p
  PROVE  Submitted(State(q, p, "accepted")).phase = "submitted"
<1>. DEFINE s == State(q, p, "accepted")
            n == [s EXCEPT !.phase = "submitted"]
<1>1. submit(s) = {n}
  BY DEF submit, State
<1>2. Submitted(s) = n
  BY <1>1, OrElseIn DEF Submitted
<1>3. n.phase = "submitted"
  BY DEF State
<1>. QED
  BY <1>2, <1>3

LEMMA SubmittedStorable ==
  ASSUME NEW s, Storable(s)
  PROVE  /\ Storable(Submitted(s)) /\ Rank(Submitted(s).phase) >= Rank(s.phase)
         /\ Submitted(s).quest_id = s.quest_id /\ Submitted(s).player = s.player
<1>. DEFINE n == [s EXCEPT !.phase = "submitted"]
<1>1. s \in States
  BY DEF Storable, Sound
<1>2. CASE s.phase = "accepted"
  <2>1. submit(s) = {n}
    BY <1>2 DEF submit
  <2>2. Submitted(s) = n
    BY <2>1, OrElseIn DEF Submitted
  <2>3. /\ n \in States /\ n.phase = "submitted" /\ n.verdict = s.verdict
        /\ n.quest_id = s.quest_id /\ n.player = s.player
    BY <1>1 DEF States
  <2>4. s.verdict = None
    BY <1>2, Ranks DEF Storable, Sound
  <2>5. Storable(n)
    BY <2>3, <2>4, Ranks, QuestFlowOK DEF Storable, Sound, Merited
  <2>6. Rank(n.phase) >= Rank(s.phase)
    BY <1>2, <2>3, Ranks
  <2>. QED
    BY <2>2, <2>3, <2>5, <2>6
<1>3. CASE s.phase # "accepted"
  <2>1. submit(s) = {}
    BY <1>3 DEF submit
  <2>2. Submitted(s) = s
    BY <2>1, OrElseIn DEF Submitted
  <2>3. Rank(s.phase) \in Nat
    BY <1>1, Ranks DEF States
  <2>. QED
    BY <2>2, <2>3
<1>. QED
  BY <1>2, <1>3

LEMMA JudgedStorable ==
  ASSUME NEW s, Storable(s), NEW status \in VerdictStatus,
         status = "APPROVED" => Earned(s.quest_id, PlayerKey(s.player)),
         NEW j \in judge(s, status)
  PROVE  /\ Storable(j) /\ j.phase = "judged" /\ Rank(j.phase) >= Rank(s.phase)
         /\ j.quest_id = s.quest_id /\ j.player = s.player
<1>1. s \in States /\ s.phase = "submitted"
  BY DEF Storable, Sound, judge
<1>2. j = [s EXCEPT !.phase = "judged", !.verdict = status]
  BY DEF judge
<1>3. /\ j \in States /\ j.phase = "judged" /\ j.verdict = status
      /\ j.quest_id = s.quest_id /\ j.player = s.player
  BY <1>1, <1>2 DEF States
<1>4. Storable(j)
  BY <1>3, Ranks, QuestFlowOK DEF Storable, Sound, Merited, VerdictStatus
<1>. QED
  BY <1>1, <1>3, <1>4, Ranks

LEMMA FinalizedStorable ==
  ASSUME NEW s, Storable(s), s.phase = "judged"
  PROVE  LET f == CHOOSE x \in finalize(s) : TRUE IN
         /\ Storable(f) /\ f.phase # "judged" /\ Rank(f.phase) >= Rank(s.phase)
         /\ f.quest_id = s.quest_id /\ f.player = s.player
<1>. DEFINE f == [s EXCEPT !.phase = IF s.verdict = "APPROVED" THEN "completed" ELSE "failed"]
<1>1. finalize(s) = {f}
  BY DEF finalize
<1>2. (CHOOSE x \in finalize(s) : TRUE) = f
  BY <1>1
<1>3. s \in States
  BY DEF Storable, Sound
<1>4. /\ f \in States /\ f.verdict = s.verdict /\ f.quest_id = s.quest_id /\ f.player = s.player
      /\ f.phase = IF s.verdict = "APPROVED" THEN "completed" ELSE "failed"
  BY <1>3 DEF States
<1>5. s.verdict # None
  BY Ranks DEF Storable, Sound
<1>6. Storable(f) /\ f.phase # "judged" /\ Rank(f.phase) >= Rank(s.phase)
  BY <1>4, <1>5, Ranks DEF Storable, Sound, Merited
<1>. QED
  BY <1>2, <1>4, <1>6

\* Who is known by a row's key.
LEMMA KeyParts ==
  ASSUME NEW p, NEW r, NEW q, NEW u, composeKey(q, p) = composeKey(u, r)
  PROVE  q = u /\ PlayerKey(p) = PlayerKey(r)
BY DEF composeKey

LEMMA KeyTyped ==
  ASSUME NEW q \in Quest, NEW p \in Player PROVE composeKey(q, p) \in Key
BY DEF Key

-----------------------------------------------------------------------------
(* The handlers.                                                           *)

\* What an approval has earned stays earned.
LEMMA EarnedGrows ==
  ASSUME approved \subseteq approved', NEW s, Storable(s) PROVE Storable(s)'
BY DEF Storable, Sound, Merited, Earned

LEMMA TaskStays ==
  ASSUME approved \subseteq approved', NEW w \in Worker, TaskInv(w),
         pc'[w] = pc[w], task'[w] = task[w]
  PROVE  TaskInv(w)'
<1>1. Storable(task[w].next) => Storable(task[w].next)'
  BY DEF Storable, Sound, Merited, Earned
<1>. QED
  BY <1>1 DEF TaskInv, Storable, Sound, Merited, Earned

\* A step that stores only what may be stored, and leaves every other handler alone.
LEMMA StepKeepsFlow ==
  ASSUME FlowInv, approved \subseteq approved', approved' \subseteq Essay,
         DOMAIN rows' = Key,
         \A k \in Key : rows'[k] # None =>
           \/ rows'[k] = rows[k]
           \/ Storable(rows'[k]) /\ composeKey(rows'[k].quest_id, rows'[k].player) = k,
         \A s \in late' : s \in late \/ Storable(s),
         IsFiniteSet(late'), Cardinality(late') <= MaxLate,
         DOMAIN task' = Worker,
         pc' \in [Worker -> {"idle", "load", "save", "grade", "finalize"}],
         \A v \in Worker : TaskInv(v)' \/ (pc'[v] = pc[v] /\ task'[v] = task[v])
  PROVE  FlowInv'
<1>1. ASSUME NEW k \in Key, rows'[k] # None
      PROVE  (Storable(rows[k]) /\ composeKey(rows[k].quest_id, rows[k].player) = k)'
  <2>1. Storable(rows'[k]) /\ composeKey(rows'[k].quest_id, rows'[k].player) = k
    BY <1>1 DEF FlowInv
  <2>. QED
    BY <2>1 DEF Storable, Sound, Merited, Earned
<1>2. \A s \in late' : Storable(s)'
  BY EarnedGrows DEF FlowInv
<1>3. \A v \in Worker : TaskInv(v)'
  BY TaskStays DEF FlowInv
<1>. QED
  BY <1>1, <1>2, <1>3 DEF FlowInv

\* A handler goes on, and nothing is stored.
LEMMA GotoKeepsFlow ==
  ASSUME FlowInv, NEW w \in Worker, NEW t,
         NEW step \in {"idle", "load", "save", "grade", "finalize"}, Goto(w, step, t),
         UNCHANGED <<rows, late>>, approved \subseteq approved', approved' \subseteq Essay,
         TaskInv(w)'
  PROVE  FlowInv'
<1>1. /\ pc' \in [Worker -> {"idle", "load", "save", "grade", "finalize"}]
      /\ DOMAIN task' = Worker
      /\ \A v \in Worker \ {w} : pc'[v] = pc[v] /\ task'[v] = task[v]
  BY DEF Goto, FlowInv
<1>2. \A v \in Worker : TaskInv(v)' \/ (pc'[v] = pc[v] /\ task'[v] = task[v])
  BY <1>1
<1>. QED
  BY <1>1, <1>2, StepKeepsFlow DEF FlowInv

LEMMA At ==
  ASSUME FlowInv, NEW w \in Worker, NEW step, NEW t, Goto(w, step, t)
  PROVE  pc'[w] = step /\ task'[w] = t
BY DEF FlowInv, Goto

LEMMA IdleTask ==
  ASSUME FlowInv, NEW w \in Worker, Goto(w, "idle", NoTask) PROVE TaskInv(w)'
BY At DEF TaskInv

LEMMA DoneKeepsFlow ==
  ASSUME FlowInv, NEW w \in Worker, Goto(w, "idle", NoTask), UNCHANGED <<rows, late, approved>>
  PROVE  FlowInv'
BY IdleTask, GotoKeepsFlow DEF FlowInv

\* A task as it begins.
LEMMA TaskFields ==
  ASSUME NEW kind, NEW q, NEW p
  PROVE  LET t == Task(kind, q, p) IN
         /\ DOMAIN t = DOMAIN NoTask
         /\ t.kind = kind /\ t.quest = q /\ t.player = p /\ t.base = None
BY DEF Task, NoTask

LEMMA AcceptKeepsFlow ==
  ASSUME FlowInv, NEW w \in Worker, NEW q \in Catalog, NEW p \in Player,
         AcceptFromBrowsing(w, q, p)
  PROVE  FlowInv'
<1>. DEFINE s == State(q, p, "browsing")
            n == OrElse(accept(s), s)
            t == [Task("accept", q, p) EXCEPT !.next = n]
<1>1. Goto(w, "save", t) /\ UNCHANGED <<rows, late, approved>>
  BY DEF AcceptFromBrowsing
<1>2. q \in Quest
  BY QuestFlowOK
<1>3. Storable(n) /\ n.phase = "accepted"
  BY <1>2, Accepted
<1>4. /\ t.kind = "accept" /\ t.quest = q /\ t.player = p /\ t.next = n
      /\ DOMAIN t = DOMAIN NoTask
  <2>1. "next" \in DOMAIN NoTask
    BY DEF NoTask
  <2>. QED
    BY <2>1, TaskFields
<1>. HIDE DEF n, t
<1>5. Storable(n)'
  BY <1>1, <1>3 DEF Storable, Sound, Merited, Earned
<1>6. TaskInv(w)'
  <2>1. pc'[w] = "save" /\ task'[w] = t
    BY <1>1, At
  <2>2. Storable(task[w].next)'
    BY <1>4, <1>5, <2>1 DEF Storable, Sound, Merited, Earned
  <2>. QED
    BY <1>2, <1>3, <1>4, <2>1, <2>2 DEF TaskInv
<1>. QED
  BY <1>1, <1>6, GotoKeepsFlow DEF FlowInv

LEMMA InteractionKeepsFlow ==
  ASSUME FlowInv, NEW w \in Worker, NEW i \in Interaction, dispatchQuestInteraction(w, i)
  PROVE  FlowInv'
<1>1. i.player \in Player
  BY QuestFlowOK
<1>2. ASSUME UNCHANGED <<rows, late, pc, task, approved>> PROVE FlowInv'
  BY <1>2 DEF FlowInv, TaskInv, Storable, Sound, Merited, Earned
<1>3. ASSUME NEW a, Respond(a) PROVE FlowInv'
  BY <1>2, <1>3 DEF Respond
<1>4. ASSUME handleSlashCommand(w, i) PROVE FlowInv'
  BY <1>1, <1>3, <1>4, AcceptKeepsFlow
  DEF handleSlashCommand, handleBrowse, handleAccept, handleSubmit, handleStatus
<1>5. ASSUME handleButton(w, i) PROVE FlowInv'
  BY <1>1, <1>3, <1>5, AcceptKeepsFlow
  DEF handleButton, handleAcceptButton, handleSubmitButton, handleSkipButton
<1>6. ASSUME handleModalSubmit(w, i) PROVE FlowInv'
  <2>1. CASE i.name = "quest_submission" /\ i.words /\ i.quest \in Catalog
    <3>. DEFINE t == Task("modal", i.quest, i.player)
    <3>1. Goto(w, "load", t) /\ UNCHANGED <<rows, late, approved>> /\ i.quest \in Quest
      BY <1>6, <2>1, QuestFlowOK DEF handleModalSubmit
    <3>2. /\ t.kind = "modal" /\ t.quest = i.quest /\ t.player = i.player
          /\ DOMAIN t = DOMAIN NoTask
      BY TaskFields
    <3>. HIDE DEF t
    <3>3. TaskInv(w)'
      BY <1>1, <3>1, <3>2, At DEF TaskInv
    <3>. QED
      BY <3>1, <3>3, GotoKeepsFlow DEF FlowInv
  <2>2. CASE ~(i.name = "quest_submission" /\ i.words /\ i.quest \in Catalog)
    BY <1>3, <1>6, <2>2 DEF handleModalSubmit
  <2>. QED
    BY <2>1, <2>2
<1>. QED
  BY <1>3, <1>4, <1>5, <1>6 DEF dispatchQuestInteraction

\* What a handler wants saved.
LEMMA PrepareKeepsFlow ==
  ASSUME FlowInv, NEW w \in Worker, pc[w] # "idle", NEW base, NEW next, Prepare(w, base, next),
         UNCHANGED <<rows, late, approved>>, Storable(next), task[w].kind # "accept",
         base = None => task[w].kind = "modal" /\ next.phase = "submitted",
         base # None => Rank(next.phase) >= Rank(base.phase)
  PROVE  FlowInv'
<1>. DEFINE t == [task[w] EXCEPT !.base = base, !.next = next]
<1>1. Goto(w, "save", t)
  BY DEF Prepare
<1>2. t.kind = task[w].kind /\ t.quest = task[w].quest /\ t.player = task[w].player
      /\ t.base = base /\ t.next = next /\ DOMAIN t = DOMAIN NoTask
  <2>1. DOMAIN task[w] = DOMAIN NoTask
    BY DEF FlowInv, TaskInv
  <2>2. DOMAIN NoTask = {"kind", "quest", "player", "base", "next", "status"}
    BY DEF NoTask
  <2>. QED
    BY <2>1, <2>2
<1>. HIDE DEF t
<1>3. Storable(next)'
  BY DEF Storable, Sound, Merited, Earned
<1>4. TaskInv(w)'
  <2>1. pc'[w] = "save" /\ task'[w] = t
    BY <1>1, At
  <2>2. Storable(task[w].next)'
    BY <1>2, <1>3, <2>1 DEF Storable, Sound, Merited, Earned
  <2>. QED
    BY <1>2, <2>1, <2>2 DEF TaskInv, FlowInv
<1>. QED
  BY <1>1, <1>4, GotoKeepsFlow DEF FlowInv

LEMMA LoadKeepsFlow ==
  ASSUME FlowInv, NEW w \in Worker, Loaded(w) \/ LoadFailed(w)
  PROVE  FlowInv'
<1>. DEFINE q == task[w].quest
            p == task[w].player
            row == rows[composeKey(q, p)]
<1>1. /\ pc[w] = "load" /\ q \in Quest /\ p \in Player /\ TaskInv(w) /\ task[w].kind # "accept"
      /\ UNCHANGED <<rows, late, approved>>
  BY DEF FlowInv, TaskInv, Loaded, LoadFailed
<1>2. ASSUME Done(w) PROVE FlowInv'
  BY <1>1, <1>2, DoneKeepsFlow DEF Done
<1>3. CASE LoadFailed(w)
  <2>. DEFINE s == State(q, p, "accepted")
  <2>1. Storable(Submitted(s))
    BY <1>1, FreshStorable, SubmittedStorable
  <2>2. (Prepare(w, None, Submitted(s)) /\ task[w].kind = "modal") \/ Done(w)
    BY <1>3 DEF LoadFailed
  <2>3. Submitted(s).phase = "submitted"
    BY FreshSubmitted
  <2>. HIDE DEF s
  <2>. QED
    BY <1>1, <1>2, <2>1, <2>2, <2>3, PrepareKeepsFlow
<1>4. CASE Loaded(w)
  <2>1. /\ row # None /\ Storable(row) /\ row.quest_id = q
        /\ PlayerKey(row.player) = PlayerKey(p)
    <3>1. composeKey(q, p) \in Key /\ row # None
      BY <1>1, <1>4, KeyTyped DEF Loaded
    <3>2. Storable(row) /\ composeKey(row.quest_id, row.player) = composeKey(q, p)
      BY <3>1 DEF FlowInv
    <3>. QED
      BY <3>1, <3>2, KeyParts
  <2>2. CASE task[w].kind = "modal"
    <3>1. Prepare(w, row, Submitted(row))
      BY <1>4, <2>2 DEF Loaded
    <3>2. Storable(Submitted(row)) /\ Rank(Submitted(row).phase) >= Rank(row.phase)
      BY <2>1, SubmittedStorable
    <3>. HIDE DEF row
    <3>. QED
      BY <1>1, <2>1, <3>1, <3>2, PrepareKeepsFlow
  <2>3. CASE task[w].kind # "modal"
    <3>. DEFINE status == task[w].status
                j == CHOOSE s \in judge(row, status) : TRUE
    <3>1. CASE judge(row, status) = {}
      BY <1>2, <1>4, <2>3, <3>1 DEF Loaded
    <3>2. CASE judge(row, status) # {}
      <4>1. Prepare(w, row, j)
        BY <1>4, <2>3, <3>2 DEF Loaded
      <4>2. /\ status \in VerdictStatus
            /\ status = "APPROVED" => Earned(row.quest_id, PlayerKey(row.player))
        BY <1>1, <2>1, <2>3 DEF TaskInv
      <4>3. j \in judge(row, status)
        BY <3>2
      <4>. HIDE DEF j, row, status
      <4>4. Storable(j) /\ Rank(j.phase) >= Rank(row.phase)
        BY <2>1, <4>2, <4>3, JudgedStorable
      <4>. QED
        BY <1>1, <2>1, <4>1, <4>4, PrepareKeepsFlow
    <3>. QED
      BY <3>1, <3>2
  <2>. QED
    BY <2>2, <2>3
<1>. QED
  BY <1>3, <1>4

\* A write of a state that may be stored, by a handler or by the server.
LEMMA WriteKeepsRows ==
  ASSUME FlowInv, NEW state, Storable(state), Write(state)
  PROVE  /\ DOMAIN rows' = Key
         /\ \A k \in Key : rows'[k] # None =>
              \/ rows'[k] = rows[k]
              \/ Storable(rows'[k]) /\ composeKey(rows'[k].quest_id, rows'[k].player) = k
BY DEF FlowInv, Write

LEMMA SaveKeepsFlow ==
  ASSUME FlowInv, NEW w \in Worker, Save(w)
  PROVE  FlowInv'
<1>1. /\ pc[w] = "save" /\ TaskInv(w) /\ Storable(task[w].next) /\ Write(task[w].next)
      /\ UNCHANGED <<late, approved>>
  BY DEF FlowInv, TaskInv, Save
<1>2. \E step \in {"idle", "finalize"} : \E t : Goto(w, step, t)
  BY DEF Save, Saved, Done
<1>3. /\ DOMAIN task' = Worker /\ pc' \in [Worker -> {"idle", "load", "save", "grade", "finalize"}]
      /\ \A v \in Worker \ {w} : pc'[v] = pc[v] /\ task'[v] = task[v]
  BY <1>2 DEF Goto, FlowInv
<1>4. TaskInv(w)'
  <2>1. CASE Done(w)
    BY <2>1, IdleTask DEF Done
  <2>2. CASE task[w].next.phase = "judged" /\ task[w].kind = "resolve" /\ Goto(w, "finalize", task[w])
    <3>1. pc'[w] = "finalize" /\ task'[w] = task[w]
      BY <2>2 DEF FlowInv, Goto
    <3>2. Storable(task[w].next)'
      BY <1>1, <3>1 DEF Storable, Sound, Merited, Earned
    <3>. QED
      BY <1>1, <2>2, <3>1, <3>2 DEF TaskInv
  <2>. QED
    BY <2>1, <2>2 DEF Save, Saved
<1>5. \A v \in Worker : TaskInv(v)' \/ (pc'[v] = pc[v] /\ task'[v] = task[v])
  BY <1>3, <1>4
<1>6. /\ DOMAIN rows' = Key
      /\ \A k \in Key : rows'[k] # None =>
           \/ rows'[k] = rows[k]
           \/ Storable(rows'[k]) /\ composeKey(rows'[k].quest_id, rows'[k].player) = k
  BY <1>1, WriteKeepsRows
<1>. QED
  BY <1>1, <1>3, <1>5, <1>6, StepKeepsFlow DEF FlowInv

LEMMA SaveFailsKeepsFlow ==
  ASSUME FlowInv, NEW w \in Worker, SaveFails(w)
  PROVE  FlowInv'
<1>1. /\ Storable(task[w].next) /\ Goto(w, "idle", NoTask) /\ UNCHANGED <<rows, approved>>
      /\ late' = late \/ (Cardinality(late) < MaxLate /\ late' = late \union {task[w].next})
  BY DEF FlowInv, TaskInv, SaveFails, Done
<1>2. IsFiniteSet(late') /\ Cardinality(late') <= MaxLate
  <2>1. CASE late' = late
    BY <2>1 DEF FlowInv
  <2>2. CASE Cardinality(late) < MaxLate /\ late' = late \union {task[w].next}
    <3>1. /\ IsFiniteSet(late') /\ Cardinality(late) \in Nat
          /\ Cardinality(late') = IF task[w].next \in late THEN Cardinality(late)
                                                           ELSE Cardinality(late) + 1
      BY <2>2, FS_AddElement, FS_CardinalityType DEF FlowInv
    <3>. QED
      BY <2>2, <3>1, QuestFlowOK
  <2>. QED
    BY <1>1, <2>1, <2>2
<1>3. /\ DOMAIN task' = Worker /\ pc' \in [Worker -> {"idle", "load", "save", "grade", "finalize"}]
      /\ \A v \in Worker : TaskInv(v)' \/ (pc'[v] = pc[v] /\ task'[v] = task[v])
  <2>1. \A v \in Worker \ {w} : pc'[v] = pc[v] /\ task'[v] = task[v]
    BY <1>1 DEF FlowInv, Goto
  <2>. QED
    BY <1>1, <2>1, IdleTask DEF FlowInv, Goto
<1>. QED
  BY <1>1, <1>2, <1>3, StepKeepsFlow DEF FlowInv

LEMMA LateSaveKeepsFlow ==
  ASSUME FlowInv, NEW state \in late, LateSave(state)
  PROVE  FlowInv'
<1>1. /\ Storable(state) /\ UNCHANGED <<pc, task, approved>> /\ late' = late \ {state}
      /\ Write(state) \/ UNCHANGED rows
  BY DEF FlowInv, LateSave
<1>2. IsFiniteSet(late') /\ Cardinality(late') <= MaxLate
  <2>1. /\ IsFiniteSet(late') /\ Cardinality(late) \in Nat
        /\ Cardinality(late') = Cardinality(late) - 1
    BY <1>1, FS_RemoveElement, FS_CardinalityType DEF FlowInv
  <2>. QED
    BY <2>1, QuestFlowOK DEF FlowInv
<1>3. /\ DOMAIN rows' = Key
      /\ \A k \in Key : rows'[k] # None =>
           \/ rows'[k] = rows[k]
           \/ Storable(rows'[k]) /\ composeKey(rows'[k].quest_id, rows'[k].player) = k
  <2>1. CASE Write(state)
    BY <1>1, <2>1, WriteKeepsRows
  <2>2. CASE UNCHANGED rows
    BY <2>2 DEF FlowInv
  <2>. QED
    BY <1>1, <2>1, <2>2
<1>. QED
  BY <1>1, <1>2, <1>3, StepKeepsFlow DEF FlowInv

LEMMA DispatchKeepsFlow ==
  ASSUME FlowInv, NEW w \in Worker, NEW essay \in Essay, Dispatch(w, essay)
  PROVE  FlowInv'
<1>. DEFINE t == [Task("resolve", essay.quest, essay.player) EXCEPT !.base = essay]
<1>1. Goto(w, "grade", t) /\ UNCHANGED <<rows, late, approved>> /\ Dispatchable(essay)
  BY DEF Dispatch
<1>2. /\ t.kind = "resolve" /\ t.quest = essay.quest /\ t.player = essay.player /\ t.base = essay
      /\ DOMAIN t = DOMAIN NoTask
  <2>1. "base" \in DOMAIN NoTask
    BY DEF NoTask
  <2>. QED
    BY <2>1, TaskFields
<1>. HIDE DEF t
<1>3. TaskInv(w)'
  <2>1. pc'[w] = "grade" /\ task'[w] = t
    BY <1>1, At
  <2>2. Dispatchable(task[w].base)'
    BY <1>1, <1>2, <2>1 DEF Dispatchable
  <2>. QED
    BY <1>2, <2>1, <2>2, QuestFlowOK DEF TaskInv
<1>. QED
  BY <1>1, <1>3, GotoKeepsFlow DEF FlowInv

\* An approval is recorded with the essay it is about, and the verdict goes on about it.
LEMMA GradedKeepsFlow ==
  ASSUME FlowInv, NEW w \in Worker, NEW output \in GraderOutput, Graded(w, output)
  PROVE  FlowInv'
<1>. DEFINE essay == task[w].base
            t == [Task("resolve", essay.quest, essay.player) EXCEPT !.status = output.status]
<1>1. /\ pc[w] = "grade" /\ essay \in Essay /\ Dispatchable(essay)
      /\ Goto(w, "load", t) /\ UNCHANGED <<rows, late>>
      /\ approved' = IF output.status = "APPROVED" THEN approved \union {essay} ELSE approved
      /\ output.status \in VerdictStatus
  BY DEF FlowInv, TaskInv, Graded, Subject, GraderOutput
<1>2. /\ t.kind = "resolve" /\ t.quest = essay.quest /\ t.player = essay.player
      /\ t.status = output.status /\ DOMAIN t = DOMAIN NoTask
  <2>1. "status" \in DOMAIN NoTask
    BY DEF NoTask
  <2>. QED
    BY <2>1, TaskFields
<1>3. PICK e : e = essay
  OBVIOUS
<1>. HIDE DEF essay, t
<1>4. pc'[w] = "load" /\ task'[w] = t
  BY <1>1, At
<1>5. t.status = "APPROVED" => e \in approved'
  BY <1>1, <1>2, <1>3
<1>6. TaskInv(w)'
  <2>1. (task[w].status = "APPROVED" => Earned(task[w].quest, PlayerKey(task[w].player)))'
    BY <1>1, <1>2, <1>3, <1>4, <1>5 DEF Earned
  <2>. QED
    BY <1>1, <1>2, <1>4, <2>1, QuestFlowOK DEF TaskInv
<1>7. approved \subseteq approved' /\ approved' \subseteq Essay
  BY <1>1 DEF FlowInv
<1>. QED
  BY <1>1, <1>6, <1>7, GotoKeepsFlow

LEMMA FinalizeKeepsFlow ==
  ASSUME FlowInv, NEW w \in Worker, Finalize(w)
  PROVE  FlowInv'
<1>. DEFINE s == task[w].next
            f == CHOOSE x \in finalize(s) : TRUE
<1>1. /\ pc[w] = "finalize" /\ Storable(s) /\ s.phase = "judged" /\ Prepare(w, s, f)
      /\ task[w].kind = "resolve" /\ UNCHANGED <<rows, late, approved>>
  BY DEF FlowInv, TaskInv, Finalize
<1>2. Storable(f) /\ Rank(f.phase) >= Rank(s.phase)
  BY <1>1, FinalizedStorable
<1>3. s # None
  BY <1>1, NoRowIsNoState DEF Storable, Sound
<1>. HIDE DEF s, f
<1>. QED
  BY <1>1, <1>2, <1>3, PrepareKeepsFlow

LEMMA FlowInductive == FlowInv /\ [Next]_vars => FlowInv'
<1> SUFFICES ASSUME FlowInv, [Next]_vars PROVE FlowInv'
  OBVIOUS
<1>1. ASSUME NEW w \in Worker, GraderFails(w) PROVE FlowInv'
  BY <1>1, DoneKeepsFlow DEF GraderFails, Done
<1>2. ASSUME NEW q \in Quest, NEW p \in Player, Delete(q, p) PROVE FlowInv'
  <2>1. /\ UNCHANGED <<late, pc, task, approved>> /\ DOMAIN rows' = Key
        /\ \A k \in Key : rows'[k] # None => rows'[k] = rows[k]
    BY <1>2 DEF Delete, FlowInv
  <2>. QED
    BY <2>1, StepKeepsFlow DEF FlowInv
<1>3. CASE Crash
  <2>1. /\ UNCHANGED <<rows, late, approved>> /\ DOMAIN task' = Worker
        /\ pc' \in [Worker -> {"idle", "load", "save", "grade", "finalize"}]
        /\ \A v \in Worker : pc'[v] = "idle" /\ task'[v] = NoTask
    BY <1>3 DEF Crash
  <2>2. \A v \in Worker : TaskInv(v)'
    BY <2>1 DEF TaskInv
  <2>. QED
    BY <2>1, <2>2, StepKeepsFlow DEF FlowInv
<1>4. CASE UNCHANGED vars
  BY <1>4, StepKeepsFlow DEF vars, FlowInv
<1>. QED
  BY <1>1, <1>2, <1>3, <1>4, InteractionKeepsFlow, LoadKeepsFlow, SaveKeepsFlow,
     SaveFailsKeepsFlow, LateSaveKeepsFlow, DispatchKeepsFlow, GradedKeepsFlow, FinalizeKeepsFlow
  DEF Next, Handle

LEMMA Flows == Spec => []FlowInv
<1>1. Init => FlowInv
  BY FS_EmptySet, QuestFlowOK DEF Init, FlowInv, TaskInv
<1>. QED
  BY <1>1, FlowInductive, PTL DEF Spec

\* Every stored state belongs under its key, and has a verdict just when it was judged,
\* whichever handlers and late saves have written it.
THEOREM TypeCorrect == Spec => []TypeOK
<1>1. FlowInv => TypeOK
  <2> SUFFICES ASSUME FlowInv PROVE TypeOK
    OBVIOUS
  <2>1. \A w \in Worker : Idle(w) = (task[w] = NoTask)
    <3>1. NoTask.kind = None
      BY DEF NoTask
    <3>. QED
      BY <3>1, QuestFlowOK DEF FlowInv, TaskInv, Idle
  <2>. QED
    BY <2>1 DEF FlowInv, TypeOK, Storable, Sound
<1>. QED
  BY <1>1, Flows, PTL

-----------------------------------------------------------------------------
(* What a player is shown.                                                 *)

ShownOnMerit ==
  \A s \in response'.states :
    /\ PlayerKey(s.player) = PlayerKey(response'.player)
    /\ s.phase = "completed" => \E e \in approved :
         /\ e.quest = s.quest_id /\ PlayerKey(e.player) = PlayerKey(s.player)
         /\ Dispatchable(e)

\* Only /quest status shows states.
LEMMA OtherAnswers ==
  ASSUME NEW kind, response' = Answer(kind) PROVE ShownOnMerit
BY DEF ShownOnMerit, Answer

LEMMA StatusOnMerit ==
  ASSUME FlowInv, NEW i \in Interaction, handleStatus(i) PROVE ShownOnMerit
<1>1. PICK shown \in SUBSET list(i.player) : response' = Status(i.player, shown)
  BY DEF handleStatus, Respond
<1>2. response'.player = i.player /\ response'.states = shown
  BY <1>1 DEF Status
<1>3. ASSUME NEW s \in shown
      PROVE  /\ PlayerKey(s.player) = PlayerKey(i.player)
             /\ s.phase = "completed" => Earned(s.quest_id, PlayerKey(s.player))
  <2>1. PICK k \in Key : k[2] = PlayerKey(i.player) /\ s = rows[k] /\ s # None
    BY <1>1, <1>3 DEF list
  <2>2. Storable(s) /\ composeKey(s.quest_id, s.player) = k
    BY <2>1 DEF FlowInv
  <2>3. k[2] = PlayerKey(s.player)
    BY <2>2 DEF composeKey
  <2>. QED
    BY <2>1, <2>2, <2>3 DEF Storable, Sound, Merited
<1>. QED
  BY <1>2, <1>3 DEF ShownOnMerit, Earned

LEMMA ShowStep ==
  ASSUME FlowInv, Next PROVE ShownOnMerit
<1>1. ASSUME NEW w \in Worker, NEW i \in Interaction, dispatchQuestInteraction(w, i)
      PROVE  ShownOnMerit
  <2>1. ASSUME NEW kind, Respond(Answer(kind)) PROVE ShownOnMerit
    BY <2>1, OtherAnswers DEF Respond
  <2>2. ASSUME NEW q, NEW p, AcceptFromBrowsing(w, q, p) PROVE ShownOnMerit
    BY <2>2, OtherAnswers DEF AcceptFromBrowsing, Silent, NoAnswer
  <2>3. ASSUME handleSlashCommand(w, i) PROVE ShownOnMerit
    BY <2>1, <2>2, <2>3, StatusOnMerit
    DEF handleSlashCommand, handleBrowse, handleAccept, handleSubmit
  <2>4. ASSUME handleButton(w, i) PROVE ShownOnMerit
    BY <2>1, <2>2, <2>4
    DEF handleButton, handleAcceptButton, handleSubmitButton, handleSkipButton
  <2>5. ASSUME handleModalSubmit(w, i) PROVE ShownOnMerit
    BY <2>1, <2>5, OtherAnswers DEF handleModalSubmit, Silent, NoAnswer
  <2>. QED
    BY <1>1, <2>1, <2>3, <2>4, <2>5 DEF dispatchQuestInteraction
<1>2. ASSUME NEW w \in Worker, Handle(w),
             ~\E i \in Interaction : dispatchQuestInteraction(w, i)
      PROVE  \E kind : response' = Answer(kind)
  BY <1>2 DEF Handle, Loaded, LoadFailed, Save, SaveFails, Saved, Done, Dispatch, Graded,
              GraderFails, Finalize, Prepare, Silent, NoAnswer
<1>3. ASSUME (\E state \in late : LateSave(state)) \/ (\E q \in Quest, p \in Player : Delete(q, p))
               \/ Crash
      PROVE  response' = Answer(None)
  BY <1>3 DEF LateSave, Delete, Crash, Silent, NoAnswer
<1>. QED
  BY <1>1, <1>2, <1>3, OtherAnswers DEF Next

\* A player is shown no state but the player's own, and no quest as completed without an
\* approved essay of that player for it: for every grader, every mix of handlers, crashes
\* and saves that land late.
THEOREM ShownQuestsEarned == Spec => CompletedOnMerit
<1>1. FlowInv /\ [Next]_vars =>
        [\A s \in response'.states :
           /\ PlayerKey(s.player) = PlayerKey(response'.player)
           /\ s.phase = "completed" => \E e \in approved :
                /\ e.quest = s.quest_id /\ PlayerKey(e.player) = PlayerKey(s.player)
                /\ Dispatchable(e)]_vars
  BY ShowStep DEF ShownOnMerit
<1>. QED
  BY <1>1, Flows, PTL DEF Spec, CompletedOnMerit

-----------------------------------------------------------------------------
(* No way back.                                                            *)

\* What a row's change comes from.
LEMMA RowStep ==
  ASSUME FlowInv, Next
  PROVE  \/ UNCHANGED rows
         \/ \E state \in late \ late' : Write(state)
         \/ \E q \in Quest, p \in Player : Delete(q, p)
         \/ \E w \in Worker : Save(w)
<1>1. ASSUME NEW w \in Worker, NEW i \in Interaction, dispatchQuestInteraction(w, i)
      PROVE  UNCHANGED rows
  BY <1>1 DEF dispatchQuestInteraction, handleSlashCommand, handleButton, handleModalSubmit,
              handleBrowse, handleAccept, handleAcceptButton, handleSubmit, handleSubmitButton,
              handleSkipButton, handleStatus, AcceptFromBrowsing, Respond
<1>2. ASSUME NEW w \in Worker, Handle(w),
             ~\E i \in Interaction : dispatchQuestInteraction(w, i)
      PROVE  UNCHANGED rows \/ Save(w)
  BY <1>2 DEF Handle, Loaded, LoadFailed, SaveFails, Dispatch, Graded, GraderFails, Finalize
<1>3. ASSUME NEW state \in late, LateSave(state)
      PROVE  UNCHANGED rows \/ (state \in late \ late' /\ Write(state))
  BY <1>3 DEF LateSave
<1>4. ASSUME Crash PROVE UNCHANGED rows
  BY <1>4 DEF Crash
<1>. QED
  BY <1>1, <1>2, <1>3, <1>4 DEF Next

LEMMA BackStep ==
  ASSUME FlowInv, Next, NEW k \in Key, rows[k] # None, rows'[k] # None,
         Rank(rows'[k].phase) < Rank(rows[k].phase)
  PROVE  \/ rows'[k] \in late \ late'
         \/ \E w \in Worker :
              /\ pc[w] = "save" /\ pc'[w] # "save" /\ task[w].next = rows'[k]
              /\ \/ task[w].kind = "accept" /\ rows'[k].phase = "accepted"
                 \/ task[w].kind = "modal" /\ task[w].base = None /\ rows'[k].phase = "submitted"
                 \/ task[w].base # None /\ task[w].base # rows[k]
<1>0. rows[k] \in States /\ Rank(rows[k].phase) \in Nat
  BY Ranks DEF FlowInv, Storable, Sound, States
<1>1. rows'[k] # rows[k]
  BY <1>0
<1>2. ASSUME NEW q \in Quest, NEW p \in Player, Delete(q, p) PROVE FALSE
  BY <1>1, <1>2 DEF Delete, FlowInv
<1>3. ASSUME NEW w \in Worker, Save(w)
      PROVE  /\ pc[w] = "save" /\ pc'[w] # "save" /\ task[w].next = rows'[k]
             /\ \/ task[w].kind = "accept" /\ rows'[k].phase = "accepted"
                \/ task[w].kind = "modal" /\ task[w].base = None /\ rows'[k].phase = "submitted"
                \/ task[w].base # None /\ task[w].base # rows[k]
  <2>1. pc[w] = "save" /\ TaskInv(w) /\ Write(task[w].next)
    BY <1>3 DEF Save, FlowInv
  <2>2. rows'[k] = task[w].next
    BY <1>1, <2>1 DEF Write, FlowInv
  <2>3. pc'[w] # "save"
    BY <1>3 DEF Save, Saved, Done, Goto, FlowInv
  <2>4. ASSUME task[w].kind # "accept", task[w].base # None, task[w].base = rows[k]
        PROVE  FALSE
    <3>1. Rank(task[w].next.phase) >= Rank(rows[k].phase)
      BY <2>1, <2>4 DEF TaskInv
    <3>2. task[w].next \in States
      BY <2>1 DEF TaskInv, Storable, Sound
    <3>3. Rank(task[w].next.phase) \in Nat
      BY <3>2, Ranks DEF States
    <3>. QED
      BY <1>0, <2>2, <3>1, <3>3
  <2>5. /\ task[w].kind \in {"accept", "modal", "resolve"}
        /\ task[w].kind = "accept" => rows'[k].phase = "accepted"
        /\ task[w].kind # "accept" /\ task[w].base = None =>
             task[w].kind = "modal" /\ rows'[k].phase = "submitted"
    BY <2>1, <2>2 DEF TaskInv
  <2>. QED
    BY <2>1, <2>2, <2>3, <2>4, <2>5
<1>4. ASSUME NEW state \in late \ late', Write(state) PROVE rows'[k] = state
  BY <1>1, <1>4 DEF Write, FlowInv
<1>. QED
  BY <1>1, <1>2, <1>3, <1>4, RowStep

\* A quest goes back to an earlier phase only by a save that lands late, to accepted when it is
\* accepted again, to submitted by a submission that loaded no state (there was none, or the
\* load failed, whatever is stored), or by a save over a row that has changed since its handler
\* loaded it; for any number of handlers.
THEOREM PhasesAdvance == Spec => NoWayBack
<1>1. FlowInv /\ [Next]_vars =>
        [\A k \in Key :
           rows[k] # None /\ rows'[k] # None /\ Rank(rows'[k].phase) < Rank(rows[k].phase) =>
           \/ rows'[k] \in late \ late'
           \/ \E w \in Worker :
                /\ pc[w] = "save" /\ pc'[w] # "save" /\ task[w].next = rows'[k]
                /\ \/ task[w].kind = "accept" /\ rows'[k].phase = "accepted"
                   \/ task[w].kind = "modal" /\ task[w].base = None /\ rows'[k].phase = "submitted"
                   \/ task[w].base # None /\ task[w].base # rows[k]]_vars
  BY BackStep
<1>. QED
  BY <1>1, Flows, PTL DEF Spec, NoWayBack
==============================================================================
