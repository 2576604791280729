------------------------------ MODULE QuestFlow ------------------------------
(***************************************************************************)
(* A quest from the Discord interactions that accept, submit and show it   *)
(* (packages/discord-renderer), through the dispatch of an essay to its    *)
(* grader, to the stored quest state                                       *)
(* (packages/engine/src/dispatch.ts, quest-state-machine.ts, persistence). *)
(*                                                                         *)
(* Handlers interleave at every await: a state is loaded, taken one phase  *)
(* on and saved, over whatever was stored meanwhile.  A save may fail, and *)
(* one that failed may yet be carried out by the server, later on.         *)
(*                                                                         *)
(* The consumer's resolution handlers, the catalogue and the grader are    *)
(* outside the repository.  A row's world is written and never read, and   *)
(* timestamps and trace ids are carried along: all are left out.           *)
(***************************************************************************)
EXTENDS Naturals, FiniteSets

CONSTANTS
  None,
  Player,   \* [type : {"verified", "anon"}, wallet, discord_id]
  Quest,
  Catalog,  \* the quests of the world that is served
  Interaction, \* what Discord delivers: records of
               \* [type, name, quest, player, words, submissionStyle]
  Essay,    \* the submissions the gateway hands on to the grader
  Worker,   \* handlers at work
  MaxLate   \* bound of the model: failed saves that the server may still carry out

\* None, the null of the code, is none of its tags.
ASSUME QuestFlowOK ==
  /\ None \notin {"accept", "modal", "resolve", "APPROVED", "REJECTED", "NEEDS_HUMAN"}
  /\ Catalog \subseteq Quest /\ MaxLate \in Nat
  /\ \A p \in Player : p.type \in {"verified", "anon"}
  /\ \A e \in Essay :
       e.quest \in Quest /\ e.player \in Player /\ e.type \in {"essay", "image"}
  /\ \A i \in Interaction : i.player \in Player

VARIABLES
  rows,     \* the table: the state stored under a key, or None
  late,     \* saves that failed, and may still be carried out
  pc,       \* what a handler waits for
  task,     \* what it works on
  approved, \* history: the essays that the grader approved
  response  \* what this step answers an interaction with, if it does

vars == <<rows, late, pc, task, approved, response>>

VerdictStatus == {"APPROVED", "REJECTED", "NEEDS_HUMAN"}

\* A verified player is known by the wallet, an anonymous one by the Discord account.
PlayerKey(player) ==
  IF player.type = "verified"
  THEN <<"wallet", player.wallet>>
  ELSE <<"discord", player.discord_id>>

composeKey(quest, player) == <<quest, PlayerKey(player)>>

Key == {composeKey(q, p) : q \in Quest, p \in Player}

State(quest, player, phase) ==
  [quest_id |-> quest, player |-> player, phase |-> phase, verdict |-> None]

\* The states that are stored.
States ==
  [quest_id : Quest, player : Player, verdict : VerdictStatus \union {None},
   phase : {"accepted", "submitted", "judged", "completed", "failed"}]

\* A row that is not there is none of them.
ASSUME NoRowIsNoState == None \notin States

-----------------------------------------------------------------------------
\* quest-state-machine.ts: the set of the state reached, empty where the
\* transition is invalid.

accept(state) ==
  {[s EXCEPT !.phase = "accepted"] : s \in {t \in {state} : t.phase = "browsing"}}

submit(state) ==
  {[s EXCEPT !.phase = "submitted"] : s \in {t \in {state} : t.phase = "accepted"}}

\* Mutant: a verdict that comes twice is judged twice.
judgeAgain(state, status) ==
  {[s EXCEPT !.phase = "judged", !.verdict = status] :
     s \in {t \in {state} : t.phase # "accepted"}}

judge(state, status) ==
  {[s EXCEPT !.phase = "judged", !.verdict = status] :
     s \in {t \in {state} : t.phase = "submitted"}}

finalize(state) ==
  {[s EXCEPT !.phase = IF s.verdict = "APPROVED" THEN "completed" ELSE "failed"] :
     s \in {t \in {state} : t.phase = "judged"}}

\* How far a phase has come.
Rank(phase) ==
  CASE phase = "browsing" -> 0 [] phase = "accepted" -> 1 [] phase = "submitted" -> 2
    [] phase = "judged" -> 3 [] OTHER -> 4

\* catchTag InvalidPhaseTransitionError: the state stays what it was.
OrElse(states, state) == IF states = {} THEN state ELSE CHOOSE s \in states : TRUE

-----------------------------------------------------------------------------

NoTask ==
  [kind |-> None, quest |-> None, player |-> None, base |-> None, next |-> None, status |-> None]

Task(kind, quest, player) ==
  [NoTask EXCEPT !.kind = kind, !.quest = quest, !.player = player]

Idle(w) == pc[w] = "idle"

Goto(w, step, t) ==
  /\ pc' = [pc EXCEPT ![w] = step]
  /\ task' = [task EXCEPT ![w] = t]

\* An answer: a text, a form, or the states that /quest status shows to a player.
Answer(kind) == [kind |-> kind, player |-> None, states |-> {}]

Status(player, states) == [kind |-> "status", player |-> player, states |-> states]

NoAnswer == Answer(None)

Silent == response' = NoAnswer

\* Discord is answered when the interaction is over, and then alike whether or not
\* the state was saved.
Done(w) ==
  /\ Goto(w, "idle", NoTask)
  /\ response' = IF task[w].kind = "resolve" THEN NoAnswer ELSE Answer("text")

\* The handler of a verdict has a second state to save.
Saved(w) ==
  IF task[w].next.phase = "judged" /\ task[w].kind = "resolve"
  THEN Goto(w, "finalize", task[w]) /\ Silent
  ELSE Done(w)

\* Answered at once, and nothing is changed.
Respond(answer) == response' = answer /\ UNCHANGED <<rows, late, pc, task, approved>>

\* handleAccept and handleAcceptButton: from a state of its own, always in browsing.
AcceptFromBrowsing(w, quest, player) ==
  LET starting == State(quest, player, "browsing")
  IN  /\ Goto(w, "save", [Task("accept", quest, player) EXCEPT
                            !.next = OrElse(accept(starting), starting)])
      /\ Silent
      /\ UNCHANGED <<rows, late, approved>>

handleAccept(w, i) ==
  IF i.quest \in Catalog THEN AcceptFromBrowsing(w, i.quest, i.player) ELSE Respond(Answer("text"))

handleAcceptButton(w, i) ==
  IF i.quest \in Catalog THEN AcceptFromBrowsing(w, i.quest, i.player) ELSE Respond(Answer("text"))

handleBrowse == Respond(Answer("text"))

\* The form, of whatever quest is named, or a word to reply in the thread.
handleSubmit(i) ==
  Respond(Answer(IF i.quest # None /\ i.submissionStyle = "modal_form" THEN "modal" ELSE "text"))

handleSubmitButton == Respond(Answer("modal"))

handleSkipButton == Respond(Answer("text"))

\* list: the states under the player's key, in every quest.
list(player) == {rows[k] : k \in {l \in Key : l[2] = PlayerKey(player)}} \ {None}

\* Ten at most; a row that does not decode is dropped, and all are when the query fails.
handleStatus(i) ==
  \E shown \in SUBSET list(i.player) :
    Cardinality(shown) <= 10 /\ Respond(Status(i.player, shown))

handleSlashCommand(w, i) ==
  \/ i.name = "browse" /\ handleBrowse
  \/ i.name = "accept" /\ handleAccept(w, i)
  \/ i.name = "submit" /\ handleSubmit(i)
  \/ i.name = "status" /\ handleStatus(i)
  \/ i.name \notin {"browse", "accept", "submit", "status"} /\ Respond(Answer("text"))

handleButton(w, i) ==
  \/ i.name = "quest_accept" /\ handleAcceptButton(w, i)
  \/ i.name = "quest_submit" /\ handleSubmitButton
  \/ i.name = "quest_skip" /\ handleSkipButton
  \/ i.name \notin {"quest_accept", "quest_submit", "quest_skip"} /\ Respond(Answer("text"))

\* With words in it, and up to the load.
handleModalSubmit(w, i) ==
  IF i.name = "quest_submission" /\ i.words /\ i.quest \in Catalog
  THEN /\ Goto(w, "load", Task("modal", i.quest, i.player))
       /\ Silent
       /\ UNCHANGED <<rows, late, approved>>
  ELSE Respond(Answer("text"))

dispatchQuestInteraction(w, i) ==
  /\ Idle(w)
  /\ \/ i.type = "command" /\ handleSlashCommand(w, i)
     \/ i.type = "component" /\ handleButton(w, i)
     \/ i.type = "modal" /\ handleModalSubmit(w, i)
     \/ i.type \notin {"command", "component", "modal"} /\ Respond(Answer("text"))

\* Mutant: words are a submission in whatever phase the quest is.
SubmittedAnyway(prior) == [prior EXCEPT !.phase = "submitted"]

Submitted(prior) == OrElse(submit(prior), prior)

\* The state that was loaded, and what the handler wants saved.
Prepare(w, base, next) ==
  /\ Goto(w, "save", [task[w] EXCEPT !.base = base, !.next = next])
  /\ Silent

Loaded(w) ==
  LET row == rows[composeKey(task[w].quest, task[w].player)] IN
  /\ pc[w] = "load" /\ row # None
  /\ IF task[w].kind = "modal"
     THEN Prepare(w, row, Submitted(row))
     ELSE IF judge(row, task[w].status) = {}
          THEN Done(w)
          ELSE Prepare(w, row, CHOOSE s \in judge(row, task[w].status) : TRUE)
  /\ UNCHANGED <<rows, late, approved>>

\* There is no row, the query fails, or the row does not decode: to the modal
\* handler all of that is a quest accepted just now.
LoadFailed(w) ==
  /\ pc[w] = "load"
  /\ IF task[w].kind = "modal"
     THEN Prepare(w, None, Submitted(State(task[w].quest, task[w].player, "accepted")))
     ELSE Done(w)
  /\ UNCHANGED <<rows, late, approved>>

Write(state) == rows' = [rows EXCEPT ![composeKey(state.quest_id, state.player)] = state]

\* INSERT ... ON CONFLICT DO UPDATE, unconditional.
Save(w) ==
  /\ pc[w] = "save"
  /\ Write(task[w].next)
  /\ Saved(w)
  /\ UNCHANGED <<late, approved>>

\* The query is rejected, whatever has become of it; only a verdict's handler minds.
SaveFails(w) ==
  /\ pc[w] = "save"
  /\ \/ UNCHANGED late
     \/ Cardinality(late) < MaxLate /\ late' = late \union {task[w].next}
  /\ Done(w)
  /\ UNCHANGED <<rows, approved>>

LateSave(state) ==
  /\ state \in late /\ late' = late \ {state}
  /\ Write(state) \/ UNCHANGED rows
  /\ Silent
  /\ UNCHANGED <<pc, task, approved>>

Delete(quest, player) ==
  /\ rows' = [rows EXCEPT ![composeKey(quest, player)] = None]
  /\ Silent
  /\ UNCHANGED <<late, pc, task, approved>>

-----------------------------------------------------------------------------

\* dispatchEssayQuest, up to the grader: with two tenants, they must be the same,
\* and the payload must be an essay.
Dispatchable(essay) ==
  /\ None \notin {essay.tenant, essay.expectedTenant} => essay.tenant = essay.expectedTenant
  /\ essay.type = "essay"

Dispatch(w, essay) ==
  /\ Idle(w) /\ Dispatchable(essay)
  /\ Goto(w, "grade", [Task("resolve", essay.quest, essay.player) EXCEPT !.base = essay])
  /\ Silent
  /\ UNCHANGED <<rows, late, approved>>

\* Mutant: the verdict is about the submission that the grader names.
SubjectNamedByGrader(essay, output) == output.essay

\* The verdict carries the ids of the submission, whatever ids the grader returns.
Subject(essay, output) == essay

\* Any status, about any submission.
GraderOutput == [status : VerdictStatus, essay : Essay]

\* resolveVerdict: the handler of the status takes the state of the verdict's
\* submission on.
Graded(w, output) ==
  LET essay   == task[w].base
      subject == Subject(essay, output)
  IN
  /\ pc[w] = "grade"
  /\ approved' = IF output.status = "APPROVED" THEN approved \union {essay} ELSE approved
  /\ Goto(w, "load", [Task("resolve", subject.quest, subject.player) EXCEPT
                        !.status = output.status])
  /\ Silent
  /\ UNCHANGED <<rows, late>>

\* The grader fails, or its verdict does not decode.
GraderFails(w) ==
  /\ pc[w] = "grade"
  /\ Done(w)
  /\ UNCHANGED <<rows, late, approved>>

Finalize(w) ==
  /\ pc[w] = "finalize"
  /\ Prepare(w, task[w].next, CHOOSE s \in finalize(task[w].next) : TRUE)
  /\ UNCHANGED <<rows, late, approved>>

\* The process ends, and every handler with it.
Crash ==
  /\ pc' = [w \in Worker |-> "idle"] /\ task' = [w \in Worker |-> NoTask]
  /\ Silent
  /\ UNCHANGED <<rows, late, approved>>

Init ==
  /\ rows = [k \in Key |-> None]
  /\ late = {}
  /\ pc = [w \in Worker |-> "idle"]
  /\ task = [w \in Worker |-> NoTask]
  /\ approved = {}
  /\ response = NoAnswer

Handle(w) ==
  \/ \E i \in Interaction : dispatchQuestInteraction(w, i)
  \/ Loaded(w) \/ LoadFailed(w) \/ Save(w) \/ SaveFails(w)
  \/ \E e \in Essay : Dispatch(w, e)
  \/ \E output \in GraderOutput : Graded(w, output)
  \/ GraderFails(w) \/ Finalize(w)

Next ==
  \/ \E w \in Worker : Handle(w)
  \/ \E state \in late : LateSave(state)
  \/ \E q \in Quest, p \in Player : Delete(q, p)
  \/ Crash

Spec == Init /\ [][Next]_vars

-----------------------------------------------------------------------------

\* A stored state has a verdict once it is judged, and not before.
TypeOK ==
  /\ \A k \in Key : rows[k] # None =>
       /\ rows[k] \in States /\ composeKey(rows[k].quest_id, rows[k].player) = k
       /\ (rows[k].verdict # None) = (Rank(rows[k].phase) >= 3)
  /\ late \subseteq States /\ Cardinality(late) <= MaxLate
  /\ pc \in [Worker -> {"idle", "load", "save", "grade", "finalize"}]
  /\ \A w \in Worker : Idle(w) = (task[w] = NoTask)
  /\ approved \subseteq Essay

\* What /quest status shows a player is the player's own, and it shows a quest as
\* completed only if an essay of that player for that quest was approved, however
\* the grader mixes submissions up and whatever order the saves arrive in.
CompletedOnMerit ==
  [][\A s \in response'.states :
       /\ PlayerKey(s.player) = PlayerKey(response'.player)
       /\ s.phase = "completed" => \E e \in approved :
            /\ e.quest = s.quest_id /\ PlayerKey(e.player) = PlayerKey(s.player)
            /\ Dispatchable(e)]_vars

\* A quest is set back to an earlier phase in four ways and in no other: a save that has failed
\* is carried out late; accepting again sets the quest to accepted, whatever is stored; a
\* submission that loaded no state sets it to submitted: there was none yet, or the load failed
\* over a row that is as it was (modal-handler.ts:138-154); and a handler saves over a row that
\* has changed since it was loaded.
NoWayBack ==
  [][\A k \in Key : rows[k] # None /\ rows'[k] # None /\ Rank(rows'[k].phase) < Rank(rows[k].phase) =>
       \/ rows'[k] \in late \ late'
       \/ \E w \in Worker :
            /\ pc[w] = "save" /\ pc'[w] # "save" /\ task[w].next = rows'[k]
            /\ \/ task[w].kind = "accept" /\ rows'[k].phase = "accepted"
               \/ task[w].kind = "modal" /\ task[w].base = None /\ rows'[k].phase = "submitted"
               \/ task[w].base # None /\ task[w].base # rows[k]]_vars
=============================================================================
