---------------------------- MODULE MCQuestFlow ----------------------------
(* Instances of QuestFlow for TLC. *)
EXTENDS QuestFlow, TLC

CONSTANT quest

Anon     == [type |-> "anon", wallet |-> None, discord_id |-> "d1"]
Verified == [type |-> "verified", wallet |-> "w1", discord_id |-> "d1"]

Players == {Anon, Verified}

EssayOf(player, type, tenant) ==
  [quest |-> quest, type |-> type, player |-> player, tenant |-> tenant,
   expectedTenant |-> "mibera"]

\* One essay of each player, one that is no essay and one for another tenant.
Essays ==
  {EssayOf(Anon, "essay", None), EssayOf(Verified, "essay", "mibera"),
   EssayOf(Anon, "image", None), EssayOf(Anon, "essay", "other")}

Interacts(type, name, player) ==
  [quest |-> quest, type |-> type, name |-> name, player |-> player, words |-> TRUE,
   submissionStyle |-> "modal_form"]

Interactions ==
  {Interacts("command", "accept", Anon), Interacts("component", "quest_accept", Verified),
   Interacts("modal", "quest_submission", Anon), Interacts("modal", "quest_submission", Verified),
   Interacts("command", "status", Anon), Interacts("command", "status", Verified),
   Interacts("command", "browse", Anon), Interacts("command", "submit", Anon),
   Interacts("command", "help", Anon), Interacts("component", "quest_submit", Anon),
   Interacts("component", "quest_skip", Anon), Interacts("component", "other", Anon),
   Interacts("ping", None, Anon),
   [Interacts("command", "accept", Anon) EXCEPT !.quest = None],
   [Interacts("component", "quest_accept", Anon) EXCEPT !.quest = None],
   [Interacts("modal", "quest_submission", Anon) EXCEPT !.words = FALSE]}

Workers == Permutations(Worker)

\* No step looks at the last answer.
ButResponse == <<rows, late, pc, task, approved>>
=============================================================================
