------------------------------- MODULE Badges -------------------------------
(***************************************************************************)
(* The badge catalogue and the projection of a stream of events on the     *)
(* badges it earns (packages/engine/src/badge/static-uri.ts and            *)
(* badge-projection.ts).  Artifact URIs are left out: a family either has  *)
(* a row in the registry or it has none.                                   *)
(***************************************************************************)
EXTENDS Naturals, FiniteSets, Sequences, SequencesExt

\* The families with an artifact.
STATIC_BADGE_REGISTRY == {"verify", "donation-raffle", "kindling"}

ACTIVITY_BADGE_FAMILY ==
  [act_verify |-> "verify", act_donationraffle |-> "donation-raffle", act_firstlight |-> "kindling"]

\* Whether resolveStaticBadge has an artifact for the family.
resolveStaticBadge(family) == family \in STATIC_BADGE_REGISTRY

\* The families an event earns a badge of: at most one, and none for an event of
\* another kind and for a completion of an activity without a badge.
FamilyOf(event) ==
  CASE event.kind = "badge-issued" -> {event.family}
    [] event.kind = "activity-completed" ->
         {ACTIVITY_BADGE_FAMILY[a] : a \in {event.activity} \cap DOMAIN ACTIVITY_BADGE_FAMILY}
    [] OTHER -> {}

toEarnedBadge(event, family) ==
  [badge_family_id |-> family, identity_id |-> event.identity, source |-> event.kind,
   event |-> event, issued_at |-> event.ts, has_uri |-> resolveStaticBadge(family)]

\* badge.issued_at < existing.issued_at: the earliest stays, and of two equal ones
\* the one that came first.
Replaces(badge, existing) == badge.issued_at < existing.issued_at

\* byFamily: the badge kept for a family after all events, by the index of its event.
Kept(events, family) ==
  LET badge(i) == toEarnedBadge(events[i], family)
      kept[i \in 0 .. Len(events)] ==
        IF i = 0 THEN 0
        ELSE IF /\ family \in FamilyOf(events[i])
                /\ kept[i - 1] = 0 \/ Replaces(badge(i), badge(kept[i - 1]))
             THEN i
             ELSE kept[i - 1]
  IN  badge(kept[Len(events)])

\* The elements of S in an order: the n-th is the one that n - 1 others come before.
Sorted(S, Before(_, _)) ==
  [n \in 1 .. Cardinality(S) |->
     CHOOSE x \in S : Cardinality({y \in S : Before(y, x)}) = n - 1]

\* projectEarnedBadges: one badge of each family, by time.  The sort is stable:
\* families of one time keep the order in which they first came up.
projectEarnedBadges(events) ==
  LET families == UNION {FamilyOf(events[i]) : i \in DOMAIN events}
      first(f)  == CHOOSE i \in DOMAIN events :
        f \in FamilyOf(events[i]) /\ \A j \in 1 .. i - 1 : f \notin FamilyOf(events[j])
      issued(f) == Kept(events, f).issued_at
      earlier(f, g) ==
        issued(f) < issued(g) \/ (issued(f) = issued(g) /\ first(f) < first(g))
      order     == Sorted(families, earlier)
  IN  [i \in DOMAIN order |-> Kept(events, order[i])]
=============================================================================
