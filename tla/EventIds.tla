------------------------------ MODULE EventIds ------------------------------
(***************************************************************************)
(* Event ids: computeEventId of packages/protocol/src/events.  An event is *)
(* a record; its id is the hash of a canonical form of its fields, and two *)
(* events have the same id just when these agree.  So the fields           *)
(* themselves stand for the id.                                            *)
(***************************************************************************)
EXTENDS Functions

CONSTANT None

\* The kinds, as they are found in the $id of an event.
MUTATING_EVENT_FRAGMENTS ==
  {"activity-completed", "badge-issued", "raffle-drawn", "progress-advanced", "reward-pending"}

isMutatingEvent(event) == event.kind \in MUTATING_EVENT_FRAGMENTS

\* The id is no part of what it is computed from.
extractPreimage(event) == Restrict(event, DOMAIN event \ {"event_id"})

\* None stands for NonceRequired.
computeEventId(event) ==
  IF event.nonce = None /\ isMutatingEvent(event) THEN None ELSE extractPreimage(event)
=============================================================================
