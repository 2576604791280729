-------------------------- MODULE ProgressPromise --------------------------
(***************************************************************************)
(* The progress port as its callers see it: advanceProgress() of the       *)
(* in-memory reference adapter                                             *)
(* (packages/adapters/src/in-memory/progress.ts), applied in one atomic    *)
(* step somewhere between the call and the answer.  The look at the stored *)
(* version and the store.set of the reference run without an await between *)
(* them.                                                                   *)
(*                                                                         *)
(* A store that is reached over a network may lose the answer of an        *)
(* advance that took effect, and may know the version it refuses with      *)
(* from an earlier moment than the answer's.                               *)
(***************************************************************************)
EXTENDS Naturals, Sequences

CONSTANTS Worker, Event, Key, Unknown, None, MaxVersion

VARIABLES
  store,   \* the record of each key
  busy,    \* the worker waits for an answer
  request, \* the event of its current (or last) call
  result   \* its last answer

promiseVars == <<store, busy, request, result>>

\* The baseline getProgress answers with when there is no record.
NotStarted == [version |-> 0, steps_completed |-> <<>>]

ProgressAdvanced == [event : Event, key : Key, version_before : 0 .. MaxVersion]

Answered(w, tag, version) ==
  /\ busy' = [busy EXCEPT ![w] = FALSE]
  /\ result' = [result EXCEPT ![w] = [tag |-> tag, version |-> version]]
  /\ UNCHANGED request

-----------------------------------------------------------------------------

Invoke(w) ==
  /\ ~busy[w] /\ busy' = [busy EXCEPT ![w] = TRUE]
  /\ \E c \in ProgressAdvanced :
       c.key \notin Unknown /\ request' = [request EXCEPT ![w] = c]
  /\ UNCHANGED <<store, result>>

\* The activity or the identity is not known.
NotFound(w) ==
  /\ ~busy[w]
  /\ \E c \in ProgressAdvanced :
       c.key \in Unknown /\ request' = [request EXCEPT ![w] = c]
  /\ result' = [result EXCEPT ![w] = [tag |-> "NotFound", version |-> 0]]
  /\ UNCHANGED <<store, busy>>

\* mergedCompletions.
nextRecord(r) ==
  [version |-> r.version_before + 1,
   steps_completed |-> Append(store[r.key].steps_completed, r.event)]

\* The advance takes effect, of the version it names and no other.
Advance(w) ==
  /\ busy[w]
  /\ request[w].version_before = store[request[w].key].version
  /\ store' = [store EXCEPT ![request[w].key] = nextRecord(request[w])]
  /\ \E tag \in {"Advanced", "AdapterUnavailable", "lost"} : Answered(w, tag, 0)

\* The record has another version than the one named.
ConcurrentUpdate(w) ==
  /\ busy[w]
  /\ \E v \in 0 .. store[request[w].key].version :
       v # request[w].version_before /\ Answered(w, "ConcurrentUpdate", v)
  /\ UNCHANGED store

Unavailable(w) ==
  /\ busy[w]
  /\ \E tag \in {"AdapterUnavailable", "lost"} : Answered(w, tag, 0)
  /\ UNCHANGED store

PromiseInit ==
  /\ store = [k \in Key |-> NotStarted]
  /\ busy = [w \in Worker |-> FALSE]
  /\ request = [w \in Worker |-> [event |-> None, key |-> None, version_before |-> 0]]
  /\ result = [w \in Worker |-> [tag |-> "none", version |-> 0]]

PromiseNext == \E w \in Worker :
  Invoke(w) \/ NotFound(w) \/ Advance(w) \/ ConcurrentUpdate(w) \/ Unavailable(w)

PromiseSpec == PromiseInit /\ [][PromiseNext]_promiseVars
=============================================================================
