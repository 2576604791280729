------------------------ MODULE EventStoreRefinement ------------------------
(***************************************************************************)
(* The postgres append implements the abstract event log.  An append is    *)
(* "refused" from the moment its snapshot shows another tip, and takes     *)
(* effect when COMMIT does.                                                *)
(***************************************************************************)
EXTENDS EventStore

\* The events of a partition in the order of their sequence.
StoredLog(p) ==
  [i \in 1..Cardinality(RowsOf(p)) |->
     (CHOOSE r \in RowsOf(p) : r.monotonic_sequence = i).event_id]

LogPhase(w) ==
  CASE pc[w] \in {"idle", "getTip"} -> "idle"
    [] pc[w] \in {"lock", "lookup"} /\ ~CasHolds(w) -> "refused"
    [] OTHER -> "open"

LogAnswer(w) ==
  IF outcome[w].tag \in {"Appended", "CASFailed", "DuplicateEvent"}
  THEN outcome[w].tag ELSE "none"

LogRequest(w) ==
  [event |-> IF LogPhase(w) = "idle" THEN None ELSE call[w].event,
   partition |-> IF LogPhase(w) = "idle" THEN None ELSE call[w].partition,
   expected |-> IF LogPhase(w) = "idle" THEN None ELSE call[w].expected]

Promise == INSTANCE EventLog WITH
  log <- [p \in Partition |-> StoredLog(p)],
  request <- [w \in Worker |-> LogRequest(w)],
  phase <- [w \in Worker |-> LogPhase(w)],
  answer <- [w \in Worker |-> LogAnswer(w)]

\* Whatever the workers interleave, retry and lose, each append happens
\* atomically or not at all, and a definite answer is true of the moment at
\* which it was decided.
ImplementsPromise == Promise!LogSpec
=============================================================================
