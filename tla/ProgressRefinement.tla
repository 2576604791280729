------------------------ MODULE ProgressRefinement ------------------------
(***************************************************************************)
(* The postgres progress port implements the reference one.  An advance    *)
(* takes effect when its transaction commits.                              *)
(***************************************************************************)
EXTENDS Progress

Promise == INSTANCE ProgressPromise WITH
  store <- records,
  busy <- [w \in Worker |-> pc[w] # "idle"],
  request <- call,
  result <- outcome

\* CL-Progress-1, whatever the transactions interleave, retry and lose: a record only
\* moves from the version its caller named, by the caller's own step, in one step;
\* and a conflict is answered only for a version the record has had and the caller
\* did not name.
ImplementsPromise == Promise!PromiseSpec
=============================================================================
