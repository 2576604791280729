-------------------------- MODULE RewardRefinement --------------------------
(***************************************************************************)
(* retryGrant over the postgres reward port implements the reference port. *)
(* A grant takes effect when its INSERT does.                              *)
(***************************************************************************)
EXTENDS RewardGrant

Promise == INSTANCE RewardPromise WITH
  grants <- reward_grants,
  busy <- [c \in Caller |-> pc[c] # "idle"],
  request <- call,
  result <- outcome

\* CL-Reward-2 (D18), whatever the callers interleave, retry and lose: an (event,
\* recipient) tuple is granted once, in one step, and a record that is returned is
\* that grant.
ImplementsPromise == Promise!PromiseSpec
=============================================================================
