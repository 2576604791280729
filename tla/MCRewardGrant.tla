--------------------------- MODULE MCRewardGrant ---------------------------
(* Instances of RewardGrant for TLC.                                       *)
EXTENDS RewardRefinement, TLC

CONSTANTS p1, p2, c1, c2, r1, r2

\* One caller in each of two processes.
TwoProcesses == c1 :> p1 @@ c2 :> p2

\* Injected grant failures: a transient one of r1.
TransientOfR1 == {[recipient |-> r1, retryable |-> TRUE]}
=============================================================================
