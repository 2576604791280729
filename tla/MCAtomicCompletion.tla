------------------------- MODULE MCAtomicCompletion -------------------------
(* AtomicCompletion with small sets of completions.                        *)
EXTENDS AtomicCompletion, TLC

CONSTANTS w1, w2, e1, e2, o1, p1, p2, r1, r2, k1

\* Two completions of one user in one partition; the first event claimed by a second
\* recipient; and the second event in another partition, spending, or under the
\* host's coarse key, which the first may use as well.
Contended ==
  {[event |-> e1, partition |-> p1, recipient |-> r1, amount |-> "gain", key |-> e1],
   [event |-> e1, partition |-> p1, recipient |-> r2, amount |-> "gain", key |-> e1],
   [event |-> e1, partition |-> p1, recipient |-> r1, amount |-> "gain", key |-> k1],
   [event |-> e2, partition |-> p1, recipient |-> r1, amount |-> "zero", key |-> e2],
   [event |-> e2, partition |-> p2, recipient |-> r1, amount |-> "spend", key |-> e2],
   [event |-> e2, partition |-> p2, recipient |-> r1, amount |-> "gain", key |-> k1]}

\* Workers of one handle are told apart by nothing but equality.
Interchangeable == Permutations(Worker \ OptedOut)
=============================================================================
