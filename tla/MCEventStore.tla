---------------------------- MODULE MCEventStore ----------------------------
(* Instances of EventStore and of its refinement for TLC. *)
EXTENDS EventStoreRefinement, TLC

\* Workers, admissible events and partitions in scope are told apart by nothing
\* but equality.
Interchangeable ==
  Permutations(Worker)
    \union Permutations(Event \ (Forged \union Nonceless))
    \union Permutations(Partition \ OutOfScope)
=============================================================================
