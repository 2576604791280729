---------------------------- MODULE MCCompletion ----------------------------
(* Instances of Completion for TLC. *)
EXTENDS Completion, TLC

CONSTANTS c1, c2, c3, c4, p1, r1, r2

Given(event, reward) == [event |-> event, reward |-> reward, partition |-> p1, recipient |-> r1]

Resource(kind) == [kind |-> kind, tag |-> "Resource", amount |-> 2]

Short == [cores |-> "common", crystals |-> "legendary"]

\* A resource under its short name, a resource of a kind no tier is known for, a badge
\* whose delivery is deferred, and a completion that is its own reward, in one partition.
OneOfEach ==
  {Given(c1, Resource("crystals")), Given(c2, [tag |-> "BadgeMint"]),
   Given(c3, [tag |-> "None"]), Given(c4, Resource("gems"))}

\* A deferred completion, and another one in the same partition.
DeferredAndNone == {i \in OneOfEach : i.reward.tag # "Resource"}

\* No step looks at what the last calls have returned.
ButOutcome == <<store, bindings, credits, pc, call, address, moved, wrote, faults>>

Interchangeable == Permutations(Worker) \union Permutations(Address)
=============================================================================
