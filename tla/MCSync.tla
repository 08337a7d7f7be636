------------------------------- MODULE MCSync -------------------------------
(* A small instance of Sync. *)
EXTENDS Sync
CONSTANTS c1, c2, x1, a1, f1

\* The alarm belongs to the second client, the counter and the fence to the first.
TwoOwners == [id \in Counter \cup Alarm \cup Fence |-> IF id = a1 THEN c2 ELSE c1]
FewMasks == {{"counter", "wait"}, {"events"}}
SomeTypes == {"positive_comparison", "negative_transition"}
=============================================================================
