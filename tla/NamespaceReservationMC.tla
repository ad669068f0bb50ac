----------------------- MODULE NamespaceReservationMC -----------------------
(* Instances of NamespaceReservation for TLC. *)
EXTENDS NamespaceReservation, TLC

CONSTANTS n1, n2, n3, j1, j2

TwoNodes == {n1, n2}
ThreeNodes == {n1, n2, n3}
Jobs == {j1, j2}
OneJob == {j2}
Nowhere == {}
First == {n1}
Both == {n1, n2}

Resources == {"vcpus", "memory"}
HomeOf == (j1 :> n1) @@ (j2 :> n2)
\* either job fits, both exceed the memory
Tight == (j1 :> [vcpus |-> 1, memory |-> 2]) @@ (j2 :> [vcpus |-> 1, memory |-> 1])
Small == [vcpus |-> 2, memory |-> 2]
Large == [vcpus |-> 2, memory |-> 3]
\* the job of the run with an update, whose home is another node than the one that updates
HomeOfOne == j2 :> n2
One == j2 :> [vcpus |-> 1, memory |-> 1]
Unchanged == [n \in {} |-> Small]
Lowered == n1 :> [vcpus |-> 2, memory |-> 1]
=============================================================================
