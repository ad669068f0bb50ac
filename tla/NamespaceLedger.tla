-------------------------- MODULE NamespaceLedger --------------------------
(***************************************************************************)
(* What a namespace promises its users (simaas/nodedb/api.py): the jobs    *)
(* that were granted their resources never need more than the budget, as   *)
(* if one ledger granted and took back all of them.                        *)
(***************************************************************************)
EXTENDS Naturals, FiniteSets

CONSTANTS Job, Resource, Demand, Budget

VARIABLE held

\* The units of r the jobs of S need together, one pair per unit: a sum as a cardinality.
Units(S, r) == UNION {{j} \X (1..Demand[j][r]) : j \in S}
Used(S, r)  == Cardinality(Units(S, r))

Init == held = {}

Acquire(j) ==
    /\ j \notin held
    /\ \A r \in Resource : Used(held \cup {j}, r) <= Budget[r]
    /\ held' = held \cup {j}

Release(j) == j \in held /\ held' = held \ {j}

Next == \E j \in Job : Acquire(j) \/ Release(j)

Spec == Init /\ [][Next]_held
=============================================================================
