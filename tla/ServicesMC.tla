------------------------------ MODULE ServicesMC ------------------------------
(* The instance of Services for TLC. *)
EXTENDS Services, TLC

CONSTANTS n1, n2, n3, a1, a2, a3, m1, m2, m3

Addresses == (n1 :> {a1}) @@ (n2 :> {a2}) @@ (n3 :> {a3, a1})

\* one request without attachments, one with two chunks, one for a protocol that is unknown
Chunked == [fetch |-> 0, push |-> 2, old |-> 0]

\* two processors that share their image
Shared == [p |-> "m", q |-> "m"]

Resources(v, m) == [vcpus |-> v, memory |-> m]
Task(u, n, p, s, b, io) ==
    [user |-> u, name |-> n, proc |-> p, namespace |-> s,
     given |-> b # Resources(0, 0), budget |-> b, io |-> io]
CheckedTasks ==
    {Task("u", "x", "p", "none", Resources(0, 0), TRUE), Task("u", "y", "p", "ns", Resources(1, 1), TRUE),
     Task("u", "z", "q", "ns", Resources(1, 0), TRUE), Task("u", "none", "p", "ns", Resources(2, 1), TRUE),
     Task("u", "w", "p", "ms", Resources(1, 1), TRUE), Task("v", "x", "p", "ns", Resources(0, 0), TRUE),
     Task("u", "y", "r", "ms", Resources(0, 1), FALSE), Task("u", "v", "p", "other", Resources(1, 1), TRUE)}
UpToThree == UNION {[1..n -> CheckedTasks] : n \in 1..3}
TwoBudgets == {Resources(2, 1), Resources(1, 2)}
================================================================================
