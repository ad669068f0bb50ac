------------------------ MODULE NamespaceReservation ------------------------
(***************************************************************************)
(* Resource reservations in one namespace, which every node of the network *)
(* keeps a record of (simaas/nodedb/default.py and protocol.py). A node    *)
(* reserves for a job at every node in turn, itself included, and asks the *)
(* others by P2P requests, which their p2p loops serve one at a time. A    *)
(* request nobody waits for any more stays queued at its receiver, and the *)
(* ROUTER socket takes turns among connections: requests are served in any *)
(* order. Budget updates are broadcast like that too; a node that joins    *)
(* exchanges records with every other node and both are overwritten.       *)
(***************************************************************************)
EXTENDS Naturals, FiniteSets

CONSTANTS
    Node, NoNode,
    Job,            \* the jobs that may be submitted to run in the namespace
    Resource,       \* vcpus, memory
    Home,           \* [Job -> the node the job is submitted to]
    Demand,         \* [Job -> [Resource -> what the job needs]]
    Budget,         \* [Resource -> the budget of the namespace, known to all nodes at first]
    UpdateBy,       \* the nodes whose users change the budget, once each
    NewBudget,      \* [UpdateBy -> the new budget]
    JoinBy,         \* the nodes that join again, once each
    MayTimeOut,     \* a request may take longer than the 5 s it is waited for
    MayLose         \* a request or its answer may be lost

ASSUME NodeAssumption ==
    /\ NoNode \notin Node /\ IsFiniteSet(Node)
    /\ Home \in [Job -> Node]
    /\ UpdateBy \subseteq Node /\ JoinBy \subseteq Node
    /\ MayTimeOut \in BOOLEAN /\ MayLose \in BOOLEAN

ASSUME ResourceAssumption ==
    /\ IsFiniteSet(Job)
    /\ Demand \in [Job -> [Resource -> Nat]]
    /\ Budget \in [Resource -> Nat]
    /\ NewBudget \in [UpdateBy -> [Resource -> Nat]]

VARIABLES
    budget,     \* [Node -> the budget on record]
    resv,       \* [Node -> the jobs with a reservation on record]
    op,         \* [Job -> its reservation, as its home node goes about it]
    upd,        \* [Node -> the broadcast of a budget]
    jn,         \* [Node -> the exchange of records with all others]
    queue       \* P2P requests and answers under way or waiting to be served

dbVars == <<budget, resv>>
vars   == <<dbVars, op, upd, jn, queue>>

Phase   == {"new", "reserving", "undoing", "held", "refused", "releasing", "released"}
Kind    == {"reserve", "cancel", "update", "join", "joined", "reply"}
Message == {m \in [kind : Kind, of : Job \cup Node, to : Node, budget : [Resource -> Nat], resv : SUBSET Job] :
               m.of \in IF m.kind \in {"reserve", "cancel"} THEN Job ELSE Node}
OpRecord == [phase : Phase, todo : SUBSET Node, at : Node \cup {NoNode}, loop : {"rest", "p2p"}]
Visit == [phase : {"new", "visiting", "done"}, todo : SUBSET Node, at : Node \cup {NoNode}]

\* A single type invariant: what each variable ranges over.
TypeOK ==
    /\ budget \in [Node -> [Resource -> Nat]]
    /\ resv \in [Node -> SUBSET Job]
    /\ op \in [Job -> OpRecord]
    /\ upd \in [Node -> Visit] /\ jn \in [Node -> Visit]
    /\ queue \subseteq Message

Init ==
    /\ budget = [n \in Node |-> Budget]
    /\ resv = [n \in Node |-> {}]
    /\ op = [j \in Job |-> [phase |-> "new", todo |-> {}, at |-> NoNode, loop |-> "rest"]]
    /\ upd = [n \in Node |-> [phase |-> "new", todo |-> {}, at |-> NoNode]]
    /\ jn = [n \in Node |-> [phase |-> "new", todo |-> {}, at |-> NoNode]]
    /\ queue = {}

----------------------------------------------------------------------------
\* The records

\* The units of r the jobs of S need together, one pair per unit: a sum as a cardinality.
Units(S, r) == UNION {{j} \X (1..Demand[j][r]) : j \in S}
Used(S, r)  == Cardinality(Units(S, r))

\* Fault: a reservation is granted when any resource suffices.
FitsAny(n, j) == \E r \in Resource : Used(resv[n], r) + Demand[j][r] <= budget[n][r]

\* handle_namespace_reservation: what is left of every resource suffices. A reservation the
\* job has already counts as well.
Fits(n, j) == \A r \in Resource : Used(resv[n], r) + Demand[j][r] <= budget[n][r]

\* Fault: a reservation is recorded under the node that asked.
KeepsNode(n, j) == resv' = [resv EXCEPT ![n] = @ \cup {Home[j]}]

Keep(n, j) == resv' = [resv EXCEPT ![n] = @ \cup {j}]

Drop(n, j) == resv' = [resv EXCEPT ![n] = @ \ {j}]

----------------------------------------------------------------------------
\* Reserving and cancelling, at the home node of a job

\* The p2p loop of a node serves nothing while its handler of a terminal status waits for
\* cancellations, or answers a node that joined.
Busy(n) ==
    \/ \E j \in Job : Home[j] = n /\ op[j].phase = "releasing" /\ op[j].loop = "p2p"
    \/ \E m \in queue : m.kind = "joined" /\ m.to = n

Done(phase) ==
    CASE phase = "reserving" -> "held"
      [] phase = "undoing"   -> "refused"
      [] phase = "releasing" -> "released"
      [] OTHER -> phase

\* a node is done with: the next one follows, or after a refusal all are asked to cancel
Proceed(j, todo, accepted) ==
    op' = [op EXCEPT ![j] =
              [phase |-> IF ~accepted THEN "undoing" ELSE IF todo = {} THEN Done(op[j].phase) ELSE op[j].phase,
               todo  |-> IF accepted THEN todo ELSE Node,
               at    |-> NoNode,
               loop  |-> op[j].loop]]

\* a task whose demand no budget could meet is refused before anything is reserved
Submit(j) ==
    /\ op[j].phase = "new"
    /\ \A r \in Resource : Demand[j][r] <= budget[Home[j]][r]
    /\ op' = [op EXCEPT ![j] = [@ EXCEPT !.phase = "reserving", !.todo = Node]]
    /\ UNCHANGED <<dbVars, upd, jn, queue>>

\* Fault: only the local record of a reservation is deleted.
ReleasesHome(j, loop) ==
    /\ op[j].phase = "held"
    /\ loop = "p2p" => ~Busy(Home[j])
    /\ op' = [op EXCEPT ![j] = [phase |-> "releasing", todo |-> {Home[j]}, at |-> NoNode, loop |-> loop]]
    /\ UNCHANGED <<dbVars, upd, jn, queue>>

\* The reservation is not needed any more: the submission failed ("rest") or the job has
\* ended, which the p2p loop is told by the runner.
Release(j, loop) ==
    /\ op[j].phase = "held"
    /\ loop = "p2p" => ~Busy(Home[j])
    /\ op' = [op EXCEPT ![j] = [phase |-> "releasing", todo |-> Node, at |-> NoNode, loop |-> loop]]
    /\ UNCHANGED <<dbVars, upd, jn, queue>>

ReserveHere(j) ==
    /\ op[j].phase = "reserving" /\ op[j].at = NoNode /\ Home[j] \in op[j].todo
    /\ IF Fits(Home[j], j)
       THEN Keep(Home[j], j) /\ Proceed(j, op[j].todo \ {Home[j]}, TRUE)
       ELSE UNCHANGED resv /\ Proceed(j, {}, FALSE)
    /\ UNCHANGED <<budget, upd, jn, queue>>

CancelHere(j) ==
    /\ op[j].phase \in {"undoing", "releasing"} /\ op[j].at = NoNode /\ Home[j] \in op[j].todo
    /\ Drop(Home[j], j)
    /\ Proceed(j, op[j].todo \ {Home[j]}, TRUE)
    /\ UNCHANGED <<budget, upd, jn, queue>>

\* somebody who visits nodes in turn waits for n
GoTo(v, n) == [v EXCEPT !.todo = @ \ {n}, !.at = n]

Plain(kind, of, n) == [kind |-> kind, of |-> of, to |-> n, budget |-> Budget, resv |-> {}]

\* a peer is asked; when a reservation is released the home node comes first
Ask(j, n) ==
    /\ op[j].phase \in {"reserving", "undoing", "releasing"} /\ op[j].at = NoNode
    /\ n \in op[j].todo \ {Home[j]}
    /\ op[j].phase = "releasing" => Home[j] \notin op[j].todo
    /\ queue' = queue \cup {Plain(IF op[j].phase = "reserving" THEN "reserve" ELSE "cancel", j, n)}
    /\ op' = [op EXCEPT ![j] = GoTo(@, n)]
    /\ UNCHANGED <<dbVars, upd, jn>>

\* Fault: a peer that did not answer in time counts as a grant.
TimeOutGrants(j) ==
    /\ MayTimeOut /\ op[j].at # NoNode
    /\ Proceed(j, op[j].todo, TRUE)
    /\ UNCHANGED <<dbVars, upd, jn, queue>>

\* Fault: the cancellations of a release wait for ever.
WaitsForCancel(j) ==
    /\ MayTimeOut /\ op[j].at # NoNode /\ op[j].phase = "reserving"
    /\ Proceed(j, op[j].todo, FALSE)
    /\ UNCHANGED <<dbVars, upd, jn, queue>>

\* NetworkError: a peer that did not answer in time counts as a refusal
TimeOut(j) ==
    /\ MayTimeOut /\ op[j].at # NoNode
    /\ Proceed(j, op[j].todo, op[j].phase # "reserving")
    /\ UNCHANGED <<dbVars, upd, jn, queue>>

----------------------------------------------------------------------------
\* Requests of peers, on the p2p loop of their receiver

\* somebody waits for the answer to m
Awaited(m) ==
    LET o == op[m.of] IN
    o.at = m.to /\ o.phase \in IF m.kind = "reserve" THEN {"reserving"} ELSE {"undoing", "releasing"}

Answer(m, accepted) ==
    \/ Awaited(m) /\ Proceed(m.of, op[m.of].todo, accepted)
    \/ (MayLose \/ ~Awaited(m)) /\ UNCHANGED op

Take(m, kind) == m \in queue /\ m.kind = kind /\ ~Busy(m.to) /\ queue' = queue \ {m}

ServeReserve(m) ==
    /\ Take(m, "reserve")
    /\ IF Fits(m.to, m.of)
       THEN Keep(m.to, m.of) /\ Answer(m, TRUE)
       ELSE UNCHANGED resv /\ Answer(m, FALSE)
    /\ UNCHANGED <<budget, upd, jn>>

ServeCancel(m) ==
    /\ Take(m, "cancel")
    /\ Drop(m.to, m.of)
    /\ Answer(m, TRUE)
    /\ UNCHANGED <<budget, upd, jn>>

\* lost on the way, or never answered
Lose(m) == MayLose /\ m \in queue /\ m.kind # "joined" /\ queue' = queue \ {m} /\ UNCHANGED <<dbVars, op, upd, jn>>

----------------------------------------------------------------------------
\* update_namespace_budget

\* Fault: a broadcast ends with the first peer.
AfterFirst(v, n) == [v EXCEPT ![n] = [phase |-> "done", todo |-> {}, at |-> NoNode]]

After(v, n) ==
    [v EXCEPT ![n] = [phase |-> IF v[n].todo = {} THEN "done" ELSE "visiting", todo |-> v[n].todo, at |-> NoNode]]

UpdateHere(n) ==
    /\ n \in UpdateBy /\ upd[n].phase = "new"
    /\ budget' = [budget EXCEPT ![n] = NewBudget[n]]
    /\ upd' = [upd EXCEPT ![n] = [phase |-> "visiting", todo |-> Node \ {n}, at |-> NoNode]]
    /\ UNCHANGED <<resv, op, jn, queue>>

UpdatePeer(n, p) ==
    /\ n \in UpdateBy /\ upd[n].phase = "visiting" /\ upd[n].at = NoNode /\ p \in upd[n].todo
    /\ queue' = queue \cup {[Plain("update", n, p) EXCEPT !.budget = NewBudget[n]]}
    /\ upd' = [upd EXCEPT ![n] = GoTo(@, p)]
    /\ UNCHANGED <<dbVars, op, jn>>

ServeUpdate(m) ==
    /\ Take(m, "update")
    /\ budget' = [budget EXCEPT ![m.to] = m.budget]
    /\ \/ upd[m.of].at = m.to /\ upd' = After(upd, m.of)
       \/ (MayLose \/ upd[m.of].at # m.to) /\ UNCHANGED upd
    /\ UNCHANGED <<resv, op, jn>>

UpdateTimeOut(n) ==
    /\ MayTimeOut /\ upd[n].at # NoNode
    /\ upd' = After(upd, n)
    /\ UNCHANGED <<dbVars, op, jn, queue>>

----------------------------------------------------------------------------
\* P2PJoinNetwork

JoinStart(n) ==
    /\ n \in JoinBy /\ jn[n].phase = "new"
    /\ jn' = [jn EXCEPT ![n] = [phase |-> "visiting", todo |-> Node \ {n}, at |-> NoNode]]
    /\ UNCHANGED <<dbVars, op, upd, queue>>

\* the snapshot is taken and sent
JoinPeer(n, p) ==
    /\ jn[n].phase = "visiting" /\ jn[n].at = NoNode /\ p \in jn[n].todo
    /\ queue' = queue \cup {[kind |-> "join", of |-> n, to |-> p, budget |-> budget[n], resv |-> resv[n]]}
    /\ jn' = [jn EXCEPT ![n] = GoTo(@, p)]
    /\ UNCHANGED <<dbVars, op, upd>>

\* Fault: the reservations of a snapshot are added to those on record.
Merge(n, m) ==
    /\ budget' = [budget EXCEPT ![n] = m.budget]
    /\ resv' = [resv EXCEPT ![n] = @ \cup m.resv]

\* handle_namespace_snapshot: the record is overwritten, whatever it holds
Overwrite(n, m) ==
    /\ budget' = [budget EXCEPT ![n] = m.budget]
    /\ resv' = [resv EXCEPT ![n] = m.resv]

ServeJoin(m) ==
    /\ m \in queue /\ m.kind = "join" /\ ~Busy(m.to)
    /\ Overwrite(m.to, m)
    /\ queue' = (queue \ {m}) \cup {[m EXCEPT !.kind = "joined"]}
    /\ UNCHANGED <<op, upd, jn>>

\* then a snapshot of the receiver answers
JoinAnswer(m) ==
    /\ m \in queue /\ m.kind = "joined"
    /\ queue' = (queue \ {m}) \cup
                 {[kind |-> "reply", of |-> m.to, to |-> m.of, budget |-> budget[m.to], resv |-> resv[m.to]]}
    /\ UNCHANGED <<dbVars, op, upd, jn>>

\* which overwrites the record of the node that joins, unless it stopped waiting
JoinReply(m) ==
    /\ m \in queue /\ m.kind = "reply"
    /\ queue' = queue \ {m}
    /\ IF jn[m.to].at = m.of
       THEN Overwrite(m.to, m) /\ jn' = After(jn, m.to)
       ELSE UNCHANGED <<dbVars, jn>>
    /\ UNCHANGED <<op, upd>>

JoinTimeOut(n) ==
    /\ MayTimeOut /\ jn[n].at # NoNode
    /\ jn' = After(jn, n)
    /\ UNCHANGED <<dbVars, op, upd, queue>>

----------------------------------------------------------------------------
Reservation(j) ==
    \/ ReserveHere(j) \/ CancelHere(j) \/ TimeOut(j)
    \/ \E n \in Node : Ask(j, n)

Budgeting(n) == UpdateHere(n) \/ UpdateTimeOut(n) \/ \E p \in Node : UpdatePeer(n, p)

Joining(n) == JoinStart(n) \/ JoinTimeOut(n) \/ \E p \in Node : JoinPeer(n, p)

Serve(m) ==
    ServeReserve(m) \/ ServeCancel(m) \/ ServeUpdate(m) \/ ServeJoin(m) \/ JoinAnswer(m) \/ JoinReply(m)

Next ==
    \/ \E j \in Job : Submit(j) \/ Reservation(j) \/ \E loop \in {"rest", "p2p"} : Release(j, loop)
    \/ \E n \in Node : Budgeting(n) \/ Joining(n)
    \/ \E m \in queue : Serve(m) \/ Lose(m)

Spec == Init /\ [][Next]_vars

\* The coroutine of a reservation gets its turn, and the timer of a request runs out.
FairSpec == Spec /\ \A j \in Job : WF_vars(Reservation(j))

----------------------------------------------------------------------------
\* Properties

\* No node ever has more reserved than the budget on its record, whatever is retried, late,
\* lost or overwritten by a join, as long as no user changes the budget (handle_namespace_*).
NoOvercommit == \A n \in Node, r \in Resource : Used(resv[n], r) <= budget[n][r]

\* A granted job is on the record of every node: each of them counts it (reserve_namespace_resources).
HeldEverywhere == \A j \in Job : op[j].phase = "held" => \A n \in Node : j \in resv[n]

\* Together the nodes grant what one ledger would (reserve and cancel_namespace_reservation).
Ledger == INSTANCE NamespaceLedger WITH held <- {j \in Job : op[j].phase = "held"}
LedgerSpec == Ledger!Spec

Queued(j) == \E m \in queue : m.kind \in {"reserve", "cancel"} /\ m.of = j

\* A released job is on no record once its cancellations arrived, late or not.
ReleasedLeavesNothing ==
    \A j \in Job : op[j].phase = "released" /\ ~Queued(j) => \A n \in Node : j \notin resv[n]

\* "update the namespace on node1 -> all nodes should know about the new budget" (test_nodedb):
\* nodes agree when the broadcast of one update is over, however late its requests were served.
BudgetsAgree ==
    (\A n \in Node : upd[n].phase # "visiting") /\ (\A m \in queue : m.kind # "update") =>
        \A n, p \in Node : budget[n] = budget[p]

\* Every reservation is decided, and every release ends, even if two nodes that release wait
\* for each other's p2p loop.
Decided == \A j \in Job :
    /\ op[j].phase = "reserving" ~> op[j].phase \in {"held", "refused"}
    /\ op[j].phase = "releasing" ~> op[j].phase = "released"

----------------------------------------------------------------------------
\* What comments and tests say and the code does not do

\* "if there was a problem at any point of the reservation process, cancel all reservations":
\* a refused job is on no record once its cancellations arrived.
RefusedLeavesNothing ==
    \A j \in Job : op[j].phase = "refused" /\ ~Queued(j) => \A n \in Node : j \notin resv[n]
=============================================================================
