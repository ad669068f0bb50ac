-------------------- MODULE NamespaceReservation_proofs --------------------
(* Proofs about NamespaceReservation: its types, that no node overcommits, *)
(* that what is granted is on every record, as in one ledger, and what is  *)
(* released on none, and that nodes agree on the budget.                   *)
EXTENDS NamespaceReservation, FiniteSetTheorems, TLAPS

\* The library's fact about intervals, from 1.
LEMMA UpTo == ASSUME NEW n \in Nat PROVE IsFiniteSet(1..n) /\ Cardinality(1..n) = n
<1>1. 1 \in Int /\ n \in Int
  OBVIOUS
<1>2. /\ IsFiniteSet(1..n)
      /\ Cardinality(1..n) = IF 1 > n THEN 0 ELSE n - 1 + 1
  BY <1>1, FS_Interval, Zenon
<1> QED
  BY <1>2, SMT

\* A set of jobs needs finitely many units, so Used counts them.
LEMMA UnitsFinite ==
    ASSUME NEW S \in SUBSET Job, NEW r \in Resource
    PROVE  IsFiniteSet(Units(S, r)) /\ Used(S, r) \in Nat
<1> DEFINE T == {{j} \X (1..Demand[j][r]) : j \in S}
           f == [j \in S |-> {j} \X (1..Demand[j][r])]
<1>1. IsFiniteSet(S)
  BY ResourceAssumption, FS_Subset
<1>2. f \in Surjection(S, T)
  BY DEF Surjection
<1>3. IsFiniteSet(T)
  BY <1>1, <1>2, FS_Surjection
<1>4. ASSUME NEW U \in T PROVE IsFiniteSet(U)
  <2>1. PICK j \in S : U = {j} \X (1..Demand[j][r])
    OBVIOUS
  <2>2. IsFiniteSet({j}) /\ IsFiniteSet(1..Demand[j][r])
    <3>1. Demand[j][r] \in Nat
      BY ResourceAssumption
    <3> QED
      BY <3>1, FS_Singleton, UpTo
  <2>3. IsFiniteSet({j} \X (1..Demand[j][r]))
    BY <2>2, FS_Product
  <2> QED
    BY <2>1, <2>3
<1>5. IsFiniteSet(Units(S, r))
  BY <1>3, <1>4, FS_UNION DEF Units
<1> QED
  BY <1>5, FS_CardinalityType DEF Used

\* One more job adds at most its demand.
LEMMA UsedAdd ==
    ASSUME NEW S \in SUBSET Job, NEW j \in Job, NEW r \in Resource
    PROVE  Used(S \cup {j}, r) <= Used(S, r) + Demand[j][r]
<1> DEFINE U == {j} \X (1..Demand[j][r])
<1>1. Units(S \cup {j}, r) = Units(S, r) \cup U
  BY DEF Units
<1>2. IsFiniteSet({j}) /\ Cardinality({j}) = 1
  BY FS_Singleton
<1>3. Demand[j][r] \in Nat
  BY ResourceAssumption
<1>4. IsFiniteSet(1..Demand[j][r]) /\ Cardinality(1..Demand[j][r]) = Demand[j][r]
  BY <1>3, UpTo
<1>5. IsFiniteSet(U) /\ Cardinality(U) = Demand[j][r]
  <2>1. IsFiniteSet(U) /\ Cardinality(U) = Cardinality({j}) * Cardinality(1..Demand[j][r])
    BY <1>2, <1>4, FS_Product
  <2> QED
    BY <1>2, <1>3, <1>4, <2>1
<1>6. IsFiniteSet(Units(S, r)) /\ Used(S, r) \in Nat
  BY UnitsFinite
<1>7. IsFiniteSet(Units(S, r) \cap U) /\ Cardinality(Units(S, r) \cap U) \in Nat
  BY <1>6, FS_Intersection, FS_CardinalityType
<1>8. Cardinality(Units(S, r) \cup U) = Used(S, r) + Demand[j][r] - Cardinality(Units(S, r) \cap U)
  BY <1>5, <1>6, FS_Union DEF Used
<1>9. Used(S \cup {j}, r) = Used(S, r) + Demand[j][r] - Cardinality(Units(S, r) \cap U)
  BY <1>1, <1>8 DEF Used
<1> HIDE DEF U
<1> QED
  BY <1>3, <1>6, <1>7, <1>9

\* Fewer jobs need no more.
LEMMA UsedMonotone ==
    ASSUME NEW T \in SUBSET Job, NEW S \in SUBSET T, NEW r \in Resource
    PROVE  Used(S, r) <= Used(T, r)
<1>1. Units(S, r) \in SUBSET Units(T, r)
  BY DEF Units
<1> QED
  BY <1>1, UnitsFinite, FS_Subset DEF Used

\* Nobody needs nothing.
LEMMA UsedNone == ASSUME NEW r \in Resource PROVE Used({}, r) = 0
  BY FS_EmptySet DEF Used, Units

----------------------------------------------------------------------------
\* Types

\* A reservation that proceeds stays typed.
LEMMA ProceedType ==
    ASSUME TypeOK, NEW j \in Job, NEW todo \in SUBSET Node, NEW accepted \in BOOLEAN, Proceed(j, todo, accepted)
    PROVE  op' \in [Job -> OpRecord]
  BY DEF TypeOK, OpRecord, Proceed, Done, Phase

\* So does a visit of nodes.
LEMMA AfterType ==
    ASSUME NEW v \in [Node -> Visit], NEW n \in Node
    PROVE  After(v, n) \in [Node -> Visit]
  BY DEF After, Visit

\* An answer moves a job only that waits for it.
LEMMA AnswerType ==
    ASSUME TypeOK, NEW m \in queue, m.of \in Job, NEW accepted \in BOOLEAN, Answer(m, accepted)
    PROVE  op' \in [Job -> OpRecord]
<1>1. op[m.of].todo \in SUBSET Node
  BY DEF TypeOK, OpRecord
<1>2. CASE Proceed(m.of, op[m.of].todo, accepted)
  BY <1>1, <1>2, ProceedType
<1>3. CASE UNCHANGED op
  BY <1>3 DEF TypeOK
<1> QED
  BY <1>2, <1>3 DEF Answer

\* Recording or dropping a reservation keeps the type of the records.
LEMMA RecordType ==
    ASSUME TypeOK, NEW n \in Node, NEW j \in Job
    PROVE  (Keep(n, j) \/ Drop(n, j)) => resv' \in [Node -> SUBSET Job]
  BY DEF TypeOK, Keep, Drop

\* A request that carries no record is a message.
LEMMA PlainType ==
    ASSUME NEW kind \in Kind, NEW of \in IF kind \in {"reserve", "cancel"} THEN Job ELSE Node, NEW n \in Node
    PROVE  Plain(kind, of, n) \in Message
  BY ResourceAssumption DEF Plain, Message

\* Every step keeps the types.
LEMMA TypeStep ==
    ASSUME TypeOK, [Next]_vars PROVE TypeOK'
<1>1. ASSUME NEW j \in Job, Submit(j) PROVE TypeOK'
  <2>1. op[j] \in OpRecord
    BY DEF TypeOK
  <2>2. [op[j] EXCEPT !.phase = "reserving", !.todo = Node] \in OpRecord
    BY <2>1 DEF OpRecord, Phase
  <2>3. op' \in [Job -> OpRecord]
    BY <1>1, <2>2 DEF Submit, TypeOK
  <2> QED
    BY <1>1, <2>3 DEF Submit, TypeOK, dbVars
<1>2. ASSUME NEW j \in Job, ReserveHere(j) PROVE TypeOK'
  <2>1. Home[j] \in Node /\ op[j].todo \ {Home[j]} \in SUBSET Node /\ {} \in SUBSET Node
    BY NodeAssumption DEF TypeOK, OpRecord
  <2>2. op' \in [Job -> OpRecord]
    BY <1>2, <2>1, ProceedType DEF ReserveHere
  <2>3. resv' \in [Node -> SUBSET Job]
    BY <1>2, <2>1, RecordType DEF ReserveHere, TypeOK
  <2> QED
    BY <1>2, <2>2, <2>3 DEF ReserveHere, TypeOK
<1>3. ASSUME NEW j \in Job, CancelHere(j) PROVE TypeOK'
  BY <1>3, NodeAssumption, ResourceAssumption, ProceedType DEF CancelHere, Drop, TypeOK, OpRecord, Visit, dbVars
<1>4. ASSUME NEW j \in Job, TimeOut(j) PROVE TypeOK'
  BY <1>4, NodeAssumption, ResourceAssumption, ProceedType DEF TimeOut, TypeOK, OpRecord, Visit, dbVars
<1>5. ASSUME NEW j \in Job, NEW n \in Node, Ask(j, n) PROVE TypeOK'
  <2>1. op[j] \in OpRecord
    BY DEF TypeOK
  <2>2. GoTo(op[j], n) \in OpRecord
    BY <2>1 DEF OpRecord, GoTo
  <2>3. op' \in [Job -> OpRecord]
    BY <1>5, <2>2 DEF Ask, TypeOK
  <2>4. Plain("reserve", j, n) \in Message /\ Plain("cancel", j, n) \in Message
    BY PlainType DEF Kind
  <2>5. queue' \subseteq Message
    BY <1>5, <2>4 DEF Ask, TypeOK
  <2> QED
    BY <1>5, <2>3, <2>5 DEF Ask, TypeOK, dbVars
<1>6. ASSUME NEW j \in Job, NEW loop \in {"rest", "p2p"}, Release(j, loop) PROVE TypeOK'
  BY <1>6, NodeAssumption, ResourceAssumption DEF Release, Phase, TypeOK, OpRecord, Visit, dbVars
<1>7. ASSUME NEW n \in Node, UpdateHere(n) PROVE TypeOK'
  BY <1>7, NodeAssumption, ResourceAssumption DEF UpdateHere, TypeOK, OpRecord, Visit, dbVars
<1>8. ASSUME NEW n \in Node, UpdateTimeOut(n) PROVE TypeOK'
  BY <1>8, NodeAssumption, ResourceAssumption, AfterType DEF UpdateTimeOut, TypeOK, OpRecord, Visit, dbVars
<1>9. ASSUME NEW n \in Node, NEW p \in Node, UpdatePeer(n, p) PROVE TypeOK'
  <2>1. upd[n] \in Visit /\ n \in UpdateBy
    BY <1>9 DEF TypeOK, UpdatePeer
  <2>2. GoTo(upd[n], p) \in Visit
    BY <2>1 DEF Visit, GoTo
  <2>3. upd' \in [Node -> Visit]
    BY <1>9, <2>2 DEF UpdatePeer, TypeOK
  <2>4. [Plain("update", n, p) EXCEPT !.budget = NewBudget[n]] \in Message
    BY <2>1, ResourceAssumption DEF Plain, Kind, Message
  <2>5. queue' \subseteq Message
    BY <1>9, <2>4 DEF UpdatePeer, TypeOK
  <2> QED
    BY <1>9, <2>3, <2>5 DEF UpdatePeer, TypeOK, dbVars
<1>10. ASSUME NEW n \in Node, JoinStart(n) PROVE TypeOK'
  BY <1>10, NodeAssumption, ResourceAssumption DEF JoinStart, TypeOK, OpRecord, Visit, dbVars
<1>11. ASSUME NEW n \in Node, JoinTimeOut(n) PROVE TypeOK'
  BY <1>11, NodeAssumption, ResourceAssumption, AfterType DEF JoinTimeOut, TypeOK, OpRecord, Visit, dbVars
<1>12. ASSUME NEW n \in Node, NEW p \in Node, JoinPeer(n, p) PROVE TypeOK'
  <2>1. jn[n] \in Visit
    BY DEF TypeOK
  <2>2. GoTo(jn[n], p) \in Visit
    BY <2>1 DEF Visit, GoTo
  <2>3. jn' \in [Node -> Visit]
    BY <1>12, <2>2 DEF JoinPeer, TypeOK
  <2>4. [kind |-> "join", of |-> n, to |-> p, budget |-> budget[n], resv |-> resv[n]] \in Message
    BY DEF TypeOK, Kind, Message
  <2>5. queue' \subseteq Message
    BY <1>12, <2>4 DEF JoinPeer, TypeOK
  <2> QED
    BY <1>12, <2>3, <2>5 DEF JoinPeer, TypeOK, dbVars
<1>13. ASSUME NEW m \in queue, ServeReserve(m) PROVE TypeOK'
  <2>1. m.kind = "reserve" /\ m.of \in Job /\ m.to \in Node /\ queue' \subseteq Message
    BY <1>13 DEF ServeReserve, Take, TypeOK, Message
  <2>2. op' \in [Job -> OpRecord]
    BY <1>13, <2>1, AnswerType DEF ServeReserve
  <2>3. resv' \in [Node -> SUBSET Job]
    BY <1>13, <2>1, RecordType DEF ServeReserve, TypeOK
  <2> QED
    BY <1>13, <2>1, <2>2, <2>3 DEF ServeReserve, TypeOK
<1>14. ASSUME NEW m \in queue, ServeCancel(m) PROVE TypeOK'
  BY <1>14, NodeAssumption, ResourceAssumption, AnswerType DEF ServeCancel, Take, Drop, Message, Kind, TypeOK, OpRecord, Visit, dbVars
<1>15. ASSUME NEW m \in queue, ServeUpdate(m) PROVE TypeOK'
  <2>1. m.of \in Node /\ m.to \in Node /\ m.budget \in [Resource -> Nat] /\ queue' \subseteq Message
    BY <1>15 DEF ServeUpdate, Take, TypeOK, Message
  <2>2. upd' \in [Node -> Visit]
    BY <1>15, <2>1, AfterType DEF ServeUpdate, TypeOK
  <2>3. budget' \in [Node -> [Resource -> Nat]]
    BY <1>15, <2>1 DEF ServeUpdate, TypeOK
  <2> QED
    BY <1>15, <2>1, <2>2, <2>3 DEF ServeUpdate, TypeOK
<1>16. ASSUME NEW m \in queue, ServeJoin(m) PROVE TypeOK'
  BY <1>16, NodeAssumption, ResourceAssumption DEF ServeJoin, Overwrite, Message, Kind, TypeOK, OpRecord, Visit, dbVars
<1>17. ASSUME NEW m \in queue, JoinAnswer(m) PROVE TypeOK'
  <2>1. m.of \in Node /\ m.to \in Node
    BY <1>17 DEF JoinAnswer, TypeOK, Message
  <2>2. [kind |-> "reply", of |-> m.to, to |-> m.of, budget |-> budget[m.to], resv |-> resv[m.to]] \in Message
    BY <2>1 DEF TypeOK, Message, Kind
  <2>3. queue' \subseteq Message
    BY <1>17, <2>2 DEF JoinAnswer, TypeOK
  <2> QED
    BY <1>17, <2>3 DEF JoinAnswer, TypeOK, dbVars
<1>18. ASSUME NEW m \in queue, JoinReply(m) PROVE TypeOK'
  <2>1. m.of \in Node /\ m.to \in Node /\ m.budget \in [Resource -> Nat] /\ m.resv \in SUBSET Job
    BY <1>18 DEF JoinReply, TypeOK, Message
  <2>2. jn' \in [Node -> Visit]
    BY <1>18, <2>1, AfterType DEF JoinReply, TypeOK
  <2>3. budget' \in [Node -> [Resource -> Nat]] /\ resv' \in [Node -> SUBSET Job]
    BY <1>18, <2>1 DEF JoinReply, Overwrite, TypeOK, dbVars
  <2>4. queue' \subseteq Message
    BY <1>18 DEF JoinReply, TypeOK
  <2> QED
    BY <1>18, <2>2, <2>3, <2>4 DEF JoinReply, TypeOK
<1>19. ASSUME NEW m \in queue, Lose(m) PROVE TypeOK'
  BY <1>19, NodeAssumption, ResourceAssumption DEF Lose, TypeOK, OpRecord, Visit, dbVars
<1>20. CASE UNCHANGED vars
  BY <1>20 DEF vars, TypeOK, OpRecord, Visit, dbVars
<1> QED
  BY <1>1, <1>2, <1>3, <1>4, <1>5, <1>6, <1>7, <1>8, <1>9, <1>10, <1>11, <1>12, <1>13, <1>14, <1>15, <1>16, <1>17, <1>18, <1>19, <1>20 DEF Next, Reservation, Budgeting, Joining, Serve

\* In every reachable state of every instance the variables have their types.
THEOREM TypeCorrect == Spec => []TypeOK
<1>1. Init => TypeOK
  BY NodeAssumption, ResourceAssumption DEF Init, TypeOK, OpRecord, Phase, Visit
<1> QED
  BY <1>1, TypeStep, PTL DEF Spec

----------------------------------------------------------------------------
\* No node overcommits

WithinBudget(S) == \A r \in Resource : Used(S, r) <= Budget[r]

\* No record exceeds the budget, and no snapshot under way does: those are taken of a record
\* and overwrite another one. Without updates the budget stays what it was.
OvercommitInv ==
    /\ \A n \in Node : budget[n] = Budget /\ WithinBudget(resv[n])
    /\ \A m \in queue : m.kind # "update" /\ m.budget = Budget /\ WithinBudget(m.resv)

\* A request that carries no record fits the invariant (reserve, cancel).
LEMMA PlainWithin ==
    ASSUME NEW kind, kind # "update", NEW of, NEW n
    PROVE  /\ Plain(kind, of, n).kind # "update"
           /\ Plain(kind, of, n).budget = Budget
           /\ WithinBudget(Plain(kind, of, n).resv)
<1>1. WithinBudget({})
  BY UsedNone, ResourceAssumption, SMT DEF WithinBudget
<1> QED
  BY <1>1 DEF Plain

\* A reservation that fits is recorded within the budget (handle_namespace_reservation).
LEMMA KeepWithin ==
    ASSUME TypeOK, OvercommitInv, NEW n \in Node, NEW j \in Job, Fits(n, j), Keep(n, j)
    PROVE  \A p \in Node : WithinBudget(resv'[p])
<1>1. resv[n] \in SUBSET Job /\ budget[n] = Budget
  BY DEF TypeOK, OvercommitInv
<1>2. ASSUME NEW r \in Resource PROVE Used(resv[n] \cup {j}, r) <= Budget[r]
  <2>1. Used(resv[n] \cup {j}, r) <= Used(resv[n], r) + Demand[j][r]
    BY <1>1, UsedAdd
  <2>2. Used(resv[n], r) + Demand[j][r] <= Budget[r]
    BY <1>1 DEF Fits
  <2>3. Used(resv[n] \cup {j}, r) \in Nat /\ Used(resv[n], r) \in Nat
    BY <1>1, UnitsFinite
  <2>4. Demand[j][r] \in Nat /\ Budget[r] \in Nat
    BY ResourceAssumption
  <2> QED
    BY <2>1, <2>2, <2>3, <2>4, SMT
<1>3. WithinBudget(resv[n] \cup {j})
  BY <1>2 DEF WithinBudget
<1> QED
  BY <1>3 DEF TypeOK, OvercommitInv, Keep

\* Without a reservation no more is needed (handle_namespace_cancellation).
LEMMA DropWithin ==
    ASSUME TypeOK, OvercommitInv, NEW n \in Node, NEW j \in Job, Drop(n, j)
    PROVE  \A p \in Node : WithinBudget(resv'[p])
<1>1. resv[n] \in SUBSET Job /\ resv[n] \ {j} \in SUBSET resv[n]
  BY DEF TypeOK
<1>2. ASSUME NEW r \in Resource PROVE Used(resv[n] \ {j}, r) <= Budget[r]
  <2>1. Used(resv[n] \ {j}, r) <= Used(resv[n], r)
    BY <1>1, UsedMonotone
  <2>2. Used(resv[n], r) <= Budget[r]
    BY DEF OvercommitInv, WithinBudget
  <2>3. Used(resv[n] \ {j}, r) \in Nat /\ Used(resv[n], r) \in Nat /\ Budget[r] \in Nat
    BY <1>1, UnitsFinite, ResourceAssumption
  <2> QED
    BY <2>1, <2>2, <2>3, SMT
<1>3. WithinBudget(resv[n] \ {j})
  BY <1>2 DEF WithinBudget
<1> QED
  BY <1>3 DEF TypeOK, OvercommitInv, Drop

\* No step of any node breaks it unless a user changes the budget.
LEMMA OvercommitStep ==
    ASSUME UpdateBy = {}, TypeOK, OvercommitInv, [Next]_vars PROVE OvercommitInv'
<1>1. ASSUME NEW j \in Job, ReserveHere(j) PROVE OvercommitInv'
  <2>1. Home[j] \in Node
    BY NodeAssumption
  <2>2. \A p \in Node : WithinBudget(resv'[p])
    BY <1>1, <2>1, KeepWithin DEF ReserveHere, OvercommitInv
  <2> QED
    BY <1>1, <2>2 DEF ReserveHere, OvercommitInv
<1>2. ASSUME NEW j \in Job, CancelHere(j) PROVE OvercommitInv'
  <2>1. Home[j] \in Node
    BY NodeAssumption
  <2>2. \A p \in Node : WithinBudget(resv'[p])
    BY <1>2, <2>1, DropWithin DEF CancelHere
  <2> QED
    BY <1>2, <2>2 DEF CancelHere, OvercommitInv
<1>3. ASSUME NEW j \in Job, NEW n \in Node, Ask(j, n) PROVE OvercommitInv'
  BY <1>3, PlainWithin DEF Ask, OvercommitInv, dbVars
<1>4. ASSUME NEW n \in Node PROVE ~UpdateHere(n) /\ \A p \in Node : ~UpdatePeer(n, p)
  BY <1>4 DEF UpdateHere, UpdatePeer
<1>5. ASSUME NEW n \in Node, NEW p \in Node, JoinPeer(n, p) PROVE OvercommitInv'
  <2> DEFINE s == [kind |-> "join", of |-> n, to |-> p, budget |-> budget[n], resv |-> resv[n]]
  <2>1. s.kind # "update" /\ s.budget = Budget /\ WithinBudget(s.resv)
    BY DEF OvercommitInv
  <2>2. queue' = queue \cup {s} /\ UNCHANGED dbVars
    BY <1>5 DEF JoinPeer
  <2> HIDE DEF s
  <2> QED
    BY <2>1, <2>2 DEF OvercommitInv, dbVars
<1>6. ASSUME NEW m \in queue, ServeReserve(m) PROVE OvercommitInv'
  <2>1. m.to \in Node /\ m.of \in Job
    BY <1>6 DEF TypeOK, Message, ServeReserve, Take
  <2>2. \A p \in Node : WithinBudget(resv'[p])
    BY <1>6, <2>1, KeepWithin DEF ServeReserve, OvercommitInv
  <2> QED
    BY <1>6, <2>2 DEF ServeReserve, Take, OvercommitInv
<1>7. ASSUME NEW m \in queue, ServeCancel(m) PROVE OvercommitInv'
  <2>1. m.to \in Node /\ m.of \in Job
    BY <1>7 DEF TypeOK, Message, ServeCancel, Take
  <2>2. \A p \in Node : WithinBudget(resv'[p])
    BY <1>7, <2>1, DropWithin DEF ServeCancel
  <2> QED
    BY <1>7, <2>2 DEF ServeCancel, Take, OvercommitInv
<1>8. ASSUME NEW m \in queue PROVE ~ServeUpdate(m)
  BY <1>8 DEF ServeUpdate, Take, OvercommitInv
<1>9. ASSUME NEW m \in queue, ServeJoin(m) PROVE OvercommitInv'
  <2> DEFINE s == [m EXCEPT !.kind = "joined"]
  <2>1. m \in Message /\ m.to \in Node /\ m.budget = Budget /\ WithinBudget(m.resv)
    BY DEF TypeOK, Message, OvercommitInv
  <2>2. s.kind = "joined" /\ s.budget = Budget /\ WithinBudget(s.resv)
    BY <2>1 DEF Message
  <2>3. queue' = (queue \ {m}) \cup {s} /\ Overwrite(m.to, m)
    BY <1>9 DEF ServeJoin
  <2>4. \A n \in Node : budget'[n] = Budget /\ WithinBudget(resv'[n])
    BY <2>1, <2>3 DEF Overwrite, TypeOK, OvercommitInv
  <2> HIDE DEF s
  <2> QED
    BY <2>2, <2>3, <2>4 DEF OvercommitInv
<1>10. ASSUME NEW m \in queue, JoinAnswer(m) PROVE OvercommitInv'
  <2> DEFINE s == [kind |-> "reply", of |-> m.to, to |-> m.of, budget |-> budget[m.to], resv |-> resv[m.to]]
  <2>1. m.to \in Node
    BY DEF TypeOK, Message
  <2>2. s.kind # "update" /\ s.budget = Budget /\ WithinBudget(s.resv)
    BY <2>1 DEF OvercommitInv
  <2>3. queue' = (queue \ {m}) \cup {s} /\ UNCHANGED dbVars
    BY <1>10 DEF JoinAnswer
  <2> HIDE DEF s
  <2> QED
    BY <2>2, <2>3 DEF OvercommitInv, dbVars
<1>11. ASSUME NEW m \in queue, JoinReply(m) PROVE OvercommitInv'
  <2>1. m.to \in Node /\ m.budget = Budget /\ WithinBudget(m.resv)
    BY DEF TypeOK, Message, OvercommitInv
  <2>2. \A n \in Node : budget'[n] = Budget /\ WithinBudget(resv'[n])
    BY <1>11, <2>1 DEF JoinReply, Overwrite, TypeOK, OvercommitInv, dbVars
  <2> QED
    BY <1>11, <2>2 DEF JoinReply, OvercommitInv
<1>12. ASSUME UNCHANGED dbVars, queue' \subseteq queue PROVE OvercommitInv'
  BY <1>12 DEF OvercommitInv, dbVars
<1>13. ASSUME NEW j \in Job, NEW loop, Submit(j) \/ TimeOut(j) \/ Release(j, loop) PROVE OvercommitInv'
  BY <1>12, <1>13 DEF Submit, TimeOut, Release
<1>14. ASSUME NEW n \in Node, UpdateTimeOut(n) \/ JoinStart(n) \/ JoinTimeOut(n) PROVE OvercommitInv'
  BY <1>12, <1>14 DEF UpdateTimeOut, JoinStart, JoinTimeOut
<1>15. ASSUME NEW m \in queue, Lose(m) PROVE OvercommitInv'
  BY <1>12, <1>15 DEF Lose
<1>16. CASE UNCHANGED vars
  BY <1>12, <1>16 DEF vars
<1> QED
  BY <1>1, <1>2, <1>3, <1>4, <1>5, <1>6, <1>7, <1>8, <1>9, <1>10, <1>11, <1>13, <1>14, <1>15, <1>16
  DEF Next, Reservation, Budgeting, Joining, Serve

\* While no user changes the budget, no node ever has more reserved than its budget, for any
\* nodes, jobs and demands, with any requests lost, late or reordered and any joins.
THEOREM NoOvercommitCorrect == ASSUME UpdateBy = {} PROVE Spec => []NoOvercommit
<1>1. Init => OvercommitInv
  BY UsedNone, ResourceAssumption, SMT DEF Init, OvercommitInv, WithinBudget
<1>2. TypeOK /\ OvercommitInv /\ [Next]_vars => OvercommitInv'
  BY OvercommitStep
<1>3. OvercommitInv => NoOvercommit
  BY DEF OvercommitInv, WithinBudget, NoOvercommit
<1> QED
  BY <1>1, <1>2, <1>3, TypeCorrect, PTL DEF Spec

----------------------------------------------------------------------------
\* Without joins no record is overwritten

JoinKinds == {"join", "joined", "reply"}

NoJoins ==
    /\ \A n \in Node : jn[n].phase = "new" /\ jn[n].at = NoNode
    /\ \A m \in queue : m.kind \notin JoinKinds

\* Nobody starts to join.
LEMMA NoJoinStep ==
    ASSUME JoinBy = {}, TypeOK, NoJoins, [Next]_vars PROVE NoJoins'
<1>1. ASSUME NEW j \in Job, Submit(j) \/ Reservation(j) \/ Release(j, "rest") \/ Release(j, "p2p")
      PROVE  NoJoins'
  <2>1. /\ jn' = jn
        /\ \A m \in queue' : m \in queue \/ m.kind \in {"reserve", "cancel"}
    <3>1. CASE Submit(j) \/ Release(j, "rest") \/ Release(j, "p2p")
      BY <3>1 DEF Submit, Release
    <3>2. CASE ReserveHere(j) \/ CancelHere(j) \/ TimeOut(j)
      BY <3>2 DEF ReserveHere, CancelHere, TimeOut
    <3>3. ASSUME NEW n \in Node, Ask(j, n)
          PROVE  jn' = jn /\ \A m \in queue' : m \in queue \/ m.kind \in {"reserve", "cancel"}
      BY <3>3 DEF Ask, Plain
    <3> QED
      BY <1>1, <3>1, <3>2, <3>3 DEF Reservation
  <2> QED
    BY <2>1 DEF NoJoins, JoinKinds
<1>2. ASSUME NEW n \in Node, Budgeting(n) PROVE NoJoins'
  BY <1>2 DEF Budgeting, UpdateHere, UpdateTimeOut, UpdatePeer, Plain, NoJoins, JoinKinds
<1>3. ASSUME NEW n \in Node PROVE ~Joining(n)
  BY DEF Joining, JoinStart, JoinTimeOut, JoinPeer, NoJoins
<1>4. ASSUME NEW m \in queue, Serve(m) \/ Lose(m) PROVE NoJoins'
  BY <1>4 DEF Serve, Lose, ServeReserve, ServeCancel, ServeUpdate, ServeJoin, JoinAnswer, JoinReply,
              Take, NoJoins, JoinKinds
<1>5. CASE UNCHANGED vars
  BY <1>5 DEF vars, NoJoins
<1> QED
  BY <1>1, <1>2, <1>3, <1>4, <1>5 DEF Next

\* ... so none of the steps of a join is ever taken.
LEMMA NeverJoining ==
    ASSUME JoinBy = {}, NoJoins
    PROVE  /\ \A n \in Node : ~Joining(n)
           /\ \A m \in queue : ~ServeJoin(m) /\ ~JoinAnswer(m) /\ ~JoinReply(m)
BY DEF Joining, JoinStart, JoinTimeOut, JoinPeer, ServeJoin, JoinAnswer, JoinReply, NoJoins, JoinKinds

----------------------------------------------------------------------------
\* What is held is on the record of every node

Cancels(j) == {m \in queue : m.kind = "cancel" /\ m.of = j}

\* A job is on the records of the nodes that granted it, and no cancellation is under way.
HeldJob(j) ==
    /\ op[j].phase \in {"new", "reserving", "held"} => Cancels(j) = {}
    /\ op[j].phase = "reserving" =>
           \A n \in Node \ op[j].todo : n # op[j].at => j \in resv[n]
    /\ op[j].phase = "held" => \A n \in Node : j \in resv[n]

HeldInv == \A j \in Job : HeldJob(j)

\* How a reservation proceeds; other jobs stay where they are.
LEMMA ProceedEffect ==
    ASSUME TypeOK, NEW j \in Job, NEW todo \in SUBSET Node, NEW accepted \in BOOLEAN,
           Proceed(j, todo, accepted)
    PROVE  /\ \A k \in Job \ {j} : op'[k] = op[k]
           /\ op'[j].at = NoNode
           /\ ~accepted => op'[j].phase = "undoing" /\ op'[j].todo = Node
           /\ accepted => op'[j].todo = todo
           /\ accepted /\ todo # {} => op'[j].phase = op[j].phase
           /\ accepted /\ todo = {} => op'[j].phase = Done(op[j].phase)
BY DEF Proceed, TypeOK

\* A node is done with.
LEMMA ProceedOn ==
    ASSUME TypeOK, NEW j \in Job, NEW todo \in SUBSET Node, Proceed(j, todo, TRUE)
    PROVE  /\ \A k \in Job \ {j} : op'[k] = op[k]
           /\ op'[j].at = NoNode /\ op'[j].todo = todo
           /\ todo # {} => op'[j].phase = op[j].phase
           /\ todo = {} => op'[j].phase = Done(op[j].phase)
BY DEF Proceed, TypeOK

\* A job whose reservation does not move and is not dropped.
LEMMA HeldAlone ==
    ASSUME NEW k \in Job, HeldJob(k), op'[k] = op[k], Cancels(k)' \subseteq Cancels(k),
           \A n \in Node : k \in resv[n] => k \in resv'[n]
    PROVE  HeldJob(k)'
BY DEF HeldJob

\* A node that granted the reservation is done with, and the next one follows.
LEMMA HeldGranted ==
    ASSUME TypeOK, NEW j \in Job, HeldJob(j), op[j].phase = "reserving",
           NEW n \in Node, NEW todo \in SUBSET Node, Proceed(j, todo, TRUE), Keep(n, j),
           Cancels(j)' \subseteq Cancels(j),
           \A p \in Node \ todo : p # n => p \notin op[j].todo /\ p # op[j].at
    PROVE  HeldJob(j)'
<1>1. \A p \in Node \ todo : j \in resv'[p]
  BY DEF HeldJob, Keep, TypeOK
<1>2. op'[j].phase \in {"reserving", "held"} /\ op'[j].todo = todo
      /\ (op'[j].phase = "held" => todo = {})
  BY ProceedEffect DEF Done
<1> QED
  BY <1>1, <1>2 DEF HeldJob

\* A job that is not granted may be anywhere.
LEMMA HeldNot ==
    ASSUME NEW j \in Job, op'[j].phase \notin {"new", "reserving", "held"} PROVE HeldJob(j)'
BY DEF HeldJob

\* The steps of the home node of a job.
LEMMA HeldHome ==
    ASSUME TypeOK, HeldInv, NEW j \in Job,
           Submit(j) \/ Reservation(j) \/ Release(j, "rest") \/ Release(j, "p2p")
    PROVE  HeldInv'
<1> SUFFICES ASSUME NEW k \in Job PROVE HeldJob(k)'
  BY DEF HeldInv
<1>1. Home[j] \in Node /\ HeldJob(j) /\ HeldJob(k) /\ op[j].todo \in SUBSET Node
  BY NodeAssumption DEF HeldInv, TypeOK, OpRecord
<1>2. CASE Submit(j)
  <2>1. CASE k = j
    BY <1>1, <1>2, <2>1 DEF Submit, HeldJob, Cancels, TypeOK, OpRecord
  <2>2. CASE k # j
    BY <1>1, <1>2, <2>2, HeldAlone DEF Submit, dbVars, Cancels, TypeOK
  <2> QED
    BY <2>1, <2>2
<1>3. CASE ReserveHere(j)
  <2>1. Cancels(k)' \subseteq Cancels(k)
    BY <1>3 DEF ReserveHere, Cancels
  <2>2. CASE k # j
    <3>1. op'[k] = op[k]
      <4>1. op[j].todo \ {Home[j]} \in SUBSET Node /\ {} \in SUBSET Node
        BY <1>1
      <4>2. \/ Proceed(j, op[j].todo \ {Home[j]}, TRUE)
            \/ Proceed(j, {}, FALSE)
        BY <1>3 DEF ReserveHere
      <4> QED
        BY <2>2, <4>1, <4>2, ProceedEffect
    <3>2. \A n \in Node : k \in resv[n] => k \in resv'[n]
      BY <1>3 DEF ReserveHere, Keep, TypeOK
    <3> QED
      BY <1>1, <2>1, <3>1, <3>2, HeldAlone
  <2>3. CASE k = j /\ Fits(Home[j], j)
    <3>1. Keep(Home[j], j) /\ Proceed(j, op[j].todo \ {Home[j]}, TRUE) /\ op[j].phase = "reserving"
          /\ op[j].at = NoNode
      BY <1>3, <2>3 DEF ReserveHere
    <3>2. \A p \in Node \ (op[j].todo \ {Home[j]}) : p # Home[j] => p \notin op[j].todo /\ p # op[j].at
      BY <3>1, NodeAssumption
    <3> QED
      BY <1>1, <2>1, <2>3, <3>1, <3>2, HeldGranted
  <2>4. CASE k = j /\ ~Fits(Home[j], j)
    BY <1>1, <1>3, <2>4, ProceedEffect, HeldNot DEF ReserveHere
  <2> QED
    BY <2>2, <2>3, <2>4
<1>4. CASE CancelHere(j)
  <2>1. /\ \A i \in Job \ {j} : op'[i] = op[i]
        /\ op'[j].phase \in {"undoing", "releasing", "refused", "released"}
    BY <1>1, <1>4, ProceedEffect DEF CancelHere, Done
  <2>2. \A n \in Node : k # j /\ k \in resv[n] => k \in resv'[n]
    BY <1>4 DEF CancelHere, Drop, TypeOK
  <2> QED
    BY <1>1, <1>4, <2>1, <2>2, HeldAlone, HeldNot DEF CancelHere, Cancels
<1>5. CASE TimeOut(j)
  <2>1. /\ \A i \in Job \ {j} : op'[i] = op[i]
        /\ op[j].phase = "reserving" => op'[j].phase = "undoing"
        /\ op[j].phase # "reserving" =>
               op'[j].phase \in {op[j].phase, Done(op[j].phase)} /\ op'[j].todo = op[j].todo
    BY <1>1, <1>5, ProceedEffect DEF TimeOut
  <2>2. Cancels(k)' \subseteq Cancels(k) /\ resv' = resv
    BY <1>5 DEF TimeOut, Cancels, dbVars
  <2>3. CASE k = j
    BY <1>1, <2>1, <2>2, <2>3 DEF HeldJob, Done
  <2> QED
    BY <1>1, <2>1, <2>2, <2>3, HeldAlone
<1>6. ASSUME NEW n \in Node, Ask(j, n) PROVE HeldJob(k)'
  <2>1. /\ op' = [op EXCEPT ![j] = GoTo(@, n)] /\ op[j].phase \in {"reserving", "undoing", "releasing"}
        /\ op[j].at = NoNode /\ n \in op[j].todo /\ resv' = resv
        /\ queue' = queue \cup {Plain(IF op[j].phase = "reserving" THEN "reserve" ELSE "cancel", j, n)}
    BY <1>6 DEF Ask, dbVars
  <2>2. op'[j].phase = op[j].phase /\ op'[j].todo = op[j].todo \ {n} /\ op'[j].at = n
        /\ \A i \in Job \ {j} : op'[i] = op[i]
    BY <2>1 DEF GoTo, TypeOK, OpRecord
  <2>3. k # j \/ op[j].phase = "reserving" => Cancels(k)' \subseteq Cancels(k)
    BY <2>1 DEF Cancels, Plain
  <2>4. CASE k = j
    BY <1>1, <2>1, <2>2, <2>3, <2>4, NodeAssumption DEF HeldJob
  <2> QED
    BY <1>1, <2>1, <2>2, <2>3, <2>4, HeldAlone
<1>7. ASSUME NEW loop \in {"rest", "p2p"}, Release(j, loop) PROVE HeldJob(k)'
  <2>1. op'[j].phase = "releasing" /\ \A i \in Job \ {j} : op'[i] = op[i]
    BY <1>7 DEF Release, TypeOK
  <2> QED
    BY <1>1, <1>7, <2>1, HeldNot, HeldAlone DEF Release, dbVars, Cancels
<1> QED
  BY <1>2, <1>3, <1>4, <1>5, <1>6, <1>7 DEF Reservation

\* The steps of the loop of a node that is asked, and of the network.
LEMMA HeldServed ==
    ASSUME TypeOK, HeldInv, NEW m \in queue,
           ServeReserve(m) \/ ServeCancel(m) \/ ServeUpdate(m) \/ Lose(m)
    PROVE  HeldInv'
<1> SUFFICES ASSUME NEW k \in Job PROVE HeldJob(k)'
  BY DEF HeldInv
<1>1. Cancels(k)' \subseteq Cancels(k)
  BY DEF ServeReserve, ServeCancel, ServeUpdate, Lose, Take, Cancels
<1>2. HeldJob(k) /\ m \in Message
  BY DEF HeldInv, TypeOK
<1>3. CASE ServeReserve(m)
  <2> DEFINE j == m.of
  <2>1. j \in Job /\ m.to \in Node /\ HeldJob(j) /\ op[j].todo \in SUBSET Node /\ m.kind = "reserve"
    BY <1>2, <1>3 DEF ServeReserve, Take, Message, HeldInv, TypeOK, OpRecord
  <2>2. \A n \in Node : k \in resv[n] => k \in resv'[n]
    BY <1>3 DEF ServeReserve, Keep, TypeOK
  <2>3. CASE op'[k] = op[k]
    BY <1>1, <1>2, <2>2, <2>3, HeldAlone
  <2>4. CASE op'[k] # op[k]
    <3>1. PICK accepted \in BOOLEAN : /\ Proceed(j, op[j].todo, accepted) /\ Awaited(m)
                                      /\ accepted => Keep(m.to, j)
      BY <1>3, <2>4 DEF ServeReserve, Answer
    <3>2. k = j
      BY <2>1, <2>4, <3>1, ProceedEffect
    <3>3. op[j].phase = "reserving" /\ op[j].at = m.to
      BY <2>1, <3>1 DEF Awaited
    <3>4. CASE accepted
      BY <1>1, <2>1, <3>1, <3>2, <3>3, <3>4, HeldGranted
    <3>5. CASE ~accepted
      BY <2>1, <3>1, <3>2, <3>5, ProceedEffect, HeldNot
    <3> QED
      BY <3>4, <3>5
  <2> QED
    BY <2>3, <2>4
<1>4. CASE ServeCancel(m)
  <2> DEFINE j == m.of
  <2>1. j \in Job /\ m.to \in Node /\ HeldJob(j) /\ op[j].todo \in SUBSET Node /\ m.kind = "cancel"
    BY <1>2, <1>4 DEF ServeCancel, Take, Message, HeldInv, TypeOK, OpRecord
  <2>2. op[j].phase \notin {"new", "reserving", "held"}
    BY <2>1 DEF HeldJob, Cancels
  <2>3. /\ \A i \in Job \ {j} : op'[i] = op[i]
        /\ op'[j].phase \notin {"new", "reserving", "held"}
    <3>1. CASE UNCHANGED op
      BY <2>2, <3>1
    <3>2. CASE Proceed(j, op[j].todo, TRUE)
      <4>1. op[j].phase \in {"undoing", "refused", "releasing", "released"}
        BY <2>1, <2>2 DEF TypeOK, OpRecord, Phase
      <4> QED
        BY <2>1, <3>2, <4>1, ProceedEffect DEF Done
    <3> QED
      BY <1>4, <3>1, <3>2 DEF ServeCancel, Answer
  <2>4. \A n \in Node : k # j /\ k \in resv[n] => k \in resv'[n]
    BY <1>4, <2>1 DEF ServeCancel, Drop, TypeOK
  <2> QED
    BY <1>1, <1>2, <2>3, <2>4, HeldAlone, HeldNot
<1>5. CASE ServeUpdate(m) \/ Lose(m)
  BY <1>1, <1>2, <1>5, HeldAlone DEF ServeUpdate, Lose, dbVars
<1> QED
  BY <1>3, <1>4, <1>5

\* HeldInv is inductive, as long as nobody joins.
LEMMA HeldStep ==
    ASSUME JoinBy = {}, TypeOK, NoJoins, HeldInv, [Next]_vars PROVE HeldInv'
<1>1. ASSUME NEW n \in Node, Budgeting(n) PROVE HeldInv'
  <2>1. UNCHANGED <<op, resv>> /\ \A j \in Job : Cancels(j)' \subseteq Cancels(j)
    BY <1>1 DEF Budgeting, UpdateHere, UpdateTimeOut, UpdatePeer, Plain, Cancels, dbVars
  <2> QED
    BY <2>1, HeldAlone DEF HeldInv
<1>2. CASE UNCHANGED vars
  BY <1>2, HeldAlone DEF vars, dbVars, HeldInv, Cancels
<1> QED
  BY <1>1, <1>2, HeldHome, HeldServed, NeverJoining DEF Next, Serve

\* While no node joins, a job whose reservation was granted is on the record of every node,
\* whatever requests are lost, late or repeated.
THEOREM HeldCorrect == ASSUME JoinBy = {} PROVE Spec => []HeldEverywhere
<1>1. Init => NoJoins /\ HeldInv
  BY DEF Init, NoJoins, HeldInv, HeldJob, Cancels
<1>2. TypeOK /\ NoJoins /\ HeldInv /\ [Next]_vars => NoJoins' /\ HeldInv'
  BY NoJoinStep, HeldStep
<1>3. HeldInv => HeldEverywhere
  BY DEF HeldInv, HeldJob, HeldEverywhere
<1> QED
  BY <1>1, <1>2, <1>3, TypeCorrect, PTL DEF Spec

----------------------------------------------------------------------------
\* Together the nodes are one ledger

Held == {j \in Job : op[j].phase = "held"}

\* Some of the jobs that fit the budget fit it as well.
LEMMA SomeWithin ==
    ASSUME NEW T \in SUBSET Job, NEW S \in SUBSET T, WithinBudget(T), NEW r \in Resource
    PROVE  Used(S, r) <= Budget[r]
<1>1. Used(S, r) <= Used(T, r) /\ Used(T, r) <= Budget[r]
  BY UsedMonotone DEF WithinBudget
<1>2. Used(S, r) \in Nat /\ Used(T, r) \in Nat /\ Budget[r] \in Nat
  BY UnitsFinite, ResourceAssumption
<1> QED
  BY <1>1, <1>2, SMT

\* A step grants at most one job, or takes back at most one.
LEMMA HeldChanges ==
    ASSUME TypeOK, [Next]_vars
    PROVE  Held' = Held \/ \E j \in Job : Held' \in {Held \cup {j}, Held \ {j}}
<1>1. ASSUME NEW j \in Job, \A k \in Job \ {j} : op'[k] = op[k]
      PROVE  Held' = Held \/ Held' \in {Held \cup {j}, Held \ {j}}
  BY <1>1 DEF Held
<1>2. ASSUME NEW j \in Job, Submit(j) \/ Reservation(j) \/ Release(j, "rest") \/ Release(j, "p2p")
      PROVE  \A k \in Job \ {j} : op'[k] = op[k]
  <2>1. Home[j] \in Node /\ op[j].todo \in SUBSET Node
    BY NodeAssumption DEF TypeOK, OpRecord
  <2>2. \/ \E todo \in SUBSET Node, accepted \in BOOLEAN : Proceed(j, todo, accepted)
        \/ \E o : op' = [op EXCEPT ![j] = o]
    <3>1. CASE Submit(j) \/ Release(j, "rest") \/ Release(j, "p2p")
      BY <3>1 DEF Submit, Release
    <3>2. CASE ReserveHere(j) \/ CancelHere(j)
      BY <2>1, <3>2 DEF ReserveHere, CancelHere
    <3>3. CASE TimeOut(j)
      BY <2>1, <3>3 DEF TimeOut
    <3>4. ASSUME NEW n \in Node, Ask(j, n) PROVE \E o : op' = [op EXCEPT ![j] = o]
      BY <3>4 DEF Ask
    <3> QED
      BY <1>2, <3>1, <3>2, <3>3, <3>4 DEF Reservation
  <2> QED
    BY <2>2, ProceedEffect DEF TypeOK
<1>3. ASSUME NEW m \in queue, ServeReserve(m) \/ ServeCancel(m)
      PROVE  m.of \in Job /\ \A k \in Job \ {m.of} : op'[k] = op[k]
  <2>1. m.of \in Job /\ op[m.of].todo \in SUBSET Node
    BY <1>3 DEF ServeReserve, ServeCancel, Take, TypeOK, Message, OpRecord
  <2> QED
    BY <1>3, <2>1, ProceedEffect DEF ServeReserve, ServeCancel, Answer
<1>4. ASSUME UNCHANGED op PROVE Held' = Held
  BY <1>4 DEF Held
<1>5. ASSUME NEW n \in Node, Budgeting(n) \/ Joining(n) PROVE UNCHANGED op
  BY <1>5 DEF Budgeting, Joining, UpdateHere, UpdateTimeOut, UpdatePeer, JoinStart, JoinTimeOut, JoinPeer
<1>6. ASSUME NEW m \in queue,
             ServeUpdate(m) \/ ServeJoin(m) \/ JoinAnswer(m) \/ JoinReply(m) \/ Lose(m)
      PROVE  UNCHANGED op
  BY <1>6 DEF ServeUpdate, ServeJoin, JoinAnswer, JoinReply, Lose
<1>7. CASE UNCHANGED vars
  BY <1>4, <1>7 DEF vars
<1> QED
  BY <1>1, <1>2, <1>3, <1>4, <1>5, <1>6, <1>7 DEF Next, Serve

\* A step of the nodes is a step of the ledger, or none.
LEMMA LedgerStep ==
    ASSUME TypeOK, OvercommitInv', HeldInv', TypeOK', [Next]_vars
    PROVE  [Ledger!Next]_Held
<1>1. CASE Held' = Held
  BY <1>1
<1>2. ASSUME NEW j \in Job, Held' = Held \cup {j}, j \notin Held PROVE Ledger!Next
  <2>1. Home[j] \in Node
    BY NodeAssumption
  <2>2. Held' \in SUBSET resv'[Home[j]] /\ resv'[Home[j]] \in SUBSET Job
    BY <2>1 DEF Held, HeldInv, HeldJob, TypeOK
  <2>3. WithinBudget(resv'[Home[j]])
    BY <2>1 DEF OvercommitInv, WithinBudget
  <2>4. \A r \in Resource : Used(Held \cup {j}, r) <= Budget[r]
    BY <1>2, <2>2, <2>3, SomeWithin
  <2>5. ASSUME NEW S, NEW r PROVE Ledger!Used(S, r) = Used(S, r)
    <3>1. Ledger!Units(S, r) = Units(S, r)
      BY DEF Ledger!Units, Units
    <3> QED
      BY <3>1, Zenon DEF Ledger!Used, Used, Ledger!Cardinality, Cardinality, Ledger!IsFiniteSet, IsFiniteSet
  <2>6. Ledger!Acquire(j)
    BY <1>2, <2>4, <2>5 DEF Ledger!Acquire, Held
  <2> QED
    BY <2>6 DEF Ledger!Next
<1>3. ASSUME NEW j \in Job, Held' = Held \ {j}, j \in Held PROVE Ledger!Next
  <2>1. Ledger!Release(j)
    BY <1>3 DEF Ledger!Release, Held
  <2> QED
    BY <2>1 DEF Ledger!Next
<1> QED
  BY <1>1, <1>2, <1>3, HeldChanges

\* While no user changes the budget and no node joins, the nodes together grant and take back
\* what one ledger with the budget would, for any number of nodes and any loss of requests.
THEOREM LedgerCorrect == ASSUME UpdateBy = {}, JoinBy = {} PROVE Spec => LedgerSpec
<1>1. Init => OvercommitInv /\ NoJoins /\ HeldInv
  BY UsedNone, ResourceAssumption, SMT
  DEF Init, OvercommitInv, WithinBudget, NoJoins, HeldInv, HeldJob, Cancels
<1>2. TypeOK /\ OvercommitInv /\ NoJoins /\ HeldInv /\ [Next]_vars =>
          OvercommitInv' /\ NoJoins' /\ HeldInv'
  BY OvercommitStep, NoJoinStep, HeldStep
<1>3. Init => Ledger!Init
  BY DEF Init, Ledger!Init
<1>4. TypeOK /\ OvercommitInv' /\ HeldInv' /\ TypeOK' /\ [Next]_vars => [Ledger!Next]_Held
  BY LedgerStep
<1>5. TypeOK /\ OvercommitInv' /\ HeldInv' /\ TypeOK' /\ [Next]_vars =>
          [Ledger!Next]_{j \in Job : op[j].phase = "held"}
  BY <1>4 DEF Held
<1> QED
  BY <1>1, <1>2, <1>3, <1>5, TypeCorrect, PTL DEF Spec, LedgerSpec, Ledger!Spec

----------------------------------------------------------------------------
\* A released job leaves nothing

To(j, kind) == {n \in Node : \E m \in queue : m.kind = kind /\ m.of = j /\ m.to = n}

\* A granted job waits for no answer; a released one is on no record that no cancellation is
\* under way to.
ReleasedJob(j) ==
    /\ op[j].phase = "new" => To(j, "reserve") = {} /\ op[j].at = NoNode
    /\ op[j].phase = "reserving" => To(j, "reserve") \subseteq {op[j].at}
    /\ op[j].phase \in {"held", "releasing", "released"} => To(j, "reserve") = {}
    /\ op[j].phase \in {"new", "reserving", "held"} => To(j, "cancel") = {}
    /\ op[j].phase = "held" => op[j].at = NoNode
    /\ op[j].phase = "releasing" => \A n \in Node \ op[j].todo : j \in resv[n] => n \in To(j, "cancel")
    /\ op[j].phase = "released" => \A n \in Node : j \in resv[n] => n \in To(j, "cancel")

\* there is one request of a kind from a job to a node
RequestsPlain ==
    \A m \in queue : m.kind \in {"reserve", "cancel"} => m = Plain(m.kind, m.of, m.to)

ReleasedInv == RequestsPlain /\ \A j \in Job : ReleasedJob(j)

\* Requests about reservations are made by Ask only.
LEMMA RequestsStep == ASSUME RequestsPlain, [Next]_vars PROVE RequestsPlain'
<1>1. ASSUME \A m \in queue' : m \in queue \/ m.kind \notin {"reserve", "cancel"}
      PROVE  RequestsPlain'
  BY <1>1 DEF RequestsPlain, Plain
<1>2. ASSUME NEW j \in Job, NEW n \in Node, Ask(j, n) PROVE RequestsPlain'
  BY <1>2 DEF Ask, Plain, RequestsPlain
<1>3. ASSUME NEW j \in Job, NEW loop,
             Submit(j) \/ ReserveHere(j) \/ CancelHere(j) \/ TimeOut(j) \/ Release(j, loop)
      PROVE  queue' = queue
  BY <1>3 DEF Submit, ReserveHere, CancelHere, TimeOut, Release
<1>4. ASSUME NEW n \in Node, Budgeting(n) \/ Joining(n)
      PROVE  \A m \in queue' : m \in queue \/ m.kind \notin {"reserve", "cancel"}
  <2>1. ASSUME NEW p \in Node, UpdatePeer(n, p)
        PROVE  \A m \in queue' : m \in queue \/ m.kind \notin {"reserve", "cancel"}
    <3> DEFINE sent == [Plain("update", n, p) EXCEPT !.budget = NewBudget[n]]
    <3>1. sent.kind = "update"
      BY DEF Plain
    <3>2. queue' = queue \cup {sent}
      BY <2>1 DEF UpdatePeer
    <3> HIDE DEF sent
    <3> QED
      BY <3>1, <3>2
  <2>2. ASSUME NEW p \in Node, JoinPeer(n, p)
        PROVE  \A m \in queue' : m \in queue \/ m.kind \notin {"reserve", "cancel"}
    BY <2>2 DEF JoinPeer
  <2>3. CASE UpdateHere(n) \/ UpdateTimeOut(n) \/ JoinStart(n) \/ JoinTimeOut(n)
    BY <2>3 DEF UpdateHere, UpdateTimeOut, JoinStart, JoinTimeOut
  <2> QED
    BY <1>4, <2>1, <2>2, <2>3 DEF Budgeting, Joining
<1>5. ASSUME NEW m \in queue, Serve(m) \/ Lose(m)
      PROVE  \A p \in queue' : p \in queue \/ p.kind \notin {"reserve", "cancel"}
  <2>1. CASE ServeJoin(m)
    <3>1. queue' = (queue \ {m}) \cup {[m EXCEPT !.kind = "joined"]} /\ m.kind = "join"
      BY <2>1 DEF ServeJoin
    <3>2. [m EXCEPT !.kind = "joined"].kind # "reserve" /\ [m EXCEPT !.kind = "joined"].kind # "cancel"
      BY <3>1
    <3> QED
      BY <3>1, <3>2
  <2>2. CASE JoinAnswer(m)
    BY <2>2 DEF JoinAnswer
  <2>3. CASE ServeReserve(m) \/ ServeCancel(m) \/ ServeUpdate(m) \/ JoinReply(m) \/ Lose(m)
    BY <2>3 DEF ServeReserve, ServeCancel, ServeUpdate, JoinReply, Lose, Take
  <2> QED
    BY <1>5, <2>1, <2>2, <2>3 DEF Serve
<1>6. CASE UNCHANGED vars
  BY <1>1, <1>6 DEF vars
<1> QED
  BY <1>1, <1>2, <1>3, <1>4, <1>5, <1>6 DEF Next, Reservation

\* A reservation of another job changes no record of a job.
LEMMA OtherRecords ==
    ASSUME TypeOK, NEW n \in Node, NEW j \in Job, NEW k \in Job \ {j},
           Keep(n, j) \/ Drop(n, j) \/ UNCHANGED resv
    PROVE  \A p \in Node : (k \in resv'[p]) <=> (k \in resv[p])
<1>1. CASE Keep(n, j)
  BY <1>1 DEF Keep, TypeOK
<1>2. CASE Drop(n, j)
  BY <1>2 DEF Drop, TypeOK
<1> QED
  BY <1>1, <1>2

\* A job whose reservation does not move: nothing that concerns it changes, or a cancellation
\* is served.
LEMMA ReleasedAlone ==
    ASSUME NEW k \in Job, ReleasedJob(k), op'[k] = op[k],
           To(k, "reserve")' \subseteq To(k, "reserve"),
           To(k, "cancel")' \subseteq To(k, "cancel"),
           op[k].phase \in {"releasing", "released"} => \A n \in Node :
               k \in resv'[n] => k \in resv[n] /\ (n \in To(k, "cancel") => n \in To(k, "cancel")')
    PROVE  ReleasedJob(k)'
BY DEF ReleasedJob

\* Steps of other jobs do not concern a job.
LEMMA ReleasedOther ==
    ASSUME TypeOK, NEW k \in Job, ReleasedJob(k), op'[k] = op[k],
           \A m \in queue' : m \in queue \/ m.of # k \/ m.kind \notin {"reserve", "cancel"},
           \A m \in queue : m \in queue' \/ m.of # k \/ m.kind \notin {"reserve", "cancel"},
           \A n \in Node : k \in resv'[n] => k \in resv[n]
    PROVE  ReleasedJob(k)'
<1>1. \A kind \in {"reserve", "cancel"} : To(k, kind)' = To(k, kind)
  BY DEF To
<1> QED
  BY <1>1, ReleasedAlone

\* The steps of the home node of a job.
LEMMA ReleasedHome ==
    ASSUME TypeOK, ReleasedInv, NEW j \in Job,
           Submit(j) \/ Reservation(j) \/ Release(j, "rest") \/ Release(j, "p2p"),
           NEW k \in Job
    PROVE  ReleasedJob(k)'
<1>1. /\ Home[j] \in Node /\ ReleasedJob(j) /\ ReleasedJob(k)
      /\ op[j].todo \in SUBSET Node /\ op[j].todo \ {Home[j]} \in SUBSET Node /\ {} \in SUBSET Node
  BY NodeAssumption DEF ReleasedInv, TypeOK, OpRecord
<1>2. CASE Submit(j)
  <2>1. CASE k = j
    BY <1>1, <1>2, <2>1 DEF Submit, ReleasedJob, To, TypeOK, OpRecord
  <2>2. CASE k # j
    BY <1>1, <1>2, <2>2, ReleasedOther DEF Submit, dbVars, TypeOK
  <2> QED
    BY <2>1, <2>2
<1>3. CASE ReserveHere(j)
  <2>1. /\ op[j].phase = "reserving" /\ op[j].at = NoNode /\ queue' = queue
        /\ \/ Proceed(j, op[j].todo \ {Home[j]}, TRUE)
           \/ Proceed(j, {}, FALSE)
    BY <1>3 DEF ReserveHere
  <2>2. CASE k # j
    <3>1. op'[k] = op[k]
      <4>1. op[j].todo \ {Home[j]} \in SUBSET Node /\ {} \in SUBSET Node
        BY <1>1
      <4>2. CASE Proceed(j, op[j].todo \ {Home[j]}, TRUE)
        BY <2>2, <4>1, <4>2, ProceedEffect
      <4>3. CASE Proceed(j, {}, FALSE)
        BY <2>2, <4>1, <4>3, ProceedEffect
      <4> QED
        BY <2>1, <4>2, <4>3
    <3>2. Keep(Home[j], j) \/ UNCHANGED resv
      BY <1>3 DEF ReserveHere
    <3>3. \A n \in Node : k \in resv'[n] => k \in resv[n]
      BY <1>1, <2>2, <3>2, OtherRecords
    <3> QED
      BY <1>1, <2>1, <3>1, <3>3, ReleasedOther
  <2>3. CASE k = j
    <3>1. op'[j].phase \in {"reserving", "held", "undoing"} /\ op'[j].at = NoNode
      <4>1. op[j].todo \ {Home[j]} \in SUBSET Node /\ {} \in SUBSET Node
        BY <1>1
      <4>2. CASE Proceed(j, op[j].todo \ {Home[j]}, TRUE)
        BY <2>1, <4>1, <4>2, ProceedEffect DEF Done
      <4>3. CASE Proceed(j, {}, FALSE)
        BY <2>1, <4>1, <4>3, ProceedEffect
      <4> QED
        BY <2>1, <4>2, <4>3
    <3>2. To(j, "reserve") = {} /\ To(j, "cancel") = {}
      BY <1>1, <2>1, NodeAssumption DEF ReleasedJob, To
    <3>3. To(j, "reserve")' = {} /\ To(j, "cancel")' = {}
      BY <2>1, <3>2 DEF To
    <3> QED
      BY <2>3, <3>1, <3>3 DEF ReleasedJob
  <2> QED
    BY <2>2, <2>3
<1>4. CASE CancelHere(j)
  <2>1. /\ op[j].phase \in {"undoing", "releasing"} /\ queue' = queue
        /\ Proceed(j, op[j].todo \ {Home[j]}, TRUE) /\ Drop(Home[j], j)
    BY <1>4 DEF CancelHere
  <2>2. CASE k # j
    BY <1>1, <2>1, <2>2, ProceedEffect, ReleasedOther DEF Drop, TypeOK
  <2>3. CASE k = j
    <3>1. /\ op'[j].todo = op[j].todo \ {Home[j]}
          /\ op'[j].todo = {} => op'[j].phase = Done(op[j].phase)
          /\ op'[j].todo # {} => op'[j].phase = op[j].phase
      BY <1>1, <2>1, ProceedOn
    <3>2. To(j, "reserve")' = To(j, "reserve") /\ To(j, "cancel")' = To(j, "cancel")
      BY <2>1 DEF To
    <3>3. \A n \in Node : j \in resv'[n] => j \in resv[n] /\ n # Home[j]
      BY <2>1 DEF Drop, TypeOK
    <3>4. CASE op[j].phase = "undoing"
      <4>1. op'[j].phase \in {"undoing", "refused"}
        BY <3>1, <3>4 DEF Done
      <4> QED
        BY <2>3, <4>1 DEF ReleasedJob
    <3>5. CASE op[j].phase = "releasing"
      <4>1. \/ op'[j].phase = "releasing"
            \/ op'[j].phase = "released" /\ op'[j].todo = {}
        BY <3>1, <3>5 DEF Done
      <4>2. To(j, "reserve") = {}
        BY <1>1, <3>5 DEF ReleasedJob
      <4>3. \A n \in Node \ op'[j].todo : j \in resv'[n] => n \in To(j, "cancel")'
        BY <1>1, <3>1, <3>2, <3>3, <3>5 DEF ReleasedJob
      <4> QED
        BY <2>3, <3>2, <4>1, <4>2, <4>3 DEF ReleasedJob
    <3> QED
      BY <2>1, <3>4, <3>5
  <2> QED
    BY <2>2, <2>3
<1>5. CASE TimeOut(j)
  <2>1. /\ op[j].at # NoNode /\ Proceed(j, op[j].todo, op[j].phase # "reserving")
        /\ queue' = queue /\ resv' = resv
    BY <1>5 DEF TimeOut, dbVars
  <2>2. CASE k # j
    <3>1. op'[k] = op[k]
      BY <2>1, <2>2 DEF Proceed, TypeOK
    <3> QED
      BY <1>1, <2>1, <2>2, <3>1, ReleasedOther
  <2>3. CASE k = j
    <3>1. /\ op[j].phase = "reserving" => op'[j].phase = "undoing"
          /\ op[j].phase # "reserving" =>
                 /\ op'[j].todo = op[j].todo /\ op'[j].at = NoNode
                 /\ op[j].todo = {} => op'[j].phase = Done(op[j].phase)
                 /\ op[j].todo # {} => op'[j].phase = op[j].phase
      <4>1. CASE op[j].phase = "reserving"
        <5>1. Proceed(j, op[j].todo, FALSE)
          BY <2>1, <4>1 DEF Proceed
        <5> QED
          BY <1>1, <4>1, <5>1, ProceedEffect
      <4>2. CASE op[j].phase # "reserving"
        <5>1. Proceed(j, op[j].todo, TRUE)
          BY <2>1, <4>2 DEF Proceed
        <5> QED
          BY <1>1, <4>2, <5>1, ProceedEffect
      <4> QED
        BY <4>1, <4>2
    <3>2. To(j, "reserve")' = To(j, "reserve") /\ To(j, "cancel")' = To(j, "cancel")
      BY <2>1 DEF To
    <3>3. CASE op[j].phase = "reserving"
      BY <2>3, <3>1, <3>3 DEF ReleasedJob
    <3>4. CASE op[j].phase \in {"new", "held"}
      BY <1>1, <2>1, <3>4 DEF ReleasedJob
    <3>5. CASE op[j].phase \in {"undoing", "refused"}
      <4>1. op'[j].phase \in {"undoing", "refused"}
        BY <3>1, <3>5 DEF Done
      <4> QED
        BY <2>3, <4>1 DEF ReleasedJob
    <3>6. CASE op[j].phase \in {"releasing", "released"}
      <4>1. op'[j].phase \in {"releasing", "released"}
            /\ (op'[j].phase = "released" => op[j].phase = "released" \/ op[j].todo = {})
            /\ (op'[j].phase = "releasing" => op[j].phase = "releasing")
        BY <3>1, <3>6 DEF Done
      <4>2. To(j, "reserve") = {}
        BY <1>1, <3>6 DEF ReleasedJob
      <4> QED
        BY <1>1, <2>1, <2>3, <3>1, <3>2, <3>6, <4>1, <4>2 DEF ReleasedJob
    <3> QED
      BY <3>3, <3>4, <3>5, <3>6 DEF TypeOK, OpRecord, Phase
  <2> QED
    BY <2>2, <2>3
<1>6. ASSUME NEW n \in Node, Ask(j, n) PROVE ReleasedJob(k)'
  <2>0. PICK kind \in {"reserve", "cancel"} :
            kind = IF op[j].phase = "reserving" THEN "reserve" ELSE "cancel"
    OBVIOUS
  <2>1. /\ op' = [op EXCEPT ![j] = GoTo(@, n)] /\ op[j].phase \in {"reserving", "undoing", "releasing"}
        /\ op[j].at = NoNode /\ n \in op[j].todo /\ resv' = resv
        /\ queue' = queue \cup {Plain(kind, j, n)}
    BY <1>6, <2>0 DEF Ask, dbVars
  <2>2. op'[j].phase = op[j].phase /\ op'[j].todo = op[j].todo \ {n} /\ op'[j].at = n
        /\ \A i \in Job \ {j} : op'[i] = op[i]
    BY <2>1 DEF GoTo, TypeOK, OpRecord
  <2>3. CASE k # j
    BY <1>1, <2>1, <2>2, <2>3, ReleasedOther DEF Plain
  <2>4. CASE k = j
    <3>1. /\ To(j, kind)' = To(j, kind) \cup {n}
          /\ \A other : other # kind => To(j, other)' = To(j, other)
      <4> DEFINE sent == Plain(kind, j, n)
      <4>1. sent.kind = kind /\ sent.of = j /\ sent.to = n
        BY DEF Plain
      <4>2. queue' = queue \cup {sent}
        BY <2>1
      <4> HIDE DEF sent
      <4>3. ASSUME NEW p \in Node, NEW some
            PROVE  (\E m \in queue' : m.kind = some /\ m.of = j /\ m.to = p) <=>
                   (\E m \in queue : m.kind = some /\ m.of = j /\ m.to = p) \/ (some = kind /\ p = n)
        BY <4>1, <4>2
      <4>4. To(j, kind)' = To(j, kind) \cup {n}
        <5>1. \A p \in Node : p \in To(j, kind)' <=> p \in To(j, kind) \/ p = n
          BY <4>3 DEF To
        <5>2. To(j, kind)' \subseteq Node /\ To(j, kind) \subseteq Node
          BY DEF To
        <5> QED
          BY <5>1, <5>2
      <4>5. ASSUME NEW other, other # kind PROVE To(j, other)' = To(j, other)
        BY <4>3, <4>5 DEF To
      <4> QED
        BY <4>4, <4>5
    <3>2. CASE op[j].phase = "reserving"
      <4>1. To(j, "reserve") = {}
        BY <1>1, <2>1, <3>2, NodeAssumption DEF ReleasedJob, To
      <4> QED
        BY <1>1, <2>2, <2>4, <2>0, <3>1, <3>2, <4>1 DEF ReleasedJob
    <3>3. CASE op[j].phase = "undoing"
      BY <2>2, <2>4, <3>3 DEF ReleasedJob
    <3>4. CASE op[j].phase = "releasing"
      BY <1>1, <2>1, <2>2, <2>4, <2>0, <3>1, <3>4 DEF ReleasedJob
    <3> QED
      BY <2>1, <3>2, <3>3, <3>4
  <2> QED
    BY <2>3, <2>4
<1>7. ASSUME NEW loop \in {"rest", "p2p"}, Release(j, loop) PROVE ReleasedJob(k)'
  <2>1. op[j].phase = "held" /\ op'[j].phase = "releasing" /\ op'[j].todo = Node
        /\ \A i \in Job \ {j} : op'[i] = op[i]
    BY <1>7 DEF Release, TypeOK
  <2>2. UNCHANGED <<resv, queue>>
    BY <1>7 DEF Release, dbVars
  <2>3. CASE k = j
    BY <1>1, <2>1, <2>2, <2>3 DEF ReleasedJob, To
  <2>4. CASE k # j
    BY <1>1, <2>1, <2>2, <2>4, ReleasedOther
  <2> QED
    BY <2>3, <2>4
<1> QED
  BY <1>2, <1>3, <1>4, <1>5, <1>6, <1>7 DEF Reservation

\* The steps of the loop of a node that is asked: no answer is lost.
LEMMA ReleasedServed ==
    ASSUME ~MayLose, TypeOK, ReleasedInv, NEW m \in queue,
           ServeReserve(m) \/ ServeCancel(m) \/ ServeUpdate(m), NEW k \in Job
    PROVE  ReleasedJob(k)'
<1> DEFINE j == m.of
<1>1. ReleasedJob(k) /\ m \in Message /\ queue' = queue \ {m}
  BY DEF ReleasedInv, TypeOK, ServeReserve, ServeCancel, ServeUpdate, Take
<1>2. \A kind \in {"reserve", "cancel"} : /\ To(k, kind)' \subseteq To(k, kind)
                                          /\ To(k, kind) \ {m.to} \subseteq To(k, kind)'
  BY <1>1 DEF To
<1>3. CASE ServeUpdate(m)
  <2>1. m.kind = "update" /\ UNCHANGED <<op, resv>>
    BY <1>3 DEF ServeUpdate, Take
  <2> QED
    BY <1>1, <2>1, ReleasedOther
<1>4. CASE ServeReserve(m)
  <2>1. j \in Job /\ m.to \in Node /\ ReleasedJob(j) /\ op[j].todo \in SUBSET Node /\ m.kind = "reserve"
    BY <1>1, <1>4 DEF ServeReserve, Take, Message, ReleasedInv, TypeOK, OpRecord
  <2>2. m.to \in To(j, "reserve")
    BY <2>1 DEF To
  <2>3. CASE k # j
    <3>1. \A n \in Node : k \in resv'[n] => k \in resv[n]
      BY <1>4, <2>1, <2>3, OtherRecords DEF ServeReserve
    <3>2. op'[k] = op[k]
      BY <1>4, <2>1, <2>3, ProceedEffect DEF ServeReserve, Answer
    <3> QED
      BY <1>1, <2>3, <3>1, <3>2, ReleasedOther
  <2>4. CASE k = j /\ op[j].phase = "reserving"
    <3>1. Awaited(m)
      BY <2>1, <2>2, <2>4 DEF Awaited, ReleasedJob
    <3>2. PICK accepted \in BOOLEAN : Proceed(j, op[j].todo, accepted)
      BY <1>4, <3>1 DEF ServeReserve, Answer
    <3>3. op'[j].phase \in {"reserving", "held", "undoing"} /\ op'[j].at = NoNode
      BY <2>1, <2>4, <3>2, ProceedEffect DEF Done
    <3>4. To(j, "reserve")' = {} /\ To(j, "cancel")' = {}
      <4>1. \A p \in queue : p.kind = "reserve" /\ p.of = j /\ p.to \in Node => p.to = m.to
        BY <2>1, <2>2, <2>4 DEF ReleasedJob, To
      <4>2. \A p \in queue : p.kind = "reserve" /\ p.of = j /\ p.to \in Node => p = m
        BY <2>1, <4>1 DEF ReleasedInv, RequestsPlain
      <4>3. To(j, "reserve")' = {}
        BY <1>1, <4>2 DEF To
      <4>4. To(j, "cancel") = {}
        BY <2>1, <2>4 DEF ReleasedJob
      <4> QED
        BY <1>2, <2>4, <4>3, <4>4
    <3> QED
      BY <2>4, <3>3, <3>4 DEF ReleasedJob
  <2>5. CASE k = j /\ op[j].phase # "reserving"
    <3>1. ~Awaited(m)
      BY <2>1, <2>5 DEF Awaited
    <3>2. op' = op
      BY <1>4, <3>1 DEF ServeReserve, Answer
    <3>3. op[j].phase \in {"undoing", "refused"}
      BY <2>1, <2>2, <2>5 DEF ReleasedJob, TypeOK, OpRecord, Phase
    <3> QED
      BY <2>5, <3>2, <3>3 DEF ReleasedJob
  <2> QED
    BY <2>3, <2>4, <2>5
<1>5. CASE ServeCancel(m)
  <2>1. j \in Job /\ m.to \in Node /\ ReleasedJob(j) /\ op[j].todo \in SUBSET Node /\ m.kind = "cancel"
    BY <1>1, <1>5 DEF ServeCancel, Take, Message, ReleasedInv, TypeOK, OpRecord
  <2>2. m.to \in To(j, "cancel")
    BY <2>1 DEF To
  <2>3. \A n \in Node : /\ k \in resv'[n] => k \in resv[n]
                        /\ k = j => j \notin resv'[m.to]
    BY <1>5, <2>1 DEF ServeCancel, Drop, TypeOK
  <2>4. CASE k # j
    <3>1. op'[k] = op[k]
      BY <1>5, <2>1, <2>4, ProceedEffect DEF ServeCancel, Answer
    <3> QED
      BY <1>1, <2>3, <2>4, <3>1, ReleasedOther
  <2>5. CASE k = j /\ op' = op
    BY <1>1, <1>2, <2>3, <2>5, ReleasedAlone
  <2>6. CASE k = j /\ op' # op
    <3>1. Awaited(m) /\ Proceed(j, op[j].todo, TRUE)
      BY <1>5, <2>6 DEF ServeCancel, Answer
    <3>2. op[j].phase \in {"undoing", "releasing"}
      BY <2>1, <3>1 DEF Awaited
    <3>3. /\ op'[j].todo = op[j].todo
          /\ op[j].todo = {} => op'[j].phase = Done(op[j].phase)
          /\ op[j].todo # {} => op'[j].phase = op[j].phase
      <4> HIDE DEF j
      <4> QED
        BY <2>1, <3>1 DEF Proceed, TypeOK
    <3>4. CASE op[j].phase = "undoing"
      BY <2>6, <3>3, <3>4 DEF ReleasedJob, Done
    <3>5. CASE op[j].phase = "releasing"
      <4>1. op'[j].phase \in {"releasing", "released"} /\ (op'[j].phase = "released" => op[j].todo = {})
        BY <3>3, <3>5 DEF Done
      <4>2. \A n \in Node \ op[j].todo : j \in resv'[n] => n \in To(j, "cancel")'
        BY <1>2, <2>1, <2>3, <2>6, <3>5 DEF ReleasedJob
      <4>3. To(j, "reserve")' = {}
        BY <1>2, <2>1, <2>6, <3>5 DEF ReleasedJob
      <4> QED
        BY <2>6, <3>3, <4>1, <4>2, <4>3 DEF ReleasedJob
    <3> QED
      BY <3>2, <3>4, <3>5
  <2> QED
    BY <2>4, <2>5, <2>6
<1> QED
  BY <1>3, <1>4, <1>5

\* ReleasedInv is inductive, as long as nobody joins and nothing is lost.
LEMMA ReleasedStep ==
    ASSUME JoinBy = {}, ~MayLose, TypeOK, NoJoins, ReleasedInv, [Next]_vars PROVE ReleasedInv'
<1> SUFFICES ASSUME NEW k \in Job PROVE ReleasedJob(k)'
  BY RequestsStep DEF ReleasedInv
<1>1. ASSUME NEW n \in Node, Budgeting(n) PROVE ReleasedJob(k)'
  <2>1. /\ UNCHANGED <<op, resv>> /\ queue \subseteq queue'
        /\ \A m \in queue' : m \in queue \/ m.kind = "update"
    BY <1>1 DEF Budgeting, UpdateHere, UpdateTimeOut, UpdatePeer, Plain, dbVars
  <2> QED
    BY <2>1, ReleasedOther DEF ReleasedInv
<1>2. CASE UNCHANGED vars
  BY <1>2, ReleasedOther DEF vars, dbVars, ReleasedInv
<1>3. \A m \in queue : ~Lose(m)
  BY DEF Lose
<1> QED
  BY <1>1, <1>2, <1>3, ReleasedHome, ReleasedServed, NeverJoining DEF Next, Serve

\* While no node joins and no request is lost, a released job is on no record any more once its
\* cancellations have been served, however late they and its other requests are.
THEOREM ReleasedCorrect ==
    ASSUME JoinBy = {}, ~MayLose PROVE Spec => []ReleasedLeavesNothing
<1>1. Init => NoJoins /\ ReleasedInv
  BY DEF Init, NoJoins, ReleasedInv, RequestsPlain, ReleasedJob, To
<1>2. TypeOK /\ NoJoins /\ ReleasedInv /\ [Next]_vars => NoJoins' /\ ReleasedInv'
  BY NoJoinStep, ReleasedStep
<1>3. ReleasedInv => ReleasedLeavesNothing
  BY DEF ReleasedInv, ReleasedJob, To, Queued, ReleasedLeavesNothing
<1> QED
  BY <1>1, <1>2, <1>3, TypeCorrect, PTL DEF Spec

----------------------------------------------------------------------------
\* One user changes the budget

\* Before the update nobody knows of the new budget; afterwards every node that was visited has
\* it on record, or is going to be told.
UpdateInv ==
    /\ \A n \in Node : upd[n].phase = "new" => upd[n].at = NoNode
    /\ \A n \in Node \ UpdateBy : upd[n].phase = "new"
    /\ \A n \in Node : upd[n].phase = "done" => upd[n].todo = {}
    /\ \A m \in queue : m.kind = "update" =>
           m.of \in UpdateBy /\ upd[m.of].phase # "new" /\ m.budget = NewBudget[m.of]
    /\ (\A u \in UpdateBy : upd[u].phase = "new") => \A n \in Node : budget[n] = Budget
    /\ \A u \in UpdateBy : upd[u].phase # "new" =>
           \A n \in Node \ upd[u].todo :
               \/ budget[n] = NewBudget[u]
               \/ \E m \in queue : m.kind = "update" /\ m.of = u /\ m.to = n

\* Steps that concern no update leave it true.
LEMMA UpdateAlone ==
    ASSUME UpdateInv, UNCHANGED <<budget, upd>>,
           \A m \in queue' : m \in queue \/ m.kind # "update",
           \A m \in queue : m \in queue' \/ m.kind # "update"
    PROVE  UpdateInv'
BY DEF UpdateInv

\* UpdateInv is inductive, as long as one node at most updates the budget, nobody joins and
\* nothing is lost.
LEMMA UpdateStep ==
    ASSUME JoinBy = {}, ~MayLose, \A n, p \in UpdateBy : n = p,
           TypeOK, NoJoins, UpdateInv, [Next]_vars
    PROVE  UpdateInv'
<1>1. ASSUME NEW j \in Job, Submit(j) \/ Reservation(j) \/ Release(j, "rest") \/ Release(j, "p2p")
      PROVE  UpdateInv'
  <2>1. CASE Submit(j) \/ Release(j, "rest") \/ Release(j, "p2p") \/ ReserveHere(j) \/ CancelHere(j)
             \/ TimeOut(j)
    <3>1. UNCHANGED <<budget, upd, queue>>
      BY <2>1 DEF Submit, Release, ReserveHere, CancelHere, TimeOut, dbVars
    <3> QED
      BY <3>1, UpdateAlone
  <2>2. ASSUME NEW n \in Node, Ask(j, n) PROVE UpdateInv'
    <3>1. /\ UNCHANGED <<budget, upd>> /\ queue \subseteq queue'
          /\ \A m \in queue' : m \in queue \/ m.kind # "update"
      BY <2>2 DEF Ask, Plain, dbVars
    <3> QED
      BY <3>1, UpdateAlone
  <2> QED
    BY <1>1, <2>1, <2>2 DEF Reservation
<1>2. ASSUME NEW n \in Node, UpdateHere(n) PROVE UpdateInv'
  <2>1. /\ n \in UpdateBy /\ upd[n].phase = "new" /\ queue' = queue
        /\ budget' = [budget EXCEPT ![n] = NewBudget[n]]
        /\ upd' = [upd EXCEPT ![n] = [phase |-> "visiting", todo |-> Node \ {n}, at |-> NoNode]]
    BY <1>2 DEF UpdateHere
  <2>2. /\ upd'[n].phase = "visiting" /\ upd'[n].todo = Node \ {n}
        /\ \A p \in Node \ {n} : upd'[p] = upd[p]
        /\ budget'[n] = NewBudget[n]
    BY <2>1 DEF TypeOK
  <2>3. \A u \in UpdateBy : u = n
    BY <2>1
  <2> QED
    BY <2>1, <2>2, <2>3 DEF UpdateInv
<1>3. ASSUME NEW n \in Node, NEW p \in Node, UpdatePeer(n, p) PROVE UpdateInv'
  <2> DEFINE sent == [Plain("update", n, p) EXCEPT !.budget = NewBudget[n]]
  <2>1. sent.kind = "update" /\ sent.of = n /\ sent.to = p /\ sent.budget = NewBudget[n]
    BY DEF Plain
  <2>2. /\ n \in UpdateBy /\ upd[n].phase = "visiting" /\ queue' = queue \cup {sent}
        /\ upd' = [upd EXCEPT ![n] = GoTo(@, p)] /\ budget' = budget
    BY <1>3 DEF UpdatePeer, dbVars
  <2>3. /\ upd'[n].phase = "visiting" /\ upd'[n].todo = upd[n].todo \ {p}
        /\ \A q \in Node \ {n} : upd'[q] = upd[q]
    BY <2>2 DEF TypeOK, GoTo, Visit
  <2> HIDE DEF sent
  <2>4. \A q \in Node \ upd'[n].todo : \/ budget[q] = NewBudget[n]
                                       \/ \E m \in queue' : m.kind = "update" /\ m.of = n /\ m.to = q
    BY <2>1, <2>2, <2>3 DEF UpdateInv
  <2>5. \A u \in UpdateBy : u = n
    BY <2>2
  <2> QED
    BY <2>1, <2>2, <2>3, <2>4, <2>5 DEF UpdateInv
<1>4. ASSUME NEW n \in Node, upd[n].phase # "new", upd' = After(upd, n), budget' = budget, queue' = queue
      PROVE  UpdateInv'
  <2>1. /\ upd'[n].phase # "new" /\ upd'[n].todo = upd[n].todo
        /\ upd'[n].phase = "done" => upd[n].todo = {}
        /\ \A q \in Node \ {n} : upd'[q] = upd[q]
    BY <1>4 DEF TypeOK, After
  <2> QED
    BY <1>4, <2>1, NodeAssumption DEF UpdateInv
<1>5. ASSUME NEW m \in queue, ServeUpdate(m) PROVE UpdateInv'
  <2>1. /\ m.kind = "update" /\ queue' = queue \ {m} /\ m \in Message
        /\ budget' = [budget EXCEPT ![m.to] = m.budget]
        /\ upd' = After(upd, m.of) \/ upd' = upd
    BY <1>5 DEF ServeUpdate, Take, TypeOK
  <2>2. m.to \in Node /\ m.of \in UpdateBy /\ m.of \in Node /\ upd[m.of].phase # "new"
        /\ m.budget = NewBudget[m.of]
    BY <2>1, NodeAssumption DEF UpdateInv, Message
  <2>3. /\ \A q \in Node : upd'[q].todo = upd[q].todo /\ (upd'[q].phase = "new" <=> upd[q].phase = "new")
        /\ \A q \in Node : upd'[q].phase = "new" => upd'[q].at = upd[q].at
        /\ \A q \in Node : upd'[q].phase = "done" => upd[q].phase = "done" \/ upd[q].todo = {}
    <3>1. CASE upd' = upd
      BY <3>1
    <3>2. CASE upd' = After(upd, m.of)
      <4>1. /\ upd'[m.of].todo = upd[m.of].todo /\ upd'[m.of].phase # "new"
            /\ upd'[m.of].phase = "done" => upd[m.of].todo = {}
            /\ \A q \in Node \ {m.of} : upd'[q] = upd[q]
        BY <2>2, <3>2 DEF After, TypeOK
      <4> QED
        BY <2>2, <4>1
    <3> QED
      BY <2>1, <3>1, <3>2
  <2>4. budget'[m.to] = m.budget /\ \A q \in Node \ {m.to} : budget'[q] = budget[q]
    BY <2>1, <2>2 DEF TypeOK
  <2>5. \A u \in UpdateBy : u = m.of
    BY <2>2
  <2>6. \A n \in Node \ upd'[m.of].todo :
            \/ budget'[n] = NewBudget[m.of]
            \/ \E p \in queue' : p.kind = "update" /\ p.of = m.of /\ p.to = n
    BY <2>1, <2>2, <2>3, <2>4 DEF UpdateInv
  <2> QED
    BY <2>1, <2>2, <2>3, <2>5, <2>6, NodeAssumption DEF UpdateInv
<1>6. ASSUME NEW m \in queue, ServeReserve(m) \/ ServeCancel(m) PROVE UpdateInv'
  <2>1. UNCHANGED <<budget, upd>> /\ queue' = queue \ {m} /\ m.kind # "update"
    BY <1>6 DEF ServeReserve, ServeCancel, Take
  <2> QED
    BY <2>1, UpdateAlone
<1>7. CASE UNCHANGED vars
  BY <1>7, UpdateAlone DEF vars, dbVars
<1>8. ASSUME NEW n \in Node, UpdateTimeOut(n) PROVE UpdateInv'
  <2>1. upd[n].phase # "new" /\ upd' = After(upd, n) /\ budget' = budget /\ queue' = queue
    BY <1>8 DEF UpdateTimeOut, UpdateInv, dbVars
  <2> QED
    BY <1>4, <2>1
<1>9. \A m \in queue : ~Lose(m)
  BY DEF Lose
<1> QED
  BY <1>1, <1>2, <1>3, <1>5, <1>6, <1>7, <1>8, <1>9, NeverJoining DEF Next, Serve, Budgeting

\* If one user at most changes the budget, no node joins and no request is lost, the records of
\* all nodes agree once the broadcast is over, however late its requests were served.
THEOREM BudgetsCorrect ==
    ASSUME JoinBy = {}, ~MayLose, \A n, p \in UpdateBy : n = p PROVE Spec => []BudgetsAgree
<1>1. Init => NoJoins /\ UpdateInv
  BY NodeAssumption DEF Init, NoJoins, UpdateInv
<1>2. TypeOK /\ NoJoins /\ UpdateInv /\ [Next]_vars => NoJoins' /\ UpdateInv'
  BY NoJoinStep, UpdateStep
<1>3. TypeOK /\ UpdateInv => BudgetsAgree
  <2> SUFFICES ASSUME TypeOK, UpdateInv, \A n \in Node : upd[n].phase # "visiting",
                      \A m \in queue : m.kind # "update"
               PROVE  \A n, p \in Node : budget[n] = budget[p]
    BY DEF BudgetsAgree
  <2>1. CASE \A u \in UpdateBy : upd[u].phase = "new"
    BY <2>1 DEF UpdateInv
  <2>2. ASSUME NEW u \in UpdateBy, upd[u].phase # "new" PROVE \A n, p \in Node : budget[n] = budget[p]
    <3>1. u \in Node /\ upd[u].todo = {}
      BY <2>2, NodeAssumption DEF UpdateInv, TypeOK, Visit
    <3> QED
      BY <2>2, <3>1 DEF UpdateInv
  <2> QED
    BY <2>1, <2>2
<1> QED
  BY <1>1, <1>2, <1>3, TypeCorrect, PTL DEF Spec
=============================================================================
