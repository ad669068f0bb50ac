-------------------------- MODULE BatchBarrier_proofs --------------------------
(* Proofs about BatchBarrier, for a batch of any size: nobody starts before  *)
(* the whole batch has shaken hands, and nobody waits for nothing.           *)
EXTENDS BatchBarrier, TLAPS

HandshakeDone == {"release", "wait", "past", "stopped"}

\* the types the proofs need
Types ==
    /\ pc \in [Member -> Pcs]
    /\ seen \in [Member -> SUBSET Member] /\ registered \in SUBSET Member
    /\ todo \in [Member -> SUBSET Member] /\ releases \in [Member -> SUBSET Member]

\* a status names only members that have registered, whoever passed it on
StatusesTrue ==
    \A m \in Member : seen[m] \subseteq registered /\ releases[m] \subseteq registered

PastKnowsAll == \A m \in Member : pc[m] = "past" => seen[m] = Member

\* whoever is through with the handshake has registered, so the last one finds all
DoneRegistered == \A m \in Member : pc[m] \in HandshakeDone => m \in registered

\* a runner that releases knows all, and does not forget itself
ReleaserKnows ==
    \A m \in Member : pc[m] = "release" =>
        /\ seen[m] = Member
        /\ m \in todo[m] \/ releases[m] # {} \/ m \in missed

BarrierInv ==
    Types /\ StatusesTrue /\ PastKnowsAll /\ DoneRegistered /\ ReleaserKnows /\ WaitsForSomebody

\* Nothing has happened yet.
LEMMA BarrierInit == Init => BarrierInv
BY DEF Init, BarrierInv, Types, Pcs, StatusesTrue, PastKnowsAll, DoneRegistered, HandshakeDone,
       ReleaserKnows, WaitsForSomebody

\* A handshake that is answered: the last one of all finds every member registered.
LEMMA HandshakeStep ==
    ASSUME BarrierInv, NEW m \in Member, Handshake(m) PROVE BarrierInv'
<1> USE DEF Handshake, AfterHandshake, BatchStatus, MappingsComplete
<1>1. Types'
  BY DEF BarrierInv, Types, Pcs
<1>2. StatusesTrue'
  BY DEF BarrierInv, Types, StatusesTrue
<1>3. PastKnowsAll'
  BY DEF BarrierInv, Types, PastKnowsAll
<1>4. DoneRegistered'
  BY DEF BarrierInv, Types, DoneRegistered
<1>5. ReleaserKnows'
  BY DEF BarrierInv, Types, ReleaserKnows
<1>6. WaitsForSomebody'
  <2>1. CASE registered' = Member
    <3>1. pc'[m] = "release" /\ todo'[m] = Member
      BY <2>1 DEF BarrierInv, Types
    <3> QED
      BY <3>1 DEF WaitsForSomebody
  <2>2. CASE registered' # Member
    <3>1. PICK k \in Member : k \notin registered'
      BY <2>2 DEF BarrierInv, Types
    <3>2. pc'[k] \in Pcs /\ pc'[k] \notin HandshakeDone
      BY <1>1, <1>4, <3>1 DEF Types, DoneRegistered
    <3>3. pc'[k] \in {"handshake", "sent", "failed"}
      BY <3>2 DEF Pcs, HandshakeDone
    <3> QED
      BY <3>3 DEF WaitsForSomebody
  <2> QED
    BY <2>1, <2>2
<1> QED
  BY <1>1, <1>2, <1>3, <1>4, <1>5, <1>6 DEF BarrierInv

\* A release, whether or not it arrives.
LEMMA ReleaseStep ==
    ASSUME BarrierInv, NEW m \in Member, NEW k \in Member, Release(m, k) PROVE BarrierInv'
<1> USE DEF Release, Released
<1>1. Types' /\ seen[m] = Member
  BY DEF BarrierInv, Types, ReleaserKnows
<1>2. StatusesTrue' /\ PastKnowsAll' /\ DoneRegistered'
  BY DEF BarrierInv, Types, StatusesTrue, PastKnowsAll, DoneRegistered
<1>3. releases'[k] # {} \/ k \in missed'
  BY <1>1 DEF BarrierInv, Types
<1>4. \A w \in Member \ {k} : releases'[w] = releases[w]
  BY DEF BarrierInv, Types
<1>5. missed \subseteq missed'
  OBVIOUS
<1>6. \A j, w \in Member : w \in todo[j] /\ w # k => w \in todo'[j]
  BY DEF BarrierInv, Types
<1>7. ReleaserKnows'
  BY <1>3, <1>4, <1>5, <1>6 DEF BarrierInv, ReleaserKnows
<1>8. WaitsForSomebody'
  BY <1>3, <1>4, <1>5, <1>6 DEF BarrierInv, WaitsForSomebody
<1> QED
  BY <1>1, <1>2, <1>7, <1>8 DEF BarrierInv

\* The steps of a runner that waits, or stops to release.
LEMMA WaitStep ==
    ASSUME BarrierInv, NEW m \in Member, AllReleased(m) \/ Pass(m) \/ Stop(m)
    PROVE  BarrierInv'
<1>1. CASE AllReleased(m)
  <2>1. Types' /\ StatusesTrue' /\ PastKnowsAll' /\ DoneRegistered' /\ ReleaserKnows'
    BY <1>1 DEF AllReleased, Released, BarrierInv, Types, Pcs, StatusesTrue, PastKnowsAll,
                DoneRegistered, HandshakeDone, ReleaserKnows
  <2>2. releases[m] # {} \/ m \in missed
    BY <1>1 DEF AllReleased, Released, BarrierInv, ReleaserKnows
  <2>3. WaitsForSomebody'
    BY <1>1, <2>2 DEF AllReleased, Released, BarrierInv, Types, WaitsForSomebody
  <2> QED
    BY <2>1, <2>3 DEF BarrierInv
<1>2. CASE Pass(m)
  <2>1. Types' /\ StatusesTrue' /\ DoneRegistered' /\ ReleaserKnows'
    BY <1>2 DEF Pass, BarrierInv, Types, Pcs, StatusesTrue, DoneRegistered, HandshakeDone,
                ReleaserKnows
  <2>2. PastKnowsAll'
    BY <1>2 DEF Pass, MappingsComplete, BarrierInv, Types, PastKnowsAll
  <2>3. WaitsForSomebody'
    BY <1>2 DEF Pass, BarrierInv, Types, WaitsForSomebody
  <2> QED
    BY <2>1, <2>2, <2>3 DEF BarrierInv
<1>3. CASE Stop(m)
  BY <1>3 DEF Stop, BarrierInv, Types, Pcs, StatusesTrue, PastKnowsAll, DoneRegistered,
              HandshakeDone, ReleaserKnows, WaitsForSomebody
<1> QED
  BY <1>1, <1>2, <1>3

\* The other steps: handshakes that are sent, refused, lost or late, and cancellations.
LEMMA OtherStep ==
    ASSUME BarrierInv, NEW m \in Member,
           SendHandshake(m) \/ Rejected(m) \/ HandshakeFails(m) \/ LateHandshake(m) \/ Cancel(m)
    PROVE  BarrierInv'
<1> USE DEF BarrierInv, Types, Pcs, StatusesTrue, PastKnowsAll, DoneRegistered, HandshakeDone,
            ReleaserKnows, WaitsForSomebody
<1>1. CASE SendHandshake(m)
  BY <1>1 DEF SendHandshake
<1>2. CASE Rejected(m)
  BY <1>2 DEF Rejected
<1>3. CASE HandshakeFails(m)
  BY <1>3 DEF HandshakeFails
<1>4. CASE LateHandshake(m)
  BY <1>4 DEF LateHandshake
<1>5. CASE Cancel(m)
  BY <1>5 DEF Cancel
<1> QED
  BY <1>1, <1>2, <1>3, <1>4, <1>5

\* BarrierInv is inductive.
LEMMA BarrierNext == BarrierInv /\ [Next]_vars => BarrierInv'
<1> SUFFICES ASSUME BarrierInv, [Next]_vars PROVE BarrierInv'
  OBVIOUS
<1>1. CASE Next
  BY <1>1, HandshakeStep, ReleaseStep, WaitStep, OtherStep DEF Next
<1>2. CASE UNCHANGED vars
  BY <1>2 DEF vars, BarrierInv, Types, StatusesTrue, PastKnowsAll, DoneRegistered, ReleaserKnows,
              WaitsForSomebody
<1> QED
  BY <1>1, <1>2

\* What BarrierInv says of a runner past the barrier, and of one that waits.
LEMMA BarrierAgrees == BarrierInv => BarrierHolds /\ WaitsForSomebody
BY DEF BarrierInv, Types, StatusesTrue, PastKnowsAll, BarrierHolds

\* what the proofs above do not need of the types
Counted == attempt \in [Member -> 0..MaxAttempts] /\ missed \subseteq Member

\* A handshake is tried a number of times at most.
LEMMA CountedNext ==
    ASSUME MaxAttempts \in Nat, BarrierInv, Counted, [Next]_vars PROVE Counted'
<1>1. CASE UNCHANGED vars
  BY <1>1 DEF vars, Counted
<1>2. ASSUME NEW m \in Member, SendHandshake(m) PROVE Counted'
  BY <1>2 DEF SendHandshake, Counted
<1>3. ASSUME NEW m \in Member, NEW k \in Member, Release(m, k) PROVE Counted'
  BY <1>3 DEF Release, Counted
<1>4. ASSUME NEW m \in Member,
             \/ Handshake(m) \/ Rejected(m) \/ HandshakeFails(m) \/ LateHandshake(m)
             \/ AllReleased(m) \/ Pass(m) \/ Stop(m) \/ Cancel(m)
      PROVE  Counted'
  BY <1>4 DEF Handshake, Rejected, HandshakeFails, LateHandshake, AllReleased, Pass, Stop, Cancel,
              Counted
<1> QED
  BY <1>1, <1>2, <1>3, <1>4 DEF Next

\* Types to begin with, and with both.
LEMMA BarrierTyped ==
    ASSUME MaxAttempts \in Nat PROVE (Init => Counted) /\ (BarrierInv /\ Counted => TypeOK)
BY DEF Init, Counted, BarrierInv, Types, TypeOK

\* A runner past the barrier knows the ports of all members, and all have registered.
THEOREM BarrierCorrect == Spec => []BarrierHolds
BY BarrierAgrees, BarrierInit, BarrierNext, PTL DEF Spec

\* A runner that waits waits for somebody, unless its release was lost.
THEOREM WaitsCorrect == Spec => []WaitsForSomebody
BY BarrierAgrees, BarrierInit, BarrierNext, PTL DEF Spec
================================================================================
