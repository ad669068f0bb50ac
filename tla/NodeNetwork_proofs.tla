-------------------------- MODULE NodeNetwork_proofs --------------------------
(* Proofs about NodeNetwork, for any nodes, addresses and bounds: a table of  *)
(* nodes can be read, a running node keeps the record of itself, and nodes    *)
(* that join know each other in the end.                                      *)
EXTENDS NodeNetwork, WellFoundedInduction, FiniteSetTheorems, TLAPS

\* what the proofs ask of the constants
Parameters ==
    /\ IsFiniteSet(Node) /\ NoRecord \notin Records
    /\ {MaxStarts, MaxJoins, MaxOther} \subseteq Nat

Tables == [Node -> Records \cup {NoRecord}]
Replies == [info : Infos, nodes : SUBSET Infos, ids : [Node -> Nonces]]
Joins == [pc : {"idle", "pick", "ids", "wait", "reply"}, remaining : SUBSET Infos,
          processed : SUBSET Node, peer : Infos \cup {NoRecord}, nodes : SUBSET Infos,
          reply : Replies \cup {NoRecord}]
Messages == [kind : {"join", "leave", "identity"}, from : Node, to : Node, at : Addr,
             info : Infos, nodes : SUBSET Infos, ids : [Node -> Nonces], open : BOOLEAN]

Types ==
    /\ up \subseteq Node /\ addr \in [Node -> Addr]
    /\ other \in 0..MaxOther /\ nonce \in [Node -> 0..other]
    /\ clock \in 0..MaxStarts
    /\ ids \in [Node -> [Node -> Nonces]] /\ net \in [Node -> Tables]
    /\ msgs \subseteq Messages /\ join \in [Node -> Joins]

\* what may be said of a node: nothing that is later than the record of a running node, be
\* it of that node or of one that ran at its address
Past == {i \in Infos :
    /\ i.seen <= clock
    /\ \A n \in up : i.node = n \/ i.addr = addr[n] => i.seen <= net[n][n].seen}

Row(m, r, v) == [node |-> m, seen |-> r.seen, addr |-> r.addr, nonce |-> v]
RowsIn(t, P) == \A m \in Known(t) : \A v \in 0..MaxOther : Row(m, t[m], v) \in P

\* nothing else is on record or on its way
TablesPast == \A n \in Node : RowsIn(net[n], Past)
\* A message is only about what may be said; a snapshot has the identity of every node it
\* has, although they are read one after the other; and nobody leaves on behalf of the node
\* it tells.
SoundMessage(msg, P) ==
    /\ msg.info \in P /\ msg.nodes \subseteq P /\ IsFiniteSet(msg.nodes)
    /\ \A i \in msg.nodes : msg.ids[i.node] >= 0
    /\ msg.kind = "leave" => msg.from # msg.to
MessagesSound == \A msg \in msgs : SoundMessage(msg, Past)

\* the same of a join, at a node that is running or not and has a table of identities
SoundJoin(j, P, running, table) ==
    /\ j.remaining \subseteq P /\ j.nodes \subseteq P /\ IsFiniteSet(j.nodes)
    /\ j.pc # "idle" => running
    /\ j.pc = "ids" => /\ j.peer \in Infos
                       /\ \A i \in j.nodes : i.node \notin j.processed /\ table[i.node] >= 0
    /\ j.pc = "reply" => j.reply \in Replies /\ j.reply.info \in P /\ j.reply.nodes \subseteq P
JoinsSound == \A n \in Node : SoundJoin(join[n], Past, n \in up, ids[n])

NetworkInv ==
    /\ Types /\ TablesPast /\ MessagesSound /\ JoinsSound
    /\ NetworkReadable /\ OwnRecordStays

-----------------------------------------------------------------------------
(* The tables of a node *)

\* every row of u is one of t or comes from S
Traced(t, S, u) == \A m \in Node :
    u[m] \in {t[m], NoRecord} \/ \E i \in S : i.node = m /\ u[m] = [seen |-> i.seen, addr |-> i.addr]

\* nothing in S is later than the record t has of m, be it of m or of its address
Newest(t, S, m) == \A i \in S : i.node = m \/ i.addr = t[m].addr => i.seen <= t[m].seen

\* What a record does to a table.
LEMMA UpdateOne ==
    ASSUME Parameters, NEW t \in Tables, NEW i \in Infos, NEW u, u = UpdateNetwork(t, i)
    PROVE  /\ u \in Tables /\ Traced(t, {i}, u)
           /\ \A m \in Known(t) : Newest(t, {i}, m) => u[m] = t[m]
<1> DEFINE c == [m \in Node |-> IF m \in Outdated(t, i) THEN NoRecord ELSE t[m]]
           r == [seen |-> i.seen, addr |-> i.addr]
<1>1. r \in Records /\ i.node \in Node /\ i.seen \in Nat /\ \A m \in Known(t) : t[m] \in Records
  BY DEF Parameters, Tables, Infos, Records, Known
<1>2. c \in Tables /\ \A m \in Node : c[m] \in {t[m], NoRecord}
  BY DEF Tables
<1>3. u = c \/ (u = [c EXCEPT ![i.node] = r] /\ ~ (i.node \in Known(c) /\ i.seen <= c[i.node].seen))
  BY DEF UpdateNetwork
<1>4. u \in Tables /\ \A m \in Node : u[m] = c[m] \/ (m = i.node /\ u[m] = r)
  <2> HIDE DEF c, r
  <2> QED
    BY <1>1, <1>2, <1>3 DEF Tables
<1>5. ASSUME NEW m \in Known(t), Newest(t, {i}, m) PROVE u[m] = t[m]
  <2>1. m \in Node /\ t[m].seen \in Nat /\ t[m] # NoRecord
    BY <1>1, <1>5 DEF Known, Records, Parameters
  <2>2. m \notin Outdated(t, i)
    BY <1>1, <1>5, <2>1 DEF Outdated, Conflicting, Newest
  <2>3. c[m] = t[m]
    BY <2>1, <2>2
  <2>4. m = i.node => i.node \in Known(c) /\ i.seen <= c[i.node].seen
    BY <1>5, <2>1, <2>3 DEF Newest, Known
  <2> HIDE DEF c, r
  <2> QED
    BY <1>2, <1>3, <2>1, <2>3, <2>4 DEF Tables
<1>6. Traced(t, {i}, u)
  BY <1>2, <1>4 DEF Traced
<1> QED
  BY <1>4, <1>5, <1>6

\* A set of numbers has a least one.
LEMMA Least == ASSUME NEW T, T \subseteq Nat, T # {} PROVE \E x \in T : \A y \in T : x <= y
<1> DEFINE W == {0..n : n \in T}
<1>1. IsWellFoundedOn(StrictSubsetOrdering(Nat), FiniteSubsetsOf(Nat))
  BY FS_StrictSubsetOrderingWellFounded
<1>2. \A n \in Nat : 0..n \in FiniteSubsetsOf(Nat)
  BY FS_Interval DEF FiniteSubsetsOf
<1>3. W \subseteq FiniteSubsetsOf(Nat) /\ W # {}
  BY <1>2
<1>4. PICK w \in W : \A u \in W : ~ (<<u, w>> \in StrictSubsetOrdering(Nat))
  <2> HIDE DEF W
  <2> QED
    BY <1>1, <1>3, WFMin
<1>5. PICK x \in T : w = 0..x
  OBVIOUS
<1>6. ASSUME NEW y \in T, y < x PROVE FALSE
  <2>1. 0..y \in W /\ x \in 0..x /\ x \notin 0..y /\ 0..y \subseteq 0..x
    BY <1>6
  <2>2. <<0..y, w>> \in StrictSubsetOrdering(Nat)
    BY <1>5, <2>1 DEF StrictSubsetOrdering
  <2> QED
    BY <1>4, <2>1, <2>2
<1> QED
  BY <1>6

\* What holds before the first of n steps, and after each that it held before, holds after all.
LEMMA Upward ==
    ASSUME NEW n \in Nat, NEW bad, 0 \notin bad, \A k \in 1..n : k - 1 \notin bad => k \notin bad
    PROVE  \A k \in 0..n : k \notin bad
<1> DEFINE T == bad \cap 0..n
<1> SUFFICES ASSUME T # {} PROVE FALSE
  OBVIOUS
<1>1. PICK x \in T : \A y \in T : x <= y
  <2>1. T \subseteq Nat
    OBVIOUS
  <2> HIDE DEF T
  <2> QED
    BY <2>1, Least
<1>2. x \in 1..n /\ x \in bad
  OBVIOUS
<1>3. x - 1 \notin T /\ x - 1 \in 0..n
  BY <1>1, <1>2
<1> QED
  BY <1>2, <1>3

\* the table after each of the records of a list
Updates(t, order, after) ==
    after = [k \in 0..Len(order) |->
               IF k = 0 THEN t ELSE UpdateNetwork(after[k - 1], order[k])]

\* They can be applied one after the other.
LEMMA UpdatesExist ==
    ASSUME Parameters, NEW t, NEW order, Len(order) \in Nat
    PROVE  \E after : Updates(t, order, after)
<1> DEFINE Upto(m) == \E f : f = [k \in 0..m |-> IF k = 0 THEN t ELSE UpdateNetwork(f[k - 1], order[k])]
           bad == {m \in 0..Len(order) : ~ Upto(m)}
<1>1. Upto(0)
  <2> DEFINE f == [k \in 0..0 |-> t]
  <2>1. f = [k \in 0..0 |-> IF k = 0 THEN t ELSE UpdateNetwork(f[k - 1], order[k])]
    OBVIOUS
  <2> QED
    BY <2>1
<1>2. ASSUME NEW m \in Nat, m > 0, Upto(m - 1) PROVE Upto(m)
  <2>1. PICK f : f = [k \in 0..(m - 1) |-> IF k = 0 THEN t ELSE UpdateNetwork(f[k - 1], order[k])]
    BY <1>2
  <2> DEFINE g == [k \in 0..m |-> IF k = m THEN UpdateNetwork(f[m - 1], order[m]) ELSE f[k]]
  <2>2. \A k \in 0..m : g[k] = IF k = 0 THEN t ELSE UpdateNetwork(g[k - 1], order[k])
    <3> SUFFICES ASSUME NEW k \in 0..m
                 PROVE  g[k] = IF k = 0 THEN t ELSE UpdateNetwork(g[k - 1], order[k])
      OBVIOUS
    <3>1. k > 0 => g[k - 1] = f[k - 1]
      BY <1>2
    <3>2. CASE k = m
      BY <1>2, <3>1, <3>2
    <3>3. CASE k # m
      <4>1. k \in 0..(m - 1) /\ g[k] = f[k]
        BY <3>3
      <4>2. f[k] = IF k = 0 THEN t ELSE UpdateNetwork(f[k - 1], order[k])
        BY <2>1, <4>1
      <4> QED
        BY <3>1, <4>1, <4>2
    <3> QED
      BY <3>2, <3>3
  <2>3. g = [k \in 0..m |-> g[k]]
    OBVIOUS
  <2>4. g = [k \in 0..m |-> IF k = 0 THEN t ELSE UpdateNetwork(g[k - 1], order[k])]
    <3> HIDE DEF g
    <3> QED
      BY <2>2, <2>3
  <2> QED
    BY <2>4
<1>3. \A k \in 0..Len(order) : k \notin bad
  <2>1. 0 \notin bad /\ \A k \in 1..Len(order) : k - 1 \notin bad => k \notin bad
    <3> HIDE DEF Upto
    <3> QED
      BY <1>1, <1>2
  <2> HIDE DEF bad
  <2> QED
    BY <2>1, Upward
<1>4. Upto(Len(order))
  <2> HIDE DEF Upto
  <2> QED
    BY <1>3
<1> QED
  BY <1>4 DEF Updates

\* the records of a snapshot, one after the other
Stepwise(t, order, after) ==
    after[0] = t /\ \A k \in 1..Len(order) : after[k] = UpdateNetwork(after[k - 1], order[k])
LEMMA UpdateSteps ==
    ASSUME Parameters, NEW t \in Tables, NEW S, IsFiniteSet(S), NEW order \in SetToSeqs(S),
           NEW u, u = UpdateAll(t, order), NEW n, n = Len(order)
    PROVE  /\ n \in Nat /\ order \in [1..n -> S]
           /\ \E after : Stepwise(t, order, after) /\ u = after[n]
<1>1. Cardinality(S) \in Nat
  BY FS_CardinalityType
<1>2. order \in [1..Cardinality(S) -> S]
  BY DEF SetToSeqs
<1>3. n \in Nat /\ order \in [1..n -> S]
  BY <1>1, <1>2
<1>4. PICK after : Updates(t, order, after) /\ u = after[n]
  <2> DEFINE a == CHOOSE after : Updates(t, order, after)
  <2>1. Updates(t, order, a)
    BY <1>3, UpdatesExist
  <2>2. u = a[n]
    BY <1>3 DEF UpdateAll, Updates
  <2> QED
    BY <2>1, <2>2
<1>5. \A k \in 0..n : after[k] = IF k = 0 THEN t ELSE UpdateNetwork(after[k - 1], order[k])
  BY <1>3, <1>4 DEF Updates
<1>6. Stepwise(t, order, after)
  BY <1>3, <1>5 DEF Stepwise
<1> QED
  BY <1>3, <1>4, <1>6

\* What a snapshot does to a table, in whatever order its nodes are listed.
LEMMA UpdateMany ==
    ASSUME Parameters, NEW t \in Tables, NEW S, S \subseteq Infos, IsFiniteSet(S),
           NEW order \in SetToSeqs(S), NEW u, u = UpdateAll(t, order)
    PROVE  /\ u \in Tables /\ Traced(t, S, u)
           /\ \A m \in Known(t) : Newest(t, S, m) => u[m] = t[m]
<1>1. PICK n : n = Len(order)
  OBVIOUS
<1>2. n \in Nat /\ order \in [1..n -> S] /\ \E after : Stepwise(t, order, after) /\ u = after[n]
  BY <1>1, UpdateSteps
<1>3. PICK after : Stepwise(t, order, after) /\ u = after[n]
  BY <1>2
<1>4. n \in Nat
  BY <1>2
<1>5. after[0] = t /\ \A k \in 1..n : after[k] = UpdateNetwork(after[k - 1], order[k])
  BY <1>1, <1>3 DEF Stepwise
<1> DEFINE Good(k) ==
      /\ after[k] \in Tables /\ Traced(t, S, after[k])
      /\ \A m \in Known(t) : Newest(t, S, m) => after[k][m] = t[m]
<1>6. Good(0)
  BY <1>5 DEF Traced
<1>7. ASSUME NEW k \in 1..n, Good(k - 1) PROVE Good(k)
  <2>1. PICK i \in S : i = order[k]
    BY <1>2
  <2>2. PICK s \in Tables : s = after[k - 1]
    BY <1>7
  <2>3. PICK v : v = after[k] /\ v = UpdateNetwork(s, i)
    BY <1>5, <2>1, <2>2
  <2>4. /\ v \in Tables /\ Traced(s, {i}, v)
        /\ \A m \in Known(s) : Newest(s, {i}, m) => v[m] = s[m]
    BY <2>3, UpdateOne
  <2>5. Traced(t, S, v)
    BY <1>7, <2>1, <2>2, <2>4 DEF Traced
  <2>6. ASSUME NEW m \in Known(t), Newest(t, S, m) PROVE v[m] = t[m]
    <3>1. s[m] = t[m]
      BY <1>7, <2>2, <2>6
    <3>2. m \in Known(s) /\ Newest(s, {i}, m)
      BY <2>1, <2>6, <3>1 DEF Known, Newest
    <3> QED
      BY <2>4, <3>1, <3>2
  <2> QED
    BY <2>3, <2>4, <2>5, <2>6
<1>8. Good(n)
  <2> DEFINE bad == {k \in 0..n : ~ Good(k)}
  <2>1. 0 \notin bad /\ \A k \in 1..n : k - 1 \notin bad => k \notin bad
    <3> HIDE DEF Good
    <3> QED
      BY <1>4, <1>6, <1>7
  <2>2. n \notin bad
    <3> HIDE DEF bad
    <3> QED
      BY <1>4, <2>1, Upward
  <2> HIDE DEF Good
  <2> QED
    BY <1>4, <2>2
<1> QED
  BY <1>3, <1>8

\* A table that is updated with S has rows that may be said of nodes, and no others than
\* it had and S has.
LEMMA UpdatedRows ==
    ASSUME Parameters, NEW t \in Tables, NEW u \in Tables, NEW S, S \subseteq Infos, Traced(t, S, u),
           NEW P, S \subseteq P, RowsIn(t, P),
           \A i \in P \cap Infos : \A v \in 0..MaxOther : Row(i.node, i, v) \in P
    PROVE  /\ RowsIn(u, P)
           /\ \A m \in Known(u) : m \in Known(t) \/ \E i \in S : i.node = m
<1>1. ASSUME NEW m \in Known(u), NEW v \in 0..MaxOther PROVE Row(m, u[m], v) \in P
  <2>1. m \in Node /\ u[m] # NoRecord
    BY DEF Known
  <2>2. CASE u[m] = t[m]
    BY <2>1, <2>2 DEF RowsIn, Known
  <2>3. ASSUME NEW i \in S, i.node = m, u[m] = [seen |-> i.seen, addr |-> i.addr]
        PROVE  Row(m, u[m], v) \in P
    <3>1. Row(m, u[m], v) = Row(i.node, i, v)
      BY <2>3 DEF Row
    <3> QED
      BY <3>1
  <2> QED
    BY <2>1, <2>2, <2>3 DEF Traced
<1>2. ASSUME NEW m \in Known(u), m \notin Known(t) PROVE \E i \in S : i.node = m
  BY <1>2 DEF Traced, Known
<1> QED
  BY <1>1, <1>2 DEF RowsIn

\* What is said of a node does not depend on the identity that goes with it.
LEMMA PastRows ==
    ASSUME NEW i \in Infos, NEW v \in 0..MaxOther
    PROVE  /\ i \in Past => Row(i.node, i, v) \in Past
           /\ i \in Past' => Row(i.node, i, v) \in Past'
<1>1. i.node \in Node /\ i.seen \in 1..MaxStarts /\ i.addr \in Addr
  BY DEF Infos
<1>2. Row(i.node, i, v) \in Infos
  BY <1>1 DEF Infos, Row
<1>3. i \in Past => Row(i.node, i, v) \in Past
  BY <1>2 DEF Past, Row
<1>4. i \in Past' => Row(i.node, i, v) \in Past'
  BY <1>2 DEF Past, Row
<1> QED
  BY <1>3, <1>4

\* Nothing becomes late as long as nodes keep their records of themselves.
LEMMA PastStays ==
    ASSUME UNCHANGED <<addr, clock>>, up' \subseteq up, \A n \in up' : net'[n][n] = net[n][n]
    PROVE  Past \subseteq Past'
BY DEF Past

\* What a node says of the nodes it knows.
LEMMA SaidInfos ==
    ASSUME Parameters, NetworkInv, NEW n \in Node
    PROVE  /\ IsFiniteSet(Network(n))
           /\ Network(n) \subseteq Past /\ \A i \in Network(n) : i.node \in Known(net[n])
           /\ \A i \in Network(n) : ids[n][i.node] >= 0
           /\ n \in up => Self(n) \in Past /\ Self(n).node = n
<1>1. ASSUME NEW m \in Known(net[n]) PROVE Info(n, m) \in Past /\ ids[n][m] \in 0..MaxOther
  <2>1. m \in Node /\ ids[n][m] >= 0
    BY DEF Known, NetworkInv, NetworkReadable, Readable
  <2>2. ids[n][m] \in 0..MaxOther
    BY <2>1 DEF NetworkInv, Types, Nonces, Parameters
  <2>3. Info(n, m) = Row(m, net[n][m], ids[n][m])
    BY DEF Info, Row
  <2> QED
    BY <2>2, <2>3 DEF NetworkInv, TablesPast, RowsIn
<1>2. IsFiniteSet(Network(n))
  <2> DEFINE f == [m \in Known(net[n]) |-> Info(n, m)]
  <2>1. IsFiniteSet(Known(net[n]))
    BY FS_Subset DEF Parameters, Known
  <2>2. f \in Surjection(Known(net[n]), Network(n))
    BY DEF Surjection, Network
  <2> HIDE DEF f
  <2> QED
    BY <2>1, <2>2, FS_Surjection
<1>3. Network(n) \subseteq Past /\ \A i \in Network(n) : i.node \in Known(net[n]) /\ ids[n][i.node] >= 0
  BY <1>1 DEF Network, Info
<1>4. ASSUME n \in up PROVE Self(n) \in Past /\ Self(n).node = n
  <2>1. n \in Known(net[n])
    BY <1>4 DEF NetworkInv, OwnRecordStays
  <2>2. nonce[n] \in 0..MaxOther
    BY DEF NetworkInv, Types, Parameters
  <2>3. Self(n) = Row(n, net[n][n], nonce[n])
    BY DEF Self, Info, Row
  <2> QED
    BY <2>1, <2>2, <2>3 DEF NetworkInv, TablesPast, RowsIn, Row
<1> QED
  BY <1>2, <1>3, <1>4

\* A new nonce takes the place of a lower one only.
LEMMA NoncesGrow ==
    ASSUME Parameters, NEW t \in [Node -> Nonces]
    PROVE  /\ \A m \in Node, v \in Nonces :
                /\ UpdateIdentity(t, m, v) \in [Node -> Nonces]
                /\ UpdateIdentity(t, m, v)[m] >= v
                /\ \A k \in Node : UpdateIdentity(t, m, v)[k] >= t[k]
           /\ \A s \in [Node -> Nonces] :
                /\ MergeIdentities(t, s) \in [Node -> Nonces]
                /\ \A k \in Node : MergeIdentities(t, s)[k] >= t[k] /\ MergeIdentities(t, s)[k] >= s[k]
BY DEF UpdateIdentity, MergeIdentities, Nonces, Parameters

-----------------------------------------------------------------------------
(* The steps *)

\* A join goes on being sound while nodes go on and nonces grow.
LEMMA JoinStays ==
    ASSUME Parameters, NetworkInv, Types', Past \subseteq Past', NEW m \in Node,
           join'[m] = join[m], m \in up => m \in up', \A k \in Node : ids'[m][k] >= ids[m][k]
    PROVE  SoundJoin(join'[m], Past', m \in up', ids'[m])
<1>1. SoundJoin(join[m], Past, m \in up, ids[m])
  BY DEF NetworkInv, JoinsSound
<1>2. \A i \in join[m].nodes : i.node \in Node
  BY <1>1 DEF SoundJoin, Past, Infos
<1>3. \A k \in Node : ids[m][k] \in Int /\ ids'[m][k] \in Int
  BY DEF NetworkInv, Types, Nonces, Parameters
<1>4. \A i \in join[m].nodes : ids[m][i.node] >= 0 => ids'[m][i.node] >= 0
  BY <1>2, <1>3
<1> QED
  BY <1>1, <1>4 DEF SoundJoin

\* What a step leaves alone stays sound; what it changes in the messages and in the join of
\* one node has to be.
LEMMA Kept ==
    ASSUME Parameters, NetworkInv, Types', TablesPast', NetworkReadable', OwnRecordStays',
           Past \subseteq Past', NEW n \in Node,
           \A m \in Node \ {n} : join'[m] = join[m] /\ (m \in up => m \in up'),
           \A m, k \in Node : ids'[m][k] >= ids[m][k],
           \A msg \in msgs' \ msgs : SoundMessage(msg, Past'),
           SoundJoin(join'[n], Past', n \in up', ids'[n])
    PROVE  NetworkInv'
<1>1. MessagesSound'
  BY DEF MessagesSound, SoundMessage, NetworkInv
<1>2. ASSUME NEW m \in Node, m # n PROVE SoundJoin(join'[m], Past', m \in up', ids'[m])
  BY <1>2, JoinStays
<1>3. JoinsSound'
  BY <1>2 DEF JoinsSound
<1> QED
  BY <1>1, <1>3 DEF NetworkInv

\* A step that leaves the nodes and their tables of nodes alone, but may stop one.
LEMMA TablesKept ==
    ASSUME Parameters, NetworkInv, UNCHANGED <<addr, clock, net>>, up' \subseteq up,
           ids' \in [Node -> [Node -> Nonces]], \A m, k \in Node : ids'[m][k] >= ids[m][k]
    PROVE  Past \subseteq Past' /\ TablesPast' /\ NetworkReadable' /\ OwnRecordStays'
<1>1. Past \subseteq Past'
  BY PastStays
<1>2. TablesPast'
  BY <1>1 DEF NetworkInv, TablesPast, RowsIn, Known
<1>3. NetworkReadable'
  BY DEF NetworkInv, Types, NetworkReadable, Readable, Known, Nonces, Parameters
<1>4. OwnRecordStays'
  BY DEF NetworkInv, OwnRecordStays, Known
<1> QED
  BY <1>1, <1>2, <1>3, <1>4

\* A join that was given up, or not begun.
LEMMA IdleSound == ASSUME NEW P, NEW r, NEW t PROVE Idle \in Joins /\ SoundJoin(Idle, P, r, t)
BY FS_EmptySet DEF Idle, Joins, SoundJoin

\* A table of identities with a new one in it.
LEMMA IdsGrow ==
    ASSUME Parameters, NetworkInv, NEW n \in Node, NEW t \in [Node -> Nonces],
           \A k \in Node : t[k] >= ids[n][k], ids' = [ids EXCEPT ![n] = t]
    PROVE  /\ ids' \in [Node -> [Node -> Nonces]] /\ ids'[n] = t
           /\ \A m, k \in Node : ids'[m][k] >= ids[m][k]
<1>1. ids \in [Node -> [Node -> Nonces]] /\ \A m, k \in Node : ids[m][k] \in Int
  BY DEF NetworkInv, Types, Nonces, Parameters
<1> QED
  BY <1>1

\* A node starts: what it says of itself is later than all that was said before.
LEMMA StartStep ==
    ASSUME Parameters, NetworkInv, NEW n \in Node, NEW a \in Addr, Start(n, a) PROVE NetworkInv'
<1> DEFINE i == [node |-> n, seen |-> clock', addr |-> a, nonce |-> nonce[n]]
           r == [seen |-> clock', addr |-> a]
<1>1. /\ n \notin up /\ up' = up \cup {n} /\ addr' = [addr EXCEPT ![n] = a]
      /\ clock' = clock + 1 /\ clock' \in 1..MaxStarts /\ clock \in Nat /\ \A m \in up : addr[m] # a
      /\ UNCHANGED <<nonce, join, msgs, other>>
  BY DEF Start, NetworkInv, Types, Parameters
<1>2. ids' = [ids EXCEPT ![n] = UpdateIdentity(ids[n], n, nonce[n])]
  BY DEF Start
<1>3. nonce[n] \in 0..MaxOther /\ nonce[n] \in Nonces /\ ids[n] \in [Node -> Nonces]
  BY DEF NetworkInv, Types, Parameters, Nonces
<1>4. /\ ids' \in [Node -> [Node -> Nonces]] /\ ids'[n][n] >= 0
      /\ \A m, k \in Node : ids'[m][k] >= ids[m][k]
  <2>1. PICK v \in [Node -> Nonces] : v = UpdateIdentity(ids[n], n, nonce[n]) /\ v[n] >= nonce[n]
                                       /\ \A k \in Node : v[k] >= ids[n][k]
    BY <1>3, NoncesGrow
  <2>2. v[n] >= 0
    BY <1>3, <2>1 DEF Nonces, Parameters
  <2> QED
    BY ZenonT(40), <1>2, <2>1, <2>2, IdsGrow
<1>5. i \in Infos
  BY <1>1, <1>3 DEF Infos
<1>6. PICK u : u = UpdateNetwork(net[n], i) /\ net' = [net EXCEPT ![n] = u]
  BY DEF Start
<1>7. net[n] \in Tables /\ net \in [Node -> Tables]
  BY DEF NetworkInv, Types
<1>8. u \in Tables /\ Traced(net[n], {i}, u)
  BY <1>5, <1>6, <1>7, UpdateOne
<1>9. \A m \in Known(net[n]) : net[n][m].seen \in Nat /\ net[n][m].seen < clock'
  <2> SUFFICES ASSUME NEW m \in Known(net[n]) PROVE net[n][m].seen \in Nat /\ net[n][m].seen < clock'
    OBVIOUS
  <2>1. net[n][m] \in Records
    BY <1>7 DEF Known, Tables
  <2>2. Row(m, net[n][m], 0) \in Past
    BY DEF NetworkInv, TablesPast, RowsIn, Parameters
  <2> QED
    BY <1>1, <2>1, <2>2 DEF Past, Row, Records, Parameters
<1>10. u[n] = r
  <2> DEFINE c == [m \in Node |-> IF m \in Outdated(net[n], i) THEN NoRecord ELSE net[n][m]]
  <2>1. u = IF n \in Known(c) /\ clock' <= c[n].seen THEN c ELSE [c EXCEPT ![n] = r]
    BY <1>6 DEF UpdateNetwork
  <2>2. n \in Known(c) => n \in Known(net[n]) /\ c[n] = net[n][n]
    BY DEF Known
  <2>3. n \in Known(c) => ~ (clock' <= c[n].seen)
    BY <1>1, <1>9, <2>2
  <2> HIDE DEF c
  <2>4. u = [c EXCEPT ![n] = r]
    BY <2>1, <2>3
  <2> QED
    BY <2>4 DEF c
<1>11. net' \in [Node -> Tables] /\ net'[n] = u /\ \A m \in Node \ {n} : net'[m] = net[m]
  BY <1>6, <1>7, <1>8
<1>12. /\ addr' \in [Node -> Addr] /\ addr'[n] = a /\ up' \subseteq Node /\ up \subseteq Node
       /\ \A m \in Node \ {n} : addr'[m] = addr[m]
  BY <1>1 DEF NetworkInv, Types
<1>13. Types'
  BY <1>1, <1>4, <1>11, <1>12 DEF NetworkInv, Types
<1>14. Past \subseteq Past'
  <2> SUFFICES ASSUME NEW x \in Past PROVE x \in Past'
    OBVIOUS
  <2>1. x \in Infos /\ x.seen \in Nat /\ x.seen <= clock /\ x.seen <= clock'
    BY <1>1 DEF Past, Infos, Parameters
  <2>2. ASSUME NEW k \in up', x.node = k \/ x.addr = addr'[k] PROVE x.seen <= net'[k][k].seen
    <3>1. CASE k = n
      BY <1>10, <1>11, <2>1, <3>1
    <3>2. CASE k # n
      BY <1>1, <1>11, <1>12, <2>2, <3>2 DEF Past
    <3> QED
      BY <3>1, <3>2
  <2> QED
    BY <2>1, <2>2 DEF Past
<1>15. i \in Past'
  <2>1. ASSUME NEW k \in up', i.node = k \/ i.addr = addr'[k] PROVE i.seen <= net'[k][k].seen
    BY <1>1, <1>10, <1>11, <1>12, <2>1
  <2> QED
    BY <1>1, <1>5, <2>1 DEF Past
<1>16. TablesPast'
  <2>1. \A x \in Past' \cap Infos : \A v \in 0..MaxOther : Row(x.node, x, v) \in Past'
    BY PastRows
  <2>2. RowsIn(net[n], Past') /\ \A m \in Node \ {n} : RowsIn(net[m], Past')
    BY <1>14 DEF NetworkInv, TablesPast, RowsIn
  <2>3. RowsIn(u, Past')
    <3> DEFINE P == Past'
    <3>1. {i} \subseteq P /\ {i} \subseteq Infos
      BY <1>5, <1>15
    <3> HIDE DEF P, i
    <3> QED
      BY <1>7, <1>8, <2>1, <2>2, <3>1, UpdatedRows DEF P
  <2> QED
    BY <1>11, <2>2, <2>3 DEF TablesPast, RowsIn, Known
<1>17. NetworkReadable'
  <2>1. \A m \in Known(u) : m \in Known(net[n]) \/ m = n
    BY <1>8 DEF Traced, Known
  <2>2. \A m \in Node : \A k \in Known(net[m]) : ids[m][k] >= 0 /\ k \in Node
    BY DEF NetworkInv, NetworkReadable, Readable, Known
  <2>3. \A m, k \in Node : ids[m][k] \in Int /\ ids'[m][k] \in Int
    BY <1>4 DEF NetworkInv, Types, Nonces, Parameters
  <2>4. \A m \in Node : \A k \in Known(net'[m]) : ids'[m][k] >= 0
    BY <1>4, <1>11, <2>1, <2>2, <2>3
  <2> QED
    BY <2>4 DEF NetworkReadable, Readable, Known
<1>18. OwnRecordStays'
  <2>1. \A m \in up : net[m][m] # NoRecord /\ net[m][m].addr = addr[m]
    BY DEF NetworkInv, OwnRecordStays, Known
  <2>2. r # NoRecord
    BY <1>1 DEF Records, Parameters
  <2>3. \A m \in up' : net'[m][m] # NoRecord /\ net'[m][m].addr = addr'[m]
    BY <1>1, <1>10, <1>11, <1>12, <2>1, <2>2
  <2> QED
    BY <1>12, <2>3 DEF OwnRecordStays, Known
<1>19. SoundJoin(join'[n], Past', n \in up', ids'[n])
  BY <1>1, <1>4, <1>13, <1>14, JoinStays
<1> QED
  BY <1>1, <1>4, <1>13, <1>14, <1>16, <1>17, <1>18, <1>19, Kept

\* A step that changes no table: it may stop n, add sound messages and set the join of n.
LEMMA QuietStep ==
    ASSUME Parameters, NetworkInv, UNCHANGED <<addr, clock, net, nonce, ids>>, NEW n \in Node,
           up' \subseteq up, up \ {n} \subseteq up', other' \in other..MaxOther,
           msgs' \subseteq Messages, \A msg \in msgs' \ msgs : SoundMessage(msg, Past),
           NEW q \in Joins, join' = [join EXCEPT ![n] = q], SoundJoin(q, Past, n \in up', ids[n])
    PROVE  NetworkInv'
<1>1. Types'
  BY DEF NetworkInv, Types
<1>2. \A m, k \in Node : ids'[m][k] >= ids[m][k]
  BY DEF NetworkInv, Types, Nonces, Parameters
<1>3. Past \subseteq Past' /\ TablesPast' /\ NetworkReadable' /\ OwnRecordStays'
  BY <1>1, <1>2, TablesKept DEF Types
<1>4. \A msg \in msgs' \ msgs : SoundMessage(msg, Past')
  BY <1>3 DEF SoundMessage
<1>5. join'[n] = q /\ \A m \in Node \ {n} : join'[m] = join[m]
  BY DEF NetworkInv, Types
<1>6. SoundJoin(join'[n], Past', n \in up', ids'[n])
  BY <1>3, <1>5 DEF SoundJoin
<1> QED
  BY <1>1, <1>2, <1>3, <1>4, <1>5, <1>6, Kept

\* The join of a node, as the invariant has it.
LEMMA JoinNow ==
    ASSUME NetworkInv, NEW n \in Node
    PROVE  /\ join[n] \in Joins /\ SoundJoin(join[n], Past, n \in up, ids[n])
           /\ join = [join EXCEPT ![n] = join[n]]
BY DEF NetworkInv, Types, JoinsSound

\* A message that is sent.
LEMMA SentMessage ==
    ASSUME Parameters, NetworkInv, NEW n \in up, NEW i \in Infos, NEW nodes, nodes \subseteq Past,
           NEW kind \in {"join", "leave", "identity"}, NEW table \in [Node -> Nonces],
           IsFiniteSet(nodes), \A x \in nodes : table[x.node] >= 0, kind = "leave" => i.node # n
    PROVE  /\ Send(kind, n, i, nodes, table) \in Messages
           /\ SoundMessage(Send(kind, n, i, nodes, table), Past)
<1>1. n \in Node /\ Self(n) \in Past /\ Self(n) \in Infos
  BY SaidInfos DEF NetworkInv, Types, Past
<1>2. nodes \subseteq Infos /\ i.node \in Node /\ i.addr \in Addr
  BY DEF Past, Infos
<1>3. Send(kind, n, i, nodes, table) \in Messages
  BY <1>1, <1>2 DEF Send, Messages
<1>4. SoundMessage(Send(kind, n, i, nodes, table), Past)
  BY <1>1 DEF Send, SoundMessage
<1> QED
  BY <1>3, <1>4

\* The nodes on record are contacted as well.
LEMMA UnprocessedPast ==
    ASSUME Parameters, NetworkInv, UNCHANGED ids, NEW n \in Node
    PROVE  Unprocessed(n, net[n]) \subseteq Past
<1>1. \A m \in Known(net[n]) : m \in Node /\ ids[n][m] \in 0..MaxOther
  BY DEF Known, NetworkInv, NetworkReadable, Readable, Types, Nonces, Parameters
<1> QED
  BY <1>1 DEF Unprocessed, NetworkInv, TablesPast, RowsIn, Row

\* A node stops.
LEMMA StopStep == ASSUME Parameters, NetworkInv, NEW n \in Node, Stop(n) PROVE NetworkInv'
<1>1. /\ up' = up \ {n} /\ join' = [join EXCEPT ![n] = Idle] /\ other' \in other..MaxOther
      /\ msgs' = msgs /\ UNCHANGED <<addr, clock, net, nonce, ids>>
  BY DEF Stop, NetworkInv, Types, Parameters
<1>2. msgs' \subseteq Messages
  BY <1>1 DEF NetworkInv, Types
<1> QED
  BY <1>1, <1>2, IdleSound, QuietStep

\* A node leaves: it tells others.
LEMMA LeaveStep ==
    ASSUME Parameters, NetworkInv, NEW n \in Node, NEW told, Leave(n, told) PROVE NetworkInv'
<1>1. /\ n \in up /\ other' \in other..MaxOther /\ UNCHANGED <<up, join, addr, clock, net, nonce, ids>>
      /\ told \subseteq {i \in Network(n) : i.node # n}
      /\ msgs' = msgs \cup {Send("leave", n, i, {}, Nobody) : i \in told}
  BY DEF Leave, NetworkInv, Types, Parameters
<1>2. told \subseteq Infos /\ \A i \in told : i.node # n
  BY <1>1, SaidInfos DEF Past
<1>3. Nobody \in [Node -> Nonces]
  BY DEF Nobody, Nonces, Parameters
<1>4. \A i \in told : /\ Send("leave", n, i, {}, Nobody) \in Messages
                      /\ SoundMessage(Send("leave", n, i, {}, Nobody), Past)
  BY <1>1, <1>2, <1>3, SentMessage, FS_EmptySet
<1>5. msgs' \subseteq Messages /\ \A msg \in msgs' \ msgs : SoundMessage(msg, Past)
  BY <1>1, <1>4 DEF NetworkInv, Types
<1> QED
  BY <1>1, <1>5, JoinNow, QuietStep

\* A join begins, with the record its boot node has of itself.
LEMMA JoinStartStep ==
    ASSUME Parameters, NetworkInv, NEW n \in Node, NEW b \in Node, JoinStart(n, b) PROVE NetworkInv'
<1> DEFINE q == [Idle EXCEPT !.pc = "pick", !.remaining = {Self(b)}, !.processed = {n}]
<1>1. /\ n \in up /\ b \in up /\ join' = [join EXCEPT ![n] = q] /\ msgs' = msgs /\ other' = other
      /\ UNCHANGED <<up, addr, clock, net, nonce, ids>>
  BY DEF JoinStart
<1>2. other' \in other..MaxOther /\ msgs' \subseteq Messages
  BY <1>1 DEF NetworkInv, Types, Parameters
<1>3. Self(b) \in Past /\ Self(b) \in Infos
  BY <1>1, SaidInfos DEF Past
<1>4. q \in Joins /\ SoundJoin(q, Past, n \in up, ids[n])
  BY <1>1, <1>3, FS_EmptySet DEF Idle, Joins, SoundJoin
<1> HIDE DEF q
<1> QED
  BY <1>1, <1>2, <1>4, QuietStep

\* A peer is left out, or a join ends.
LEMMA SkipStep ==
    ASSUME Parameters, NetworkInv, NEW n \in Node, JoinSkip(n) \/ JoinEnd(n) PROVE NetworkInv'
<1>1. PICK q : /\ join' = [join EXCEPT ![n] = q]
               /\ q = Idle \/ \E i : q = [join[n] EXCEPT !.remaining = @ \ {i}]
  BY DEF JoinSkip, JoinEnd
<1>2. UNCHANGED <<up, addr, clock, net, nonce, ids, msgs, other>>
  BY DEF JoinSkip, JoinEnd
<1>3. other' \in other..MaxOther /\ msgs' \subseteq Messages
  BY <1>2 DEF NetworkInv, Types, Parameters
<1>4. q \in Joins /\ SoundJoin(q, Past, n \in up, ids[n])
  <2>1. CASE q = Idle
    BY <2>1, IdleSound
  <2>2. ASSUME NEW i, q = [join[n] EXCEPT !.remaining = @ \ {i}]
        PROVE  q \in Joins /\ SoundJoin(q, Past, n \in up, ids[n])
    BY <2>2, JoinNow DEF Joins, SoundJoin
  <2> QED
    BY <1>1, <2>1, <2>2
<1> QED
  BY <1>1, <1>2, <1>3, <1>4, QuietStep

\* The next peer: the nodes of the snapshot are read, each has its identity on record.
LEMMA PickStep == ASSUME Parameters, NetworkInv, NEW n \in Node, JoinPick(n) PROVE NetworkInv'
<1>0. PICK i \in join[n].remaining :
        join' = [join EXCEPT ![n] =
            [join[n] EXCEPT !.pc = "ids", !.remaining = join[n].remaining \ {i},
                            !.processed = join[n].processed \cup {i.node}, !.peer = i,
                            !.nodes = SnapshotNodes(n, join[n].processed \cup {i.node})]]
  BY ZenonT(20) DEF JoinPick
<1>1. PICK p : p = join[n].processed \cup {i.node}
  OBVIOUS
<1> DEFINE nodes == SnapshotNodes(n, p)
           q == [join[n] EXCEPT !.pc = "ids", !.remaining = join[n].remaining \ {i},
                                !.processed = p, !.peer = i, !.nodes = nodes]
<1>2. join' = [join EXCEPT ![n] = q]
  BY <1>0, <1>1
<1>3. /\ join[n].pc = "pick" /\ UNCHANGED <<up, addr, clock, net, nonce, ids, msgs, other>>
  BY DEF JoinPick
<1>4. other' \in other..MaxOther /\ msgs' \subseteq Messages
  BY <1>3 DEF NetworkInv, Types, Parameters
<1>5. join[n] \in Joins /\ SoundJoin(join[n], Past, n \in up, ids[n]) /\ i \in Infos /\ i.node \in Node
  BY JoinNow DEF SoundJoin, Past, Infos
<1>6. /\ nodes \subseteq Past /\ nodes \subseteq Infos /\ IsFiniteSet(nodes)
      /\ \A x \in nodes : x.node \notin p /\ ids[n][x.node] >= 0
  <2>1. nodes \subseteq Network(n) /\ \A x \in nodes : x.node \notin p
    BY DEF SnapshotNodes
  <2> HIDE DEF nodes
  <2> QED
    BY <2>1, SaidInfos, FS_Subset DEF Past
<1>7. q \in Joins /\ SoundJoin(q, Past, n \in up, ids[n])
  <2> HIDE DEF nodes
  <2> QED
    BY <1>1, <1>3, <1>5, <1>6 DEF Joins, SoundJoin
<1> HIDE DEF q
<1> QED
  BY <1>2, <1>3, <1>4, <1>7, QuietStep

\* The snapshot is sent: the identities, read now, are at least those that were on record.
LEMMA SendStep == ASSUME Parameters, NetworkInv, NEW n \in Node, JoinSend(n) PROVE NetworkInv'
<1> DEFINE table == SnapshotIds(n, join[n].processed)
           q == [join[n] EXCEPT !.pc = "wait", !.nodes = {}]
           msg == Send("join", n, join[n].peer, join[n].nodes, table)
<1>1. /\ join[n].pc = "ids" /\ msgs' = msgs \cup {msg}
      /\ UNCHANGED <<up, addr, clock, net, nonce, ids, other>>
  BY DEF JoinSend
<1>2. join' = [join EXCEPT ![n] = q]
  <2>1. join \in [Node -> Joins]
    BY DEF NetworkInv, Types
  <2> QED
    BY <2>1 DEF JoinSend, Joins
<1>3. join[n] \in Joins /\ SoundJoin(join[n], Past, n \in up, ids[n])
  BY JoinNow
<1>4. table \in [Node -> Nonces]
  BY DEF SnapshotIds, NetworkInv, Types, Nonces, Parameters
<1>5. \A x \in join[n].nodes : table[x.node] >= 0
  BY <1>1, <1>3 DEF SnapshotIds, SoundJoin, Past, Infos
<1>6. msg \in Messages /\ SoundMessage(msg, Past)
  <2> HIDE DEF table
  <2> QED
    BY <1>1, <1>3, <1>4, <1>5, SentMessage DEF SoundJoin
<1>7. q \in Joins /\ SoundJoin(q, Past, n \in up, ids[n])
  BY <1>1, <1>3, FS_EmptySet DEF Joins, SoundJoin
<1>8. /\ other' \in other..MaxOther /\ msgs' \subseteq Messages
      /\ \A x \in msgs' \ msgs : SoundMessage(x, Past)
  BY <1>1, <1>6 DEF NetworkInv, Types, Parameters
<1> HIDE DEF q, msg
<1> QED
  BY <1>1, <1>2, <1>7, <1>8, QuietStep

\* A peer does not answer: the nodes on record are contacted all the same.
LEMMA FailStep == ASSUME Parameters, NetworkInv, NEW n \in Node, JoinFails(n) PROVE NetworkInv'
<1> DEFINE q == [join[n] EXCEPT !.pc = "pick", !.peer = NoRecord,
                                !.remaining = join[n].remaining \cup Unprocessed(n, net[n])]
<1>1. /\ join[n].pc = "wait" /\ join' = [join EXCEPT ![n] = q]
      /\ UNCHANGED <<up, addr, clock, net, nonce, ids>>
  BY DEF JoinFails
<1>2. /\ other' = other \/ (other < MaxOther /\ other' = other + 1)
      /\ \E msg \in msgs : msgs' \subseteq msgs \cup {[msg EXCEPT !.open = FALSE]}
  BY DEF JoinFails
<1>3. other' \in other..MaxOther
  BY <1>2 DEF NetworkInv, Types, Parameters
<1>4. PICK msg \in msgs : msgs' \subseteq msgs \cup {[msg EXCEPT !.open = FALSE]}
  BY <1>2
<1> DEFINE m == [msg EXCEPT !.open = FALSE]
<1>5. m \in Messages /\ SoundMessage(m, Past)
  <2>1. msg \in Messages /\ SoundMessage(msg, Past)
    BY DEF NetworkInv, Types, MessagesSound
  <2> QED
    BY <2>1 DEF Messages, SoundMessage
<1>6. msgs' \subseteq Messages /\ \A x \in msgs' \ msgs : SoundMessage(x, Past)
  BY <1>4, <1>5 DEF NetworkInv, Types
<1>7. q \in Joins /\ SoundJoin(q, Past, n \in up, ids[n])
  <2>1. join[n] \in Joins /\ SoundJoin(join[n], Past, n \in up, ids[n])
    BY JoinNow
  <2>2. Unprocessed(n, net[n]) \subseteq Past /\ Past \subseteq Infos
    BY <1>1, UnprocessedPast DEF Past
  <2> QED
    BY <1>1, <2>1, <2>2 DEF Joins, SoundJoin
<1> HIDE DEF q
<1> QED
  BY <1>1, <1>3, <1>6, <1>7, QuietStep

\* A profile changes: a new nonce, of which all are told.
LEMMA ProfileStep ==
    ASSUME Parameters, NetworkInv, NEW n \in Node, NEW told, ChangeProfile(n, told)
    PROVE  NetworkInv'
<1> DEFINE v == nonce[n] + 1
           Told(i) == [Send("identity", n, i, {}, Nobody) EXCEPT !.info.nonce = v]
<1>1. /\ n \in up /\ other' = other + 1 /\ other < MaxOther
      /\ UNCHANGED <<up, join, addr, clock, net>> /\ told \subseteq Network(n)
      /\ nonce' = [nonce EXCEPT ![n] = v]
  BY DEF ChangeProfile
<1>2. /\ nonce[n] \in 0..other /\ other \in Nat /\ MaxOther \in Nat /\ nonce \in [Node -> 0..other]
      /\ ids[n] \in [Node -> Nonces]
  BY DEF NetworkInv, Types, Parameters
<1>3. /\ v \in 0..MaxOther /\ v \in Nonces /\ other' \in 0..MaxOther
      /\ nonce' \in [Node -> 0..other'] /\ nonce'[n] = v
  BY <1>1, <1>2 DEF Nonces
<1>4. /\ ids' \in [Node -> [Node -> Nonces]] /\ \A m, k \in Node : ids'[m][k] >= ids[m][k]
  <2>1. ids' = [ids EXCEPT ![n] = UpdateIdentity(ids[n], n, v)]
    BY <1>3 DEF ChangeProfile
  <2>2. PICK t \in [Node -> Nonces] : /\ t = UpdateIdentity(ids[n], n, v)
                                      /\ \A k \in Node : t[k] >= ids[n][k]
    BY ZenonT(40), <1>2, <1>3, NoncesGrow
  <2> QED
    BY <2>1, <2>2, IdsGrow
<1>5. msgs' = msgs \cup {Told(i) : i \in told}
  BY <1>3 DEF ChangeProfile, Broadcast
<1>6. ASSUME NEW i \in told PROVE Told(i) \in Messages /\ SoundMessage(Told(i), Past)
  <2>1. i \in Infos /\ Nobody \in [Node -> Nonces]
    BY <1>1, SaidInfos DEF Past, Nobody, Nonces, Parameters
  <2>2. PICK x : x = Send("identity", n, i, {}, Nobody)
    OBVIOUS
  <2>3. x \in Messages /\ SoundMessage(x, Past) /\ x.kind = "identity"
    <3>1. Send("identity", n, i, {}, Nobody).kind = "identity"
      BY DEF Send
    <3> QED
      BY <1>1, <2>1, <2>2, <3>1, SentMessage, FS_EmptySet
  <2>4. x.info \in Infos /\ x.info \in Past
    BY <2>3 DEF Messages, SoundMessage
  <2>5. PICK y : y = [x.info EXCEPT !.nonce = v]
    OBVIOUS
  <2>6. y = Row(x.info.node, x.info, v)
    BY <2>4, <2>5 DEF Infos, Row
  <2>7. y \in Past /\ y \in Infos
    BY <1>3, <2>4, <2>6, PastRows DEF Past
  <2>8. Told(i) = [x EXCEPT !.info = y]
    BY <2>2, <2>3, <2>5 DEF Messages
  <2> QED
    BY <2>3, <2>7, <2>8 DEF Messages, SoundMessage
<1>7. msgs' \subseteq Messages /\ \A x \in msgs' \ msgs : SoundMessage(x, Past)
  <2> HIDE DEF Told
  <2> QED
    BY <1>5, <1>6 DEF NetworkInv, Types
<1>8. Types'
  BY <1>1, <1>3, <1>4, <1>7 DEF NetworkInv, Types
<1>9. Past \subseteq Past' /\ TablesPast' /\ NetworkReadable' /\ OwnRecordStays'
  BY <1>1, <1>4, TablesKept
<1>10. \A x \in msgs' \ msgs : SoundMessage(x, Past')
  BY <1>7, <1>9 DEF SoundMessage
<1>11. SoundJoin(join'[n], Past', n \in up', ids'[n])
  BY <1>1, <1>4, <1>8, <1>9, JoinStays
<1> HIDE DEF v, Told
<1> QED
  BY <1>1, <1>4, <1>8, <1>9, <1>10, <1>11, Kept

\* A step that updates the table of one running node with what may be said, and has the
\* identities that go with it.
LEMMA TableUpdated ==
    ASSUME Parameters, NetworkInv, UNCHANGED <<up, addr, clock>>, NEW n \in up,
           ids' \in [Node -> [Node -> Nonces]], \A m, k \in Node : ids'[m][k] >= ids[m][k],
           NEW S, S \subseteq Past, \A i \in S : ids'[n][i.node] >= 0,
           NEW u \in Tables, Traced(net[n], S, u), Newest(net[n], S, n) => u[n] = net[n][n],
           net' = [net EXCEPT ![n] = u]
    PROVE  /\ net' \in [Node -> Tables] /\ net'[n] = u
           /\ Past \subseteq Past' /\ TablesPast' /\ NetworkReadable' /\ OwnRecordStays'
<1>1. /\ n \in Node /\ net \in [Node -> Tables] /\ net[n] \in Tables /\ S \subseteq Infos
      /\ up \subseteq Node
  BY DEF NetworkInv, Types, Past
<1>2. net' \in [Node -> Tables] /\ net'[n] = u /\ \A m \in Node \ {n} : net'[m] = net[m]
  BY <1>1
<1>3. net[n][n].addr = addr[n]
  BY DEF NetworkInv, OwnRecordStays
<1>4. u[n] = net[n][n]
  BY <1>3 DEF Past, Newest
<1>5. Past \subseteq Past'
  BY <1>1, <1>2, <1>4, PastStays
<1>6. TablesPast'
  <2>1. RowsIn(net[n], Past') /\ \A m \in Node \ {n} : RowsIn(net[m], Past')
    BY <1>1, <1>5 DEF NetworkInv, TablesPast, RowsIn
  <2>2. \A x \in Past' \cap Infos : \A v \in 0..MaxOther : Row(x.node, x, v) \in Past'
    BY PastRows
  <2>3. S \subseteq Past'
    BY <1>5
  <2>4. RowsIn(u, Past')
    <3> DEFINE P == Past'
    <3> HIDE DEF P
    <3> QED
      BY <1>1, <2>1, <2>2, <2>3, UpdatedRows DEF P
  <2> QED
    BY <1>2, <2>1, <2>4 DEF TablesPast, RowsIn, Known
<1>7. NetworkReadable'
  <2>1. \A m \in Known(u) : m \in Known(net[n]) \/ \E i \in S : i.node = m
    BY DEF Traced, Known
  <2>2. \A m \in Node : \A k \in Known(net[m]) : ids[m][k] >= 0 /\ k \in Node
    BY DEF NetworkInv, NetworkReadable, Readable, Known
  <2>3. \A m, k \in Node : ids[m][k] \in Int /\ ids'[m][k] \in Int
    BY DEF NetworkInv, Types, Nonces, Parameters
  <2>4. \A m \in Node : \A k \in Known(net'[m]) : ids'[m][k] >= 0
    BY <1>1, <1>2, <2>1, <2>2, <2>3
  <2> QED
    BY <2>4 DEF NetworkReadable, Readable, Known
<1>8. OwnRecordStays'
  <2>1. \A m \in up : net'[m][m] = net[m][m]
    BY <1>1, <1>2, <1>4
  <2> QED
    BY <1>1, <2>1 DEF NetworkInv, OwnRecordStays, Known
<1> QED
  BY <1>2, <1>5, <1>6, <1>7, <1>8

\* What a node says of the nodes it knows after a step.
LEMMA RowsNext ==
    ASSUME Parameters, TablesPast', NetworkReadable', ids' \in [Node -> [Node -> Nonces]],
           NEW n \in Node, NEW m \in Known(net'[n])
    PROVE  [node |-> m, seen |-> net'[n][m].seen, addr |-> net'[n][m].addr,
            nonce |-> ids'[n][m]] \in Past'
<1>1. ids'[n][m] \in 0..MaxOther
  BY DEF NetworkReadable, Readable, Known, Nonces, Parameters
<1> QED
  BY <1>1 DEF TablesPast, RowsIn, Row, Known

\* The identities of a message or of a reply are put on record with those there were.
LEMMA IdentitiesMerged ==
    ASSUME Parameters, NEW t \in [Node -> Nonces], NEW i \in Infos, NEW s \in [Node -> Nonces],
           NEW v, v = MergeIdentities(UpdateIdentity(t, i.node, i.nonce), s)
    PROVE  /\ v \in [Node -> Nonces] /\ v[i.node] >= 0
           /\ \A k \in Node : v[k] >= t[k] /\ v[k] >= s[k]
<1>1. i.node \in Node /\ i.nonce \in 0..MaxOther /\ i.nonce \in Nonces
  BY DEF Infos, Nonces, Parameters
<1>2. PICK x \in [Node -> Nonces] : /\ x = UpdateIdentity(t, i.node, i.nonce) /\ x[i.node] >= i.nonce
                                    /\ \A k \in Node : x[k] >= t[k]
  BY ZenonT(40), <1>1, NoncesGrow
<1>3. v \in [Node -> Nonces] /\ \A k \in Node : v[k] >= x[k] /\ v[k] >= s[k]
  BY ZenonT(40), <1>2, NoncesGrow
<1>4. \A k \in Node : x[k] \in Int /\ t[k] \in Int /\ v[k] \in Int
  BY <1>2, <1>3 DEF Nonces, Parameters
<1> QED
  BY <1>1, <1>2, <1>3, <1>4

\* A reply: its origin is put on record, its nodes and those on record are contacted.
LEMMA ReplyStep == ASSUME Parameters, NetworkInv, NEW n \in Node, JoinReply(n) PROVE NetworkInv'
<1>1. PICK r : r = join[n].reply
  OBVIOUS
<1>2. join[n] \in Joins /\ SoundJoin(join[n], Past, n \in up, ids[n])
  BY JoinNow
<1>3. /\ join[n].pc = "reply" /\ UNCHANGED <<up, addr, clock, nonce, msgs, other>>
  BY DEF JoinReply
<1>4. /\ n \in up /\ r \in Replies /\ r.info \in Past /\ r.nodes \subseteq Past
      /\ r.info \in Infos /\ r.ids \in [Node -> Nonces]
  BY <1>1, <1>2, <1>3 DEF SoundJoin, Replies
<1>5. PICK v : /\ v = MergeIdentities(UpdateIdentity(ids[n], r.info.node, r.info.nonce), r.ids)
               /\ ids' = [ids EXCEPT ![n] = v]
  BY <1>1 DEF JoinReply
<1>6. v \in [Node -> Nonces] /\ v[r.info.node] >= 0 /\ \A k \in Node : v[k] >= ids[n][k]
  <2>1. ids[n] \in [Node -> Nonces]
    BY DEF NetworkInv, Types
  <2> QED
    BY <1>4, <1>5, <2>1, IdentitiesMerged
<1>7. /\ ids' \in [Node -> [Node -> Nonces]] /\ ids'[n] = v
      /\ \A m, k \in Node : ids'[m][k] >= ids[m][k]
  BY ZenonT(40), <1>5, <1>6, IdsGrow
<1>8. PICK u : u = UpdateNetwork(net[n], r.info) /\ net' = [net EXCEPT ![n] = u]
  BY <1>1 DEF JoinReply
<1>9. /\ u \in Tables /\ Traced(net[n], {r.info}, u)
      /\ Newest(net[n], {r.info}, n) => u[n] = net[n][n]
  <2>1. PICK t \in Tables : t = net[n] /\ n \in Known(t)
    BY <1>4 DEF NetworkInv, Types, OwnRecordStays
  <2>2. PICK i \in Infos : i = r.info /\ u = UpdateNetwork(t, i)
    BY <1>4, <1>8, <2>1
  <2>3. /\ u \in Tables /\ Traced(t, {i}, u)
        /\ \A m \in Known(t) : Newest(t, {i}, m) => u[m] = t[m]
    BY <2>2, UpdateOne
  <2> QED
    BY <2>1, <2>2, <2>3
<1>10. /\ net' \in [Node -> Tables] /\ net'[n] = u
       /\ Past \subseteq Past' /\ TablesPast' /\ NetworkReadable' /\ OwnRecordStays'
  <2>1. {r.info} \subseteq Past /\ \A i \in {r.info} : ids'[n][i.node] >= 0
    BY <1>4, <1>6, <1>7
  <2> QED
    BY <1>3, <1>4, <1>7, <1>8, <1>9, <2>1, TableUpdated
<1> DEFINE q == [join[n] EXCEPT !.pc = "pick", !.peer = NoRecord, !.reply = NoRecord,
                   !.remaining = join[n].remaining \cup r.nodes \cup Unprocessed(n, net'[n])]
<1>11. join' = [join EXCEPT ![n] = q]
  BY <1>1 DEF JoinReply
<1>12. Unprocessed(n, net'[n]) \subseteq Past' /\ Past' \subseteq Infos
  <2>1. \A m \in Known(net'[n]) : [node |-> m, seen |-> net'[n][m].seen, addr |-> net'[n][m].addr,
                                   nonce |-> ids'[n][m]] \in Past'
    BY <1>7, <1>10, RowsNext
  <2> QED
    BY <2>1 DEF Unprocessed, Past
<1>13. q \in Joins /\ SoundJoin(q, Past', n \in up', ids'[n])
  <2> DEFINE x == Unprocessed(n, net'[n])
  <2> HIDE DEF x
  <2>1. x \subseteq Past' /\ x \subseteq Infos /\ q.remaining = join[n].remaining \cup r.nodes \cup x
    BY <1>2, <1>12 DEF x, Joins
  <2> QED
    BY <1>2, <1>3, <1>4, <1>10, <2>1 DEF Joins, SoundJoin, Replies, x
<1> HIDE DEF q
<1>14. join' \in [Node -> Joins] /\ join'[n] = q /\ \A m \in Node \ {n} : join'[m] = join[m]
  BY <1>11, <1>13 DEF NetworkInv, Types
<1>15. Types'
  BY <1>3, <1>7, <1>10, <1>14 DEF NetworkInv, Types
<1>16. n \in Node /\ (\A msg \in msgs' \ msgs : SoundMessage(msg, Past'))
       /\ SoundJoin(join'[n], Past', n \in up', ids'[n])
  BY <1>3, <1>13, <1>14
<1>17. \A m \in Node \ {n} : join'[m] = join[m] /\ (m \in up => m \in up')
  BY <1>3, <1>14
<1> QED
  BY <1>7, <1>10, <1>15, <1>16, <1>17, Kept

\* A message that reaches its node is one of those the invariant is about.
LEMMA ServedMessage ==
    ASSUME NetworkInv, NEW msg, Served(msg)
    PROVE  /\ msg \in Messages /\ SoundMessage(msg, Past) /\ msg.to \in up /\ msg.to \in Node
           /\ msg.from \in Node /\ msg.info \in Infos /\ msg.info \in Past /\ msg.nodes \subseteq Infos
           /\ msg.ids \in [Node -> Nonces] /\ msgs' \subseteq msgs
BY DEF Served, Reachable, NetworkInv, Types, MessagesSound, SoundMessage, Messages

\* A new identity.
LEMMA IdentityStep ==
    ASSUME Parameters, NetworkInv, NEW msg, HandleIdentity(msg) PROVE NetworkInv'
<1>1. /\ Served(msg) /\ UNCHANGED <<up, addr, clock, net, nonce, join, other>>
      /\ ids' = [ids EXCEPT ![msg.to] = UpdateIdentity(ids[msg.to], msg.from, msg.info.nonce)]
  BY DEF HandleIdentity
<1>2. /\ msg.to \in Node /\ msg.from \in Node /\ msg.info.nonce \in Nonces /\ msgs' \subseteq msgs
      /\ ids[msg.to] \in [Node -> Nonces]
  BY <1>1, ServedMessage DEF Infos, Nonces, Parameters, NetworkInv, Types
<1>3. /\ ids' \in [Node -> [Node -> Nonces]] /\ \A m, k \in Node : ids'[m][k] >= ids[m][k]
  <2>1. PICK t \in [Node -> Nonces] : /\ t = UpdateIdentity(ids[msg.to], msg.from, msg.info.nonce)
                                      /\ \A k \in Node : t[k] >= ids[msg.to][k]
    BY <1>2, NoncesGrow
  <2> QED
    BY <1>1, <1>2, <2>1, IdsGrow
<1>4. Types'
  BY <1>1, <1>2, <1>3 DEF NetworkInv, Types
<1>5. Past \subseteq Past' /\ TablesPast' /\ NetworkReadable' /\ OwnRecordStays'
  BY <1>1, <1>3, TablesKept
<1>6. SoundJoin(join'[msg.to], Past', msg.to \in up', ids'[msg.to])
  BY <1>1, <1>2, <1>3, <1>4, <1>5, JoinStays
<1> QED
  BY <1>1, <1>2, <1>3, <1>4, <1>5, <1>6, Kept

\* A node that left is removed, at the others.
LEMMA LeftStep ==
    ASSUME Parameters, NetworkInv, NEW msg, HandleLeave(msg) PROVE NetworkInv'
<1>1. /\ Served(msg) /\ UNCHANGED <<up, addr, clock, nonce, join, other>>
      /\ ids' = [ids EXCEPT ![msg.to] = UpdateIdentity(ids[msg.to], msg.from, msg.info.nonce)]
      /\ net' = [net EXCEPT ![msg.to][msg.from] = NoRecord] /\ msg.kind = "leave"
  BY DEF HandleLeave
<1>2. PICK m \in up, k \in Node : m = msg.to /\ k = msg.from
  BY <1>1, ServedMessage
<1>3. /\ m \in Node /\ k # m /\ msg.info.nonce \in Nonces /\ msgs' \subseteq msgs
      /\ ids[m] \in [Node -> Nonces] /\ net[m] \in Tables
  BY <1>1, <1>2, ServedMessage DEF Infos, Nonces, Parameters, NetworkInv, Types, SoundMessage
<1>4. /\ ids' \in [Node -> [Node -> Nonces]] /\ \A i, j \in Node : ids'[i][j] >= ids[i][j]
  <2>1. PICK t \in [Node -> Nonces] : /\ t = UpdateIdentity(ids[m], k, msg.info.nonce)
                                      /\ \A j \in Node : t[j] >= ids[m][j]
    BY ZenonT(40), <1>2, <1>3, NoncesGrow
  <2> QED
    BY <1>1, <1>2, <1>3, <2>1, IdsGrow
<1> DEFINE u == [net[m] EXCEPT ![k] = NoRecord]
<1>5. /\ u \in Tables /\ Traced(net[m], {}, u) /\ u[m] = net[m][m]
  BY <1>2, <1>3 DEF Tables, Traced
<1>6. net' = [net EXCEPT ![m] = u]
  BY <1>1, <1>2
<1> HIDE DEF u
<1>7. /\ net' \in [Node -> Tables]
      /\ Past \subseteq Past' /\ TablesPast' /\ NetworkReadable' /\ OwnRecordStays'
  <2>1. {} \subseteq Past /\ \A i \in {} : ids'[m][i.node] >= 0
    OBVIOUS
  <2> QED
    BY <1>1, <1>4, <1>5, <1>6, <2>1, TableUpdated
<1>8. Types'
  BY <1>1, <1>3, <1>4, <1>7 DEF NetworkInv, Types
<1>9. SoundJoin(join'[m], Past', m \in up', ids'[m])
  BY <1>1, <1>3, <1>4, <1>7, <1>8, JoinStays
<1> QED
  BY <1>1, <1>3, <1>4, <1>7, <1>8, <1>9, Kept

\* The tables of a node that handles a join: its origin and its nodes are put on record,
\* the record the node has of itself is not touched.
LEMMA HandledTables ==
    ASSUME Parameters, NetworkInv, NEW msg, Served(msg), NEW order \in SetToSeqs(msg.nodes),
           NEW u, u = HandledNodes(net[msg.to], msg, order)
    PROVE  /\ u \in Tables /\ Traced(net[msg.to], {msg.info} \cup msg.nodes, u)
           /\ u[msg.to] = net[msg.to][msg.to]
<1>1. PICK m \in up, i \in Past, S \in SUBSET Past :
        m = msg.to /\ i = msg.info /\ S = msg.nodes
  BY ServedMessage DEF SoundMessage
<1>2. PICK t \in Tables : t = net[m]
  BY <1>1 DEF NetworkInv, Types
<1>3. m \in Node /\ i \in Infos /\ S \subseteq Infos /\ IsFiniteSet(S)
  BY <1>1, ServedMessage DEF SoundMessage
<1>4. PICK s : s = UpdateNetwork(t, i)
  OBVIOUS
<1>5. /\ s \in Tables /\ Traced(t, {i}, s)
      /\ \A k \in Known(t) : Newest(t, {i}, k) => s[k] = t[k]
  BY <1>3, <1>4, UpdateOne
<1>6. /\ u \in Tables /\ Traced(s, S, u)
      /\ \A k \in Known(s) : Newest(s, S, k) => u[k] = s[k]
  <2>1. u = UpdateAll(s, order) /\ order \in SetToSeqs(S)
    BY <1>1, <1>2, <1>4 DEF HandledNodes
  <2> QED
    BY <1>3, <1>5, <2>1, UpdateMany
<1>7. Traced(t, {i} \cup S, u)
  BY <1>5, <1>6 DEF Traced
<1>8. u[m] = t[m]
  <2>1. m \in Known(t) /\ t[m].addr = addr[m]
    BY <1>1, <1>2, <1>3 DEF NetworkInv, OwnRecordStays
  <2>2. Newest(t, {i}, m) /\ Newest(t, S, m)
    BY <1>1, <1>2, <2>1 DEF Newest, Past
  <2>3. s[m] = t[m]
    BY <1>5, <2>1, <2>2
  <2>4. m \in Known(s) /\ Newest(s, S, m)
    BY <2>1, <2>2, <2>3 DEF Known, Newest
  <2> QED
    BY <1>6, <2>3, <2>4
<1> QED
  BY <1>1, <1>2, <1>6, <1>7, <1>8

\* the reply to a join, after its snapshot was put on record
ReplyOf(msg) ==
    LET m == msg.to  n == msg.from IN
    [info |-> [node |-> m, seen |-> net'[m][m].seen, addr |-> net'[m][m].addr, nonce |-> nonce[m]],
     nodes |-> {[node |-> k, seen |-> net'[m][k].seen, addr |-> net'[m][k].addr,
                 nonce |-> ids'[m][k]] : k \in Known(net'[m]) \ {m, n}},
     ids |-> [k \in Node |-> IF k \in {m, n} THEN -1 ELSE ids'[m][k]]]

\* A join is handled: the snapshot has the identities of its nodes, and so has the reply.
LEMMA HandleStep ==
    ASSUME Parameters, NetworkInv, NEW msg, HandleJoin(msg) PROVE NetworkInv'
<1>1. /\ Served(msg) /\ msg.kind = "join" /\ UNCHANGED <<up, addr, clock, nonce, other>>
      /\ ids' = [ids EXCEPT ![msg.to] = MergeIdentities(
                   UpdateIdentity(ids[msg.to], msg.info.node, msg.info.nonce), msg.ids)]
  BY DEF HandleJoin, HandledIdentities
<1>2. PICK m \in up, n \in Node : m = msg.to /\ n = msg.from
  BY <1>1, ServedMessage
<1>3. /\ m \in Node /\ ids[m] \in [Node -> Nonces] /\ msgs' \subseteq msgs
      /\ msg \in Messages /\ SoundMessage(msg, Past) /\ msg.info \in Infos /\ msg.ids \in [Node -> Nonces]
  BY <1>1, <1>2, ServedMessage DEF NetworkInv, Types
<1>4. PICK v : /\ v = MergeIdentities(UpdateIdentity(ids[m], msg.info.node, msg.info.nonce), msg.ids)
               /\ ids' = [ids EXCEPT ![m] = v]
  BY <1>1, <1>2
<1>5. /\ v \in [Node -> Nonces] /\ v[msg.info.node] >= 0
      /\ \A k \in Node : v[k] >= ids[m][k] /\ v[k] >= msg.ids[k]
  BY <1>3, <1>4, IdentitiesMerged
<1>6. /\ ids' \in [Node -> [Node -> Nonces]] /\ ids'[m] = v
      /\ \A i, k \in Node : ids'[i][k] >= ids[i][k]
  <2>1. v \in [Node -> Nonces] /\ \A k \in Node : v[k] >= ids[m][k]
    BY <1>5
  <2>2. m \in Node /\ ids' = [ids EXCEPT ![m] = v]
    BY <1>3, <1>4
  <2> QED
    BY <2>1, <2>2, IdsGrow
<1>7. PICK order \in SetToSeqs(msg.nodes) : net' = [net EXCEPT ![m] = HandledNodes(net[m], msg, order)]
  BY <1>2 DEF HandleJoin
<1>8. PICK u : u = HandledNodes(net[m], msg, order) /\ net' = [net EXCEPT ![m] = u]
  BY <1>7
<1>9. /\ u \in Tables /\ Traced(net[m], {msg.info} \cup msg.nodes, u) /\ u[m] = net[m][m]
  BY <1>1, <1>2, <1>8, HandledTables
<1>10. /\ net' \in [Node -> Tables] /\ net'[m] = u
       /\ Past \subseteq Past' /\ TablesPast' /\ NetworkReadable' /\ OwnRecordStays'
  <2>1. {msg.info} \cup msg.nodes \subseteq Past
    BY <1>3 DEF SoundMessage
  <2>2. \A i \in {msg.info} \cup msg.nodes : ids'[m][i.node] >= 0
    <3>1. ASSUME NEW i \in msg.nodes PROVE v[i.node] >= 0
      <4>1. i.node \in Node /\ msg.ids[i.node] >= 0
        BY <1>3 DEF SoundMessage, Messages, Infos
      <4>2. v[i.node] \in Int /\ msg.ids[i.node] \in Int
        BY <1>3, <1>5, <4>1 DEF Nonces, Parameters
      <4> QED
        BY <1>5, <4>1, <4>2
    <3> QED
      BY <1>5, <1>6, <3>1
  <2>3. UNCHANGED <<up, addr, clock>>
    BY <1>1
  <2> DEFINE S == {msg.info} \cup msg.nodes
  <2>4. S \subseteq Past /\ (\A i \in S : ids'[m][i.node] >= 0) /\ Traced(net[m], S, u)
    BY <1>9, <2>1, <2>2
  <2> HIDE DEF S
  <2> QED
    BY <1>6, <1>8, <1>9, <2>3, <2>4, TableUpdated
<1> DEFINE said(k) == [node |-> k, seen |-> net'[m][k].seen, addr |-> net'[m][k].addr,
                       nonce |-> ids'[m][k]]
           self == [node |-> m, seen |-> net'[m][m].seen, addr |-> net'[m][m].addr,
                    nonce |-> nonce[m]]
           nodes == {said(k) : k \in Known(net'[m]) \ {m, n}}
           table == [k \in Node |-> IF k \in {m, n} THEN -1 ELSE ids'[m][k]]
           reply == [info |-> self, nodes |-> nodes, ids |-> table]
           q == [join[n] EXCEPT !.pc = "reply", !.reply = reply]
<1>11. nodes \subseteq Past' /\ Past' \subseteq Infos
  <2>1. \A k \in Known(net'[m]) : said(k) \in Past'
    BY <1>3, <1>6, <1>10, RowsNext
  <2> HIDE DEF said
  <2>2. nodes \subseteq Past'
    BY <2>1
  <2> QED
    BY <2>2 DEF Past
<1>12. m \in Known(net'[m]) => self \in Past'
  <2>1. nonce[m] \in 0..MaxOther
    BY <1>3 DEF NetworkInv, Types, Parameters
  <2>2. self = Row(m, net'[m][m], nonce[m])
    BY DEF Row
  <2> QED
    BY <1>3, <1>10, <2>1, <2>2 DEF TablesPast, RowsIn
<1>13. table \in [Node -> Nonces]
  BY <1>5, <1>6 DEF Nonces, Parameters
<1>14. join' = join \/ (m \in Known(net'[m]) /\ join[n].pc = "wait" /\ join' = [join EXCEPT ![n] = q])
  <2>1. join \in [Node -> Joins]
    BY DEF NetworkInv, Types
  <2> HIDE DEF reply
  <2>2. join' = IF ~ (msg.open /\ join[n].pc = "wait" /\ m \in Known(net'[m])) THEN join
                ELSE [join EXCEPT ![n].pc = "reply", ![n].reply = reply]
    <3>1. join' = IF ~ (msg.open /\ join[msg.from].pc = "wait" /\ msg.to \in Known(net'[msg.to]))
                  THEN join
                  ELSE [join EXCEPT ![msg.from].pc = "reply", ![msg.from].reply = ReplyOf(msg)]
      BY DEF HandleJoin, ReplyOf
    <3>2. ReplyOf(msg) = reply
      BY <1>2 DEF ReplyOf, reply, nodes, said, self, table
    <3> QED
      BY <1>2, <3>1, <3>2
  <2> QED
    BY <2>1, <2>2 DEF Joins
<1>15. join[n] \in Joins /\ SoundJoin(join[n], Past, n \in up, ids[n])
  BY JoinNow
<1> HIDE DEF said, self, nodes, table
<1>16. ASSUME m \in Known(net'[m]), join[n].pc = "wait"
       PROVE  q \in Joins /\ SoundJoin(q, Past', n \in up', ids'[n])
  <2>1. self \in Past' /\ self \in Infos
    BY <1>11, <1>12, <1>16
  <2>2. reply \in Replies /\ reply.info \in Past' /\ reply.nodes \subseteq Past'
    BY <1>11, <1>13, <2>1 DEF Replies
  <2> HIDE DEF reply
  <2>3. q \in Joins /\ q.pc = "reply" /\ q.reply = reply /\ q.nodes = join[n].nodes
        /\ q.remaining = join[n].remaining
    BY <1>15, <2>2 DEF Joins
  <2>4. n \in up'
    BY <1>1, <1>15, <1>16 DEF SoundJoin
  <2> HIDE DEF q
  <2> QED
    BY <1>10, <1>15, <2>2, <2>3, <2>4 DEF SoundJoin
<1> HIDE DEF q
<1>17. join' \in [Node -> Joins] /\ \A k \in Node \ {n} : join'[k] = join[k]
  BY <1>14, <1>16 DEF NetworkInv, Types
<1>18. Types'
  BY <1>1, <1>3, <1>6, <1>10, <1>17 DEF NetworkInv, Types
<1>19. SoundJoin(join'[n], Past', n \in up', ids'[n])
  <2>1. CASE join'[n] = join[n]
    BY <1>1, <1>6, <1>10, <1>18, <2>1, JoinStays
  <2>2. CASE join' # join
    <3>1. join'[n] = q
      BY <1>14, <2>2 DEF NetworkInv, Types
    <3> QED
      BY <1>14, <1>16, <2>2, <3>1
  <2> QED
    BY <2>1, <2>2
<1>20. /\ \A k \in Node \ {n} : join'[k] = join[k] /\ (k \in up => k \in up')
       /\ \A x \in msgs' \ msgs : SoundMessage(x, Past')
  BY <1>1, <1>3, <1>17
<1> QED
  BY <1>6, <1>10, <1>18, <1>19, <1>20, Kept

-----------------------------------------------------------------------------
\* Nobody has started yet.
LEMMA NetworkInit == ASSUME Parameters, Init PROVE NetworkInv
<1>1. Types
  <2>1. Idle \in Joins
    BY IdleSound
  <2> QED
    BY <2>1 DEF Init, Types, Parameters, Tables, Nonces
<1>2. TablesPast /\ NetworkReadable /\ OwnRecordStays /\ MessagesSound
  BY DEF Init, TablesPast, RowsIn, Known, NetworkReadable, Readable, OwnRecordStays, MessagesSound
<1>3. JoinsSound
  BY IdleSound DEF Init, JoinsSound
<1> QED
  BY <1>1, <1>2, <1>3 DEF NetworkInv

\* Every step keeps the invariant.
LEMMA NetworkNext == ASSUME Parameters, NetworkInv, [Next]_vars PROVE NetworkInv'
<1>1. CASE UNCHANGED vars
  <2>1. Past' = Past
    BY <1>1 DEF vars, Past
  <2>2. /\ UNCHANGED <<Types, TablesPast, NetworkReadable, OwnRecordStays>>
    BY <1>1, <2>1 DEF vars, Types, TablesPast, NetworkReadable, Readable, OwnRecordStays
  <2>3. UNCHANGED <<MessagesSound, JoinsSound>>
    BY <1>1, <2>1 DEF vars, MessagesSound, JoinsSound
  <2> QED
    BY <2>2, <2>3 DEF NetworkInv
<1>2. ASSUME NEW n \in Node, NEW a \in Addr, Start(n, a) PROVE NetworkInv'
  BY <1>2, StartStep
<1>3. ASSUME NEW n \in Node, NEW told, Leave(n, told) \/ ChangeProfile(n, told) PROVE NetworkInv'
  BY <1>3, LeaveStep, ProfileStep
<1>4. ASSUME NEW n \in Node, NEW b \in Node, JoinStart(n, b) PROVE NetworkInv'
  BY <1>4, JoinStartStep
<1>5. ASSUME NEW n \in Node,
             \/ Stop(n) \/ JoinSkip(n) \/ JoinPick(n) \/ JoinSend(n)
             \/ JoinReply(n) \/ JoinFails(n) \/ JoinEnd(n)
      PROVE  NetworkInv'
  BY <1>5, StopStep, SkipStep, PickStep, SendStep, ReplyStep, FailStep
<1>6. ASSUME NEW msg, HandleJoin(msg) \/ HandleLeave(msg) \/ HandleIdentity(msg) PROVE NetworkInv'
  BY <1>6, HandleStep, LeftStep, IdentityStep
<1> QED
  BY <1>1, <1>2, <1>3, <1>4, <1>5, <1>6 DEF Next

\* The invariant has the properties of the network, and its types.
LEMMA NetworkAgrees ==
    ASSUME Parameters, NetworkInv PROVE NetworkReadable /\ OwnRecordStays /\ TypeOK
<1>1. \A msg \in msgs : msg.info \in Infos /\ msg.nodes \subseteq Infos
  BY DEF NetworkInv, MessagesSound, SoundMessage, Past
<1>2. \A n \in Node : join[n].remaining \subseteq Infos
  BY DEF NetworkInv, JoinsSound, SoundJoin, Past
<1>3. nonce \in [Node -> 0..MaxOther]
  BY DEF NetworkInv, Types, Parameters
<1> QED
  BY <1>1, <1>2, <1>3 DEF NetworkInv, Types, TypeOK, Tables

-----------------------------------------------------------------------------
(* Nodes that join, as long as every join is simple.  A node that joins gets   *)
(* the root of the node it joins through, which never joins itself.  Whoever   *)
(* was at the root knows, or is known or contacted by, everybody else that was *)
(* there: the root lists to the second those that came before.  Before its     *)
(* join ends, a node was at the root: as long as it was not, it is going to    *)
(* contact somebody who knows the root.                                        *)

\* whom a join still has to contact, and whose turn has been
Ahead(j) ==
    ({i.node : i \in j.remaining \cup (IF j.pc = "reply" THEN j.reply.nodes ELSE {})} \ j.processed)
    \cup (IF j.pc \in {"ids", "wait"} THEN {j.peer.node} ELSE {})
Done(j) == IF j.pc \in {"ids", "wait"} THEN j.processed \ {j.peer.node} ELSE j.processed

\* whom a node knows, or is about to
Heard(n) == Known(net[n]) \cup (IF join[n].pc = "reply" THEN {join[n].peer.node} ELSE {})

\* n does not join, or was at r already
Met(n, r) == join[n].pc = "idle" \/ r \in Done(join[n])

Agree(x, y) ==
    \/ y \in Heard(x) /\ x \in Heard(y)
    \/ y \in Ahead(join[x])
    \/ x \in Ahead(join[y])

\* a node that joined has the root of the node it joined through
Rooted(root) ==
    /\ \A n \in Node : root[root[n]] = root[n]
    /\ \A n \in Node : root[n] # n => n \in up /\ root[n] \in up \cap boots

Apart == \A m, n \in up : addr[m] = addr[n] => m = n

\* what is said of the nodes with the root of n, all of it true
InfosOf(root, n) == {i \in Infos : i.node \in up /\ root[i.node] = root[n] /\ i.addr = addr[i.node]}
TableOf(root, n, t) == \A m \in Known(t) : m \in up /\ root[m] = root[n] /\ t[m].addr = addr[m]

MessageOf(root, msg) ==
    LET n == msg.from IN
    /\ msg.kind # "leave"
    /\ msg.kind = "join" =>
         /\ msg.info \in InfosOf(root, n) /\ msg.info.node = n /\ msg.nodes \subseteq InfosOf(root, n)
         /\ join[n].pc = "wait" /\ join[n].peer.node = msg.to
OneEach == \A x, y \in msgs : x.kind = "join" /\ y.kind = "join" /\ x.from = y.from => x = y

\* a join was with every node whose turn has been
JoinOf(root, n) ==
    LET j == join[n]  infos == InfosOf(root, n) IN
    /\ j.remaining \subseteq infos /\ j.nodes \subseteq infos
    /\ j.pc = "idle" => j.remaining = {}
    /\ j.pc # "idle" =>
         /\ root[n] # n /\ n \in j.processed
         /\ \A x \in Done(j) \ {n} : n \in Known(net[x]) /\ x \in Heard(n)
    /\ j.pc \in {"ids", "wait", "reply"} => j.peer \in infos /\ j.peer.node \in j.processed \ {n}
    /\ j.pc = "reply" =>
         j.reply.info \in infos /\ j.reply.info.node = j.peer.node /\ j.reply.nodes \subseteq infos

\* it is going to contact the root, or somebody who knows it
RootAhead(root, n) ==
    Met(n, root[n]) \/ \E x \in Ahead(join[n]) : x = root[n] \/ root[n] \in Known(net[x])

\* two that were at the root know each other, or one is going to contact the other
PairsAgree(root) == \A x, y \in up :
    x # y /\ root[x] = root[y] /\ Met(x, root[x]) /\ Met(y, root[y]) => Agree(x, y)

Agreement(root) ==
    /\ Rooted(root) /\ Apart /\ OneEach
    /\ \A n \in Node : TableOf(root, n, net[n]) /\ JoinOf(root, n) /\ RootAhead(root, n)
    /\ \A msg \in msgs : MessageOf(root, msg)
    /\ PairsAgree(root)

JoinedInv == simple => \E root \in [Node -> Node] : Agreement(root)

\* What is true of nodes at different addresses does not take a record away.
LEMMA UpdateApart ==
    ASSUME Parameters, Apart, up \subseteq Node, NEW root, NEW n, NEW t \in Tables, TableOf(root, n, t),
           NEW i \in InfosOf(root, n), NEW u, u = UpdateNetwork(t, i)
    PROVE  TableOf(root, n, u) /\ Known(u) = Known(t) \cup {i.node}
<1> DEFINE c == [m \in Node |-> IF m \in Outdated(t, i) THEN NoRecord ELSE t[m]]
           r == [seen |-> i.seen, addr |-> i.addr]
<1>1. i \in Infos /\ i.node \in up /\ i.node \in Node /\ root[i.node] = root[n] /\ i.addr = addr[i.node]
  BY DEF InfosOf
<1>2. r # NoRecord /\ r.addr = addr[i.node]
  <2>1. r \in Records
    BY <1>1 DEF Infos, Records
  <2> QED
    BY <1>1, <2>1 DEF Parameters
<1>3. Outdated(t, i) = {}
  BY <1>1 DEF Outdated, Conflicting, TableOf, Apart
<1>4. c = t
  BY <1>3 DEF Tables
<1>5. u = IF i.node \in Known(c) /\ i.seen <= c[i.node].seen THEN c ELSE [c EXCEPT ![i.node] = r]
  BY DEF UpdateNetwork
<1> HIDE DEF c, r
<1>6. CASE u = t /\ i.node \in Known(t)
  BY <1>1, <1>6
<1>7. CASE u = [t EXCEPT ![i.node] = r]
  <2>1. \A m \in Node : u[m] = IF m = i.node THEN r ELSE t[m]
    BY <1>7 DEF Tables
  <2> QED
    BY <1>1, <1>2, <2>1 DEF Known, TableOf
<1> QED
  BY <1>4, <1>5, <1>6, <1>7

\* Nor does a snapshot.
LEMMA UpdateAllApart ==
    ASSUME Parameters, Apart, up \subseteq Node, NEW root, NEW n, NEW t \in Tables, TableOf(root, n, t),
           NEW S, S \subseteq InfosOf(root, n), IsFiniteSet(S), NEW order \in SetToSeqs(S),
           NEW u, u = UpdateAll(t, order)
    PROVE  TableOf(root, n, u) /\ Known(t) \subseteq Known(u)
<1>k. PICK k : k = Len(order)
  OBVIOUS
<1>0. k \in Nat /\ order \in [1..k -> S] /\ \E after : Stepwise(t, order, after) /\ u = after[k]
  BY <1>k, UpdateSteps
<1>1. PICK after : Stepwise(t, order, after) /\ u = after[k]
  BY <1>0
<1> DEFINE Good(j) == after[j] \in Tables /\ TableOf(root, n, after[j]) /\ Known(t) \subseteq Known(after[j])
           bad == {j \in 0..k : ~ Good(j)}
<1>2. 0 \notin bad
  BY <1>1 DEF Stepwise
<1>3. ASSUME NEW j \in 1..k, j - 1 \notin bad PROVE j \notin bad
  <2>1. PICK i \in InfosOf(root, n) : i = order[j]
    BY <1>0
  <2>2. PICK s \in Tables : s = after[j - 1] /\ TableOf(root, n, s) /\ Known(t) \subseteq Known(s)
    BY <1>0, <1>3
  <2>3. PICK v : v = after[j] /\ v = UpdateNetwork(s, i)
    BY <1>k, <1>1, <2>1, <2>2 DEF Stepwise
  <2>4. TableOf(root, n, v) /\ Known(v) = Known(s) \cup {i.node}
    BY <2>2, <2>3, UpdateApart
  <2>5. v \in Tables
    BY <2>3, UpdateOne DEF InfosOf
  <2> QED
    BY <2>2, <2>3, <2>4, <2>5
<1>4. k \notin bad
  <2>1. k \in Nat /\ \A j \in 1..k : j - 1 \notin bad => j \notin bad
    BY <1>0, <1>3
  <2> HIDE DEF bad
  <2> QED
    BY <1>2, <2>1, Upward
<1> QED
  BY <1>0, <1>1, <1>4

\* What is said of a group stays true.
LEMMA InfosKept ==
    ASSUME UNCHANGED <<up, addr>>, NEW root, NEW n PROVE InfosOf(root, n)' = InfosOf(root, n)
BY DEF InfosOf

\* All of them are nodes.
LEMMA AheadNodes ==
    ASSUME NetworkInv, NEW root, NEW n \in Node, JoinOf(root, n)
    PROVE  Ahead(join[n]) \subseteq Node /\ Done(join[n]) \subseteq Node
<1>1. join[n].remaining \subseteq Infos /\ join[n].processed \subseteq Node
  BY DEF NetworkInv, Types, Joins
<1>2. join[n].pc = "reply" => join[n].reply.nodes \subseteq Infos
  BY DEF JoinOf, InfosOf
<1>3. join[n].pc \in {"ids", "wait"} => join[n].peer.node \in Node
  BY DEF JoinOf, InfosOf, Infos
<1>4. \A i \in Infos : i.node \in Node
  BY DEF Infos
<1>5. Done(join[n]) \subseteq Node
  BY <1>1 DEF Done
<1>6. Ahead(join[n]) \subseteq Node
  BY <1>1, <1>2, <1>3, <1>4 DEF Ahead
<1> QED
  BY <1>5, <1>6

\* A join that a step leaves alone.
LEMMA JoinOfKept ==
    ASSUME NetworkInv, NEW root, NEW next, NEW n \in Node, JoinOf(root, n), join'[n] = join[n],
           next[n] = root[n], InfosOf(root, n) \subseteq InfosOf(next, n)',
           \A m \in Node : Known(net[m]) \subseteq Known(net'[m])
    PROVE  JoinOf(next, n)' /\ Heard(n) \subseteq Heard(n)'
<1>1. Heard(n) \subseteq Heard(n)'
  BY DEF Heard
<1>2. \A x \in Done(join[n]) : x \in Node
  BY AheadNodes
<1>3. Done(join[n])' = Done(join[n])
  BY DEF Done
<1>4. ASSUME join[n].pc # "idle"
      PROVE  /\ next[n] # n /\ n \in join[n].processed
             /\ \A x \in Done(join[n]) \ {n} : n \in Known(net'[x]) /\ x \in Heard(n)'
  BY <1>1, <1>2, <1>4 DEF JoinOf
<1>5. JoinOf(next, n)'
  BY <1>3, <1>4 DEF JoinOf
<1> QED
  BY <1>1, <1>5

\* what a step adds to the messages, and leaves of those of n
Posts(root, n) ==
    /\ \A msg \in msgs' \ msgs : MessageOf(root, msg)' /\ (msg.kind = "join" => msg.from = n)
    /\ \A msg \in msgs' : msg.kind = "join" /\ msg.from = n =>
         MessageOf(root, msg)' /\ \A x \in msgs' : x.kind = "join" /\ x.from = n => x = msg

\* A step that keeps the nodes where they are, and changes the join of n only.
LEMMA AgreementKept ==
    ASSUME NetworkInv, NEW root \in [Node -> Node], Agreement(root), UNCHANGED <<up, addr, boots>>,
           NEW n \in Node, \A m \in Node \ {n} : join'[m] = join[m],
           \A m \in Node : Known(net[m]) \subseteq Known(net'[m]) /\ TableOf(root, m, net'[m]),
           Posts(root, n),
           JoinOf(root, n)', RootAhead(root, n)', Heard(n) \subseteq Heard(n)',
           \A x \in Ahead(join[n]) : Agree(n, x)',
           \/ Met(n, root[n])' => Met(n, root[n])
           \/ \A y \in up \ {n} : root[y] = root[n] /\ Met(y, root[y]) => Agree(n, y)'
    PROVE  Agreement(root)'
<1>1. /\ Rooted(root) /\ Apart /\ OneEach /\ PairsAgree(root)
      /\ \A m \in Node : TableOf(root, m, net[m]) /\ JoinOf(root, m) /\ RootAhead(root, m)
      /\ \A msg \in msgs : MessageOf(root, msg)
  BY DEF Agreement
<1>2. Rooted(root)' /\ Apart'
  BY <1>1 DEF Rooted, Apart
<1>3. \A m \in Node : TableOf(root, m, net[m])'
  BY DEF TableOf
<1>4. \A m \in Node \ {n} : JoinOf(root, m)' /\ Heard(m) \subseteq Heard(m)'
  <2> SUFFICES ASSUME NEW m \in Node \ {n} PROVE JoinOf(root, m)' /\ Heard(m) \subseteq Heard(m)'
    OBVIOUS
  <2>1. InfosOf(root, m) \subseteq InfosOf(root, m)'
    BY InfosKept
  <2> QED
    BY <1>1, <2>1, JoinOfKept
<1>5. \A m \in Node \ {n} : /\ Met(m, root[m])' <=> Met(m, root[m])
                            /\ Ahead(join[m])' = Ahead(join[m])
  BY DEF Met, Done, Ahead
<1>6. \A m \in Node \ {n} : RootAhead(root, m)'
  <2> SUFFICES ASSUME NEW m \in Node \ {n} PROVE RootAhead(root, m)'
    OBVIOUS
  <2>1. RootAhead(root, m) /\ root[m] \in Node
    BY <1>1
  <2>2. \A x \in Ahead(join[m]) : x \in Node
    BY <1>1, AheadNodes
  <2> QED
    BY <1>5, <2>1, <2>2 DEF RootAhead
<1>7. ASSUME NEW msg \in msgs' PROVE MessageOf(root, msg)'
  <2>1. CASE msg \notin msgs \/ (msg.kind = "join" /\ msg.from = n)
    BY <2>1 DEF Posts
  <2>2. CASE msg \in msgs /\ ~ (msg.kind = "join" /\ msg.from = n)
    <3>1. msg.from \in Node /\ MessageOf(root, msg)
      BY <1>1, <2>2 DEF NetworkInv, Types, Messages
    <3>2. InfosOf(root, msg.from)' = InfosOf(root, msg.from)
      BY InfosKept
    <3> QED
      BY <2>2, <3>1, <3>2 DEF MessageOf
  <2> QED
    BY <2>1, <2>2
<1>8. OneEach'
  BY <1>1 DEF OneEach, Posts
<1>9. PairsAgree(root)'
  <2>1. ASSUME NEW x \in up, NEW y \in up \ {n}, x # y, root[x] = root[y],
               Met(x, root[x])', Met(y, root[y])'
        PROVE  Agree(x, y)'
    <3>1. x \in Node /\ y \in Node \ {n} /\ Met(y, root[y])
      BY <1>5, <2>1 DEF NetworkInv, Types
    <3>2. CASE Met(x, root[x])
      <4>1. Agree(x, y)
        BY <1>1, <2>1, <3>1, <3>2 DEF PairsAgree
      <4>2. CASE y \in Heard(x) /\ x \in Heard(y)
        BY <1>4, <3>1, <4>2 DEF Agree
      <4>3. CASE x \in Ahead(join[y])
        BY <1>5, <3>1, <4>3 DEF Agree
      <4>4. CASE y \in Ahead(join[x])
        BY <1>5, <3>1, <4>4 DEF Agree
      <4> QED
        BY <4>1, <4>2, <4>3, <4>4 DEF Agree
    <3>3. CASE ~ Met(x, root[x])
      <4>1. x = n
        BY <1>5, <2>1, <3>1, <3>3
      <4> QED
        BY <2>1, <3>1, <3>3, <4>1
    <3> QED
      BY <3>2, <3>3
  <2>2. \A x, y \in up : Agree(x, y)' => Agree(y, x)'
    BY DEF Agree
  <2> QED
    BY <2>1, <2>2 DEF PairsAgree
<1> QED
  BY <1>2, <1>3, <1>4, <1>6, <1>7, <1>8, <1>9 DEF Agreement

\* A node that joined and is done knows its root.
LEMMA KnowsRoot ==
    ASSUME NetworkInv, NEW root \in [Node -> Node], Agreement(root), NEW n \in Node,
           join[n].pc = "idle", root[n] # n
    PROVE  root[n] \in Known(net[n])
<1>1. PICK r \in up : r = root[n] /\ r # n /\ root[r] = r /\ n \in up /\ r \in Node
  BY DEF Agreement, Rooted, NetworkInv, Types
<1>2. JoinOf(root, n) /\ JoinOf(root, r)
  BY <1>1 DEF Agreement
<1>3. join[r].pc = "idle" /\ join[r].remaining = {} /\ join[n].remaining = {}
  BY <1>1, <1>2 DEF JoinOf
<1>4. Agree(n, r)
  BY <1>1, <1>3 DEF Agreement, PairsAgree, Met
<1> QED
  BY <1>1, <1>3, <1>4 DEF Agree, Ahead, Heard

\* A join moves on: who is ahead and who was met does not change, nor do the tables.
LEMMA MovesOn ==
    ASSUME NetworkInv, NEW root \in [Node -> Node], Agreement(root),
           UNCHANGED <<up, addr, boots, net>>, NEW n \in Node, NEW q,
           join' = [join EXCEPT ![n] = q], Ahead(q) = Ahead(join[n]),
           join[n].pc # "reply", q.pc # "reply",
           JoinOf(root, n)', Met(n, root[n])' <=> Met(n, root[n]), Posts(root, n)
    PROVE  Agreement(root)'
<1>1. join'[n] = q /\ \A m \in Node \ {n} : join'[m] = join[m]
  BY DEF NetworkInv, Types
<1>2. \A m \in Node : Known(net[m]) \subseteq Known(net'[m]) /\ TableOf(root, m, net'[m])
  BY DEF Agreement
<1>3. Heard(n) \subseteq Heard(n)'
  BY <1>1 DEF Heard
<1>4. Ahead(join[n])' = Ahead(join[n])
  BY <1>1 DEF Ahead
<1>5. \A x \in Ahead(join[n]) : Agree(n, x)'
  BY <1>4 DEF Agree
<1>6. RootAhead(root, n)'
  BY <1>4 DEF Agreement, RootAhead
<1> QED
  BY <1>1, <1>2, <1>3, <1>5, <1>6, AgreementKept

\* A join of a node that does not wait has no message on its way.
LEMMA NoMessage ==
    ASSUME NEW root, Agreement(root), NEW n, join[n].pc # "wait", msgs' = msgs
    PROVE  Posts(root, n)
BY DEF Agreement, MessageOf, Posts

\* A peer whose turn has been is left out.
LEMMA SkipAgrees ==
    ASSUME NetworkInv, NEW root \in [Node -> Node], Agreement(root), NEW n \in Node, JoinSkip(n)
    PROVE  Agreement(root)'
<1>1. PICK i \in join[n].remaining :
        /\ i.node \in join[n].processed
        /\ join' = [join EXCEPT ![n] = [join[n] EXCEPT !.remaining = join[n].remaining \ {i}]]
  BY DEF JoinSkip
<1>2. join[n].pc = "pick" /\ UNCHANGED <<up, addr, boots, net, msgs>>
  BY DEF JoinSkip
<1>3. PICK q : q = [join[n] EXCEPT !.remaining = join[n].remaining \ {i}]
  OBVIOUS
<1>4. /\ q.pc = "pick" /\ q.remaining = join[n].remaining \ {i} /\ q.processed = join[n].processed
      /\ q.nodes = join[n].nodes
  BY <1>2, <1>3, JoinNow DEF Joins
<1>5. join' = [join EXCEPT ![n] = q] /\ join'[n] = q
  BY <1>1, <1>3 DEF NetworkInv, Types
<1>6. Ahead(q) = Ahead(join[n]) /\ Done(q) = Done(join[n])
  BY <1>1, <1>2, <1>4 DEF Ahead, Done
<1>7. Met(n, root[n])' <=> Met(n, root[n])
  BY <1>2, <1>4, <1>5, <1>6 DEF Met, Done
<1>8. JoinOf(root, n)'
  <2>1. JoinOf(root, n)
    BY DEF Agreement
  <2>2. Done(join[n])' = Done(join[n]) /\ Heard(n)' = Heard(n) /\ InfosOf(root, n)' = InfosOf(root, n)
    BY <1>2, <1>4, <1>5, <1>6, InfosKept DEF Done, Heard
  <2> QED
    BY <1>2, <1>4, <1>5, <2>1, <2>2 DEF JoinOf
<1>9. Posts(root, n)
  BY <1>2, NoMessage
<1> QED
  BY <1>2, <1>4, <1>5, <1>6, <1>7, <1>8, <1>9, MovesOn

\* A join ends: nobody is ahead, so it was at its root.
LEMMA EndAgrees ==
    ASSUME NetworkInv, NEW root \in [Node -> Node], Agreement(root), NEW n \in Node, JoinEnd(n)
    PROVE  Agreement(root)'
<1>1. /\ join[n].pc = "pick" /\ join[n].remaining = {} /\ UNCHANGED <<up, addr, boots, net, msgs>>
      /\ join' = [join EXCEPT ![n] = Idle]
  BY DEF JoinEnd
<1>2. join'[n] = Idle
  BY <1>1 DEF NetworkInv, Types
<1>3. Ahead(Idle) = {} /\ Ahead(join[n]) = {}
  BY <1>1 DEF Ahead, Idle
<1>4. Met(n, root[n]) /\ Met(n, root[n])'
  BY <1>2, <1>3 DEF Agreement, RootAhead, Met, Idle
<1>5. JoinOf(root, n)'
  BY <1>2 DEF JoinOf, Idle
<1>6. Posts(root, n) /\ Idle.pc = "idle"
  BY <1>1, NoMessage DEF Idle
<1> QED
  BY <1>1, <1>3, <1>4, <1>5, <1>6, MovesOn

\* What a node says of those it knows, and of itself.
LEMMA NetworkInfos ==
    ASSUME Parameters, NetworkInv, NEW root, NEW n \in Node, TableOf(root, n, net[n])
    PROVE  /\ Network(n) \subseteq InfosOf(root, n)
           /\ n \in up => Self(n) \in InfosOf(root, n) /\ Self(n).node = n
<1>1. Network(n) \subseteq Infos /\ (n \in up => Self(n) \in Infos /\ Self(n).node = n)
  BY SaidInfos DEF Past
<1>2. \A i \in Network(n) : i.node \in Known(net[n]) /\ i.addr = net[n][i.node].addr
  BY DEF Network, Info
<1>3. ASSUME n \in up PROVE Self(n).addr = net[n][n].addr /\ net[n][n].addr = addr[n]
  BY <1>3 DEF Self, Info, NetworkInv, OwnRecordStays
<1> QED
  BY <1>1, <1>2, <1>3 DEF TableOf, InfosOf

\* The next peer is the one that was ahead.
LEMMA PickAgrees ==
    ASSUME Parameters, NetworkInv, NEW root \in [Node -> Node], Agreement(root), NEW n \in Node,
           JoinPick(n)
    PROVE  Agreement(root)'
<1>0. PICK i \in join[n].remaining :
        /\ i.node \notin join[n].processed
        /\ join' = [join EXCEPT ![n] =
            [join[n] EXCEPT !.pc = "ids", !.remaining = join[n].remaining \ {i},
                            !.processed = join[n].processed \cup {i.node}, !.peer = i,
                            !.nodes = SnapshotNodes(n, join[n].processed \cup {i.node})]]
  BY ZenonT(20) DEF JoinPick
<1>1. PICK p, nodes : p = join[n].processed \cup {i.node} /\ nodes = SnapshotNodes(n, p)
  OBVIOUS
<1>2. PICK q : q = [join[n] EXCEPT !.pc = "ids", !.remaining = join[n].remaining \ {i},
                                   !.processed = p, !.peer = i, !.nodes = nodes]
  OBVIOUS
<1>3. join[n].pc = "pick" /\ UNCHANGED <<up, addr, boots, net, msgs>>
  BY DEF JoinPick
<1>4. join[n] \in Joins
  BY JoinNow
<1>5. /\ q.pc = "ids" /\ q.remaining = join[n].remaining \ {i} /\ q.processed = p /\ q.peer = i
      /\ q.nodes = nodes
  BY <1>2, <1>4 DEF Joins
<1>6. join' = [join EXCEPT ![n] = q] /\ join'[n] = q
  BY <1>0, <1>1, <1>2 DEF NetworkInv, Types
<1>7. Ahead(q) = Ahead(join[n]) /\ Done(q) = Done(join[n])
  BY <1>0, <1>1, <1>3, <1>5 DEF Ahead, Done
<1>8. Met(n, root[n])' <=> Met(n, root[n])
  BY <1>3, <1>5, <1>6, <1>7 DEF Met, Done
<1>9. JoinOf(root, n)'
  <2>1. JoinOf(root, n) /\ TableOf(root, n, net[n])
    BY DEF Agreement
  <2>2. nodes \subseteq InfosOf(root, n)
    BY <1>1, <2>1, NetworkInfos DEF SnapshotNodes
  <2>3. Done(join[n])' = Done(join[n]) /\ Heard(n)' = Heard(n) /\ InfosOf(root, n)' = InfosOf(root, n)
    BY <1>3, <1>5, <1>6, <1>7, InfosKept DEF Done, Heard
  <2>4. /\ i \in InfosOf(root, n) /\ q.remaining \subseteq InfosOf(root, n)
        /\ root[n] # n /\ n \in p /\ i.node \in p \ {n}
        /\ \A x \in Done(join[n]) \ {n} : n \in Known(net[x]) /\ x \in Heard(n)
    BY <1>0, <1>1, <1>3, <1>5, <2>1 DEF JoinOf
  <2> QED
    BY <1>3, <1>5, <1>6, <2>2, <2>3, <2>4 DEF JoinOf
<1>10. Posts(root, n)
  BY <1>3, NoMessage
<1> QED
  BY <1>3, <1>5, <1>6, <1>7, <1>8, <1>9, <1>10, MovesOn

\* The snapshot is sent to that peer.
LEMMA SendAgrees ==
    ASSUME Parameters, NetworkInv, NEW root \in [Node -> Node], Agreement(root), NEW n \in Node,
           JoinSend(n)
    PROVE  Agreement(root)'
<1>1. PICK msg : /\ msg = Send("join", n, join[n].peer, join[n].nodes, SnapshotIds(n, join[n].processed))
                 /\ msgs' = msgs \cup {msg}
  BY DEF JoinSend
<1>2. join[n].pc = "ids" /\ UNCHANGED <<up, addr, boots, net>>
  BY DEF JoinSend
<1>3. PICK q : q = [join[n] EXCEPT !.pc = "wait", !.nodes = {}]
  OBVIOUS
<1>4. join[n] \in Joins /\ join \in [Node -> Joins] /\ SoundJoin(join[n], Past, n \in up, ids[n])
  BY JoinNow DEF NetworkInv, Types
<1>5. /\ q.pc = "wait" /\ q.remaining = join[n].remaining /\ q.processed = join[n].processed
      /\ q.peer = join[n].peer /\ q.nodes = {}
  BY <1>3, <1>4 DEF Joins
<1>6. join' = [join EXCEPT ![n] = q] /\ join'[n] = q
  BY <1>3, <1>4 DEF JoinSend, Joins
<1>7. Ahead(q) = Ahead(join[n]) /\ Done(q) = Done(join[n])
  BY <1>2, <1>5 DEF Ahead, Done
<1>8. Met(n, root[n])' <=> Met(n, root[n])
  BY <1>2, <1>5, <1>6, <1>7 DEF Met, Done
<1>9. JoinOf(root, n) /\ TableOf(root, n, net[n]) /\ InfosOf(root, n)' = InfosOf(root, n)
  BY <1>2, InfosKept DEF Agreement
<1>10. JoinOf(root, n)'
  <2>1. Done(join[n])' = Done(join[n]) /\ Heard(n)' = Heard(n)
    BY <1>2, <1>5, <1>6, <1>7 DEF Done, Heard
  <2> QED
    BY <1>2, <1>5, <1>6, <1>9, <2>1 DEF JoinOf
<1>11. MessageOf(root, msg)' /\ msg.kind = "join" /\ msg.from = n
  <2>1. /\ msg.kind = "join" /\ msg.from = n /\ msg.info = Self(n) /\ msg.nodes = join[n].nodes
        /\ msg.to = join[n].peer.node
    BY <1>1 DEF Send
  <2>2. Self(n) \in InfosOf(root, n) /\ Self(n).node = n
    BY <1>2, <1>4, <1>9, NetworkInfos DEF SoundJoin
  <2>3. join[n].nodes \subseteq InfosOf(root, n)
    BY <1>9 DEF JoinOf
  <2> QED
    BY <1>5, <1>6, <1>9, <2>1, <2>2, <2>3 DEF MessageOf
<1>12. \A x \in msgs : ~ (x.kind = "join" /\ x.from = n)
  BY <1>2 DEF Agreement, MessageOf
<1>13. Posts(root, n)
  BY <1>1, <1>11, <1>12 DEF Posts
<1> QED
  BY <1>2, <1>5, <1>6, <1>7, <1>8, <1>10, <1>13, MovesOn

\* A reply: its origin was heard of and is known now; nobody that was ahead is left out.
LEMMA ReplyAgrees ==
    ASSUME Parameters, NetworkInv, NetworkInv', NEW root \in [Node -> Node], Agreement(root),
           NEW n \in Node, JoinReply(n)
    PROVE  Agreement(root)'
<1>1. PICK r, x : r = join[n].reply /\ x = Unprocessed(n, net'[n])
  OBVIOUS
<1>2. join[n].pc = "reply" /\ UNCHANGED <<up, addr, boots, msgs>>
  BY DEF JoinReply
<1>3. PICK u : u = UpdateNetwork(net[n], r.info) /\ net' = [net EXCEPT ![n] = u]
  BY <1>1 DEF JoinReply
<1>4. PICK q : q = [join[n] EXCEPT !.pc = "pick", !.peer = NoRecord, !.reply = NoRecord,
                                   !.remaining = join[n].remaining \cup r.nodes \cup x]
  OBVIOUS
<1>5. join[n] \in Joins
  BY JoinNow
<1>6. /\ q.pc = "pick" /\ q.remaining = join[n].remaining \cup r.nodes \cup x
      /\ q.processed = join[n].processed /\ q.nodes = join[n].nodes
  BY <1>4, <1>5 DEF Joins
<1>7. /\ join' = [join EXCEPT ![n] = q] /\ join'[n] = q /\ \A m \in Node \ {n} : join'[m] = join[m]
  BY <1>1, <1>4 DEF JoinReply, NetworkInv, Types
<1>8. /\ JoinOf(root, n) /\ TableOf(root, n, net[n]) /\ RootAhead(root, n) /\ Apart
      /\ \A m \in Node : TableOf(root, m, net[m])
  BY DEF Agreement
<1>9. /\ r.info \in InfosOf(root, n) /\ r.info.node = join[n].peer.node /\ r.nodes \subseteq InfosOf(root, n)
  BY <1>1, <1>2, <1>8 DEF JoinOf
<1>10. TableOf(root, n, u) /\ Known(u) = Known(net[n]) \cup {r.info.node}
  <2>1. net[n] \in Tables /\ up \subseteq Node
    BY DEF NetworkInv, Types
  <2> QED
    BY <1>3, <1>8, <1>9, <2>1, UpdateApart
<1>11. net'[n] = u /\ \A m \in Node \ {n} : net'[m] = net[m]
  BY <1>3 DEF NetworkInv, Types
<1>12. \A m \in Node : Known(net[m]) \subseteq Known(net'[m]) /\ TableOf(root, m, net'[m])
  BY <1>8, <1>10, <1>11
<1>13. Heard(n)' = Heard(n)
  BY <1>2, <1>6, <1>7, <1>9, <1>10, <1>11 DEF Heard
<1>14. Ahead(join[n]) \subseteq Ahead(q) /\ Done(q) = Done(join[n])
  BY <1>1, <1>2, <1>6 DEF Ahead, Done
<1>15. x \subseteq InfosOf(root, n)
  <2>1. q.remaining \subseteq Infos
    BY <1>7 DEF NetworkInv, JoinsSound, SoundJoin, Past
  <2>2. \A i \in x : i.node \in Known(u) /\ i.addr = u[i.node].addr
    BY <1>1, <1>11 DEF Unprocessed
  <2> QED
    BY <1>6, <1>10, <2>1, <2>2 DEF TableOf, InfosOf
<1>16. InfosOf(root, n)' = InfosOf(root, n)
  BY <1>2, InfosKept
<1>17. Done(join[n])' = Done(join[n]) /\ Ahead(join[n])' = Ahead(q)
  BY <1>7, <1>14 DEF Done, Ahead
<1>18. JoinOf(root, n)'
  <2>1. \A y \in Done(join[n]) : y \in Node
    BY <1>8, AheadNodes
  <2>2. /\ q.remaining \subseteq InfosOf(root, n) /\ q.nodes \subseteq InfosOf(root, n)
        /\ root[n] # n /\ n \in q.processed
        /\ \A y \in Done(join[n]) \ {n} : n \in Known(net'[y]) /\ y \in Heard(n)
    BY <1>2, <1>6, <1>8, <1>9, <1>12, <1>15, <2>1 DEF JoinOf
  <2> QED
    BY <1>6, <1>7, <1>13, <1>16, <1>17, <2>2 DEF JoinOf
<1>19. Met(n, root[n])' <=> Met(n, root[n])
  BY <1>2, <1>6, <1>7, <1>17 DEF Met
<1>20. RootAhead(root, n)'
  <2>1. \A y \in Ahead(join[n]) : y \in Node
    BY <1>8, AheadNodes
  <2> QED
    BY <1>8, <1>12, <1>14, <1>17, <1>19, <2>1 DEF RootAhead
<1>21. \A y \in Ahead(join[n]) : Agree(n, y)'
  BY <1>14, <1>17 DEF Agree
<1>22. Posts(root, n)
  BY <1>2, NoMessage
<1> QED
  BY <1>2, <1>7, <1>12, <1>13, <1>18, <1>19, <1>20, <1>21, <1>22, AgreementKept

\* A join is handled.  If the peer is the root of the node that joins, the reply has everybody
\* else that was at the root; those whose turn has been heard of the node.
LEMMA HandleAgrees ==
    ASSUME Parameters, NetworkInv, NetworkInv', NEW root \in [Node -> Node], Agreement(root),
           NEW msg, HandleJoin(msg)
    PROVE  Agreement(root)'
<1>1. /\ Served(msg) /\ msg.kind = "join" /\ UNCHANGED <<up, addr, boots>>
      /\ msg \in msgs /\ msgs' = msgs \ {msg}
  BY DEF HandleJoin, Served
<1>2. PICK m \in up, n \in Node : m = msg.to /\ n = msg.from
  BY <1>1, ServedMessage
<1>3. /\ Apart /\ OneEach /\ Rooted(root) /\ JoinOf(root, n) /\ RootAhead(root, n) /\ MessageOf(root, msg)
      /\ m \in Node /\ up \subseteq Node /\ \A k \in Node : TableOf(root, k, net[k])
  BY <1>1, <1>2 DEF Agreement, NetworkInv, Types
<1>4. /\ msg.info \in InfosOf(root, n) /\ msg.info.node = n /\ msg.nodes \subseteq InfosOf(root, n)
      /\ join[n].pc = "wait" /\ join[n].peer.node = m
  BY <1>1, <1>2, <1>3 DEF MessageOf
<1>5. /\ m \in join[n].processed /\ m # n /\ n \in join[n].processed /\ root[n] # n
      /\ join[n].peer \in InfosOf(root, n) /\ root[m] = root[n]
      /\ join[n].remaining \subseteq InfosOf(root, n) /\ join[n].nodes \subseteq InfosOf(root, n)
  BY <1>3, <1>4 DEF JoinOf, InfosOf
<1>6. InfosOf(root, m) = InfosOf(root, n) /\ InfosOf(root, n)' = InfosOf(root, n)
  BY <1>1, <1>5, InfosKept DEF InfosOf
\* the tables
<1>7. PICK order \in SetToSeqs(msg.nodes) : net' = [net EXCEPT ![m] = HandledNodes(net[m], msg, order)]
  BY <1>2 DEF HandleJoin
<1>8. PICK u : u = HandledNodes(net[m], msg, order) /\ net' = [net EXCEPT ![m] = u]
  BY <1>7
<1>9. TableOf(root, m, u) /\ Known(net[m]) \cup {n} \subseteq Known(u)
  <2>1. PICK s : s = UpdateNetwork(net[m], msg.info)
    OBVIOUS
  <2>2. net[m] \in Tables /\ msg.info \in InfosOf(root, m) /\ msg.info \in Infos
    BY <1>3, <1>4, <1>6 DEF NetworkInv, Types, InfosOf
  <2>3. TableOf(root, m, s) /\ Known(s) = Known(net[m]) \cup {n} /\ s \in Tables
    <3>1. PICK t \in Tables, i \in InfosOf(root, m) :
            t = net[m] /\ i = msg.info /\ TableOf(root, m, t) /\ i \in Infos /\ i.node = n
      BY <1>3, <1>4, <2>2
    <3>2. TableOf(root, m, s) /\ Known(s) = Known(t) \cup {i.node}
      BY <1>3, <2>1, <3>1, UpdateApart
    <3>3. s \in Tables
      BY <2>1, <3>1, UpdateOne
    <3> QED
      BY <3>1, <3>2, <3>3
  <2>4. u = UpdateAll(s, order)
    BY <1>8, <2>1 DEF HandledNodes
  <2>5. IsFiniteSet(msg.nodes) /\ msg.nodes \subseteq InfosOf(root, m)
    BY <1>1, <1>4, <1>6, ServedMessage DEF SoundMessage
  <2>6. PICK S : S = msg.nodes /\ IsFiniteSet(S) /\ S \subseteq InfosOf(root, m) /\ order \in SetToSeqs(S)
    BY <2>5
  <2>7. TableOf(root, m, u) /\ Known(s) \subseteq Known(u)
    BY <1>3, <2>3, <2>4, <2>6, UpdateAllApart
  <2> QED
    BY <2>3, <2>7
<1>10. net'[m] = u /\ \A k \in Node \ {m} : net'[k] = net[k]
  BY <1>3, <1>8 DEF NetworkInv, Types
<1>11. \A k \in Node : Known(net[k]) \subseteq Known(net'[k]) /\ TableOf(root, k, net'[k])
  BY <1>3, <1>9, <1>10
\* the messages
<1>12. Posts(root, n)
  BY <1>1, <1>2, <1>3 DEF Posts, OneEach
\* the join
<1>13. join[n] \in Joins
  BY JoinNow
<1>14. \A k \in Ahead(join[n]) \cup Done(join[n]) : k \in Node
  BY <1>3, AheadNodes
<1>15. CASE join' = join
  <2>1. JoinOf(root, n)' /\ Heard(n) \subseteq Heard(n)'
    BY <1>3, <1>6, <1>11, <1>15, JoinOfKept
  <2>2. /\ Met(n, root[n])' <=> Met(n, root[n])
        /\ Ahead(join[n])' = Ahead(join[n])
    BY <1>15 DEF Met, Done, Ahead
  <2>3. RootAhead(root, n)'
    BY <1>3, <1>11, <1>14, <2>2 DEF RootAhead
  <2>4. \A x \in Ahead(join[n]) : Agree(n, x)'
    BY <2>2 DEF Agree
  <2> QED
    BY <1>1, <1>11, <1>12, <1>15, <2>1, <2>2, <2>3, <2>4, AgreementKept
<1>16. CASE join' # join
  <2>1. PICK reply : reply = ReplyOf(msg)
    OBVIOUS
  <2>2. join' = [join EXCEPT ![n].pc = "reply", ![n].reply = reply]
    <3>1. join' = IF ~ (msg.open /\ join[msg.from].pc = "wait" /\ msg.to \in Known(net'[msg.to]))
                  THEN join
                  ELSE [join EXCEPT ![msg.from].pc = "reply", ![msg.from].reply = ReplyOf(msg)]
      BY DEF HandleJoin, ReplyOf
    <3> QED
      BY <1>2, <1>16, <2>1, <3>1
  <2>3. PICK q : q = [join[n] EXCEPT !.pc = "reply", !.reply = reply]
    OBVIOUS
  <2>4. /\ q.pc = "reply" /\ q.reply = reply /\ q.remaining = join[n].remaining
        /\ q.processed = join[n].processed /\ q.nodes = join[n].nodes /\ q.peer = join[n].peer
    BY <1>13, <2>3 DEF Joins
  <2>5. join'[n] = q /\ \A k \in Node \ {n} : join'[k] = join[k]
    BY <1>13, <2>2, <2>3 DEF NetworkInv, Types, Joins
  <2>6. /\ reply.info.node = m /\ reply.info.addr = u[m].addr
        /\ \A k \in Known(u) \ {m, n} : \E i \in reply.nodes : i.node = k
        /\ \A i \in reply.nodes : i.node \in Known(u) /\ i.addr = u[i.node].addr
    <3> DEFINE said(k) == [node |-> k, seen |-> net'[m][k].seen, addr |-> net'[m][k].addr,
                           nonce |-> ids'[m][k]]
    <3>1. \A k \in Known(u) : said(k).node = k /\ said(k).addr = u[k].addr
      BY <1>10
    <3>2. /\ reply.nodes = {said(k) : k \in Known(u) \ {m, n}}
          /\ reply.info.node = m /\ reply.info.addr = u[m].addr
      BY <1>2, <1>10, <2>1 DEF ReplyOf
    <3> HIDE DEF said
    <3> QED
      BY <3>1, <3>2
  <2>7. reply.info \in InfosOf(root, n) /\ reply.nodes \subseteq InfosOf(root, n)
    <3>1. reply.info \in Infos /\ reply.nodes \subseteq Infos
      BY <2>4, <2>5 DEF NetworkInv, JoinsSound, SoundJoin, Replies
    <3>2. m \in Known(u) /\ u[m].addr = addr[m]
      BY <1>1, <1>10 DEF NetworkInv, OwnRecordStays
    <3> QED
      BY <1>5, <1>6, <1>9, <2>6, <3>1, <3>2 DEF TableOf, InfosOf
  <2>8. Done(join[n])' = Done(join[n]) \cup {m} /\ Done(join[n])' = join[n].processed
    BY <1>4, <1>5, <2>4, <2>5 DEF Done
  <2>9. /\ \A x \in Ahead(join[n]) \ {m} : x \in Ahead(join[n])'
        /\ \A x \in Known(u) \ join[n].processed : x \in Ahead(join[n])'
    BY <1>4, <1>5, <2>4, <2>5, <2>6 DEF Ahead
  <2>10. Heard(n) \cup {m} \subseteq Heard(n)' /\ n \in Known(net'[m])
    BY <1>3, <1>4, <1>9, <1>10, <1>11, <2>4, <2>5 DEF Heard
  <2>11. \A x \in join[n].processed \ {n} : x \in Heard(n)' /\ n \in Known(net'[x])
    <3>1. \A x \in Done(join[n]) \ {n} : n \in Known(net[x]) /\ x \in Heard(n)
      BY <1>3, <1>4 DEF JoinOf
    <3> QED
      BY <1>11, <1>14, <2>8, <2>10, <3>1
  <2>12. JoinOf(root, n)'
    BY <1>4, <1>5, <1>6, <2>4, <2>5, <2>6, <2>7, <2>8, <2>11 DEF JoinOf
  <2>13. RootAhead(root, n)'
    <3>1. Met(n, root[n])' <=> root[n] \in join[n].processed
      BY <2>4, <2>5, <2>8 DEF Met
    <3>2. CASE Met(n, root[n])
      BY <1>4, <2>8, <3>1, <3>2 DEF Met, RootAhead
    <3>3. CASE ~ Met(n, root[n])
      <4>1. PICK x \in Ahead(join[n]) : x = root[n] \/ root[n] \in Known(net[x])
        BY <1>3, <3>3 DEF RootAhead
      <4>2. CASE x # m
        BY <1>11, <1>14, <2>9, <4>1, <4>2 DEF RootAhead
      <4>3. CASE x = m
        <5>1. root[n] = m \/ root[n] \in Known(u)
          BY <1>9, <4>1, <4>3
        <5> QED
          BY <1>5, <2>9, <3>1, <5>1 DEF RootAhead
      <4> QED
        BY <4>2, <4>3
    <3> QED
      BY <3>2, <3>3
  <2>14. \A x \in Ahead(join[n]) : Agree(n, x)'
    <3>1. Agree(n, m)'
      BY <2>10 DEF Agree, Heard
    <3> QED
      BY <2>9, <3>1 DEF Agree
  <2>15. ASSUME Met(n, root[n])', ~ Met(n, root[n]), NEW y \in up \ {n}, root[y] = root[n],
                Met(y, root[y])
         PROVE  Agree(n, y)'
    <3>1. root[n] = m
      BY <1>4, <2>4, <2>5, <2>8, <2>15 DEF Met
    <3>2. CASE y \in join[n].processed
      BY <2>11, <2>15, <3>2 DEF Agree, Heard
    <3>3. CASE y \notin join[n].processed
      <4>1. y # m /\ y \in Node
        BY <1>3, <1>5, <3>3
      <4>2. root[m] = m /\ JoinOf(root, m) /\ JoinOf(root, y)
        BY <1>3, <1>5, <3>1, <4>1 DEF Agreement
      <4>3. join[m].pc = "idle" /\ join[m].remaining = {} /\ Ahead(join[m]) = {}
        BY <4>2 DEF JoinOf, Ahead
      <4>4. Agree(m, y)
        BY <2>15, <3>1, <4>1, <4>2, <4>3 DEF Agreement, PairsAgree, Met
      <4>5. m \notin Ahead(join[y])
        BY <2>15, <3>1, <4>2 DEF Met, JoinOf, Ahead, Done
      <4>6. y \in Known(net[m])
        BY <4>3, <4>4, <4>5 DEF Agree, Heard
      <4>7. y \in Known(u)
        BY <1>9, <4>6
      <4> QED
        BY <2>9, <3>3, <4>7 DEF Agree
    <3> QED
      BY <3>2, <3>3
  <2> HIDE DEF Posts
  <2> QED
    BY <1>1, <1>11, <1>12, <2>5, <2>10, <2>12, <2>13, <2>14, <2>15, AgreementKept
<1> QED
  BY <1>15, <1>16

\* A node starts: nobody has heard of it, as no node has stopped.
LEMMA StartAgrees ==
    ASSUME Parameters, NetworkInv, NetworkInv', NEW root \in [Node -> Node], Agreement(root),
           NEW n \in Node, NEW a \in Addr, Start(n, a)
    PROVE  Agreement(root)'
<1>1. /\ n \notin up /\ up' = up \cup {n} /\ addr' = [addr EXCEPT ![n] = a] /\ \A m \in up : addr[m] # a
      /\ UNCHANGED <<join, msgs, boots>>
  BY DEF Start
<1>2. PICK i : /\ i = [node |-> n, seen |-> clock', addr |-> a, nonce |-> nonce[n]]
               /\ net' = [net EXCEPT ![n] = UpdateNetwork(net[n], i)]
  BY DEF Start
<1>3. /\ Rooted(root) /\ Apart /\ OneEach /\ PairsAgree(root)
      /\ \A m \in Node : TableOf(root, m, net[m]) /\ JoinOf(root, m) /\ RootAhead(root, m)
      /\ \A msg \in msgs : MessageOf(root, msg)
  BY DEF Agreement
<1>4. /\ up \subseteq Node /\ \A m \in up : addr'[m] = addr[m] /\ m # n
      /\ addr'[n] = a /\ net[n] \in Tables
      /\ \A m \in Node \ {n} : net'[m] = net[m]
  BY <1>1, <1>2 DEF NetworkInv, Types
<1>5. root[n] = n /\ \A m \in Node : root[m] = n => m = n
  BY <1>1, <1>3 DEF Rooted
<1>6. Known(net[n]) = {}
  <2>1. \A m \in Known(net[n]) : m \in up /\ root[m] = n /\ m \in Node
    BY <1>3, <1>5 DEF TableOf, Known
  <2> QED
    BY <1>1, <1>5, <2>1
<1>7. Known(net'[n]) = {n} /\ net'[n][n].addr = addr'[n]
  <2>1. n \in Known(net'[n]) /\ net'[n][n].addr = addr'[n]
    BY <1>1 DEF NetworkInv, OwnRecordStays
  <2>2. PICK u : u = UpdateNetwork(net[n], i) /\ net'[n] = u
    BY <1>2 DEF NetworkInv, Types
  <2>3. i.node = n /\ \A m \in Node : net[n][m] = NoRecord
    BY <1>2, <1>6 DEF Known
  <2>4. \A m \in Node \ {n} : u[m] = NoRecord
    BY <2>2, <2>3 DEF UpdateNetwork
  <2> QED
    BY <2>1, <2>2, <2>4 DEF Known
<1>8. \A m \in Node : Known(net[m]) \subseteq Known(net'[m])
  BY <1>4, <1>6
<1>9. \A m \in Node : InfosOf(root, m) \subseteq InfosOf(root, m)'
  BY <1>1, <1>4 DEF InfosOf
<1>10. Rooted(root)' /\ Apart'
  BY <1>1, <1>3, <1>4 DEF Rooted, Apart
<1>11. OneEach'
  BY <1>1, <1>3 DEF OneEach
<1>12. ASSUME NEW m \in Node PROVE TableOf(root, m, net[m])'
  <2>1. CASE m = n
    BY <1>1, <1>7, <2>1 DEF TableOf
  <2>2. CASE m # n
    BY <1>1, <1>3, <1>4, <2>2 DEF TableOf
  <2> QED
    BY <2>1, <2>2
<1>13. ASSUME NEW m \in Node
       PROVE  /\ JoinOf(root, m)' /\ Heard(m) \subseteq Heard(m)'
              /\ Met(m, root[m])' <=> Met(m, root[m])
              /\ Ahead(join[m])' = Ahead(join[m])
  <2>1. JoinOf(root, m)' /\ Heard(m) \subseteq Heard(m)'
    BY <1>1, <1>3, <1>8, <1>9, JoinOfKept
  <2> QED
    BY <1>1, <2>1 DEF Met, Done, Ahead
<1>14. ASSUME NEW m \in Node PROVE RootAhead(root, m)'
  <2>1. \A x \in Ahead(join[m]) : x \in Node
    BY <1>3, AheadNodes
  <2> QED
    BY <1>3, <1>8, <1>13, <2>1 DEF RootAhead
<1>15. ASSUME NEW msg \in msgs PROVE MessageOf(root, msg)'
  <2>1. msg.from \in Node /\ MessageOf(root, msg)
    BY <1>3 DEF NetworkInv, Types, Messages
  <2> QED
    BY <1>1, <1>9, <2>1 DEF MessageOf
<1>16. PairsAgree(root)'
  <2> SUFFICES ASSUME NEW x \in up', NEW y \in up', x # y, root[x] = root[y],
                      Met(x, root[x])', Met(y, root[y])'
               PROVE  Agree(x, y)'
    BY DEF PairsAgree
  <2>1. x \in up /\ y \in up /\ x \in Node /\ y \in Node
    BY <1>1, <1>4, <1>5
  <2>2. Agree(x, y)
    BY <1>3, <1>13, <2>1 DEF PairsAgree
  <2> QED
    BY <1>13, <2>1, <2>2 DEF Agree
<1> QED
  BY <1>1, <1>10, <1>11, <1>12, <1>13, <1>14, <1>15, <1>16 DEF Agreement

\* A join begins: the node has known nobody, and gets the root of its boot node, which is the
\* root or knows it.
LEMMA JoinStartAgrees ==
    ASSUME Parameters, NetworkInv, NetworkInv', NEW root \in [Node -> Node], Agreement(root),
           NEW n \in Node, NEW b \in Node, JoinStart(n, b), simple'
    PROVE  Agreement([root EXCEPT ![n] = root[b]])'
<1>1. PICK next, r : next = [root EXCEPT ![n] = root[b]] /\ r = root[b]
  OBVIOUS
<1>2. PICK q : /\ q = [Idle EXCEPT !.pc = "pick", !.remaining = {Self(b)}, !.processed = {n}]
               /\ join' = [join EXCEPT ![n] = q]
  BY DEF JoinStart
<1>3. /\ n \in up /\ b \in up /\ b # n /\ join[n].pc = "idle" /\ join[b].pc = "idle"
      /\ boots' = boots \cup {b} /\ UNCHANGED <<up, addr, net, msgs>>
      /\ Known(net[n]) = {n} /\ n \notin boots
  BY DEF JoinStart
<1>4. /\ Rooted(root) /\ Apart /\ OneEach /\ PairsAgree(root)
      /\ \A m \in Node : TableOf(root, m, net[m]) /\ JoinOf(root, m) /\ RootAhead(root, m)
      /\ \A msg \in msgs : MessageOf(root, msg)
  BY DEF Agreement
<1>5. root[n] = n /\ \A m \in Node : root[m] = n => m = n
  BY <1>3, <1>4, KnowsRoot DEF Rooted
<1>6. /\ next \in [Node -> Node] /\ next[n] = r /\ r \in Node /\ r # n /\ root[r] = r
      /\ \A m \in Node \ {n} : next[m] = root[m] /\ root[m] # n
  BY <1>1, <1>3, <1>4, <1>5 DEF Rooted
<1>7. /\ q.pc = "pick" /\ q.remaining = {Self(b)} /\ q.processed = {n} /\ q.nodes = {}
  BY <1>2 DEF Idle
<1>8. join'[n] = q /\ \A m \in Node \ {n} : join'[m] = join[m]
  BY <1>2 DEF NetworkInv, Types
<1>9. Self(b) \in InfosOf(root, b) /\ Self(b).node = b
  BY <1>3, <1>4, NetworkInfos
<1>10. \A m \in Node \ {n} : InfosOf(root, m) \subseteq InfosOf(next, m)'
  BY <1>3, <1>5, <1>6 DEF InfosOf, Infos
<1>11. Self(b) \in InfosOf(next, n)'
  BY <1>1, <1>3, <1>6, <1>9 DEF InfosOf, Infos
<1>12. Rooted(next)'
  <2>1. \A m \in Node : next[next[m]] = next[m]
    BY <1>4, <1>6 DEF Rooted
  <2>2. r \in up \cap boots'
    BY <1>1, <1>3, <1>4 DEF Rooted
  <2>3. \A m \in Node : next[m] # m => m \in up /\ next[m] \in up \cap boots'
    BY <1>3, <1>4, <1>6, <2>2 DEF Rooted
  <2> QED
    BY <1>3, <2>1, <2>3 DEF Rooted
<1>13. Apart' /\ OneEach'
  BY <1>3, <1>4 DEF Apart, OneEach
<1>14. ASSUME NEW m \in Node PROVE TableOf(next, m, net[m])'
  <2>1. CASE m = n
    BY <1>3, <1>4, <2>1 DEF TableOf
  <2>2. CASE m # n
    BY <1>3, <1>4, <1>5, <1>6, <2>2 DEF TableOf, Known
  <2> QED
    BY <2>1, <2>2
<1>15. ASSUME NEW m \in Node \ {n}
       PROVE  /\ JoinOf(next, m)' /\ Heard(m)' = Heard(m) /\ RootAhead(next, m)'
              /\ Met(m, next[m])' <=> Met(m, root[m])
              /\ Ahead(join[m])' = Ahead(join[m])
  <2>1. \A x \in Node : Known(net[x]) \subseteq Known(net'[x])
    BY <1>3
  <2>2. JoinOf(root, m) /\ RootAhead(root, m)
    BY <1>4
  <2>3. JoinOf(next, m)'
    BY <1>6, <1>8, <1>10, <2>1, <2>2, JoinOfKept
  <2>4. /\ Met(m, next[m])' <=> Met(m, root[m])
        /\ Ahead(join[m])' = Ahead(join[m]) /\ Heard(m)' = Heard(m)
    BY <1>3, <1>6, <1>8 DEF Met, Done, Ahead, Heard
  <2>5. RootAhead(next, m)'
    BY <1>3, <1>6, <2>2, <2>4 DEF RootAhead
  <2> QED
    BY <2>3, <2>4, <2>5
<1>16. JoinOf(next, n)'
  BY <1>6, <1>7, <1>8, <1>11 DEF JoinOf, Done
<1>17. RootAhead(next, n)'
  <2>1. b \in Ahead(join[n])'
    BY <1>3, <1>7, <1>8, <1>9 DEF Ahead
  <2>2. b = r \/ r \in Known(net[b])
    BY <1>1, <1>3, KnowsRoot
  <2> QED
    BY <1>3, <1>6, <2>1, <2>2 DEF RootAhead
<1>18. ASSUME NEW msg \in msgs PROVE MessageOf(next, msg)'
  <2>1. msg.from \in Node /\ MessageOf(root, msg)
    BY <1>4 DEF NetworkInv, Types, Messages
  <2>2. msg.kind = "join" => msg.from # n
    BY <1>3, <2>1 DEF MessageOf
  <2> QED
    BY <1>8, <1>10, <2>1, <2>2 DEF MessageOf
<1>19. PairsAgree(next)'
  <2>1. ~ Met(n, next[n])'
    BY <1>6, <1>7, <1>8 DEF Met, Done
  <2> SUFFICES ASSUME NEW x \in up', NEW y \in up', x # y, next[x] = next[y],
                      Met(x, next[x])', Met(y, next[y])'
               PROVE  Agree(x, y)'
    BY DEF PairsAgree
  <2>2. x \in up /\ y \in up /\ x \in Node \ {n} /\ y \in Node \ {n}
    BY <1>3, <2>1 DEF NetworkInv, Types
  <2>3. root[x] = root[y] /\ Met(x, root[x]) /\ Met(y, root[y])
    BY <1>6, <1>15, <2>2
  <2>4. Agree(x, y)
    BY <1>4, <2>2, <2>3 DEF PairsAgree
  <2> QED
    BY <1>15, <2>2, <2>4 DEF Agree
<1>20. Agreement(next)'
  BY <1>3, <1>12, <1>13, <1>14, <1>15, <1>16, <1>17, <1>18, <1>19 DEF Agreement
<1> QED
  BY <1>1, <1>20

\* What is on its way between others, or is about an identity, does not matter.
LEMMA MessagesAgree ==
    ASSUME NEW root, Agreement(root), UNCHANGED <<up, addr, boots, net, join>>,
           \A msg \in msgs' \ msgs : msg.kind = "identity"
    PROVE  Agreement(root)'
<1>1. Rooted(root)' /\ Apart'
  BY DEF Agreement, Rooted, Apart
<1>2. \A n : /\ Heard(n)' = Heard(n) /\ Ahead(join[n])' = Ahead(join[n])
             /\ Met(n, root[n])' <=> Met(n, root[n])
  BY DEF Heard, Ahead, Met, Done
<1>3. PairsAgree(root)'
  <2>1. \A x, y : Agree(x, y)' <=> Agree(x, y)
    BY <1>2 DEF Agree
  <2> QED
    BY <1>2, <2>1 DEF Agreement, PairsAgree
<1>4. ASSUME NEW n \in Node PROVE TableOf(root, n, net[n])' /\ JoinOf(root, n)' /\ RootAhead(root, n)'
  <2>1. TableOf(root, n, net[n]) /\ JoinOf(root, n) /\ RootAhead(root, n)
    BY DEF Agreement
  <2>2. TableOf(root, n, net[n])'
    BY <2>1 DEF TableOf
  <2>3. JoinOf(root, n)'
    BY <2>1 DEF JoinOf, InfosOf, Done, Heard
  <2>4. RootAhead(root, n)'
    BY <1>2, <2>1 DEF RootAhead
  <2> QED
    BY <2>2, <2>3, <2>4
<1>5. OneEach'
  BY DEF Agreement, OneEach
<1>6. \A msg \in msgs' : MessageOf(root, msg)'
  BY DEF Agreement, MessageOf, InfosOf
<1> QED
  BY <1>1, <1>3, <1>4, <1>5, <1>6 DEF Agreement

\* Nobody has joined yet: every node is its own root.
LEMMA JoinedInit == ASSUME Parameters, Init PROVE JoinedInv
<1> DEFINE root == [n \in Node |-> n]
<1>1. /\ up = {} /\ msgs = {} /\ \A n \in Node : join[n] = Idle /\ Known(net[n]) = {} /\ root[n] = n
  BY DEF Init, Known
<1>2. Agreement(root)
  <2> HIDE DEF root
  <2> QED
    BY <1>1 DEF Agreement, Rooted, Apart, OneEach, TableOf, JoinOf, RootAhead, Met, PairsAgree, Idle
<1> QED
  BY <1>2 DEF JoinedInv

\* Every step keeps the agreement, as long as the joins are simple.
LEMMA JoinedNext ==
    ASSUME Parameters, NetworkInv, NetworkInv', JoinedInv, [Next]_vars PROVE JoinedInv'
<1> SUFFICES ASSUME simple' PROVE \E root \in [Node -> Node] : Agreement(root)'
  BY DEF JoinedInv
<1>1. simple
  <2>1. ASSUME NEW n \in Node, \/ Stop(n) \/ (\E a : Start(n, a))
                               \/ \E told : Leave(n, told) \/ ChangeProfile(n, told)
        PROVE  simple
    BY <2>1 DEF Start, Stop, Leave, ChangeProfile
  <2>2. ASSUME NEW n \in Node, \/ JoinSkip(n) \/ JoinPick(n) \/ JoinSend(n) \/ JoinReply(n)
                               \/ JoinFails(n) \/ JoinEnd(n) \/ \E b : JoinStart(n, b)
        PROVE  simple
    BY <2>2 DEF JoinStart, JoinSkip, JoinPick, JoinSend, JoinReply, JoinFails, JoinEnd
  <2>3. ASSUME NEW msg, HandleJoin(msg) \/ HandleLeave(msg) \/ HandleIdentity(msg) PROVE simple
    BY <2>3 DEF HandleJoin, HandleLeave, HandleIdentity
  <2>4. CASE UNCHANGED vars
    BY <2>4 DEF vars
  <2> QED
    BY <2>1, <2>2, <2>3, <2>4 DEF Next
<1>2. PICK root \in [Node -> Node] : Agreement(root)
  BY <1>1 DEF JoinedInv
<1>3. CASE UNCHANGED vars
  BY <1>2, <1>3, MessagesAgree DEF vars
<1>4. ASSUME NEW n \in Node, NEW a \in Addr, Start(n, a) PROVE Agreement(root)'
  BY <1>2, <1>4, StartAgrees
<1>5. ASSUME NEW n \in Node, Stop(n) \/ JoinFails(n) \/ \E told : Leave(n, told) PROVE FALSE
  BY <1>5 DEF Stop, JoinFails, Leave
<1>6. ASSUME NEW n \in Node, NEW told, ChangeProfile(n, told) PROVE Agreement(root)'
  <2>1. UNCHANGED <<up, addr, boots, net, join>>
    BY <1>6 DEF ChangeProfile
  <2>2. \A msg \in msgs' \ msgs : msg.kind = "identity"
    BY <1>6 DEF ChangeProfile, Broadcast, Send
  <2> QED
    BY <1>2, <2>1, <2>2, MessagesAgree
<1>7. ASSUME NEW n \in Node, NEW b \in Node, JoinStart(n, b)
      PROVE  \E next \in [Node -> Node] : Agreement(next)'
  <2>1. PICK next \in [Node -> Node] : next = [root EXCEPT ![n] = root[b]]
    OBVIOUS
  <2>2. Agreement(next)'
    BY <1>2, <1>7, <2>1, JoinStartAgrees
  <2> QED
    BY <2>2
<1>8. ASSUME NEW n \in Node, JoinSkip(n) \/ JoinPick(n) \/ JoinSend(n) \/ JoinReply(n) \/ JoinEnd(n)
      PROVE  Agreement(root)'
  BY <1>2, <1>8, SkipAgrees, PickAgrees, SendAgrees, ReplyAgrees, EndAgrees
<1>9. ASSUME NEW msg, HandleJoin(msg) PROVE Agreement(root)'
  BY <1>2, <1>9, HandleAgrees
<1>10. ASSUME NEW msg \in msgs, HandleLeave(msg) PROVE FALSE
  BY <1>2, <1>10 DEF HandleLeave, Agreement, MessageOf
<1>11. ASSUME NEW msg, HandleIdentity(msg) PROVE Agreement(root)'
  BY <1>2, <1>11, MessagesAgree DEF HandleIdentity, Served
<1> QED
  BY <1>2, <1>3, <1>4, <1>5, <1>6, <1>7, <1>8, <1>9, <1>10, <1>11 DEF Next

\* When nobody joins any more, a running node knows all that have its root.
LEMMA JoinedAgree ==
    ASSUME Parameters, NetworkInv, JoinedInv PROVE JoinedKnowEachOther
<1> SUFFICES ASSUME simple, \A n \in up : join[n].pc = "idle",
                    NEW n \in up, NEW m \in Known(net[n])
             PROVE  Known(net[n]) = Known(net[m])
  BY DEF JoinedKnowEachOther
<1>1. PICK root \in [Node -> Node] : Agreement(root)
  BY DEF JoinedInv
<1>2. ASSUME NEW x \in up PROVE Known(net[x]) = {y \in up : root[y] = root[x]}
  <2>1. x \in Node /\ TableOf(root, x, net[x]) /\ x \in Known(net[x])
    BY <1>1, <1>2 DEF Agreement, NetworkInv, Types, OwnRecordStays
  <2>2. ASSUME NEW y \in up, root[y] = root[x], y # x PROVE y \in Known(net[x])
    <3>1. JoinOf(root, x) /\ JoinOf(root, y) /\ join[x].pc = "idle" /\ join[y].pc = "idle"
      BY <1>1, <1>2, <2>2 DEF Agreement, NetworkInv, Types
    <3>2. Ahead(join[x]) = {} /\ Ahead(join[y]) = {}
      BY <3>1 DEF JoinOf, Ahead
    <3>3. Agree(x, y)
      BY <1>1, <1>2, <2>2, <3>1 DEF Agreement, PairsAgree, Met
    <3> QED
      BY <3>1, <3>2, <3>3 DEF Agree, Heard
  <2> QED
    BY <2>1, <2>2 DEF TableOf
<1>3. m \in up /\ root[m] = root[n]
  BY <1>2
<1> QED
  BY <1>2, <1>3
=============================================================================
