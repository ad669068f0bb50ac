----------------------------- MODULE NodeNetwork -----------------------------
(***************************************************************************)
(* The membership of the network: the tables of nodes and of identities in *)
(* the database of every node (nodedb/default.py), the protocols that join *)
(* and leave the network and spread identities (nodedb/protocol.py) and    *)
(* the operations of a node that start them (node/base.py).  A join runs   *)
(* on the thread that called it and exchanges snapshots with one peer      *)
(* after the other; the P2P service of each node serves the requests of    *)
(* the others in between.                                                  *)
(***************************************************************************)
EXTENDS Integers, Sequences, FiniteSets, SequencesExt

CONSTANTS
    Node,
    Addr,         \* P2P addresses
    AddrsOf,      \* [Node -> SUBSET Addr], where a node may be started
    NoRecord,     \* no row for a node
    MaxStarts,    \* bounds: starts of nodes, joins, and other events:
    MaxJoins,     \*   leaves, stops, updates of a profile, requests that time out
    MaxOther

VARIABLES
    up,       \* running nodes
    addr,     \* the address a node runs at
    nonce,    \* the nonce of a node's identity in its keystore
    ids,      \* identity table: nonce on record, -1 for none
    net,      \* node table: last_seen and p2p_address
    join,     \* perform of P2PJoinNetwork
    msgs,     \* requests on their way
    clock,    \* starts so far: last_seen is the time of a start
    joins, other,
    boots,    \* history: nodes others joined through
    simple    \* history: no failure, and only nodes that knew nobody joined, through others

vars == <<up, addr, nonce, ids, net, join, msgs, clock, joins, other, boots, simple>>

Records == [seen : 1..MaxStarts, addr : Addr]
Nonces == -1..MaxOther
\* NodeInfo, with the nonce of the identity it contains
Infos == [node : Node, seen : 1..MaxStarts, addr : Addr, nonce : 0..MaxOther]
Snapshots == [nodes : SUBSET Infos, ids : [Node -> Nonces]]

Idle == [pc |-> "idle", remaining |-> {}, processed |-> {}, peer |-> NoRecord,
         nodes |-> {}, reply |-> NoRecord]

Init ==
    /\ up = {}
    /\ addr \in {f \in [Node -> Addr] : \A n \in Node : f[n] \in AddrsOf[n]}
    /\ nonce = [n \in Node |-> 0]
    /\ ids = [n \in Node |-> [m \in Node |-> -1]]
    /\ net = [n \in Node |-> [m \in Node |-> NoRecord]]
    /\ join = [n \in Node |-> Idle]
    /\ msgs = {}
    /\ clock = 0 /\ joins = 0 /\ other = 0
    /\ boots = {} /\ simple = TRUE

-----------------------------------------------------------------------------
(* The tables of one node *)

Known(t) == {m \in Node : t[m] # NoRecord}

\* a node's P2P and REST address change together: addr stands for both
Conflicting(t, i) == {m \in Known(t) \ {i.node} : t[m].addr = i.addr}

\* Fault: a conflicting record is deleted however recent it is
AllConflicting(t, i) == Conflicting(t, i)

Outdated(t, i) == {m \in Conflicting(t, i) : t[m].seen < i.seen}

\* a more recent record of the same address is kept, and the node is added all the same
UpdateNetwork(t, i) ==
    LET cleared == [m \in Node |-> IF m \in Outdated(t, i) THEN NoRecord ELSE t[m]] IN
    IF i.node \in Known(cleared) /\ i.seen <= cleared[i.node].seen THEN cleared
    ELSE [cleared EXCEPT ![i.node] = [seen |-> i.seen, addr |-> i.addr]]

\* the records of a snapshot in the order of its list
UpdateAll(t, order) ==
    LET after[k \in 0..Len(order)] ==
            IF k = 0 THEN t ELSE UpdateNetwork(after[k - 1], order[k])
    IN  after[Len(order)]

UpdateIdentity(t, m, v) == [t EXCEPT ![m] = IF v > @ THEN v ELSE @]

MergeIdentities(t, s) == [m \in Node |-> IF s[m] > t[m] THEN s[m] ELSE t[m]]

Info(n, m) == [node |-> m, seen |-> net[n][m].seen, addr |-> net[n][m].addr,
               nonce |-> ids[n][m]]

\* get_network raises an error for a node whose identity is not on record
Readable(n) == \A m \in Known(net[n]) : ids[n][m] >= 0

Network(n) == {Info(n, m) : m \in Known(net[n])}

\* get_node: the record of the node itself, with the identity of the keystore
Self(n) == [Info(n, n) EXCEPT !.nonce = nonce[n]]

SnapshotNodes(n, exclude) == {i \in Network(n) : i.node \notin exclude}

\* Fault: a snapshot contains the identities of the nodes it leaves out only
IdentitiesOfExcluded(n, exclude) ==
    [m \in Node |-> IF m \in exclude THEN ids[n][m] ELSE -1]

SnapshotIds(n, exclude) == [m \in Node |-> IF m \in exclude THEN -1 ELSE ids[n][m]]

-----------------------------------------------------------------------------
(* The node *)

\* startup: the node updates its own identity and record
Start(n, a) ==
    /\ n \notin up /\ clock < MaxStarts /\ a \in AddrsOf[n]
    /\ \A m \in up : addr[m] # a
    /\ up' = up \cup {n}
    /\ addr' = [addr EXCEPT ![n] = a]
    /\ clock' = clock + 1
    /\ ids' = [ids EXCEPT ![n] = UpdateIdentity(@, n, nonce[n])]
    /\ net' = [net EXCEPT ![n] = UpdateNetwork(@,
                 [node |-> n, seen |-> clock', addr |-> a, nonce |-> nonce[n]])]
    /\ UNCHANGED <<nonce, join, msgs, joins, other, boots, simple>>

\* shutdown, or a crash: what the node was doing is lost, its tables stay
Stop(n) ==
    /\ n \in up /\ other < MaxOther
    /\ up' = up \ {n}
    /\ join' = [join EXCEPT ![n] = Idle]
    /\ other' = other + 1 /\ simple' = FALSE
    /\ UNCHANGED <<addr, nonce, ids, net, msgs, clock, joins, boots>>

\* a request reaches a node that runs at the address it is sent to: the channel is
\* encrypted for that node, another one at the address does not understand it
Send(kind, from, i, nodes, table) ==
    [kind |-> kind, from |-> from, to |-> i.node, at |-> i.addr, info |-> Self(from),
     nodes |-> nodes, ids |-> table, open |-> TRUE]

Nobody == [m \in Node |-> -1]

\* leave_network: one request for each peer, sent without waiting or up to the first
\* that fails
Leave(n, told) ==
    /\ n \in up /\ other < MaxOther /\ Readable(n)
    /\ told \subseteq {i \in Network(n) : i.node # n}
    /\ msgs' = msgs \cup {Send("leave", n, i, {}, Nobody) : i \in told}
    /\ other' = other + 1 /\ simple' = FALSE
    /\ UNCHANGED <<up, addr, nonce, ids, net, join, clock, joins, boots>>

\* one request after the other; those that cannot be reached are left out
Broadcast(n, told, v) ==
    msgs' = msgs \cup {[Send("identity", n, i, {}, Nobody) EXCEPT !.info.nonce = v] : i \in told}

\* update_identity: a new nonce in the keystore and the own table, then a request to
\* every node of the network, itself included, that can be reached
ChangeProfile(n, told) ==
    /\ n \in up /\ other < MaxOther /\ Readable(n)
    /\ told \subseteq Network(n)
    /\ nonce' = [nonce EXCEPT ![n] = @ + 1]
    /\ ids' = [ids EXCEPT ![n] = UpdateIdentity(@, n, nonce'[n])]
    /\ Broadcast(n, told, nonce'[n])
    /\ other' = other + 1
    /\ UNCHANGED <<up, addr, net, join, clock, joins, boots, simple>>

-----------------------------------------------------------------------------
(* Joining *)

\* join_network asks the boot node for its record, then performs the protocol
JoinStart(n, b) ==
    /\ n \in up /\ b \in up \ {n} /\ joins < MaxJoins
    /\ join[n].pc = "idle"
    /\ join' = [join EXCEPT ![n] = [Idle EXCEPT !.pc = "pick", !.remaining = {Self(b)},
                                                !.processed = {n}]]
    /\ joins' = joins + 1
    /\ boots' = boots \cup {b}
    /\ simple' = (simple /\ Known(net[n]) = {n} /\ n \notin boots /\ join[b].pc = "idle")
    /\ UNCHANGED <<up, addr, nonce, ids, net, msgs, clock, other>>

\* a peer that was processed already is dropped
JoinSkip(n) ==
    /\ join[n].pc = "pick"
    /\ \E i \in join[n].remaining :
        /\ i.node \in join[n].processed
        /\ join' = [join EXCEPT ![n].remaining = @ \ {i}]
    /\ UNCHANGED <<up, addr, nonce, ids, net, msgs, clock, joins, other, boots, simple>>

\* the next peer; get_snapshot reads the nodes first
JoinPick(n) ==
    /\ join[n].pc = "pick" /\ Readable(n)
    /\ \E i \in join[n].remaining :
        /\ i.node \notin join[n].processed
        /\ LET processed == join[n].processed \cup {i.node} IN
           join' = [join EXCEPT ![n] =
                [join[n] EXCEPT !.pc = "ids", !.remaining = join[n].remaining \ {i},
                                !.processed = processed, !.peer = i,
                                !.nodes = SnapshotNodes(n, processed)]]
    /\ UNCHANGED <<up, addr, nonce, ids, net, msgs, clock, joins, other, boots, simple>>

\* ... then the identities, and sends both
JoinSend(n) ==
    /\ join[n].pc = "ids"
    /\ msgs' = msgs \cup {Send("join", n, join[n].peer, join[n].nodes,
                                SnapshotIds(n, join[n].processed))}
    /\ join' = [join EXCEPT ![n].pc = "wait", ![n].nodes = {}]
    /\ UNCHANGED <<up, addr, nonce, ids, net, clock, joins, other, boots, simple>>

\* the nodes on record that were not processed are contacted as well
Unprocessed(n, table) == {[node |-> m, seen |-> table[m].seen, addr |-> table[m].addr,
                           nonce |-> ids'[n][m]] : m \in Known(table) \ join[n].processed}

\* the reply: the tables are updated with its origin and its identities; its nodes
\* are contacted, they are not put on record
JoinReply(n) ==
    LET r == join[n].reply IN
    /\ join[n].pc = "reply"
    /\ ids' = [ids EXCEPT ![n] =
                 MergeIdentities(UpdateIdentity(@, r.info.node, r.info.nonce), r.ids)]
    /\ net' = [net EXCEPT ![n] = UpdateNetwork(@, r.info)]
    /\ join' = [join EXCEPT ![n] =
         [join[n] EXCEPT !.pc = "pick", !.peer = NoRecord, !.reply = NoRecord,
              !.remaining = join[n].remaining \cup r.nodes \cup Unprocessed(n, net'[n])]]
    /\ UNCHANGED <<up, addr, nonce, msgs, clock, joins, other, boots, simple>>

Reachable(msg) == msg.to \in up /\ addr[msg.to] = msg.at

\* a request that fails or times out, and may still be served later.  The removal by
\* address is given a string, of which it takes the first two characters: it deletes nothing
JoinFails(n) ==
    /\ join[n].pc = "wait"
    /\ \E msg \in msgs :
        /\ msg.kind = "join" /\ msg.from = n /\ msg.open
        /\ \/ Reachable(msg) /\ other < MaxOther /\ other' = other + 1
              /\ msgs' = (msgs \ {msg}) \cup {[msg EXCEPT !.open = FALSE]}
           \/ ~ Reachable(msg) /\ msgs' = msgs \ {msg} /\ UNCHANGED other
    /\ simple' = FALSE
    /\ UNCHANGED <<up, addr, nonce, ids, net, clock, joins, boots>>
    /\ join' = [join EXCEPT ![n] = [join[n] EXCEPT !.pc = "pick", !.peer = NoRecord,
                    !.remaining = join[n].remaining \cup Unprocessed(n, net[n])]]

\* everybody was contacted
JoinEnd(n) ==
    /\ join[n].pc = "pick" /\ join[n].remaining = {}
    /\ join' = [join EXCEPT ![n] = Idle]
    /\ UNCHANGED <<up, addr, nonce, ids, net, msgs, clock, joins, other, boots, simple>>

-----------------------------------------------------------------------------
(* The handlers, on the P2P service of the node a request reaches *)

Served(msg) == msg \in msgs /\ Reachable(msg) /\ msgs' = msgs \ {msg}

HandledIdentities(table, msg) ==
    MergeIdentities(UpdateIdentity(table, msg.info.node, msg.info.nonce), msg.ids)

\* Fault: the nodes of a snapshot are put on record, the one that sends it is not
WithoutOrigin(table, msg, order) == UpdateAll(table, order)

HandledNodes(table, msg, order) == UpdateAll(UpdateNetwork(table, msg.info), order)

\* P2PJoinNetwork.handle: the reply is for those that still wait, and excludes the two
\* nodes themselves; without a record of its own a node cannot reply
HandleJoin(msg) ==
    LET m == msg.to  n == msg.from IN
    /\ msg.kind = "join" /\ Served(msg)
    /\ ids' = [ids EXCEPT ![m] = HandledIdentities(@, msg)]
    /\ \E order \in SetToSeqs(msg.nodes) :
         net' = [net EXCEPT ![m] = HandledNodes(@, msg, order)]
    /\ join' = IF ~ (msg.open /\ join[n].pc = "wait" /\ m \in Known(net'[m])) THEN join
               ELSE [join EXCEPT ![n].pc = "reply", ![n].reply =
                 [info |-> [node |-> m, seen |-> net'[m][m].seen, addr |-> net'[m][m].addr,
                            nonce |-> nonce[m]],
                  nodes |-> {[node |-> k, seen |-> net'[m][k].seen, addr |-> net'[m][k].addr,
                              nonce |-> ids'[m][k]] : k \in Known(net'[m]) \ {m, n}},
                  ids |-> [k \in Node |-> IF k \in {m, n} THEN -1 ELSE ids'[m][k]]]]
    /\ UNCHANGED <<up, addr, nonce, clock, joins, other, boots, simple>>

\* P2PLeaveNetwork.handle
HandleLeave(msg) ==
    /\ msg.kind = "leave" /\ Served(msg)
    /\ ids' = [ids EXCEPT ![msg.to] = UpdateIdentity(@, msg.from, msg.info.nonce)]
    /\ net' = [net EXCEPT ![msg.to][msg.from] = NoRecord]
    /\ UNCHANGED <<up, addr, nonce, join, clock, joins, other, boots, simple>>

\* P2PUpdateIdentity.handle
HandleIdentity(msg) ==
    /\ msg.kind = "identity" /\ Served(msg)
    /\ ids' = [ids EXCEPT ![msg.to] = UpdateIdentity(@, msg.from, msg.info.nonce)]
    /\ UNCHANGED <<up, addr, nonce, net, join, clock, joins, other, boots, simple>>

Next ==
    \/ \E n \in Node :
        \/ \E a \in Addr : Start(n, a)
        \/ Stop(n)
        \/ \E told \in SUBSET Network(n) : Leave(n, told) \/ ChangeProfile(n, told)
        \/ \E b \in Node : JoinStart(n, b)
        \/ JoinSkip(n) \/ JoinPick(n) \/ JoinSend(n)
        \/ JoinReply(n) \/ JoinFails(n) \/ JoinEnd(n)
    \/ \E msg \in msgs : HandleJoin(msg) \/ HandleLeave(msg) \/ HandleIdentity(msg)

Spec == Init /\ [][Next]_vars

-----------------------------------------------------------------------------
TypeOK ==
    /\ up \subseteq Node /\ addr \in [Node -> Addr]
    /\ nonce \in [Node -> 0..MaxOther]
    /\ ids \in [Node -> [Node -> Nonces]]
    /\ net \in [Node -> [Node -> Records \cup {NoRecord}]]
    /\ \A msg \in msgs : msg.info \in Infos /\ msg.nodes \subseteq Infos
    /\ \A n \in Node : join[n].remaining \subseteq Infos

(* The network can be read: a node on record has its identity on record, at  *)
(* every node and whatever snapshots cross (get_network raises an error      *)
(* otherwise, and with it every search, fetch and reservation).              *)
NetworkReadable == \A n \in Node : Readable(n)

(* No update from a peer takes away or rewrites the record a running node    *)
(* has of itself, whoever ran at its address before (get_node relies on it). *)
OwnRecordStays ==
    \A n \in up : n \in Known(net[n]) /\ net[n][n].addr = addr[n]

(* Nodes that join at the same time, through different nodes, end up knowing *)
(* each other: as long as no request failed, only nodes that knew nobody     *)
(* joined, and no node joined while another joined through it.               *)
JoinedKnowEachOther ==
    simple /\ (\A n \in up : join[n].pc = "idle") =>
        \A n \in up : \A m \in Known(net[n]) : Known(net[n]) = Known(net[m])
=============================================================================
