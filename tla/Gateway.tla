-------------------------------- MODULE Gateway --------------------------------
(***************************************************************************)
(* The gateway (gateway/, cli/cmd_gateway.py) and the REST interface of    *)
(* the node behind it (rest/).  Accounts and API keys are rows of a        *)
(* database.  A request presents a key, is checked against both tables in  *)
(* two queries, and is passed on to the node, signed by the keystore of    *)
(* the account.  The node checks the identity and what the request is      *)
(* about before it acts.  Administrators change both tables by commands in *)
(* processes of their own, which show what they found and ask before they  *)
(* act on it.                                                              *)
(***************************************************************************)
EXTENDS Naturals, Sequences, FiniteSetsExt

CONSTANTS
    User,          \* accounts (uuids), each with the identity in its keystore
    NoUser,
    Request,
    Session,       \* of administrators
    MaxCommands,   \* bounds: commands, keys created
    MaxKeys

VARIABLES
    account,   \* gateway_user: "none", "enabled", "disabled" or "deleted"
    keys,      \* gateway_api_key: the key of a row
    issued,    \* the users keys were created for, in their order: key k is issued[k]'s
    known,     \* users whose identity the node has
    command,   \* the command a session is about to carry out
    commands,
    request,   \* what a request presented, and what was found for it
    done,      \* history: <<request, user>>, what the node did, and for whom
    chance     \* history: requests during which their user was enabled at some time

vars == <<account, keys, issued, known, command, commands, request, done, chance>>

Keys == 0..MaxKeys       \* 0 is a key nobody was given
Rows == 1..MaxKeys
Ops == {"publish", "enable", "disable", "delete", "add_key", "remove_key"}
NoCommand == [op |-> "none", user |-> NoUser, row |-> 0]
FreshRequest == [pc |-> "new", key |-> 0, about |-> NoUser, row |-> 0, user |-> NoUser, told |-> "none"]

Init ==
    /\ account = [u \in User |-> "none"]
    /\ keys = [i \in {} |-> 0] /\ issued = <<>>
    /\ known = {}
    /\ command = [s \in Session |-> NoCommand] /\ commands = 0
    /\ request = [r \in Request |-> FreshRequest]
    /\ done = {} /\ chance = {}

Exists(u) == account[u] \in {"enabled", "disabled"}
OpenFor(u) == {r \in Request : request[r].pc \notin {"new", "told"}
                                 /\ request[r].key > 0 /\ issued[request[r].key] = u}

-----------------------------------------------------------------------------
(* Commands *)

New(s) == command[s].op = "none" /\ commands < MaxCommands /\ commands' = commands + 1
Selected(s, op, u, i) == command' = [command EXCEPT ![s] = [op |-> op, user |-> u, row |-> i]]
Ended(s) == command' = [command EXCEPT ![s] = NoCommand] /\ UNCHANGED commands

\* the command looks up the account it is about, and asks
Select(s) ==
    /\ New(s)
    /\ \E op \in {"enable", "disable", "delete", "add_key"}, u \in {v \in User : Exists(v)} :
         Selected(s, op, u, 0)
    /\ UNCHANGED <<account, keys, issued, known, request, done, chance>>

SelectKey(s) ==
    /\ New(s)
    /\ \E i \in DOMAIN keys : Selected(s, "remove_key", NoUser, i)
    /\ UNCHANGED <<account, keys, issued, known, request, done, chance>>

\* the account is created, with a keystore of its own
CreateUser(s, u) ==
    /\ New(s) /\ account[u] = "none"
    /\ account' = [account EXCEPT ![u] = "enabled"]
    /\ Selected(s, "publish", u, 0)
    /\ UNCHANGED <<keys, issued, known, request, done, chance>>

\* ... and then published, which fails if the node cannot be reached
Publish(s) ==
    /\ command[s].op = "publish"
    /\ known' \in {known, known \cup {command[s].user}}
    /\ Ended(s)
    /\ UNCHANGED <<account, keys, issued, request, done, chance>>

\* the command that publishes the identities of all accounts
PublishAll(s) ==
    /\ New(s) /\ command' = command
    /\ known' = known \cup {u \in User : Exists(u)}
    /\ UNCHANGED <<account, keys, issued, request, done, chance>>

\* an account that has gone meanwhile is not updated
SetStatus(s, op, status) ==
    LET u == command[s].user IN
    /\ command[s].op = op
    /\ account' = [account EXCEPT ![u] = IF Exists(u) THEN status ELSE @]
    /\ chance' = IF account'[u] = "enabled" THEN chance \cup OpenFor(u) ELSE chance
    /\ Ended(s)
    /\ UNCHANGED <<keys, issued, known, request, done>>

\* the keys of the account stay
DeleteUser(s) ==
    /\ command[s].op = "delete"
    /\ account' = [account EXCEPT ![command[s].user] = "deleted"]
    /\ Ended(s)
    /\ UNCHANGED <<keys, issued, known, request, done, chance>>

\* the id of a row is the largest one in the table plus one: that of a row that was
\* removed is used again
NextRow == IF DOMAIN keys = {} THEN 1 ELSE Max(DOMAIN keys) + 1

AddKey(s) ==
    /\ command[s].op = "add_key" /\ Len(issued) < MaxKeys
    /\ issued' = Append(issued, command[s].user)
    /\ keys' = [i \in (DOMAIN keys) \cup {NextRow} |->
                  IF i = NextRow THEN Len(issued) + 1 ELSE keys[i]]
    /\ Ended(s)
    /\ UNCHANGED <<account, known, request, done, chance>>

\* the row with the id that was selected, whichever key it has by now
RemoveKey(s) ==
    /\ command[s].op = "remove_key"
    /\ keys' = [i \in (DOMAIN keys) \ {command[s].row} |-> keys[i]]
    /\ Ended(s)
    /\ UNCHANGED <<account, issued, known, request, done, chance>>

-----------------------------------------------------------------------------
(* verify_key *)

\* a request with a key, about an object or a job of some user
Start(r) ==
    /\ request[r].pc = "new"
    /\ \E k \in 0..Len(issued), u \in User :
         /\ request' = [request EXCEPT ![r].pc = "key", ![r].key = k, ![r].about = u]
         /\ chance' = IF k > 0 /\ account[issued[k]] = "enabled" THEN chance \cup {r} ELSE chance
    /\ UNCHANGED <<account, keys, issued, known, command, commands, done>>

Told(r, what) == request' = [request EXCEPT ![r].pc = "told", ![r].told = what]

\* the key is looked up
FindKey(r) ==
    LET found == {i \in DOMAIN keys : keys[i] = request[r].key} IN
    /\ request[r].pc = "key"
    /\ IF found = {} THEN Told(r, "401")
       ELSE \E i \in found :
              request' = [request EXCEPT ![r].pc = "user", ![r].row = i, ![r].user = issued[keys[i]]]
    /\ UNCHANGED <<account, keys, issued, known, command, commands, done, chance>>

\* Fault: the user is looked up through the id of the key
ThroughRow(r) == IF request[r].row \in DOMAIN keys THEN issued[keys[request[r].row]] ELSE request[r].user

FoundUser(r) == request[r].user

\* ... then the account
FindUser(r) ==
    LET u == FoundUser(r) IN
    /\ request[r].pc = "user"
    /\ CASE ~ Exists(u) -> Told(r, "401")
         [] account[u] = "disabled" -> Told(r, "403")
         [] OTHER -> request' = [request EXCEPT ![r].pc = "call", ![r].user = u]
    /\ UNCHANGED <<account, keys, issued, known, command, commands, done, chance>>

-----------------------------------------------------------------------------
(* The node *)

\* the signature is that of an identity the node knows, and the object or job is the
\* caller's; what the node refuses (403, 404, 422), the proxy raises as a RemoteError and
\* the gateway turns into a 500
NodeChecks(r) ==
    /\ request[r].pc = "call"
    /\ IF request[r].user \in known /\ request[r].about = request[r].user
       THEN request' = [request EXCEPT ![r].pc = "act"]
       ELSE Told(r, "500")
    /\ UNCHANGED <<account, keys, issued, known, command, commands, done, chance>>

NodeActs(r) ==
    /\ request[r].pc = "act"
    /\ done' = done \cup {<<r, request[r].user>>}
    /\ request' = [request EXCEPT ![r].pc = "answer"]
    /\ UNCHANGED <<account, keys, issued, known, command, commands, chance>>

\* the operation fails: a JSON error as well
NodeFails(r) ==
    /\ request[r].pc = "act" /\ Told(r, "500")
    /\ UNCHANGED <<account, keys, issued, known, command, commands, done, chance>>

Answer(r) ==
    /\ request[r].pc = "answer" /\ Told(r, "200")
    /\ UNCHANGED <<account, keys, issued, known, command, commands, done, chance>>

\* the connection breaks: the caller is told the same as when the node refused
ConnectionError(r) ==
    /\ request[r].pc \in {"call", "act", "answer"} /\ Told(r, "500")
    /\ UNCHANGED <<account, keys, issued, known, command, commands, done, chance>>

Next ==
    \/ \E s \in Session :
        \/ Select(s) \/ SelectKey(s) \/ Publish(s) \/ PublishAll(s)
        \/ SetStatus(s, "enable", "enabled") \/ SetStatus(s, "disable", "disabled")
        \/ DeleteUser(s) \/ AddKey(s) \/ RemoveKey(s)
        \/ \E u \in User : CreateUser(s, u)
    \/ \E r \in Request :
        \/ Start(r) \/ FindKey(r) \/ FindUser(r)
        \/ NodeChecks(r) \/ NodeActs(r) \/ NodeFails(r) \/ Answer(r) \/ ConnectionError(r)

Spec == Init /\ [][Next]_vars

-----------------------------------------------------------------------------
Commands == [op : Ops \cup {"none"}, user : User \cup {NoUser}, row : 0..MaxKeys]
Requests == [pc : {"new", "key", "user", "call", "act", "answer", "told"},
             key : Keys, about : User \cup {NoUser}, row : 0..MaxKeys, user : User \cup {NoUser},
             told : {"none", "200", "401", "403", "500"}]

TypeOK ==
    /\ account \in [User -> {"none", "enabled", "disabled", "deleted"}]
    /\ DOMAIN keys \subseteq Rows /\ issued \in Seq(User) /\ known \subseteq User
    /\ command \in [Session -> Commands]
    /\ request \in [Request -> Requests]

(* The node acts for nobody but the user whose key was presented, who was      *)
(* enabled at some time since the request began, and only on what is his or    *)
(* hers, whatever administrators change between the two queries of verify_key; *)
(* a request that was told 200 did what it asked.                              *)
ActsForKeyHolder ==
    /\ \A d \in done :
        /\ d[1] \in chance
        /\ request[d[1]].about = d[2]
        /\ issued[request[d[1]].key] = d[2]
    /\ \A r \in Request : request[r].told = "200" => \E d \in done : d[1] = r

(* What it rests on.  Keys and commands are those of accounts that were        *)
(* created; what is found for a request is the user of its key, who is let     *)
(* through only when enabled, and a request acts once.                         *)
GatewayTypes ==
    /\ TypeOK /\ Len(issued) <= MaxKeys
    /\ DOMAIN keys \subseteq 1..Len(issued) /\ \A i \in DOMAIN keys : keys[i] \in 1..Len(issued)
    /\ \A r \in Request : request[r].key <= Len(issued)
Created ==
    /\ \A s \in Session : command[s].op \notin {"none", "remove_key"} =>
         command[s].user \in User /\ account[command[s].user] # "none"
    /\ \A k \in 1..Len(issued) : account[issued[k]] # "none"
Holder(r) == request[r].key > 0 /\ request[r].user = issued[request[r].key]
Passed(r) ==
    LET q == request[r] IN
    /\ q.pc \in {"user", "call", "act", "answer"} => Holder(r)
    /\ q.pc \in {"call", "act", "answer"} => r \in chance
    /\ q.pc \in {"act", "answer"} => q.about = q.user
    /\ q.pc = "answer" \/ q.told = "200" => \E d \in done : d[1] = r
    /\ q.pc \notin {"new", "told"} /\ q.key > 0 /\ account[issued[q.key]] = "enabled" => r \in chance
Acted ==
    \A d \in done :
        /\ d[1] \in Request \cap chance /\ request[d[1]].pc \in {"answer", "told"}
        /\ request[d[1]].about = d[2] /\ request[d[1]].key > 0 /\ issued[request[d[1]].key] = d[2]

GatewayInv == GatewayTypes /\ Created /\ (\A r \in Request : Passed(r)) /\ Acted
================================================================================
