---------------------------- MODULE P2PTransport ----------------------------
(***************************************************************************)
(* The transport below every protocol (p2p/base.py, p2p/service.py): a     *)
(* client opens a socket for each attempt, sends a header and the chunks   *)
(* of an attachment and waits for a header and chunks in return.  The      *)
(* service is one loop: it collects the chunks of the requests by their    *)
(* id, and handles one request at a time.  Callers repeat what failed      *)
(* (namespace/protocol.py, p2p/protocol.py, the fetch of inputs of         *)
(* cmd_job_runner.py), each time into the same download file.              *)
(***************************************************************************)
EXTENDS Integers, Sequences, FiniteSets

CONSTANTS
    Client,
    Up,            \* [Client -> Nat], chunks of the attachment a client sends
    Down,          \* chunks of the attachment the service returns
    Unsupported,   \* clients of a protocol the service does not have
    MaxAttempts,
    MaxStops,      \* bound: stops of the service
    NoRequest

VARIABLES
    pc,        \* p2p_request of a client: "idle", "send", "receive", "done", "failed"
    attempt,
    sent,      \* chunks sent in this attempt
    got,       \* total_received
    file,      \* the download file: <<attempt, chunk>>
    socket,    \* frames the service has yet to take, by request id
    pending,   \* _pending: the chunks collected, by request id
    busy,      \* the request being handled and its attachment
    answer,    \* frames the client has yet to take, by request id
    served,    \* history: the requests handled, each with its attachment
    stops

vars == <<pc, attempt, sent, got, file, socket, pending, busy, answer, served, stops>>

Header == 0
Error == -1
\* a client draws a random id of 32 bits for each attempt: taken to be never drawn twice
Request == Client \X (1..MaxAttempts)
Current(c) == <<c, attempt[c]>>
Open(r) == Current(r[1]) = r /\ pc[r[1]] \in {"send", "receive"}
Chunks(n) == [i \in 1..n |-> i]
NotBusy == [request |-> NoRequest, attachment |-> <<>>]

Init ==
    /\ pc = [c \in Client |-> "idle"]
    /\ attempt = [c \in Client |-> 0]
    /\ sent = [c \in Client |-> 0] /\ got = [c \in Client |-> 0]
    /\ file = [c \in Client |-> <<>>]
    /\ socket = [r \in Request |-> <<>>]
    /\ pending = [r \in {} |-> <<>>]
    /\ busy = NotBusy
    /\ answer = [r \in Request |-> <<>>]
    /\ served = {} /\ stops = 0

-----------------------------------------------------------------------------
(* p2p_request, and the callers that repeat it *)

\* the callers try again up to a number of times, and then raise an error
Another(c) == attempt[c] < MaxAttempts

\* a socket and a request id of its own for each attempt; the header
Begin(c) ==
    /\ pc[c] = "idle" /\ Another(c)
    /\ attempt' = [attempt EXCEPT ![c] = @ + 1]
    /\ socket' = [socket EXCEPT ![<<c, attempt[c] + 1>>] = <<Header>>]
    /\ sent' = [sent EXCEPT ![c] = 0] /\ got' = [got EXCEPT ![c] = 0]
    /\ pc' = [pc EXCEPT ![c] = IF Up[c] = 0 THEN "receive" ELSE "send"]
    /\ UNCHANGED <<file, pending, busy, answer, served, stops>>

SendChunk(c) ==
    /\ pc[c] = "send"
    /\ sent' = [sent EXCEPT ![c] = @ + 1]
    /\ socket' = [socket EXCEPT ![Current(c)] = Append(@, sent[c] + 1)]
    /\ pc' = [pc EXCEPT ![c] = IF sent[c] + 1 = Up[c] THEN "receive" ELSE "send"]
    /\ UNCHANGED <<attempt, got, file, pending, busy, answer, served, stops>>

\* the end of an attempt that failed: the socket is closed at once, what it had not
\* transmitted yet is dropped; NetworkError makes the caller try again
Fails(c) ==
    /\ \E n \in 0..Len(socket[Current(c)]) :
         socket' = [socket EXCEPT ![Current(c)] = SubSeq(@, 1, n)]
    /\ answer' = [answer EXCEPT ![Current(c)] = <<>>]
    /\ pc' = [pc EXCEPT ![c] = IF Another(c) THEN "idle" ELSE "failed"]
    /\ UNCHANGED <<attempt, sent, got, file, pending, busy, served, stops>>

\* a frame could not be sent, or none came, within the timeout
TimeOut(c) == pc[c] \in {"send", "receive"} /\ Fails(c)

\* the service replied that it does not have the protocol: a NetworkError as well
ErrorReply(c) ==
    /\ pc[c] = "receive" /\ answer[Current(c)] = <<Error>>
    /\ Fails(c)

ReplyHeader(c) ==
    /\ pc[c] = "receive" /\ answer[Current(c)] # <<>>
    /\ Head(answer[Current(c)]) = Header
    /\ answer' = [answer EXCEPT ![Current(c)] = Tail(@)]
    /\ pc' = [pc EXCEPT ![c] = IF Down = 0 THEN "done" ELSE @]
    /\ UNCHANGED <<attempt, sent, got, file, socket, pending, busy, served, stops>>

\* a chunk is appended to the download file, whatever the file contains
ReplyChunk(c) ==
    /\ pc[c] = "receive" /\ answer[Current(c)] # <<>>
    /\ Head(answer[Current(c)]) \in 1..Down
    /\ file' = [file EXCEPT ![c] = Append(@, <<attempt[c], Head(answer[Current(c)])>>)]
    /\ answer' = [answer EXCEPT ![Current(c)] = Tail(@)]
    /\ got' = [got EXCEPT ![c] = @ + 1]
    /\ pc' = [pc EXCEPT ![c] = IF got[c] + 1 = Down THEN "done" ELSE @]
    /\ UNCHANGED <<attempt, sent, socket, pending, busy, served, stops>>

-----------------------------------------------------------------------------
(* The loop of the service *)

\* Fault: transfers are collected by client, not by the id of their request
ByClient(r) == <<r[1], 1>>

Key(r) == r

Collecting(r) == Key(r) \in DOMAIN pending
Forget(r) == [k \in (DOMAIN pending) \ {Key(r)} |-> pending[k]]
Collect(r, chunks) ==
    [k \in (DOMAIN pending) \cup {Key(r)} |-> IF k = Key(r) THEN chunks ELSE pending[k]]

\* the loop takes a frame of some socket when it handles nothing
Take(r) ==
    /\ busy = NotBusy /\ socket[r] # <<>>
    /\ socket' = [socket EXCEPT ![r] = Tail(@)]

Reply(r, frames) == IF Open(r) THEN [answer EXCEPT ![r] = frames] ELSE answer

\* the header of a request: it has a protocol the service knows, and an attachment or not
TakeHeader(r) ==
    /\ Take(r) /\ ~ Collecting(r) /\ Head(socket[r]) = Header
    /\ r[1] \notin Unsupported
    /\ IF Up[r[1]] > 0 THEN pending' = Collect(r, <<>>) /\ UNCHANGED busy
       ELSE busy' = [request |-> r, attachment |-> <<>>] /\ UNCHANGED pending
    /\ UNCHANGED <<pc, attempt, sent, got, file, answer, served, stops>>

\* no such protocol: an error is sent, the chunks that follow are no headers
Refuse(r) ==
    /\ Take(r) /\ ~ Collecting(r) /\ Head(socket[r]) = Header
    /\ r[1] \in Unsupported
    /\ answer' = Reply(r, <<Error>>)
    /\ UNCHANGED <<pc, attempt, sent, got, file, pending, busy, served, stops>>

\* a frame that belongs to nothing and is no header: the error is logged
Discard(r) ==
    /\ Take(r) /\ ~ Collecting(r) /\ Head(socket[r]) # Header
    /\ UNCHANGED <<pc, attempt, sent, got, file, pending, busy, answer, served, stops>>

\* a frame of a pending transfer, the last one when the size is right
TakeChunk(r) ==
    /\ Take(r) /\ Collecting(r)
    /\ LET chunks == Append(pending[Key(r)], Head(socket[r])) IN
       IF Len(chunks) = Up[r[1]]
       THEN pending' = Forget(r) /\ busy' = [request |-> r, attachment |-> chunks]
       ELSE pending' = Collect(r, chunks) /\ UNCHANGED busy
    /\ UNCHANGED <<pc, attempt, sent, got, file, answer, served, stops>>

\* the handler returns and the reply goes out, unless its client has gone
Respond ==
    /\ busy # NotBusy
    /\ answer' = Reply(busy.request, <<Header>> \o Chunks(Down))
    /\ served' = served \cup {busy}
    /\ busy' = NotBusy
    /\ UNCHANGED <<pc, attempt, sent, got, file, socket, pending, stops>>

\* the handler raises an error: it is logged and the client hears nothing
HandlerFails ==
    /\ busy # NotBusy
    /\ served' = served \cup {busy}
    /\ busy' = NotBusy
    /\ UNCHANGED <<pc, attempt, sent, got, file, socket, pending, answer, stops>>

\* the service stops, or its node crashes, and starts again
Restart ==
    /\ stops < MaxStops
    /\ stops' = stops + 1
    /\ socket' = [r \in Request |-> <<>>]
    /\ pending' = [r \in {} |-> <<>>]
    /\ busy' = NotBusy
    /\ UNCHANGED <<pc, attempt, sent, got, file, answer, served>>

Next ==
    \/ \E c \in Client :
        Begin(c) \/ SendChunk(c) \/ TimeOut(c) \/ ErrorReply(c) \/ ReplyHeader(c) \/ ReplyChunk(c)
    \/ \E r \in Request : TakeHeader(r) \/ Refuse(r) \/ Discard(r) \/ TakeChunk(r)
    \/ Respond \/ HandlerFails \/ Restart

Spec == Init /\ [][Next]_vars

-----------------------------------------------------------------------------
TypeOK ==
    /\ pc \in [Client -> {"idle", "send", "receive", "done", "failed"}]
    /\ attempt \in [Client -> 0..MaxAttempts]
    /\ got \in [Client -> 0..Down]
    /\ DOMAIN pending \subseteq Request
    /\ \A c \in Client : \A i \in DOMAIN file[c] : file[c][i] \in (1..MaxAttempts) \X (1..Down)

(* A handler is given the attachment of its request whole and in order,      *)
(* however the frames of several clients and attempts interleave, and what   *)
(* stays behind of a transfer is only what its client gave up.               *)
TransfersKeptApart ==
    /\ \A s \in served : s.attachment = Chunks(Up[s.request[1]])
    /\ \A r \in DOMAIN pending : Open(r) \/ attempt[r[1]] > r[2] \/ pc[r[1]] \in {"idle", "failed"}
=============================================================================
