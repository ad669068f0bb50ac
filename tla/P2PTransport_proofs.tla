-------------------------- MODULE P2PTransport_proofs --------------------------
(* Proofs about P2PTransport, for any clients, attachments, retries, timeouts *)
(* and stops of the service: a handler is given the attachment of its own     *)
(* request whole and in order, and a client that was answered leaves nothing  *)
(* behind at the service.                                                     *)
EXTENDS P2PTransport, TLAPS

\* what the constants are
Parameters == Up \in [Client -> Nat] /\ Down \in Nat /\ MaxAttempts \in Nat

FinalFrame(q) == q[Len(q)]

\* the frames on a socket are numbered without a gap: the header, then the chunks
Consecutive(q) == \A k \in 1..(Len(q) - 1) : q[k + 1] = q[k] + 1

Types ==
    /\ pc \in [Client -> {"idle", "send", "receive", "done", "failed"}]
    /\ attempt \in [Client -> 0..MaxAttempts]
    /\ \A c \in Client : pc[c] # "idle" => attempt[c] > 0
    /\ sent \in [Client -> Nat]
    /\ socket \in [Request -> Seq(Nat)]
    /\ pending = [r \in DOMAIN pending |-> pending[r]] /\ DOMAIN pending \subseteq Request
    /\ \A r \in DOMAIN pending : pending[r] \in Seq(Nat)
    /\ busy # NotBusy => busy \in [request : Request, attachment : Seq(Nat)]
    /\ answer \in [Request -> Seq(Int)]

Handles(r) == busy # NotBusy /\ busy.request = r
Sending(r) == Current(r[1]) = r /\ pc[r[1]] = "send"

\* the service has had the header of r, and is through with its chunks
Over(r) == answer[r] # <<>> \/ Handles(r) \/ (Current(r[1]) = r /\ pc[r[1]] = "done")

\* nothing is known of an attempt that is yet to come
FutureUnknown(r) ==
    r[2] > attempt[r[1]] =>
        socket[r] = <<>> /\ r \notin DOMAIN pending /\ answer[r] = <<>> /\ ~ Handles(r)

\* what was collected of a transfer is its beginning, and the socket goes on from there
Collected(r) ==
    r \in DOMAIN pending =>
        /\ pending[r] = Chunks(Len(pending[r])) /\ Len(pending[r]) < Up[r[1]]
        /\ socket[r] # <<>> => Head(socket[r]) = Len(pending[r]) + 1

\* up to what the client sent last
UpToDate(r) ==
    Sending(r) =>
        /\ socket[r] # <<>> => FinalFrame(socket[r]) = sent[r[1]]
        /\ socket[r] = <<>> /\ r \in DOMAIN pending => Len(pending[r]) = sent[r[1]]

\* a request whose header was taken has no second one
NoSecondHeader(r) ==
    Over(r) => r \notin DOMAIN pending /\ (socket[r] # <<>> => Head(socket[r]) # Header)

Stream(r) ==
    Consecutive(socket[r]) /\ FutureUnknown(r) /\ Collected(r) /\ UpToDate(r) /\ NoSecondHeader(r)

\* attachments are whole
Whole ==
    /\ busy # NotBusy => busy.attachment = Chunks(Up[busy.request[1]])
    /\ \A s \in served : s.attachment = Chunks(Up[s.request[1]])

TransportInv == Types /\ Whole /\ \A r \in Request : Stream(r)

-----------------------------------------------------------------------------
(* Frames *)

\* A frame is taken.
LEMMA TakenFrame ==
    ASSUME NEW q \in Seq(Nat), q # <<>>, Consecutive(q)
    PROVE  /\ Head(q) \in Nat /\ Tail(q) \in Seq(Nat) /\ Consecutive(Tail(q))
           /\ Tail(q) # <<>> =>
                 Head(Tail(q)) = Head(q) + 1 /\ FinalFrame(Tail(q)) = FinalFrame(q)
           /\ Tail(q) = <<>> => FinalFrame(q) = Head(q)
<1>1. Head(q) = q[1] /\ Head(q) \in Nat /\ Tail(q) \in Seq(Nat) /\ Len(q) \in Nat \ {0}
  OBVIOUS
<1>2. Len(Tail(q)) = Len(q) - 1 /\ \A k \in 1..(Len(q) - 1) : Tail(q)[k] = q[k + 1]
  OBVIOUS
<1>3. Consecutive(Tail(q))
  BY <1>1, <1>2 DEF Consecutive
<1>4. Tail(q) = <<>> <=> Len(q) = 1
  <2>1. \A s \in Seq(Nat) : s = <<>> <=> Len(s) = 0
    OBVIOUS
  <2>2. Tail(q) = <<>> <=> Len(Tail(q)) = 0
    <3> DEFINE t == Tail(q)
    <3>1. t \in Seq(Nat)
      BY <1>1
    <3> HIDE DEF t
    <3>2. t = <<>> <=> Len(t) = 0
      BY <2>1, <3>1
    <3> QED
      BY <3>2 DEF t
  <2> QED
    BY SMTT(30), <1>1, <1>2, <2>2
<1>5. Tail(q) = <<>> => FinalFrame(q) = Head(q)
  BY <1>1, <1>4 DEF FinalFrame
<1>6. ASSUME Tail(q) # <<>>
      PROVE  Head(Tail(q)) = Head(q) + 1 /\ FinalFrame(Tail(q)) = FinalFrame(q)
  <2>1. Len(q) > 1
    BY <1>1, <1>4, <1>6
  <2>2. Head(Tail(q)) = q[2] /\ q[2] = q[1] + 1
    BY <1>1, <1>2, <2>1 DEF Consecutive
  <2>3. FinalFrame(Tail(q)) = FinalFrame(q)
    BY <1>1, <1>2, <2>1 DEF FinalFrame
  <2> QED
    BY <1>1, <2>2, <2>3
<1> QED
  BY <1>1, <1>3, <1>5, <1>6

\* A frame is sent.
LEMMA SentFrame ==
    ASSUME NEW q \in Seq(Nat), NEW n \in Nat, Consecutive(q), q # <<>> => n = FinalFrame(q) + 1
    PROVE  /\ Append(q, n) \in Seq(Nat) /\ Append(q, n) # <<>> /\ Consecutive(Append(q, n))
           /\ FinalFrame(Append(q, n)) = n
           /\ Head(Append(q, n)) = IF q = <<>> THEN n ELSE Head(q)
<1>1. /\ Append(q, n) \in Seq(Nat) /\ Len(Append(q, n)) = Len(q) + 1 /\ Len(q) \in Nat
      /\ Append(q, n)[Len(q) + 1] = n /\ \A k \in 1..Len(q) : Append(q, n)[k] = q[k]
  OBVIOUS
<1>2. q # <<>> => Len(q) > 0
  OBVIOUS
<1>3. Consecutive(Append(q, n))
  BY <1>1, <1>2 DEF Consecutive, FinalFrame
<1> QED
  BY SMTT(30), <1>1, <1>2, <1>3 DEF FinalFrame

\* What had not been transmitted is dropped.
LEMMA DroppedFrames ==
    ASSUME NEW q \in Seq(Nat), NEW n \in 0..Len(q), Consecutive(q)
    PROVE  /\ SubSeq(q, 1, n) \in Seq(Nat) /\ Consecutive(SubSeq(q, 1, n))
           /\ SubSeq(q, 1, n) # <<>> => q # <<>> /\ Head(SubSeq(q, 1, n)) = Head(q)
<1>1. /\ SubSeq(q, 1, n) \in Seq(Nat) /\ Len(SubSeq(q, 1, n)) = n
      /\ \A k \in 1..n : SubSeq(q, 1, n)[k] = q[k]
  OBVIOUS
<1> QED
  BY <1>1 DEF Consecutive

\* One chunk more.
LEMMA NextChunk ==
    ASSUME NEW n \in Nat
    PROVE  Chunks(n) \in Seq(Nat) /\ Len(Chunks(n)) = n /\ Append(Chunks(n), n + 1) = Chunks(n + 1)
BY DEF Chunks

\* No chunk has been collected.
LEMMA NoChunk == Chunks(0) = <<>>
BY DEF Chunks
-----------------------------------------------------------------------------
(* Steps *)

\* a step that is of no consequence for the transfer of r
Kept(r) ==
    /\ socket'[r] = socket[r]
    /\ r \in DOMAIN pending' <=> r \in DOMAIN pending
    /\ r \in DOMAIN pending => pending'[r] = pending[r]
    /\ attempt'[r[1]] >= attempt[r[1]]
    /\ answer'[r] # <<>> => answer[r] # <<>> \/ Handles(r)
    /\ Handles(r)' => Handles(r)
    /\ Sending(r)' => Sending(r) /\ sent'[r[1]] = sent[r[1]]
    /\ Over(r)' => Over(r)

\* A request belongs to a client that has made so many attempts.
LEMMA RequestOf ==
    ASSUME Parameters, Types, NEW r \in Request
    PROVE  /\ r[1] \in Client /\ r[2] \in 1..MaxAttempts /\ r = <<r[1], r[2]>>
           /\ attempt[r[1]] \in 0..MaxAttempts /\ Up[r[1]] \in Nat
           /\ Current(r[1]) = r <=> attempt[r[1]] = r[2]
BY DEF Parameters, Types, Request, Current

\* The current attempt of a client that has begun one.
LEMMA CurrentRequest ==
    ASSUME Parameters, Types, NEW c \in Client, pc[c] # "idle"
    PROVE  /\ Current(c) \in Request /\ Current(c)[1] = c /\ Current(c)[2] = attempt[c]
BY DEF Parameters, Types, Request, Current

\* What is of no consequence changes nothing.
LEMMA KeptStream ==
    ASSUME Parameters, Types, Types', NEW r \in Request, Stream(r), Kept(r)
    PROVE  Stream(r)'
<1>1. attempt[r[1]] \in Int /\ attempt'[r[1]] \in Int /\ r[2] \in Int
  BY RequestOf DEF Parameters, Types
<1>2. FutureUnknown(r)'
  BY <1>1 DEF Kept, Stream, FutureUnknown
<1>3. Collected(r)' /\ UpToDate(r)' /\ NoSecondHeader(r)' /\ Consecutive(socket[r])'
  BY DEF Kept, Stream, Collected, UpToDate, NoSecondHeader
<1> QED
  BY <1>2, <1>3 DEF Stream

\* A new attempt.
LEMMA BeginStep ==
    ASSUME Parameters, TransportInv, NEW c \in Client, Begin(c) PROVE TransportInv'
<1>0. <<c, attempt[c] + 1>> \in Request /\ attempt[c] \in Nat
  BY DEF Begin, Another, TransportInv, Types, Parameters, Request
<1>1. PICK x \in Request : /\ x = <<c, attempt[c] + 1>> /\ x[1] = c /\ x[2] = attempt[c] + 1
                           /\ attempt[c] \in Nat
  BY <1>0
<1>2. /\ socket' = [socket EXCEPT ![x] = <<Header>>]
      /\ attempt' = [attempt EXCEPT ![c] = attempt[c] + 1]
      /\ sent' = [sent EXCEPT ![c] = 0]
      /\ pc' = [pc EXCEPT ![c] = IF Up[c] = 0 THEN "receive" ELSE "send"]
      /\ UNCHANGED <<pending, busy, answer, served>>
  BY <1>1 DEF Begin
<1>3. <<Header>> \in Seq(Nat)
  BY DEF Header
<1>4. Types'
  <2>1. /\ attempt' \in [Client -> 0..MaxAttempts]
        /\ \A d \in Client : pc'[d] # "idle" => attempt'[d] > 0
    BY <1>1, <1>2 DEF Begin, Another, TransportInv, Types, Parameters
  <2>2. socket' \in [Request -> Seq(Nat)] /\ sent' \in [Client -> Nat]
        /\ pc' \in [Client -> {"idle", "send", "receive", "done", "failed"}]
    BY <1>1, <1>2, <1>3 DEF TransportInv, Types
  <2> QED
    BY <1>2, <2>1, <2>2 DEF TransportInv, Types, NotBusy
<1>5. Whole'
  BY <1>2 DEF TransportInv, Whole, NotBusy
<1>6. attempt'[c] = attempt[c] + 1 /\ sent'[c] = 0 /\ socket'[x] = <<Header>>
      /\ pc'[c] \in {"receive", "send"}
  BY <1>1, <1>2 DEF TransportInv, Types
<1>7. Stream(x)'
  <2>1. FutureUnknown(x)
    BY <1>1 DEF TransportInv, Stream
  <2>2. x \notin DOMAIN pending /\ answer[x] = <<>> /\ ~ Handles(x)
    BY <1>1, <2>1 DEF FutureUnknown
  <2>3. Consecutive(<<Header>>) /\ FinalFrame(<<Header>>) = 0
    BY DEF Consecutive, FinalFrame, Header
  <2>4. x \notin DOMAIN pending' /\ ~ Over(x)'
    BY <1>1, <1>2, <1>6, <2>2 DEF Over, Handles, NotBusy
  <2>5. FutureUnknown(x)'
    BY <1>1, <1>6 DEF FutureUnknown
  <2> QED
    BY <1>1, <1>6, <2>3, <2>4, <2>5 DEF Stream, Collected, UpToDate, NoSecondHeader
<1>8. ASSUME NEW r \in Request, r # x PROVE Stream(r)'
  <2>1. r[1] \in Client /\ r = <<r[1], r[2]>> /\ r[2] \in Int /\ attempt[r[1]] \in Int
    BY RequestOf DEF TransportInv, Parameters
  <2>2. CASE r[1] = c
    <3>1. Current(r[1])' # r
      BY <1>1, <1>6, <1>8, <2>1, <2>2 DEF Current
    <3>2. Kept(r)
      BY <1>1, <1>2, <1>6, <1>8, <2>1, <2>2, <3>1
         DEF Kept, Sending, Over, Handles, NotBusy, TransportInv, Types
    <3> QED
      BY <1>4, <1>8, <3>2, KeptStream DEF TransportInv
  <2>3. CASE r[1] # c
    <3>1. /\ attempt'[r[1]] = attempt[r[1]] /\ pc'[r[1]] = pc[r[1]] /\ sent'[r[1]] = sent[r[1]]
          /\ socket'[r] = socket[r]
      BY <1>1, <1>2, <1>8, <2>1, <2>3 DEF TransportInv, Types
    <3>2. Kept(r)
      BY <1>2, <2>1, <3>1 DEF Kept, Sending, Over, Handles, NotBusy, Current
    <3> QED
      BY <1>4, <1>8, <3>2, KeptStream DEF TransportInv
  <2> QED
    BY <2>2, <2>3
<1> QED
  BY <1>4, <1>5, <1>7, <1>8 DEF TransportInv

\* A chunk is sent: it is numbered after the one that is last on the socket.
LEMMA SendStep ==
    ASSUME Parameters, TransportInv, NEW c \in Client, SendChunk(c) PROVE TransportInv'
<1>1. /\ Current(c) \in Request /\ Current(c)[1] = c /\ pc[c] = "send" /\ sent[c] \in Nat
      /\ Current(c)[2] = attempt[c] /\ attempt[c] \in Nat
  BY CurrentRequest DEF SendChunk, TransportInv, Types, Parameters
<1>2. PICK x \in Request : x = Current(c)
  BY <1>1
<1>3. /\ x[1] = c /\ sent' = [sent EXCEPT ![c] = sent[c] + 1]
      /\ socket' = [socket EXCEPT ![x] = Append(socket[x], sent[c] + 1)]
      /\ pc' = [pc EXCEPT ![c] = IF sent[c] + 1 = Up[c] THEN "receive" ELSE "send"]
      /\ UNCHANGED <<attempt, pending, busy, answer, served>>
  BY <1>1, <1>2 DEF SendChunk
<1>4. PICK q \in Seq(Nat), n \in Nat : q = socket[x] /\ n = sent[c] + 1
  BY <1>1 DEF TransportInv, Types
<1>5. Stream(x) /\ Sending(x)
  BY <1>1, <1>2 DEF TransportInv, Sending
<1>6. Consecutive(q) /\ (q # <<>> => n = FinalFrame(q) + 1)
  BY <1>3, <1>4, <1>5 DEF Stream, UpToDate
<1>7. /\ Append(q, n) \in Seq(Nat) /\ Append(q, n) # <<>> /\ Consecutive(Append(q, n))
      /\ FinalFrame(Append(q, n)) = n
      /\ Head(Append(q, n)) = IF q = <<>> THEN n ELSE Head(q)
  BY <1>6, SentFrame
<1>8. PICK s \in Seq(Nat) : s = Append(q, n)
  BY <1>7
<1>9. socket' = [socket EXCEPT ![x] = s]
  BY <1>3, <1>4, <1>8
<1>10. Types'
  <2>1. pc' \in [Client -> {"idle", "send", "receive", "done", "failed"}]
    BY <1>1, <1>3 DEF TransportInv, Types
  <2>2. \A d \in Client : pc'[d] # "idle" => attempt'[d] > 0
    BY <1>1, <1>3 DEF TransportInv, Types
  <2>3. sent' \in [Client -> Nat] /\ socket' \in [Request -> Seq(Nat)]
    BY <1>1, <1>3, <1>9 DEF TransportInv, Types
  <2> QED
    BY SMTT(30), <1>3, <2>1, <2>2, <2>3 DEF TransportInv, Types
<1>11. Whole'
  BY <1>3 DEF TransportInv, Whole, NotBusy
<1>12. Stream(x)'
  <2>1. socket'[x] = s /\ sent'[c] = n /\ pc'[c] \in {"receive", "send"}
    BY <1>1, <1>3, <1>4, <1>9 DEF TransportInv, Types
  <2>2. FutureUnknown(x)' /\ Consecutive(socket[x])'
    <3>1. x[2] = attempt[c] /\ attempt'[x[1]] = attempt[c]
      BY <1>1, <1>2, <1>3
    <3>2. FutureUnknown(x)'
      BY <1>1, <3>1 DEF FutureUnknown
    <3> QED
      BY <1>7, <1>8, <2>1, <3>2
  <2>3. Over(x)' => Over(x)
    BY <1>2, <1>3, <2>1 DEF Over, Handles, NotBusy
  <2>4. NoSecondHeader(x)'
    BY <1>1, <1>3, <1>4, <1>5, <1>7, <1>8, <2>1, <2>3 DEF Stream, NoSecondHeader, Header
  <2>5. Collected(x)'
    BY <1>3, <1>4, <1>5, <1>7, <1>8, <2>1 DEF Stream, Collected, UpToDate
  <2>6. UpToDate(x)'
    BY <1>3, <1>7, <1>8, <2>1 DEF UpToDate
  <2> QED
    BY <2>2, <2>4, <2>5, <2>6 DEF Stream
<1>13. ASSUME NEW r \in Request, r # x PROVE Stream(r)'
  <2>1. r[1] \in Client /\ r = <<r[1], r[2]>> /\ r[2] \in Int /\ attempt[r[1]] \in Int
    BY RequestOf DEF TransportInv, Parameters
  <2>2. r[1] = c => Current(r[1]) # r /\ Current(r[1])' # r
    BY <1>2, <1>3, <1>13 DEF Current
  <2>3. Kept(r)
    BY SMTT(30), <1>3, <1>9, <1>13, <2>1, <2>2
       DEF Kept, Sending, Over, Handles, NotBusy, Current, TransportInv, Types
  <2> QED
    BY <1>10, <1>13, <2>3, KeptStream DEF TransportInv
<1> QED
  BY <1>10, <1>11, <1>12, <1>13 DEF TransportInv
\* An attempt fails, and what was not transmitted is dropped.
LEMMA FailStep ==
    ASSUME Parameters, TransportInv, NEW c \in Client, TimeOut(c) \/ ErrorReply(c)
    PROVE  TransportInv'
<1>1. Fails(c) /\ pc[c] \in {"send", "receive"}
  BY DEF TimeOut, ErrorReply
<1>2. PICK x \in Request : x = Current(c) /\ x[1] = c /\ x[2] = attempt[c] /\ attempt[c] \in Nat
  BY <1>1, CurrentRequest DEF TransportInv, Types, Parameters
<1>3. PICK n \in 0..Len(socket[x]) :
        socket' = [socket EXCEPT ![x] = SubSeq(socket[x], 1, n)]
  BY <1>1, <1>2 DEF Fails
<1>4. /\ answer' = [answer EXCEPT ![x] = <<>>]
      /\ pc' = [pc EXCEPT ![c] = IF Another(c) THEN "idle" ELSE "failed"]
      /\ UNCHANGED <<attempt, sent, pending, busy, served>>
  BY <1>1, <1>2 DEF Fails
<1>5. socket[x] \in Seq(Nat) /\ Stream(x)
  BY DEF TransportInv, Types
<1>6. PICK s \in Seq(Nat) : /\ s = SubSeq(socket[x], 1, n) /\ Consecutive(s)
                            /\ s # <<>> => socket[x] # <<>> /\ Head(s) = Head(socket[x])
  BY <1>5, DroppedFrames DEF Stream
<1>7. Types'
  <2>1. socket' \in [Request -> Seq(Nat)] /\ answer' \in [Request -> Seq(Int)]
    BY <1>3, <1>4, <1>6 DEF TransportInv, Types
  <2> QED
    BY <1>1, <1>4, <2>1 DEF TransportInv, Types, NotBusy
<1>8. Whole'
  BY <1>4 DEF TransportInv, Whole, NotBusy
<1>9. socket'[x] = s /\ answer'[x] = <<>> /\ pc'[c] \in {"idle", "failed"}
  BY <1>3, <1>4, <1>6 DEF TransportInv, Types
<1>10. Stream(x)'
  <2>1. FutureUnknown(x)'
    <3>1. x[2] = attempt[c] /\ attempt'[x[1]] = attempt[c]
      BY <1>2, <1>4
    <3> QED
      BY <1>2, <3>1 DEF FutureUnknown
  <2>2. Over(x)' => Over(x)
    BY <1>2, <1>4, <1>9 DEF Over, Handles, NotBusy
  <2>3. Collected(x)' /\ UpToDate(x)' /\ NoSecondHeader(x)'
    BY <1>2, <1>4, <1>5, <1>6, <1>9, <2>2
       DEF Stream, Collected, UpToDate, Sending, NoSecondHeader
  <2> QED
    BY <1>6, <1>9, <2>1, <2>3 DEF Stream
<1>11. ASSUME NEW r \in Request, r # x PROVE Stream(r)'
  <2>1. r[1] \in Client /\ r = <<r[1], r[2]>> /\ r[2] \in Int /\ attempt[r[1]] \in Int
    BY RequestOf DEF TransportInv, Parameters
  <2>2. r[1] = c => Current(r[1]) # r /\ Current(r[1])' # r
    BY <1>2, <1>4, <1>11 DEF Current
  <2>3. Kept(r)
    BY <1>3, <1>4, <1>11, <2>1, <2>2
       DEF Kept, Sending, Over, Handles, NotBusy, Current, TransportInv, Types
  <2> QED
    BY <1>7, <1>11, <2>3, KeptStream DEF TransportInv
<1> QED
  BY <1>7, <1>8, <1>10, <1>11 DEF TransportInv

\* A frame of an answer: the request is over already.
LEMMA ReplyStep ==
    ASSUME Parameters, TransportInv, NEW c \in Client, ReplyHeader(c) \/ ReplyChunk(c)
    PROVE  TransportInv'
<1>1. pc[c] = "receive" /\ answer[Current(c)] # <<>>
  BY DEF ReplyHeader, ReplyChunk
<1>2. PICK x \in Request : x = Current(c) /\ x[1] = c
  BY <1>1, CurrentRequest DEF TransportInv, Types
<1>3. /\ answer' = [answer EXCEPT ![x] = Tail(answer[x])]
      /\ UNCHANGED <<attempt, sent, socket, pending, busy, served>>
      /\ pc' = [pc EXCEPT ![c] = pc'[c]] /\ pc'[c] \in {"receive", "done"}
  BY <1>1, <1>2 DEF ReplyHeader, ReplyChunk, TransportInv, Types
<1>4. Types'
  <2>1. answer[x] \in Seq(Int) /\ answer[x] # <<>>
    BY <1>1, <1>2 DEF TransportInv, Types
  <2>2. Tail(answer[x]) \in Seq(Int)
    BY <2>1
  <2>3. answer' \in [Request -> Seq(Int)]
    BY <1>3, <2>2 DEF TransportInv, Types
  <2>4. /\ pc' \in [Client -> {"idle", "send", "receive", "done", "failed"}]
        /\ \A d \in Client : pc'[d] # "idle" => attempt'[d] > 0
    BY <1>1, <1>3 DEF TransportInv, Types
  <2> QED
    BY <1>3, <2>3, <2>4 DEF TransportInv, Types, NotBusy
<1>5. Whole'
  BY <1>3 DEF TransportInv, Whole, NotBusy
<1>6. ASSUME NEW r \in Request PROVE Kept(r)
  <2>1. r[1] \in Client /\ attempt[r[1]] \in Int
    BY RequestOf DEF TransportInv, Parameters
  <2>2. answer'[r] # <<>> => answer[r] # <<>>
    BY <1>1, <1>2, <1>3 DEF TransportInv, Types
  <2>3. Sending(r)' => Sending(r)
    BY <1>3, <2>1 DEF Sending, Current, TransportInv, Types
  <2>4. Over(r)' => Over(r)
    <3>1. pc'[r[1]] = "done" /\ Current(r[1]) = r => r = x \/ pc[r[1]] = "done"
      BY <1>2, <1>3, <2>1 DEF TransportInv, Types
    <3> QED
      BY <1>1, <1>2, <1>3, <2>2, <3>1 DEF Over, Handles, NotBusy, Current
  <2> QED
    BY <1>3, <2>1, <2>2, <2>3, <2>4 DEF Kept, Handles, NotBusy
<1> QED
  BY <1>4, <1>5, <1>6, KeptStream DEF TransportInv
\* The service takes a frame of x: the transfers of other requests are not concerned.
LEMMA OthersKept ==
    ASSUME Parameters, TransportInv, Types', NEW x \in Request, NEW r \in Request, r # x,
           socket' = [socket EXCEPT ![x] = Tail(socket[x])],
           UNCHANGED <<pc, attempt, sent>>,
           r \in DOMAIN pending' <=> r \in DOMAIN pending,
           r \in DOMAIN pending => pending'[r] = pending[r],
           answer'[r] # <<>> => answer[r] # <<>>,
           Handles(r)' => Handles(r)
    PROVE  Stream(r)'
<1>1. r[1] \in Client /\ attempt[r[1]] \in Int
  BY RequestOf DEF TransportInv, Parameters
<1>2. Kept(r)
  BY SMTT(30), <1>1 DEF Kept, Sending, Over, Current, TransportInv, Types
<1> QED
  BY <1>2, KeptStream DEF TransportInv

\* What is known of a socket from which a frame is taken.
LEMMA TakenFrom ==
    ASSUME Parameters, TransportInv, NEW x \in Request, Take(x)
    PROVE  /\ busy = NotBusy /\ socket' = [socket EXCEPT ![x] = Tail(socket[x])]
           /\ socket'[x] = Tail(socket[x]) /\ socket' \in [Request -> Seq(Nat)]
           /\ Head(socket[x]) \in Nat /\ Consecutive(socket'[x])
           /\ socket'[x] # <<>> => /\ Head(socket'[x]) = Head(socket[x]) + 1
                                   /\ FinalFrame(socket'[x]) = FinalFrame(socket[x])
           /\ socket'[x] = <<>> => FinalFrame(socket[x]) = Head(socket[x])
           /\ ~ (x[2] > attempt[x[1]])
<1>1. /\ busy = NotBusy /\ socket' = [socket EXCEPT ![x] = Tail(socket[x])]
      /\ socket[x] # <<>> /\ socket[x] \in Seq(Nat) /\ Stream(x)
  BY DEF Take, TransportInv, Types
<1>2. Consecutive(socket[x]) /\ FutureUnknown(x)
  BY <1>1 DEF Stream
<1>3. /\ Head(socket[x]) \in Nat /\ Tail(socket[x]) \in Seq(Nat) /\ Consecutive(Tail(socket[x]))
      /\ Tail(socket[x]) # <<>> => /\ Head(Tail(socket[x])) = Head(socket[x]) + 1
                                   /\ FinalFrame(Tail(socket[x])) = FinalFrame(socket[x])
      /\ Tail(socket[x]) = <<>> => FinalFrame(socket[x]) = Head(socket[x])
  BY <1>1, <1>2, TakenFrame
<1>4. PICK s \in Seq(Nat) : s = Tail(socket[x])
  BY <1>3
<1>5. socket'[x] = s /\ socket' \in [Request -> Seq(Nat)]
  BY <1>1, <1>4 DEF TransportInv, Types
<1> QED
  BY <1>1, <1>2, <1>3, <1>4, <1>5 DEF FutureUnknown

\* The header of a request, which has no second one.
LEMMA HeaderStep ==
    ASSUME Parameters, TransportInv, NEW x \in Request, TakeHeader(x) PROVE TransportInv'
<1>1. /\ Take(x) /\ x \notin DOMAIN pending /\ Head(socket[x]) = Header
      /\ UNCHANGED <<pc, attempt, sent, answer, served>>
      /\ Up[x[1]] \in Nat
  BY RequestOf DEF TakeHeader, Collecting, Key, TransportInv
<1>2. /\ busy = NotBusy /\ socket' = [socket EXCEPT ![x] = Tail(socket[x])]
      /\ socket'[x] = Tail(socket[x]) /\ socket' \in [Request -> Seq(Nat)]
      /\ Consecutive(socket'[x])
      /\ socket'[x] # <<>> => Head(socket'[x]) = 1 /\ FinalFrame(socket'[x]) = FinalFrame(socket[x])
      /\ socket'[x] = <<>> => FinalFrame(socket[x]) = 0
      /\ ~ (x[2] > attempt[x[1]]) /\ socket[x] # <<>> /\ ~ Over(x)
  <2>1. ~ Over(x) /\ socket[x] # <<>>
    BY <1>1 DEF Take, TransportInv, Stream, NoSecondHeader
  <2> QED
    BY <1>1, <2>1, TakenFrom DEF Header
<1>3. FutureUnknown(x)'
  BY <1>1, <1>2 DEF FutureUnknown
<1>4. \A r \in Request : Sending(r)' <=> Sending(r)
  BY <1>1 DEF Sending, Current
<1>5. CASE Up[x[1]] > 0
  <2>1. /\ pending' = [k \in (DOMAIN pending) \cup {x} |-> IF k = x THEN <<>> ELSE pending[k]]
        /\ busy' = busy
    BY <1>1, <1>5 DEF TakeHeader, Collect, Key
  <2>2. DOMAIN pending' = (DOMAIN pending) \cup {x} /\ pending'[x] = <<>>
        /\ \A k \in DOMAIN pending : pending'[k] = pending[k]
    BY <1>1, <2>1
  <2>3. Types'
    <3>1. pending' = [r \in DOMAIN pending' |-> pending'[r]]
      BY <2>1
    <3>2. DOMAIN pending' \subseteq Request /\ \A r \in DOMAIN pending' : pending'[r] \in Seq(Nat)
      <4>1. <<>> \in Seq(Nat)
        OBVIOUS
      <4> QED
        BY <2>2, <4>1 DEF TransportInv, Types
    <3> QED
      BY <1>1, <1>2, <2>1, <3>1, <3>2 DEF TransportInv, Types, NotBusy
  <2>4. Whole'
    BY <1>1, <2>1 DEF TransportInv, Whole, NotBusy
  <2>5. Stream(x)'
    <3>1. pending'[x] = Chunks(0) /\ Len(pending'[x]) = 0
      BY <2>2, NoChunk
    <3>2. Collected(x)'
      BY <1>2, <1>5, <3>1 DEF Collected
    <3>3. UpToDate(x)'
      BY <1>1, <1>2, <1>4, <3>1 DEF UpToDate, TransportInv, Stream
    <3>4. NoSecondHeader(x)'
      BY <1>1, <1>2, <2>1 DEF NoSecondHeader, Over, Handles, Current
    <3> QED
      BY <1>2, <1>3, <3>2, <3>3, <3>4 DEF Stream
  <2>6. ASSUME NEW r \in Request, r # x PROVE Stream(r)'
    <3>1. (r \in DOMAIN pending' <=> r \in DOMAIN pending) /\ (Handles(r)' => Handles(r))
      BY <2>1, <2>2, <2>6 DEF Handles, NotBusy
    <3> QED
      BY <1>1, <1>2, <2>2, <2>3, <2>6, <3>1, OthersKept
  <2> QED
    BY <2>3, <2>4, <2>5, <2>6 DEF TransportInv
<1>6. CASE ~ (Up[x[1]] > 0)
  <2>1. pending' = pending /\ busy' = [request |-> x, attachment |-> <<>>]
    BY <1>1, <1>6 DEF TakeHeader
  <2>2. busy'.request = x /\ busy'.attachment = <<>>
    BY <2>1
  <2>3. Types'
    BY SMTT(30), <1>1, <1>2, <2>1 DEF TransportInv, Types, NotBusy
  <2>4. Whole'
    <3>1. Up[x[1]] = 0
      BY <1>1, <1>6
    <3>2. busy'.attachment = Chunks(Up[busy'.request[1]])
      BY <2>2, <3>1, NoChunk
    <3> QED
      BY <1>1, <3>2 DEF TransportInv, Whole
  <2>5. Stream(x)'
    <3>1. x \notin DOMAIN pending'
      BY <1>1, <2>1
    <3>2. UpToDate(x)'
      BY <1>1, <1>2, <1>4, <3>1 DEF UpToDate, TransportInv, Stream
    <3>3. NoSecondHeader(x)'
      BY <1>2, <3>1 DEF NoSecondHeader, Header
    <3> QED
      BY <1>2, <1>3, <3>1, <3>2, <3>3 DEF Stream, Collected
  <2>6. ASSUME NEW r \in Request, r # x PROVE Stream(r)'
    <3>1. ~ Handles(r)'
      BY <2>2, <2>6 DEF Handles
    <3> QED
      BY <1>1, <1>2, <2>1, <2>3, <2>6, <3>1, OthersKept
  <2> QED
    BY <2>3, <2>4, <2>5, <2>6 DEF TransportInv
<1> QED
  BY <1>5, <1>6

\* A frame that is refused or discarded.
LEMMA DiscardStep ==
    ASSUME Parameters, TransportInv, NEW x \in Request, Refuse(x) \/ Discard(x)
    PROVE  TransportInv'
<1>1. /\ Take(x) /\ x \notin DOMAIN pending
      /\ UNCHANGED <<pc, attempt, sent, served, pending, busy>>
      /\ answer' = answer \/ (answer' = [answer EXCEPT ![x] = <<Error>>])
  BY DEF Refuse, Discard, Collecting, Key, Reply
<1>2. /\ busy = NotBusy /\ socket' = [socket EXCEPT ![x] = Tail(socket[x])]
      /\ socket' \in [Request -> Seq(Nat)] /\ Consecutive(socket'[x]) /\ Head(socket[x]) \in Nat
      /\ socket'[x] # <<>> => Head(socket'[x]) = Head(socket[x]) + 1
                              /\ FinalFrame(socket'[x]) = FinalFrame(socket[x])
      /\ ~ (x[2] > attempt[x[1]]) /\ socket[x] # <<>>
  BY <1>1, TakenFrom DEF Take
<1>3. <<Error>> \in Seq(Int)
  BY DEF Error
<1>4. answer' \in [Request -> Seq(Int)] /\ \A r \in Request \ {x} : answer'[r] = answer[r]
  BY ZenonT(40), <1>1, <1>3 DEF TransportInv, Types
<1>5. Types'
  <2>1. /\ busy' = NotBusy /\ socket' \in [Request -> Seq(Nat)]
        /\ answer' \in [Request -> Seq(Int)] /\ UNCHANGED <<pc, attempt, sent, pending>>
    BY <1>1, <1>2, <1>4
  <2>2. NotBusy' = NotBusy
    BY DEF NotBusy
  <2> QED
    BY <2>1, <2>2 DEF TransportInv, Types
<1>6. Whole'
  BY <1>1 DEF TransportInv, Whole, NotBusy
<1>7. Stream(x)'
  <2>1. (Sending(x)' <=> Sending(x)) /\ UpToDate(x)
    BY <1>1 DEF Sending, Current, TransportInv, Stream
  <2> QED
    BY <1>1, <1>2, <2>1
       DEF Stream, FutureUnknown, Collected, UpToDate, NoSecondHeader, Header
<1>8. ASSUME NEW r \in Request, r # x PROVE Stream(r)'
  <2>1. Handles(r)' => Handles(r)
    BY <1>1 DEF Handles, NotBusy
  <2> QED
    BY <1>1, <1>2, <1>4, <1>5, <1>8, <2>1, OthersKept
<1> QED
  BY <1>5, <1>6, <1>7, <1>8 DEF TransportInv
\* A chunk goes on from what was collected, and the last one makes the attachment whole.
LEMMA ChunkStep ==
    ASSUME Parameters, TransportInv, NEW x \in Request, TakeChunk(x) PROVE TransportInv'
<1>1. /\ Take(x) /\ x \in DOMAIN pending
      /\ UNCHANGED <<pc, attempt, sent, answer, served>>
      /\ Up[x[1]] \in Nat
  BY RequestOf DEF TakeChunk, Collecting, Key, TransportInv
<1>2. /\ busy = NotBusy /\ socket' = [socket EXCEPT ![x] = Tail(socket[x])]
      /\ socket' \in [Request -> Seq(Nat)] /\ Consecutive(socket'[x])
      /\ socket'[x] # <<>> => Head(socket'[x]) = Head(socket[x]) + 1
                              /\ FinalFrame(socket'[x]) = FinalFrame(socket[x])
      /\ socket'[x] = <<>> => FinalFrame(socket[x]) = Head(socket[x])
      /\ ~ (x[2] > attempt[x[1]]) /\ socket[x] # <<>>
  BY <1>1, TakenFrom DEF Take
<1>3. PICK n \in Nat : /\ n = Len(pending[x]) /\ pending[x] = Chunks(n) /\ n < Up[x[1]]
                       /\ Head(socket[x]) = n + 1
  <2>1. Collected(x) /\ pending[x] \in Seq(Nat)
    BY <1>1 DEF TransportInv, Types, Stream
  <2>2. Len(pending[x]) \in Nat
    BY <2>1
  <2> QED
    BY <1>1, <1>2, <2>1, <2>2 DEF Collected
<1>4. Append(pending[x], Head(socket[x])) = Chunks(n + 1)
  BY <1>3, NextChunk
<1>5. Chunks(n + 1) \in Seq(Nat) /\ Len(Chunks(n + 1)) = n + 1
  BY <1>3, NextChunk
<1>6. socket'[x] # <<>> => Head(socket'[x]) = n + 2
  BY <1>2, <1>3
<1>7. FutureUnknown(x)'
  BY <1>1, <1>2 DEF FutureUnknown
<1>8. \A r \in Request : Sending(r)' <=> Sending(r)
  BY <1>1 DEF Sending, Current
<1>9. ~ Over(x)
  BY <1>1 DEF TransportInv, Stream, NoSecondHeader
<1>10. CASE n + 1 = Up[x[1]]
  <2>1. /\ pending' = [k \in (DOMAIN pending) \ {x} |-> pending[k]]
        /\ busy' = [request |-> x, attachment |-> Chunks(n + 1)]
    BY <1>1, <1>4, <1>5, <1>10 DEF TakeChunk, Forget, Key
  <2>2. DOMAIN pending' = (DOMAIN pending) \ {x}
        /\ \A k \in DOMAIN pending' : pending'[k] = pending[k]
    BY <2>1
  <2>3. busy'.request = x /\ busy'.attachment = Chunks(n + 1)
        /\ busy' \in [request : Request, attachment : Seq(Nat)]
    BY <1>5, <2>1
  <2>4. Types'
    <3>1. pending' = [r \in DOMAIN pending' |-> pending'[r]]
      BY <2>1
    <3>2. DOMAIN pending' \subseteq Request /\ \A r \in DOMAIN pending' : pending'[r] \in Seq(Nat)
      BY <2>2 DEF TransportInv, Types
    <3> QED
      BY <1>1, <1>2, <2>3, <3>1, <3>2 DEF TransportInv, Types
  <2>5. Whole'
    <3>1. busy'.attachment = Chunks(Up[busy'.request[1]])
      BY <1>10, <2>3
    <3> QED
      BY <1>1, <3>1 DEF TransportInv, Whole
  <2>6. Stream(x)'
    <3>1. x \notin DOMAIN pending'
      BY <2>2
    <3>2. UpToDate(x)'
      BY <1>1, <1>2, <1>8, <3>1 DEF UpToDate, TransportInv, Stream
    <3>3. NoSecondHeader(x)'
      BY <1>6, <3>1 DEF NoSecondHeader, Header
    <3> QED
      BY <1>2, <1>7, <3>1, <3>2, <3>3 DEF Stream, Collected
  <2>7. ASSUME NEW r \in Request, r # x PROVE Stream(r)'
    <3>1. ~ Handles(r)' /\ (r \in DOMAIN pending' <=> r \in DOMAIN pending)
      BY <2>2, <2>3, <2>7 DEF Handles
    <3> QED
      BY <1>1, <1>2, <2>2, <2>4, <2>7, <3>1, OthersKept
  <2> QED
    BY <2>4, <2>5, <2>6, <2>7 DEF TransportInv
<1>11. CASE n + 1 # Up[x[1]]
  <2>1. /\ pending' = [k \in (DOMAIN pending) \cup {x} |->
                         IF k = x THEN Chunks(n + 1) ELSE pending[k]]
        /\ busy' = busy
    BY <1>1, <1>4, <1>5, <1>11 DEF TakeChunk, Collect, Key
  <2>2. DOMAIN pending' = DOMAIN pending /\ pending'[x] = Chunks(n + 1)
        /\ \A k \in (DOMAIN pending) \ {x} : pending'[k] = pending[k]
    BY <1>1, <2>1
  <2>3. busy' = NotBusy /\ NotBusy' = NotBusy
    BY <1>2, <2>1 DEF NotBusy
  <2>4. Types'
    <3>1. pending' = [r \in DOMAIN pending' |-> pending'[r]]
      BY <2>1
    <3>2. DOMAIN pending' \subseteq Request /\ \A r \in DOMAIN pending' : pending'[r] \in Seq(Nat)
      BY <1>5, <2>2 DEF TransportInv, Types
    <3> QED
      BY <1>1, <1>2, <2>3, <3>1, <3>2 DEF TransportInv, Types
  <2>5. Whole'
    BY <1>1, <2>3 DEF TransportInv, Whole
  <2>6. Stream(x)'
    <3>1. Collected(x)'
      <4>1. n + 1 < Up[x[1]]
        BY <1>1, <1>3, <1>11
      <4>2. Len(Chunks(n + 1)) = n + 1
        BY <1>5
      <4>3. Len(pending'[x]) = n + 1
        BY <2>2, <4>2
      <4>4. pending'[x] = Chunks(Len(pending'[x]))
        BY <2>2, <4>3
      <4> QED
        BY <1>6, <4>1, <4>3, <4>4 DEF Collected
    <3>2. UpToDate(x)'
      BY <1>1, <1>2, <1>3, <1>5, <1>8, <2>2 DEF UpToDate, TransportInv, Stream
    <3>3. ~ Over(x)'
      BY <1>1, <1>9, <2>3 DEF Over, Handles, Current
    <3> QED
      BY <1>2, <1>7, <3>1, <3>2, <3>3 DEF Stream, NoSecondHeader
  <2>7. ASSUME NEW r \in Request, r # x PROVE Stream(r)'
    <3>1. ~ Handles(r)'
      BY <2>3 DEF Handles
    <3> QED
      BY <1>1, <1>2, <2>2, <2>4, <2>7, <3>1, OthersKept
  <2> QED
    BY <2>4, <2>5, <2>6, <2>7 DEF TransportInv
<1> QED
  BY <1>10, <1>11

\* The handler returns or raises an error, or the service stops and starts again.
LEMMA ServiceStep ==
    ASSUME Parameters, TransportInv, Respond \/ HandlerFails \/ Restart PROVE TransportInv'
<1>0. NotBusy' = NotBusy
  BY DEF NotBusy
<1>1. CASE Respond \/ HandlerFails
  <2>1. /\ busy # NotBusy /\ busy' = NotBusy /\ served' = served \cup {busy}
        /\ UNCHANGED <<pc, attempt, sent, socket, pending>>
        /\ busy.request \in Request
    BY <1>1 DEF Respond, HandlerFails, TransportInv, Types
  <2>2. PICK x \in Request : x = busy.request
    BY <2>1
  <2>3. /\ answer' \in [Request -> Seq(Int)]
        /\ \A r \in Request \ {x} : answer'[r] = answer[r]
    <3>1. <<Header>> \o Chunks(Down) \in Seq(Int)
      BY DEF Header, Chunks, Parameters
    <3>2. answer' = answer \/ answer' = [answer EXCEPT ![x] = <<Header>> \o Chunks(Down)]
      BY <1>1, <2>2 DEF Respond, HandlerFails, Reply
    <3>3. PICK q \in Seq(Int) : q = <<Header>> \o Chunks(Down)
      BY <3>1
    <3>4. answer' = answer \/ answer' = [answer EXCEPT ![x] = q]
      BY <3>2, <3>3
    <3>5. answer \in [Request -> Seq(Int)]
      BY DEF TransportInv, Types
    <3>6. CASE answer' = answer
      BY <3>5, <3>6
    <3>7. CASE answer' = [answer EXCEPT ![x] = q]
      BY <3>3, <3>5, <3>7
    <3> QED
      BY <3>4, <3>6, <3>7
  <2>4. Types'
    BY <1>0, <2>1, <2>3 DEF TransportInv, Types
  <2>5. Whole'
    BY <1>0, <2>1 DEF TransportInv, Whole
  <2>6. ASSUME NEW r \in Request PROVE Stream(r)'
    <3>1. r[1] \in Client /\ attempt[r[1]] \in Int
      BY RequestOf DEF TransportInv, Parameters
    <3>2. ~ Handles(r)' /\ (r = x => Handles(r))
      BY <1>0, <2>1, <2>2 DEF Handles
    <3>3. Over(r)' => Over(r)
      BY <2>1, <2>3, <3>2 DEF Over, Current
    <3>4. Kept(r)
      BY <2>1, <2>3, <3>1, <3>2, <3>3 DEF Kept, Sending, Current
    <3> QED
      BY <2>4, <3>4, KeptStream DEF TransportInv
  <2> QED
    BY <2>4, <2>5, <2>6 DEF TransportInv
<1>2. CASE Restart
  <2>1. /\ busy' = NotBusy /\ UNCHANGED <<pc, attempt, sent, answer, served>>
        /\ socket' = [r \in Request |-> <<>>] /\ pending' = [r \in {} |-> <<>>]
    BY <1>2 DEF Restart
  <2>2. DOMAIN pending' = {} /\ \A r \in Request : socket'[r] = <<>>
    BY <2>1
  <2>3. Types'
    <3>1. socket' \in [Request -> Seq(Nat)]
      BY <2>1
    <3>2. pending' = [r \in DOMAIN pending' |-> pending'[r]]
      BY <2>1
    <3> QED
      BY <1>0, <2>1, <2>2, <3>1, <3>2 DEF TransportInv, Types
  <2>4. Whole'
    BY <1>0, <2>1 DEF TransportInv, Whole
  <2>5. ASSUME NEW r \in Request PROVE Stream(r)'
    <3>1. Consecutive(<<>>)
      BY DEF Consecutive
    <3>2. FutureUnknown(r)'
      BY <1>0, <2>1, <2>2 DEF TransportInv, Stream, FutureUnknown, Handles
    <3> QED
      BY <2>2, <3>1, <3>2 DEF Stream, Collected, UpToDate, NoSecondHeader
  <2> QED
    BY <2>3, <2>4, <2>5 DEF TransportInv
<1> QED
  BY <1>1, <1>2

-----------------------------------------------------------------------------
\* Nothing has been sent.
LEMMA TransportInit == ASSUME Parameters PROVE Init => TransportInv
<1> SUFFICES ASSUME Init PROVE TransportInv
  OBVIOUS
<1>1. pending = [r \in {} |-> <<>>] /\ DOMAIN pending = {}
  BY DEF Init
<1>2. Types
  <2>1. pending = [r \in DOMAIN pending |-> pending[r]]
    BY <1>1
  <2>2. socket \in [Request -> Seq(Nat)] /\ answer \in [Request -> Seq(Int)]
    BY DEF Init
  <2> QED
    BY <1>1, <2>1, <2>2 DEF Init, Types, Parameters
<1>3. Whole
  BY DEF Init, Whole
<1>4. ASSUME NEW r \in Request PROVE Stream(r)
  <2>1. r[1] \in Client
    BY <1>2, RequestOf
  <2>2. socket[r] = <<>> /\ answer[r] = <<>> /\ busy = NotBusy /\ pc[r[1]] = "idle"
    BY <2>1 DEF Init
  <2> QED
    BY <1>1, <2>2 DEF Stream, Consecutive, FutureUnknown, Handles, Collected, UpToDate, Sending,
                      NoSecondHeader, Over
<1> QED
  BY <1>2, <1>3, <1>4 DEF TransportInv

\* TransportInv is inductive.
LEMMA TransportNext == ASSUME Parameters PROVE TransportInv /\ [Next]_vars => TransportInv'
<1> SUFFICES ASSUME TransportInv, [Next]_vars PROVE TransportInv'
  OBVIOUS
<1>1. CASE UNCHANGED vars
  BY <1>1 DEF vars, TransportInv, Types, Whole, NotBusy, Stream, FutureUnknown, Handles, Collected,
     UpToDate, Sending, Current, NoSecondHeader, Over
<1>2. CASE Next
  BY <1>2, BeginStep, SendStep, FailStep, ReplyStep, HeaderStep, DiscardStep, ChunkStep,
     ServiceStep DEF Next
<1> QED
  BY <1>1, <1>2

\* From TransportInv, no attachment is mixed up, and nothing stays behind of a request that
\* was answered.
LEMMA TransfersApart == ASSUME Parameters PROVE TransportInv => TransfersKeptApart
<1> SUFFICES ASSUME TransportInv, NEW r \in DOMAIN pending
             PROVE  Open(r) \/ attempt[r[1]] > r[2] \/ pc[r[1]] \in {"idle", "failed"}
  BY DEF TransfersKeptApart, TransportInv, Whole
<1>1. r \in Request
  BY DEF TransportInv, Types
<1>2. /\ r[1] \in Client /\ r[2] \in Int /\ attempt[r[1]] \in Int
      /\ Current(r[1]) = r <=> attempt[r[1]] = r[2]
  BY <1>1, RequestOf DEF TransportInv, Parameters
<1>3. ~ (r[2] > attempt[r[1]]) /\ ~ Over(r)
  BY <1>1 DEF TransportInv, Stream, FutureUnknown, NoSecondHeader
<1>4. pc[r[1]] \in {"idle", "send", "receive", "done", "failed"}
  BY <1>2 DEF TransportInv, Types
<1> QED
  BY <1>2, <1>3, <1>4 DEF Over, Open

\* However frames, timeouts, retries and stops interleave, a handler is given the attachment
\* of its own request, whole and in order.
THEOREM TransfersCorrect == ASSUME Parameters PROVE Spec => []TransfersKeptApart
BY TransportInit, TransportNext, TransfersApart, PTL DEF Spec

-----------------------------------------------------------------------------
(* What a client has received *)

\* what the proofs above do not need of the types; a client that receives lacks a chunk
Received ==
    /\ got \in [Client -> 0..Down]
    /\ file \in [Client -> Seq((1..MaxAttempts) \X (1..Down))]
    /\ \A c \in Client : pc[c] \in {"send", "receive"} => got[c] < Down \/ Down = 0

\* A client stops receiving with the last chunk.
LEMMA ReceivedNext == ASSUME Parameters, TransportInv, Received, [Next]_vars PROVE Received'
<1> USE DEF Parameters
<1>0. /\ pc \in [Client -> {"idle", "send", "receive", "done", "failed"}]
      /\ attempt \in [Client -> 0..MaxAttempts]
      /\ \A c \in Client : pc[c] # "idle" => attempt[c] > 0
  BY DEF TransportInv, Types
<1>1. CASE UNCHANGED vars
  BY <1>1 DEF vars, Received
<1>2. ASSUME NEW c \in Client, Begin(c) PROVE Received'
  BY <1>0, <1>2 DEF Begin, Received
<1>3. ASSUME NEW c \in Client, SendChunk(c) PROVE Received'
  BY <1>0, <1>3 DEF SendChunk, Received
<1>4. ASSUME NEW c \in Client, TimeOut(c) \/ ErrorReply(c) PROVE Received'
  BY <1>0, <1>4 DEF TimeOut, ErrorReply, Fails, Received
<1>5. ASSUME NEW c \in Client, ReplyHeader(c) PROVE Received'
  BY <1>0, <1>5 DEF ReplyHeader, Received
<1>6. ASSUME NEW c \in Client, ReplyChunk(c) PROVE Received'
  <2>1. PICK chunk \in 1..Down : /\ chunk = Head(answer[Current(c)])
                                 /\ file' = [file EXCEPT ![c] = Append(file[c], <<attempt[c], chunk>>)]
    BY <1>6 DEF ReplyChunk
  <2>2. pc[c] = "receive" /\ got' = [got EXCEPT ![c] = @ + 1]
        /\ pc' = [pc EXCEPT ![c] = IF got[c] + 1 = Down THEN "done" ELSE @]
    BY <1>6 DEF ReplyChunk
  <2>3. got[c] < Down
    BY <2>1, <2>2 DEF Received
  <2>4. got' \in [Client -> 0..Down]
    BY <2>2, <2>3 DEF Received
  <2>5. file' \in [Client -> Seq((1..MaxAttempts) \X (1..Down))]
    <3>1. <<attempt[c], chunk>> \in (1..MaxAttempts) \X (1..Down)
      BY <1>0, <2>2
    <3>2. Append(file[c], <<attempt[c], chunk>>) \in Seq((1..MaxAttempts) \X (1..Down))
      BY <3>1 DEF Received
    <3> QED
      BY <2>1, <3>2 DEF Received
  <2>6. \A k \in Client : pc'[k] \in {"send", "receive"} => got'[k] < Down \/ Down = 0
    BY <1>0, <2>2, <2>3 DEF Received
  <2> QED
    BY <2>4, <2>5, <2>6 DEF Received
<1>7. ASSUME NEW r \in Request, TakeHeader(r) \/ Refuse(r) \/ Discard(r) \/ TakeChunk(r)
      PROVE  Received'
  BY <1>7 DEF TakeHeader, Refuse, Discard, TakeChunk, Received
<1>8. CASE Respond \/ HandlerFails \/ Restart
  BY <1>8 DEF Respond, HandlerFails, Restart, Received
<1> QED
  BY <1>1, <1>2, <1>3, <1>4, <1>5, <1>6, <1>7, <1>8 DEF Next

\* Types to begin with, and with both.
LEMMA TransportTyped ==
    ASSUME Parameters PROVE (Init => Received) /\ (TransportInv /\ Received => TypeOK)
<1>1. Init => Received
  BY DEF Init, Received, Parameters
<1>2. ASSUME TransportInv, Received PROVE TypeOK
  <2>1. ASSUME NEW c \in Client, NEW k \in DOMAIN file[c]
        PROVE  file[c][k] \in (1..MaxAttempts) \X (1..Down)
    <3>1. file[c] \in Seq((1..MaxAttempts) \X (1..Down))
      BY <1>2 DEF Received
    <3> QED
      BY <3>1
  <2> QED
    BY <1>2, <2>1 DEF TransportInv, Types, Received, TypeOK
<1> QED
  BY <1>1, <1>2
================================================================================
