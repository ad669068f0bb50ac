--------------------------- MODULE JobRunner_proofs ---------------------------
(* Proofs about JobRunner, for any outputs, inputs, peers and messages of    *)
(* the processor: what SUCCESSFUL means, that the last status written is the *)
(* one the job ended with, and that an output is uploaded once.              *)
EXTENDS JobRunner, TLAPS

Messages == Output \cup {"note", "ns_req", "done", "error"}

\* the types the proofs need: the worker that is dead may have sent a last message
Types ==
    /\ TypeOK
    /\ interrupted \in BOOLEAN /\ dirty \in BOOLEAN /\ early \in BOOLEAN
    /\ asked \in 0..Len(Peers) /\ lost \in Nat /\ again \subseteq Output
    /\ sentMsgs \in 0..MaxMessages /\ toRunner \in Seq(Messages)
    /\ Len(toRunner) <= sentMsgs + (IF worker = "dead" THEN 1 ELSE 0)
    /\ main = "start" => worker = "none"

\* the status handler is started by the handshake
HandlerStarted ==
    /\ main \in {"start", "handshake"} => handler = "none"
    /\ main \in {"barrier", "user", "fetch", "verify", "run", "drain", "failing"} =>
           handler # "none"

Endings == {<<"SUCCESSFUL", "DONE">>, <<"CANCELLED", "INTERRUPTED">>, <<"FAILED", "ERROR">>}

\* the state is final exactly when execute() comes to its end, and agrees with the exit code
StateFollowsMain ==
    handler # "none" =>
        /\ main = "failing" => status.state = "FAILED"
        /\ main \in {"ending", "done"} =>
               /\ <<status.state, exit>> \in Endings
               /\ status.state = "FAILED" => status.errors
        /\ main \notin {"failing", "ending", "done"} => status.state \notin Ended

\* without a status handler the job has not begun
NotBegun == handler = "none" => status.state = "UNINITIALISED"

\* what the status handler wrote last
LastIsFinal ==
    /\ handler \in {"final", "ended"} => status.state \in Ended
    /\ handler = "ended" =>
           /\ filed.state = status.state
           /\ status.state = "SUCCESSFUL" => filed = status
           /\ status.state = "FAILED" => filed.errors \/ early

Control == HandlerStarted /\ StateFollowsMain /\ NotBegun /\ LastIsFinal

InputsFetched == main \in {"verify", "run", "drain"} => fetched = Input

\* an upload that succeeded made an object
OutputsUploaded ==
    \A o \in Output : o \in status.output \/ uploading[o].ok > 0 => uploads[o] > 0

\* an output that was not announced again has one handler while it is pending, and none
\* before and after
OneHandler(o) ==
    LET u == uploading[o] IN
    IF o \in pending
    THEN u.push + u.ok + u.bad = 1 /\ uploads[o] + u.push <= 1 /\ o \notin status.output \cup failed
    ELSE /\ u.push = 0 /\ u.ok = 0 /\ u.bad = 0 /\ uploads[o] <= 1
         /\ o \notin status.output \cup failed => uploads[o] = 0

HandledOnce == \A o \in Output \ again : OneHandler(o)

Outputs == InputsFetched /\ OutputsUploaded /\ SuccessIsComplete /\ HandledOnce

RunnerInv == Types /\ Control /\ Outputs

-----------------------------------------------------------------------------
(* Helpers *)

Counts == [push : Nat, ok : Nat, bad : Nat]

\* A status with another state.
LEMMA StateChanged ==
    ASSUME Types, NEW s \in States
    PROVE  /\ InState(s) \in Status /\ InState(s).state = s
           /\ InState(s).output = status.output /\ InState(s).errors = status.errors
BY DEF Types, TypeOK, Status, InState

\* A status with an error.
LEMMA ErrorAdded ==
    ASSUME Types
    PROVE  LET s == [status EXCEPT !.errors = TRUE] IN
           s \in Status /\ s.errors /\ s.state = status.state /\ s.output = status.output
BY DEF Types, TypeOK, Status

\* An update changes the status and its time stamp.
LEMMA UpdateStatus ==
    ASSUME Types, NEW s \in Status, Update(s)
    PROVE  status' = s /\ dirty' \in BOOLEAN /\ early' = early
BY DEF Update, Types

\* The counts of an output, by themselves.
LEMMA CountsTyped ==
    ASSUME Types
    PROVE  /\ uploading \in [Output -> Counts]
           /\ \A o \in Output : /\ uploading[o].push \in Nat /\ uploading[o].ok \in Nat
                                /\ uploading[o].bad \in Nat
BY DEF Types, TypeOK, Counts

\* Another handler of an output.
LEMMA HandlerAdded ==
    ASSUME Types, NEW o \in Output
    PROVE  LET next == [uploading EXCEPT ![o].push = @ + 1] IN
           /\ next \in [Output -> Counts] /\ next[o].push = uploading[o].push + 1
           /\ next[o].ok = uploading[o].ok /\ next[o].bad = uploading[o].bad
           /\ \A p \in Output \ {o} : next[p] = uploading[p]
BY CountsTyped DEF Counts

\* A handler that ends.
LEMMA HandlerGone ==
    ASSUME Types, NEW o \in Output, NEW r \in {"ok", "bad"}, uploading[o][r] > 0
    PROVE  LET next == [uploading EXCEPT ![o][r] = @ - 1] IN
           /\ next \in [Output -> Counts] /\ next[o].push = uploading[o].push
           /\ next[o].ok = uploading[o].ok - (IF r = "ok" THEN 1 ELSE 0)
           /\ next[o].bad = uploading[o].bad - (IF r = "bad" THEN 1 ELSE 0)
           /\ \A p \in Output \ {o} : next[p] = uploading[p]
<1>1. CASE r = "ok"
  BY <1>1, CountsTyped DEF Counts
<1>2. CASE r = "bad"
  BY <1>2, CountsTyped DEF Counts
<1> QED
  BY <1>1, <1>2

\* A handler that is through with its upload.
LEMMA MovedCounts ==
    ASSUME Types, NEW o \in Output, NEW r \in {"ok", "bad"}, uploading[o].push > 0
    PROVE  /\ Moved(o, "push", r) \in [Output -> Counts]
           /\ \A p \in Output \ {o} : Moved(o, "push", r)[p] = uploading[p]
           /\ Moved(o, "push", r)[o].push = uploading[o].push - 1
           /\ Moved(o, "push", r)[o].ok = uploading[o].ok + (IF r = "ok" THEN 1 ELSE 0)
           /\ Moved(o, "push", r)[o].bad = uploading[o].bad + (IF r = "bad" THEN 1 ELSE 0)
<1>1. CASE r = "ok"
  BY <1>1, CountsTyped DEF Moved, Counts
<1>2. CASE r = "bad"
  BY <1>2, CountsTyped DEF Moved, Counts
<1> QED
  BY <1>1, <1>2

\* Nothing has happened yet.
LEMMA RunnerInit == Init => RunnerInv
<1> SUFFICES ASSUME Init PROVE RunnerInv
  OBVIOUS
<1>1. status \in Status /\ status.state = "UNINITIALISED" /\ status.output = {}
  BY DEF Init, Fresh, Status, States
<1>2. Types
  <2>1. toRunner \in Seq(Messages) /\ Len(toRunner) = 0
    BY DEF Init
  <2>2. uploading \in [Output -> Counts] /\ uploads \in [Output -> Nat]
    BY DEF Init, Counts
  <2>3. Len(Peers) \in Nat /\ MaxMessages \in Nat
    BY RunnerAssumption
  <2>4. /\ main = "start" /\ exit = "none" /\ interrupted = FALSE /\ asked = 0 /\ fetched = {}
        /\ dirty = FALSE /\ early = FALSE /\ handler = "none" /\ told = NoStatus
        /\ filed = NoStatus /\ lost = 0 /\ pending = {} /\ failed = {} /\ again = {}
        /\ worker = "none" /\ sentMsgs = 0
    BY DEF Init
  <2> QED
    <3>1. TypeOK
      BY <1>1, <2>1, <2>2, <2>3, <2>4 DEF TypeOK, Counts
    <3>2. interrupted \in BOOLEAN /\ dirty \in BOOLEAN /\ early \in BOOLEAN
      BY <2>4
    <3>3. /\ asked \in 0..Len(Peers) /\ lost \in Nat /\ again \subseteq Output
          /\ sentMsgs \in 0..MaxMessages
          /\ Len(toRunner) <= sentMsgs + (IF worker = "dead" THEN 1 ELSE 0)
      BY <2>1, <2>3, <2>4
    <3> QED
      BY <3>1, <3>2, <3>3, <2>1, <2>4 DEF Types
<1>3. Control
  BY <1>1 DEF Init, Control, HandlerStarted, StateFollowsMain, NotBegun, LastIsFinal
<1>4. Outputs
  BY <1>1 DEF Init, Outputs, InputsFetched, OutputsUploaded, SuccessIsComplete, HandledOnce,
              OneHandler
<1> QED
  BY <1>2, <1>3, <1>4 DEF RunnerInv

-----------------------------------------------------------------------------
(* Types *)

\* the types of what the main thread works on
MainTyped ==
    /\ main' \in {"handshake", "barrier", "user", "fetch", "verify", "run", "drain",
                  "failing", "ending", "done"}
    /\ exit' \in {"none", "DONE", "INTERRUPTED", "ERROR"}
    /\ status' \in Status /\ dirty' \in BOOLEAN /\ early' \in BOOLEAN
    /\ fetched' \subseteq Input /\ asked' \in 0..Len(Peers)

\* An exception leaves everything typed.
LEMMA FailTyped == ASSUME Types, Fail PROVE MainTyped
<1>1. CASE handler = "none"
  BY <1>1 DEF Fail, Types, TypeOK, MainTyped, statVars
<1>2. CASE handler # "none"
  BY <1>2, StateChanged, UpdateStatus DEF Fail, Types, TypeOK, MainTyped, States, Ended
<1> QED
  BY <1>1, <1>2

\* So does a cancellation.
LEMMA CancelledTyped == ASSUME Types, Cancelled, UNCHANGED <<asked, fetched>> PROVE MainTyped
BY StateChanged, UpdateStatus DEF Cancelled, Types, TypeOK, MainTyped, States, Ended

\* The steps of the main thread that only touch its own variables.
LEMMA MainTypes ==
    ASSUME Types,
           \/ ForkWorker \/ Handshake \/ BarrierReleased \/ BarrierInterrupted \/ FetchUser
           \/ FetchFromPeer \/ FetchEnds \/ WorkerLost \/ Drain \/ AddError \/ Finish
    PROVE  Types'
<1> USE DEF Types, TypeOK, MainTyped, runVars, statVars, handVars, outVars, workVars
<1>1. CASE ForkWorker
  BY SMTT(30), <1>1, FailTyped DEF ForkWorker, Fork
<1>2. CASE Handshake
  <2>1. CASE Fail /\ UNCHANGED handler
    BY <1>2, <2>1, FailTyped DEF Handshake
  <2>2. CASE /\ main' \in {"barrier", "user"} /\ UNCHANGED <<exit, asked, fetched, early>>
             /\ handler' = "loop" /\ status' = InState("INITIALISED") /\ dirty' = TRUE
    <3>1. InState("INITIALISED") \in Status
      BY StateChanged DEF States
    <3>2. dirty' \in BOOLEAN
      BY <2>2
    <3> QED
      BY <1>2, <2>2, <3>1, <3>2 DEF Handshake
  <2> QED
    BY <1>2, <2>1, <2>2 DEF Handshake
<1>3. CASE BarrierReleased
  BY <1>3, FailTyped DEF BarrierReleased
<1>4. CASE BarrierInterrupted
  BY SMTT(30), <1>4, CancelledTyped DEF BarrierInterrupted
<1>5. CASE FetchUser
  BY <1>5, FailTyped DEF FetchUser
<1>6. CASE FetchFromPeer
  <2>1. CASE Fail
    BY <1>6, <2>1, FailTyped DEF FetchFromPeer
  <2>2. CASE ~ Fail
    <3>1. asked + 1 \in DOMAIN Peers /\ Len(Peers) \in Nat
      BY <1>6, RunnerAssumption DEF FetchFromPeer
    <3>2. Holds[Peers[asked + 1]] \subseteq Input
      BY <3>1, RunnerAssumption
    <3>3. fetched' \subseteq Input /\ asked' \in 0..Len(Peers) /\ UNCHANGED <<main, exit, statVars>>
      BY <1>6, <2>2, <3>1, <3>2 DEF FetchFromPeer, Downloads, LookedUp
    <3> QED
      BY <1>6, <3>3 DEF FetchFromPeer
  <2> QED
    BY <2>1, <2>2
<1>7. CASE FetchEnds
  BY SMTT(30), <1>7, FailTyped DEF FetchEnds
<1>8. CASE WorkerLost
  BY <1>8, FailTyped DEF WorkerLost
<1>9. CASE Drain
  BY SMTT(30), <1>9, FailTyped, StateChanged, UpdateStatus DEF Drain, States, Ended
<1>10. CASE AddError
  BY SMTT(30), <1>10, ErrorAdded, UpdateStatus DEF AddError
<1>11. CASE Finish
  BY <1>11 DEF Finish
<1> QED
  BY <1>1, <1>2, <1>3, <1>4, <1>5, <1>6, <1>7, <1>8, <1>9, <1>10, <1>11

\* An output that is announced.
LEMMA AnnouncedTyped ==
    ASSUME Types, NEW o \in Output, Announced(o)
    PROVE  /\ pending' \subseteq Output /\ failed' \subseteq Output /\ again' \subseteq Output
           /\ uploading' \in [Output -> Counts] /\ uploads' \in [Output -> Nat]
<1>1. CASE UNCHANGED outVars
  BY <1>1 DEF Types, TypeOK, Counts, outVars
<1>2. CASE ~ UNCHANGED outVars
  <2>1. /\ uploading' = [uploading EXCEPT ![o].push = @ + 1] /\ pending' = pending \cup {o}
        /\ again' \in {again, again \cup {o}} /\ UNCHANGED <<failed, uploads>>
    BY <1>2 DEF Announced
  <2> QED
    BY SMTT(30), <2>1, HandlerAdded DEF Types, TypeOK
<1> QED
  BY <1>1, <1>2

\* The steps of the main thread that talk to the worker.
LEMMA RunTypes == ASSUME Types, Start \/ Receive PROVE Types'
<1>1. CASE Start
  <2>1. CASE Fail
    BY <1>1, <2>1, FailTyped DEF Start, Types, TypeOK, MainTyped, handVars, outVars
  <2>2. CASE ~ Fail
    <3>1. InState("RUNNING") \in Status
      BY StateChanged DEF States
    <3>2. status' \in Status /\ dirty' \in BOOLEAN /\ early' = early
      BY <1>1, <2>2, <3>1, UpdateStatus DEF Start
    <3> QED
      BY <1>1, <2>2, <3>2 DEF Start, Types, TypeOK, handVars, outVars
  <2> QED
    BY <2>1, <2>2
<1>2. CASE Receive
  <2> DEFINE m == Head(toRunner)
  <2> USE DEF Types
  <2>1. /\ m \in Messages /\ toRunner' \in Seq(Messages) /\ Len(toRunner') = Len(toRunner) - 1
        /\ Len(toRunner) > 0
    BY <1>2 DEF Receive
  <2> HIDE DEF m
  <2>2. /\ MainTyped
        /\ pending' \subseteq Output /\ failed' \subseteq Output /\ again' \subseteq Output
        /\ uploading' \in [Output -> Counts] /\ uploads' \in [Output -> Nat]
        /\ worker' \in {"none", "forked", "running", "waiting", "dead"}
        /\ worker' = "dead" <=> worker = "dead"
    <3> USE RunnerAssumption DEF m
    <3>1. CASE m \in Output
      BY <1>2, <3>1, AnnouncedTyped DEF Receive, TypeOK, MainTyped, runVars, statVars
    <3>2. CASE m = "note" \/ m = "ns_req"
      BY <1>2, <3>2 DEF Receive, TypeOK, MainTyped, Counts, runVars, statVars, outVars
    <3>3. CASE m = "done"
      BY <1>2, <3>3, CancelledTyped
      DEF Receive, TypeOK, MainTyped, Counts, runVars, statVars, outVars
    <3>4. CASE m = "error"
      BY <1>2, <3>4, FailTyped DEF Receive, TypeOK, MainTyped, Counts, outVars
    <3> QED
      BY <2>1, <3>1, <3>2, <3>3, <3>4 DEF Messages
  <2> QED
    <3>1. UNCHANGED <<handler, told, filed, lost, sentMsgs, interrupted>>
      BY <1>2 DEF Receive, handVars
    <3>2. TypeOK'
      <4>1. Len(toRunner') <= MaxMessages + 1
        BY <2>1, RunnerAssumption DEF TypeOK
      <4> QED
        BY <2>2, <3>1, <4>1 DEF TypeOK, MainTyped, Counts
    <3> QED
      BY <2>1, <2>2, <3>1, <3>2 DEF MainTyped
<1> QED
  BY <1>1, <1>2

\* The steps of the other threads and of the worker.
LEMMA OtherTypes ==
    ASSUME Types, StatusRun \/ Interrupt \/ Emit \/ WorkerEnds \/ WorkerDies PROVE Types'
<1> USE DEF Types, TypeOK, runVars, statVars, handVars, outVars, workVars
<1>1. CASE Wake
  <2>1. handler' \in {"final", "push"} /\ dirty' \in BOOLEAN
    BY <1>1 DEF Wake
  <2> QED
    <3>1. TypeOK'
      BY <1>1, <2>1 DEF Wake
    <3> QED
      BY <1>1, <2>1, <3>1 DEF Wake
<1>2. ASSUME NEW last \in BOOLEAN, Push(last) PROVE Types'
  BY <1>2, RunnerAssumption DEF Push, PushJobStatus
<1>3. CASE Interrupt
  BY <1>3 DEF Interrupt, InterruptWorker
<1>4. CASE Emit
  BY <1>4, RunnerAssumption DEF Emit, Put, Messages
<1>5. CASE WorkerEnds
  <2>1. /\ worker = "running" /\ worker' = "dead"
        /\ toRunner' \in Seq(Messages) /\ Len(toRunner') = Len(toRunner) + 1
    BY <1>5 DEF WorkerEnds, Put, Messages
  <2>2. MaxMessages \in Nat
    BY RunnerAssumption
  <2> QED
    BY <1>5, <2>1, <2>2 DEF WorkerEnds
<1>6. CASE WorkerDies
  BY <1>6 DEF WorkerDies
<1> QED
  BY <1>1, <1>2, <1>3, <1>4, <1>5, <1>6 DEF StatusRun

\* The steps of an output handler.
LEMMA HandlerTypes == ASSUME Types, NEW o \in Output, Handler(o) PROVE Types'
<1> USE DEF Types, TypeOK, runVars, statVars, handVars, outVars, workVars
<1>1. CASE Upload(o)
  <2>1. uploading' \in [Output -> Counts]
    BY <1>1, MovedCounts DEF Upload, PushObject
  <2>2. uploads' \in [Output -> Nat]
    BY <1>1 DEF Upload, PushObject
  <2> QED
    BY SMTT(30), <1>1, <2>1, <2>2 DEF Upload, Counts
<1>2. ASSUME NEW r \in {"ok", "bad"}, UploadEnds(o, r) PROVE Types'
  <2>1. uploading' \in [Output -> Counts]
    BY <1>2, HandlerGone DEF UploadEnds
  <2>2. [status EXCEPT !.output = @ \cup {o}] \in Status
    BY DEF Status
  <2>3. status' \in Status /\ dirty' \in BOOLEAN /\ early' \in BOOLEAN /\ failed' \subseteq Output
    BY <1>2, <2>2, ErrorAdded, UpdateStatus DEF UploadEnds
  <2> QED
    BY SMTT(30), <1>2, <2>1, <2>3 DEF UploadEnds, Counts
<1> QED
  BY <1>1, <1>2 DEF Handler

\* Types is inductive.
LEMMA TypesNext == Types /\ [Next]_vars => Types'
<1> SUFFICES ASSUME Types, [Next]_vars PROVE Types'
  OBVIOUS
<1>1. CASE Next
  BY <1>1, MainTypes, RunTypes, OtherTypes, HandlerTypes DEF Next, Main
<1>2. CASE UNCHANGED vars
  BY <1>2 DEF vars, runVars, statVars, handVars, outVars, workVars, Types, TypeOK
<1> QED
  BY <1>1, <1>2

-----------------------------------------------------------------------------
(* Control: main thread and status handler *)

\* An exception ends the job as FAILED, if there is a handler to tell.
LEMMA FailEffect ==
    ASSUME Types, Fail
    PROVE  IF handler = "none" THEN main' = "ending" /\ exit' = "ERROR" /\ status' = status
           ELSE main' = "failing" /\ status'.state = "FAILED" /\ status'.output = status.output
BY StateChanged, UpdateStatus DEF Fail, States, Ended, statVars

\* A cancellation ends it as CANCELLED.
LEMMA CancelledEffect ==
    ASSUME Types, Cancelled
    PROVE  /\ main' = "ending" /\ exit' = "INTERRUPTED"
           /\ status'.state = "CANCELLED" /\ status'.output = status.output
BY StateChanged, UpdateStatus DEF Cancelled, States, Ended

\* The steps of the main thread leave the status handler alone, unless they start it.
MainLeaves ==
    /\ main \notin {"failing", "ending", "done"}
    /\ UNCHANGED <<told, filed, lost>>
    /\ handler' = handler \/ (main = "handshake" /\ handler' = "loop")

\* A step of the main thread on its way, or to its end.
OnItsWay ==
    /\ main' \notin {"failing", "ending", "done"} /\ status'.state \notin Ended
    /\ (handler' = "none") <=> (main' \in {"start", "handshake"})
    /\ handler' = "none" => status' = status

ToItsEnd ==
    /\ handler' = handler
    /\ IF handler = "none" THEN main' = "ending" /\ status' = status
       ELSE \/ main' = "failing" /\ status'.state = "FAILED"
            \/ main' = "ending" /\ <<status'.state, exit'>> \in Endings \ {<<"FAILED", "ERROR">>}

\* Such a step keeps Control.
LEMMA MainKeepsControl ==
    ASSUME Types, Control, MainLeaves, OnItsWay \/ ToItsEnd PROVE Control'
<1>1. handler' \notin {"final", "ended"}
  BY DEF MainLeaves, Types, TypeOK, Control, StateFollowsMain, LastIsFinal
<1>2. HandlerStarted'
  BY DEF Types, TypeOK, Control, HandlerStarted, MainLeaves, OnItsWay, ToItsEnd
<1>3. StateFollowsMain'
  BY DEF Types, TypeOK, Control, HandlerStarted, MainLeaves, OnItsWay, ToItsEnd, StateFollowsMain,
         Endings
<1>4. NotBegun' /\ LastIsFinal'
  BY <1>1 DEF Control, NotBegun, LastIsFinal, OnItsWay, ToItsEnd, MainLeaves
<1> QED
  BY <1>2, <1>3, <1>4 DEF Control

\* What a step of the main thread does to status and status handler.
LEMMA MainEffect ==
    ASSUME Types, Control,
           \/ ForkWorker \/ Handshake \/ BarrierReleased \/ BarrierInterrupted \/ FetchUser
           \/ FetchFromPeer \/ FetchEnds \/ Start \/ WorkerLost \/ Drain \/ Receive
    PROVE  MainLeaves /\ (OnItsWay \/ ToItsEnd)
<1>1. status.state \in States /\ status \in Status
  BY DEF Types, TypeOK, Status
<1>2. main \notin {"failing", "ending", "done"} => status.state \notin Ended
  BY DEF Control, StateFollowsMain, NotBegun, Ended
<1>3. ASSUME main \notin {"failing", "ending", "done"}, handler' = handler, Fail
      PROVE  ToItsEnd
  BY <1>3, FailEffect DEF ToItsEnd
<1>4. ASSUME handler # "none", handler' = handler, Cancelled
      PROVE  ToItsEnd
  BY <1>4, CancelledEffect DEF ToItsEnd, Endings
<1>5. ASSUME main \notin {"failing", "ending", "done"}, status' = status, handler' = handler,
             main' \notin {"failing", "ending", "done"},
             (main' \in {"start", "handshake"}) <=> (main \in {"start", "handshake"})
      PROVE  OnItsWay
  BY <1>2, <1>5 DEF OnItsWay, Control, HandlerStarted, Types, TypeOK
<1>6. handler = "none" => main \notin {"barrier", "user", "fetch", "verify", "run", "drain"}
  BY DEF Control, HandlerStarted
<1> USE DEF MainLeaves, runVars, statVars, handVars, outVars, workVars
<1>7. CASE ForkWorker
  BY <1>7, <1>3, <1>5 DEF ForkWorker
<1>8. CASE Handshake
  <2>1. handler = "none"
    BY <1>8 DEF Handshake, Control, HandlerStarted
  <2>2. CASE Fail /\ UNCHANGED handler
    BY <1>8, <1>3, <2>1, <2>2 DEF Handshake
  <2>3. CASE handler' = "loop" /\ main' \in {"barrier", "user"} /\ status' = InState("INITIALISED")
    <3>1. status'.state = "INITIALISED"
      BY <2>3, StateChanged DEF States
    <3> QED
      BY <1>8, <2>1, <2>3, <3>1 DEF Handshake, OnItsWay, Ended
  <2> QED
    BY <1>8, <2>2, <2>3 DEF Handshake
<1>9. CASE BarrierReleased
  BY <1>9, <1>3, <1>5 DEF BarrierReleased
<1>10. CASE BarrierInterrupted
  BY <1>10, <1>4, <1>6 DEF BarrierInterrupted
<1>11. CASE FetchUser
  BY <1>11, <1>3, <1>5 DEF FetchUser
<1>12. CASE FetchFromPeer
  BY <1>12, <1>3, <1>5 DEF FetchFromPeer
<1>13. CASE FetchEnds
  BY <1>13, <1>3, <1>5 DEF FetchEnds
<1>14. CASE Start
  <2>1. CASE Fail
    BY <1>14, <1>3, <2>1 DEF Start
  <2>2. CASE main' = "run" /\ Update(InState("RUNNING"))
    <3>1. status'.state = "RUNNING"
      BY <2>2, StateChanged, UpdateStatus DEF States
    <3> QED
      BY <1>14, <1>6, <2>2, <3>1 DEF Start, OnItsWay, Ended
  <2> QED
    BY <1>14, <2>1, <2>2 DEF Start
<1>15. CASE WorkerLost
  BY <1>15, <1>3 DEF WorkerLost
<1>16. CASE Drain
  <2>1. CASE Fail
    BY <1>16, <1>3, <2>1 DEF Drain
  <2>2. CASE main' = "ending" /\ exit' = "DONE" /\ Update(InState("SUCCESSFUL"))
    <3>1. status'.state = "SUCCESSFUL"
      BY <2>2, StateChanged, UpdateStatus DEF States, Ended
    <3> QED
      BY <1>16, <1>6, <2>2, <3>1 DEF Drain, ToItsEnd, Endings
  <2> QED
    BY <1>16, <2>1, <2>2 DEF Drain
<1>17. CASE Receive
  <2>1. MainLeaves /\ main = "run" /\ handler' = handler
    BY <1>17 DEF Receive
  <2>2. Head(toRunner) \in Messages
    BY <1>17 DEF Receive, Types
  <2>3. \/ main' \in {"run", "drain"} /\ status' = status
        \/ Cancelled \/ Fail
    BY <1>17, <2>1, <2>2, RunnerAssumption DEF Receive, Messages
  <2> QED
    BY <2>1, <2>3, <1>3, <1>4, <1>5, <1>6
<1> QED
  BY <1>7, <1>8, <1>9, <1>10, <1>11, <1>12, <1>13, <1>14, <1>15, <1>16, <1>17

\* The error follows the state, then the runner ends.
LEMMA EndControl == ASSUME Types, Control, AddError \/ Finish PROVE Control'
<1> USE DEF Types, TypeOK, Control, HandlerStarted, StateFollowsMain, NotBegun, LastIsFinal
<1>1. CASE AddError
  <2>1. status'.state = status.state /\ status'.errors /\ early' = early /\ handler' = handler
        /\ filed' = filed /\ main' = "ending" /\ exit' = "ERROR"
    BY <1>1, ErrorAdded, UpdateStatus DEF AddError, handVars
  <2> QED
    BY <1>1, <2>1 DEF AddError, Endings
<1>2. CASE Finish
  BY <1>2 DEF Finish, statVars, handVars, Endings
<1> QED
  BY <1>1, <1>2

\* The status handler goes to its end when it sees a final state, and writes it.
LEMMA StatusControl == ASSUME Types, Control, StatusRun PROVE Control'
<1> USE DEF Control, HandlerStarted, StateFollowsMain, NotBegun, LastIsFinal
<1>1. CASE Wake
  BY <1>1 DEF Wake, runVars
<1>2. CASE Push(FALSE)
  BY <1>2 DEF Push, runVars
<1>3. CASE Push(TRUE)
  <2>1. main \in {"failing", "ending", "done"} /\ (main # "failing" /\ status.state = "FAILED" =>
        status.errors)
    BY <1>3 DEF Push
  <2>2. /\ filed' = status /\ handler = "final" /\ handler' = "ended" /\ status' = status
        /\ main' = main /\ exit' = exit /\ (main = "failing" => early')
    BY <1>3 DEF Push, runVars
  <2> QED
    BY <2>1, <2>2
<1> QED
  BY <1>1, <1>2, <1>3 DEF StatusRun

\* An output handler adds an output or an error to the status, never once it is final.
LEMMA HandlerControl ==
    ASSUME Types, Control, SuccessIsComplete, NEW o \in Output, Handler(o) PROVE Control'
<1> USE DEF Control, HandlerStarted, StateFollowsMain, NotBegun, LastIsFinal, runVars, handVars
<1>1. CASE Upload(o)
  BY <1>1 DEF Upload, statVars
<1>2. ASSUME NEW r \in {"ok", "bad"}, UploadEnds(o, r) PROVE Control'
  <2>1. UNCHANGED <<runVars, handVars>>
    BY <1>2 DEF UploadEnds
  <2>2. CASE o \notin pending
    BY <1>2, <2>1, <2>2 DEF UploadEnds, statVars
  <2>3. CASE o \in pending
    <3>1. [status EXCEPT !.output = @ \cup {o}] \in Status
      BY DEF Types, TypeOK, Status
    <3>2. /\ [status EXCEPT !.output = @ \cup {o}].state = status.state
          /\ [status EXCEPT !.output = @ \cup {o}].errors = status.errors
      BY DEF Types, TypeOK, Status
    <3>3. status'.state = status.state /\ (status.errors => status'.errors) /\ early' = early
      BY <1>2, <2>3, <3>1, <3>2, ErrorAdded, UpdateStatus DEF UploadEnds
    <3>4. status.state # "SUCCESSFUL"
      BY <2>3 DEF SuccessIsComplete
    <3> QED
      BY <2>1, <3>3, <3>4, <1>2 DEF Endings
  <2> QED
    BY <2>2, <2>3
<1> QED
  BY <1>1, <1>2 DEF Handler

\* The steps that leave main thread, status and status handler alone.
LEMMA RestControl ==
    ASSUME Control, Interrupt \/ Emit \/ WorkerEnds \/ WorkerDies PROVE Control'
BY DEF Interrupt, Emit, WorkerEnds, WorkerDies, runVars, statVars, handVars, Control,
       HandlerStarted, StateFollowsMain, NotBegun, LastIsFinal

-----------------------------------------------------------------------------
(* Outputs and inputs *)

\* Who leaves outputs and handlers alone keeps what is known of them.
LEMMA OutputsAlone ==
    ASSUME OutputsUploaded, HandledOnce, UNCHANGED outVars, status'.output = status.output
    PROVE  OutputsUploaded' /\ HandledOnce'
BY DEF OutputsUploaded, HandledOnce, OneHandler, outVars

\* ... and what is known of a job that succeeded.
LEMMA SuccessAlone ==
    ASSUME SuccessIsComplete, UNCHANGED outVars, status'.output = status.output,
           status'.state = "SUCCESSFUL" => status.state = "SUCCESSFUL", fetched' = fetched
    PROVE  SuccessIsComplete'
BY DEF SuccessIsComplete, outVars

\* Inputs are fetched before they are verified, and stay.
LEMMA MainInputs ==
    ASSUME Types, Control, InputsFetched, Main \/ BarrierReleased PROVE InputsFetched'
<1>1. ASSUME Fail PROVE InputsFetched'
  BY <1>1 DEF Fail, InputsFetched
<1>2. ASSUME Cancelled PROVE InputsFetched'
  BY <1>2 DEF Cancelled, InputsFetched
<1>3. CASE ForkWorker \/ Handshake \/ BarrierReleased \/ BarrierInterrupted \/ FetchUser
  BY <1>3, <1>1, <1>2
  DEF ForkWorker, Handshake, BarrierReleased, BarrierInterrupted, FetchUser, InputsFetched
<1>4. CASE FetchFromPeer \/ FetchEnds \/ Start
  BY <1>4, <1>1 DEF FetchFromPeer, FetchEnds, Start, InputsFetched
<1>5. CASE Drain \/ WorkerLost \/ AddError \/ Finish
  BY <1>5, <1>1 DEF Drain, WorkerLost, AddError, Finish, InputsFetched
<1>6. CASE Receive
  <2>1. Head(toRunner) \in Messages /\ main = "run"
    BY <1>6 DEF Receive, Types
  <2>2. \/ main' \in {"run", "drain"} /\ fetched' = fetched
        \/ Cancelled \/ Fail
    BY <1>6, <2>1, RunnerAssumption DEF Receive, Messages, runVars
  <2> QED
    BY <2>1, <2>2, <1>1, <1>2 DEF InputsFetched
<1> QED
  BY <1>3, <1>4, <1>5, <1>6 DEF Main

\* An output that is announced, again or for the first time.
LEMMA AnnouncedOutputs ==
    ASSUME Types, OutputsUploaded, HandledOnce, NEW o \in Output, Announced(o), status' = status
    PROVE  OutputsUploaded' /\ HandledOnce'
<1>1. CASE UNCHANGED outVars
  BY <1>1, OutputsAlone
<1>2. CASE ~ UNCHANGED outVars
  <2>1. /\ uploading' = [uploading EXCEPT ![o].push = @ + 1] /\ pending' = pending \cup {o}
        /\ again' = (IF o \in pending THEN again \cup {o} ELSE again)
        /\ UNCHANGED <<failed, uploads>> /\ o \notin status.output \cup failed
    BY <1>2 DEF Announced
  <2>2. /\ uploading'[o].push = uploading[o].push + 1
        /\ uploading'[o].ok = uploading[o].ok /\ uploading'[o].bad = uploading[o].bad
        /\ \A p \in Output \ {o} : uploading'[p] = uploading[p]
    BY <2>1, HandlerAdded
  <2>3. OutputsUploaded'
    BY <2>1, <2>2 DEF OutputsUploaded
  <2>4. ASSUME NEW p \in Output \ again' PROVE OneHandler(p)'
    <3>1. p \notin again /\ OneHandler(p)
      BY <2>1, <2>4 DEF HandledOnce
    <3>2. CASE p = o
      BY <2>1, <2>2, <2>4, <3>1, <3>2 DEF OneHandler
    <3>3. CASE p # o
      BY <2>1, <2>2, <3>1, <3>3 DEF OneHandler
    <3> QED
      BY <3>2, <3>3
  <2> QED
    BY <2>3, <2>4 DEF HandledOnce
<1> QED
  BY <1>1, <1>2

\* The steps of the main thread.
LEMMA MainOutputs ==
    ASSUME Types, Control, Outputs, Main \/ BarrierReleased PROVE Outputs'
<1>1. InputsFetched'
  BY MainInputs DEF Outputs
<1>2. ASSUME Fail PROVE status'.output = status.output /\ status'.state # "SUCCESSFUL"
  BY <1>2, FailEffect DEF Control, NotBegun
<1>3. ASSUME Cancelled PROVE status'.output = status.output /\ status'.state # "SUCCESSFUL"
  BY <1>3, CancelledEffect
<1>4. ASSUME main \notin {"failing", "ending", "done"} PROVE status.state # "SUCCESSFUL"
  BY <1>4 DEF Control, NotBegun, StateFollowsMain, Ended
<1>5. ASSUME UNCHANGED outVars, status'.output = status.output,
             \/ status'.state # "SUCCESSFUL"
             \/ status'.state = status.state /\ fetched' = fetched
      PROVE  Outputs'
  BY <1>1, <1>5, OutputsAlone, SuccessAlone DEF Outputs, SuccessIsComplete
<1>6. CASE ForkWorker \/ BarrierReleased \/ BarrierInterrupted \/ FetchUser \/ FetchFromPeer
  BY <1>6, <1>2, <1>3, <1>4, <1>5
  DEF ForkWorker, BarrierReleased, BarrierInterrupted, FetchUser, FetchFromPeer, statVars
<1>7. CASE FetchEnds \/ WorkerLost \/ Finish
  BY <1>7, <1>2, <1>5 DEF FetchEnds, WorkerLost, Finish, statVars
<1>8. CASE Handshake
  <2>1. InState("INITIALISED").output = status.output /\ InState("INITIALISED").state # "SUCCESSFUL"
    BY StateChanged DEF States
  <2> QED
    BY <1>8, <2>1, <1>2, <1>5 DEF Handshake
<1>9. CASE Start
  <2>1. Update(InState("RUNNING")) =>
            status'.output = status.output /\ status'.state # "SUCCESSFUL"
    BY StateChanged, UpdateStatus DEF States
  <2> QED
    BY <1>9, <2>1, <1>2, <1>5 DEF Start
<1>10. CASE AddError
  <2>1. status'.output = status.output /\ status'.state = status.state
    BY <1>10, ErrorAdded, UpdateStatus DEF AddError
  <2> QED
    BY <1>10, <2>1, <1>5 DEF AddError
<1>11. CASE Drain
  <2>1. UNCHANGED outVars
    BY <1>11 DEF Drain
  <2>2. CASE Fail
    BY <2>1, <2>2, <1>2, <1>5
  <2>3. CASE /\ failed = {} /\ Required \subseteq status.output
             /\ Update(InState("SUCCESSFUL")) /\ UNCHANGED <<asked, fetched>>
    <3>1. status'.output = status.output
      BY <2>3, StateChanged, UpdateStatus DEF States, Ended
    <3>2. pending = {} /\ fetched = Input
      BY <1>11 DEF Drain, Outputs, InputsFetched
    <3>3. \A o \in Output : o \in status.output => uploads[o] > 0
      BY DEF Outputs, OutputsUploaded
    <3>4. status.output \subseteq Output
      BY DEF Types, TypeOK, Status
    <3>5. SuccessIsComplete'
      BY <2>1, <2>3, <3>1, <3>2, <3>3, <3>4 DEF SuccessIsComplete, outVars
    <3> QED
      BY <1>1, <2>1, <3>1, <3>5, OutputsAlone DEF Outputs
  <2> QED
    BY <1>11, <2>2, <2>3 DEF Drain
<1>12. CASE Receive
  <2>1. Head(toRunner) \in Messages /\ main = "run"
    BY <1>12 DEF Receive, Types
  <2>2. \/ Head(toRunner) \in Output /\ Announced(Head(toRunner)) /\ UNCHANGED statVars
        \/ UNCHANGED outVars /\ (UNCHANGED statVars \/ Cancelled \/ Fail)
    BY <1>12, <2>1, RunnerAssumption DEF Receive, Messages
  <2>3. CASE Head(toRunner) \in Output /\ Announced(Head(toRunner)) /\ UNCHANGED statVars
    <3>1. status' = status /\ status.state # "SUCCESSFUL"
      BY <2>1, <2>3, <1>4 DEF statVars
    <3> QED
      BY <1>1, <2>3, <3>1, AnnouncedOutputs DEF Outputs, SuccessIsComplete
  <2>4. CASE UNCHANGED outVars /\ (UNCHANGED statVars \/ Cancelled \/ Fail)
    BY <2>1, <2>4, <1>2, <1>3, <1>4, <1>5 DEF statVars
  <2> QED
    BY <2>2, <2>3, <2>4
<1> QED
  BY <1>6, <1>7, <1>8, <1>9, <1>10, <1>11, <1>12 DEF Main

\* The steps of the status handler, the interrupt and the worker touch no output.
LEMMA RestOutputs ==
    ASSUME Outputs, StatusRun \/ Interrupt \/ Emit \/ WorkerEnds \/ WorkerDies PROVE Outputs'
<1>1. UNCHANGED <<main, fetched, status>> /\ UNCHANGED outVars
  BY DEF StatusRun, Wake, Push, Interrupt, Emit, WorkerEnds, WorkerDies, runVars, statVars
<1> QED
  BY <1>1, OutputsAlone, SuccessAlone DEF Outputs, InputsFetched

\* An upload makes an object, or not.
LEMMA UploadOutputs ==
    ASSUME Types, Outputs, NEW o \in Output, Upload(o) PROVE Outputs'
<1>1. PICK r \in {"ok", "bad"} :
          /\ uploading' = Moved(o, "push", r) /\ uploading[o].push > 0
          /\ \/ uploads' = [uploads EXCEPT ![o] = @ + 1]
             \/ r = "bad" /\ uploads' = uploads
  BY DEF Upload, PushObject
<1>2. /\ \A p \in Output \ {o} : uploading'[p] = uploading[p]
      /\ uploading'[o].push = uploading[o].push - 1
      /\ uploading'[o].ok = uploading[o].ok + (IF r = "ok" THEN 1 ELSE 0)
      /\ uploading'[o].bad = uploading[o].bad + (IF r = "bad" THEN 1 ELSE 0)
  BY <1>1, MovedCounts
<1>3. /\ UNCHANGED <<main, fetched, status, pending, failed, again>>
      /\ \A p \in Output \ {o} : uploads'[p] = uploads[p]
      /\ uploads'[o] \in {uploads[o], uploads[o] + 1} /\ (r = "ok" => uploads'[o] = uploads[o] + 1)
  BY <1>1 DEF Upload, runVars, statVars, Types, TypeOK
<1>4. \A p \in Output : uploads[p] \in Nat /\ uploads'[p] \in Nat /\ uploads'[p] >= uploads[p]
  BY SMTT(30), <1>3 DEF Types, TypeOK
<1>5. InputsFetched'
  BY <1>3 DEF Outputs, InputsFetched
<1>6. OutputsUploaded'
  <2> SUFFICES ASSUME NEW p \in Output, p \in status.output \/ uploading'[p].ok > 0
               PROVE  uploads'[p] > 0
    BY <1>3 DEF OutputsUploaded
  <2>1. CASE p = o /\ r = "ok"
    BY <2>1, <1>3, <1>4
  <2>2. CASE ~ (p = o /\ r = "ok")
    <3>1. uploading'[p].ok = uploading[p].ok
      BY <2>2, <1>2, CountsTyped
    <3> QED
      <4>1. uploads[p] > 0
        BY <3>1 DEF Outputs, OutputsUploaded
      <4> QED
        BY <4>1, <1>4
  <2> QED
    BY <2>1, <2>2
<1>7. SuccessIsComplete'
  <2>1. status.output \subseteq Output
    BY DEF Types, TypeOK, Status
  <2> QED
    BY <2>1, <1>3, <1>4 DEF Outputs, SuccessIsComplete
<1>8. ASSUME NEW p \in Output \ again PROVE OneHandler(p)'
  <2>1. OneHandler(p)
    BY DEF Outputs, HandledOnce
  <2>2. CASE p = o
    BY <2>1, <2>2, <1>1, <1>2, <1>3, <1>4, CountsTyped DEF OneHandler
  <2>3. CASE p # o
    BY <2>1, <2>3, <1>2, <1>3 DEF OneHandler
  <2> QED
    BY <2>2, <2>3
<1> QED
  BY <1>3, <1>5, <1>6, <1>7, <1>8 DEF Outputs, HandledOnce

\* A handler reports its output, or its failure, unless another one has.
LEMMA UploadEndsOutputs ==
    ASSUME Types, Outputs, NEW o \in Output, NEW r \in {"ok", "bad"}, UploadEnds(o, r)
    PROVE  Outputs'
<1>1. /\ \A p \in Output \ {o} : uploading'[p] = uploading[p]
      /\ uploading'[o].push = uploading[o].push
      /\ uploading'[o].ok = uploading[o].ok - (IF r = "ok" THEN 1 ELSE 0)
      /\ uploading'[o].bad = uploading[o].bad - (IF r = "bad" THEN 1 ELSE 0)
      /\ uploading[o][r] > 0
  BY ZenonT(40), HandlerGone DEF UploadEnds
<1>2. UNCHANGED <<main, fetched, uploads, again>> /\ pending' = pending \ {o}
  BY DEF UploadEnds, runVars
<1>3. status.output \subseteq Output /\ failed \subseteq Output
  BY DEF Types, TypeOK, Status
<1>4. /\ status'.state = status.state
      /\ IF o \in pending
         THEN \/ r = "ok" /\ status'.output = status.output \cup {o} /\ failed' = failed
              \/ r = "bad" /\ status'.output = status.output /\ failed' = failed \cup {o}
         ELSE status' = status /\ failed' = failed
  <2>1. /\ [status EXCEPT !.output = @ \cup {o}] \in Status
        /\ [status EXCEPT !.output = @ \cup {o}].state = status.state
        /\ [status EXCEPT !.output = @ \cup {o}].output = status.output \cup {o}
    BY DEF Types, TypeOK, Status
  <2> QED
    BY <2>1, ErrorAdded, UpdateStatus DEF UploadEnds, statVars
<1>5. InputsFetched'
  BY <1>2 DEF Outputs, InputsFetched
<1>6. r = "ok" => uploads[o] > 0
  BY <1>1 DEF Outputs, OutputsUploaded
<1>7. OutputsUploaded'
  BY <1>1, <1>2, <1>4, <1>6, CountsTyped DEF Outputs, OutputsUploaded
<1>8. SuccessIsComplete'
  BY <1>2, <1>4 DEF Outputs, SuccessIsComplete
<1>9. ASSUME NEW p \in Output \ again PROVE OneHandler(p)'
  <2>1. OneHandler(p) /\ uploads[p] \in Nat
    BY DEF Outputs, HandledOnce, Types, TypeOK
  <2>2. CASE p = o
    <3> DEFINE u == uploading[o]
               v == uploading'[o]
    <3>1. o \in pending
      BY <2>1, <2>2, <1>1 DEF OneHandler
    <3>2. u.push + u.ok + u.bad = 1 /\ uploads[o] + u.push <= 1
      BY <2>1, <2>2, <3>1 DEF OneHandler
    <3>3. (r = "ok" => u.ok > 0) /\ (r = "bad" => u.bad > 0)
      BY <1>1
    <3>4. u.push = 0 /\ v.push = 0 /\ v.ok = 0 /\ v.bad = 0 /\ uploads[o] <= 1
      <4>1. u.push \in Nat /\ u.ok \in Nat /\ u.bad \in Nat /\ uploads[o] \in Nat
        BY <2>1, <2>2, CountsTyped
      <4>2. v.push = u.push
        BY <1>1
      <4>3. CASE r = "ok"
        <5>1. v.ok = u.ok - 1 /\ v.bad = u.bad
          BY <1>1, <4>1, <4>3
        <5> HIDE DEF u, v
        <5> QED
          BY <3>2, <3>3, <4>1, <4>2, <4>3, <5>1
      <4>4. CASE r = "bad"
        <5>1. v.ok = u.ok /\ v.bad = u.bad - 1
          BY <1>1, <4>1, <4>4
        <5>2. u.bad > 0
          BY <3>3, <4>4
        <5> HIDE DEF u, v
        <5>3. u.push = 0 /\ u.ok = 0 /\ u.bad = 1
          BY <3>2, <4>1, <5>2
        <5> QED
          BY <3>2, <4>1, <4>2, <5>1, <5>3
      <4> QED
        BY <4>3, <4>4
    <3>5. o \notin pending' /\ o \in (status.output \cup failed)'
      BY <3>1, <1>2, <1>4
    <3> QED
      BY <2>2, <3>4, <3>5, <1>2 DEF OneHandler
  <2>3. CASE p # o
    BY <2>1, <2>3, <1>1, <1>2, <1>4 DEF OneHandler
  <2> QED
    BY <2>2, <2>3
<1> QED
  BY <1>2, <1>5, <1>7, <1>8, <1>9 DEF Outputs, HandledOnce

-----------------------------------------------------------------------------
(* The theorems *)

\* RunnerInv is inductive.
LEMMA RunnerNext == RunnerInv /\ [Next]_vars => RunnerInv'
<1> SUFFICES ASSUME RunnerInv, [Next]_vars PROVE RunnerInv'
  OBVIOUS
<1>1. Types'
  BY TypesNext DEF RunnerInv
<1>2. Control'
  <2>1. CASE Main \/ BarrierReleased
    BY <2>1, MainEffect, MainKeepsControl, EndControl DEF Main, RunnerInv
  <2>2. CASE StatusRun \/ Interrupt \/ Emit \/ WorkerEnds \/ WorkerDies
    BY <2>2, StatusControl, RestControl DEF RunnerInv
  <2>3. ASSUME NEW o \in Output, Handler(o) PROVE Control'
    BY <2>3, HandlerControl DEF RunnerInv, Outputs
  <2>4. CASE UNCHANGED vars
    BY <2>4 DEF vars, runVars, statVars, handVars, RunnerInv, Control, HandlerStarted,
                StateFollowsMain, NotBegun, LastIsFinal
  <2> QED
    BY <2>1, <2>2, <2>3, <2>4 DEF Next
<1>3. Outputs'
  <2>1. CASE Main \/ BarrierReleased
    BY <2>1, MainOutputs DEF RunnerInv
  <2>2. CASE StatusRun \/ Interrupt \/ Emit \/ WorkerEnds \/ WorkerDies
    BY <2>2, RestOutputs DEF RunnerInv
  <2>3. ASSUME NEW o \in Output, Handler(o) PROVE Outputs'
    BY <2>3, UploadOutputs, UploadEndsOutputs DEF Handler, RunnerInv
  <2>4. CASE UNCHANGED vars
    <3>1. UNCHANGED <<main, fetched, status>> /\ UNCHANGED outVars
      BY <2>4 DEF vars, runVars, statVars
    <3> QED
      BY <3>1, OutputsAlone, SuccessAlone DEF RunnerInv, Outputs, InputsFetched
  <2> QED
    BY <2>1, <2>2, <2>3, <2>4 DEF Next
<1> QED
  BY <1>1, <1>2, <1>3 DEF RunnerInv

\* Every state of a run is typed, and the pipe never holds more than the messages counted.
THEOREM TypeCorrect == Spec => []TypeOK
<1>1. RunnerInv => TypeOK
  BY DEF RunnerInv, Types
<1> QED
  BY <1>1, RunnerInit, RunnerNext, PTL DEF Spec

\* SUCCESSFUL means that every required output is in a repository, that none is on its way
\* or has failed, and that all inputs were there.
THEOREM SuccessCorrect == Spec => []SuccessIsComplete
<1>1. RunnerInv => SuccessIsComplete
  BY DEF RunnerInv, Outputs
<1> QED
  BY <1>1, RunnerInit, RunnerNext, PTL DEF Spec

\* The last status written, and the exit code, are those of the end of the job.
THEOREM FinalStatusCorrect == Spec => []FinalStatusIsLast
<1>1. RunnerInv => FinalStatusIsLast
  BY DEF RunnerInv, Control, StateFollowsMain, LastIsFinal, Endings, FinalStatusIsLast
<1> QED
  BY <1>1, RunnerInit, RunnerNext, PTL DEF Spec

\* An output is uploaded once, unless the processor announced it again meanwhile.
THEOREM UploadedOnceCorrect == Spec => []UploadedOnce
<1>1. RunnerInv => UploadedOnce
  BY CountsTyped DEF RunnerInv, Outputs, HandledOnce, OneHandler, UploadedOnce, Types, TypeOK
<1> QED
  BY <1>1, RunnerInit, RunnerNext, PTL DEF Spec
===============================================================================
