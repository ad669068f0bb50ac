------------------------------ MODULE JobRunner ------------------------------
(***************************************************************************)
(* The program in a job's container (cli/cmd_job_runner.py) and the child  *)
(* process it forks to run the processor (core/proc_worker.py).  Threads   *)
(* of the runner: main (execute), the status handler, one output handler   *)
(* for every output announced, and the P2P loop, on which the custodian's  *)
(* interrupt arrives.  Runner and worker share a pipe and one event.       *)
(***************************************************************************)
EXTENDS Integers, Sequences, FiniteSets

CONSTANTS
    Output,       \* outputs of the task
    Required,     \* those the descriptor does not call optional
    Input,        \* inputs by reference
    Peers,        \* nodes with a repository, the custodian first: a sequence
    Holds,        \* [peer -> inputs it has]
    IsBatch,      \* the job is a member of a batch
    MaxMessages,  \* bound: messages of the processor besides the last one
    MaxLost       \* bound: pushes of a status that fail ten times

ASSUME RunnerAssumption ==
    /\ Required \subseteq Output
    /\ Output \cap {"note", "ns_req", "done", "error"} = {}   \* kinds of other messages
    /\ Len(Peers) \in Nat /\ DOMAIN Peers = 1..Len(Peers)
    /\ \A i \in DOMAIN Peers : Holds[Peers[i]] \subseteq Input
    /\ IsBatch \in BOOLEAN /\ MaxMessages \in Nat /\ MaxLost \in Nat

VARIABLES
    main,         \* where execute() is
    exit,         \* job.exitcode
    interrupted,  \* _interrupted
    asked,        \* fetching: the peers asked so far
    fetched,      \* inputs in the working directory
    status,       \* the StatusHandler's _job_status
    dirty,        \* _last_update # _last_push
    handler,      \* where the status handler is
    told,         \* the last status the custodian received
    filed,        \* the last status written to job.status
    lost,
    pending, failed,     \* _pending_output, _failed_output
    uploading,    \* [Output -> handlers of it that run, by step]
    uploads,      \* [Output -> objects made of it in a repository]
    again,        \* history: outputs announced again while pending
    early,        \* history: the final status was written before the error was added
    worker,       \* the child process
    toRunner,     \* messages of the worker in the pipe
    event,        \* the interrupt event
    sentMsgs

runVars == <<main, exit, asked, fetched>>
statVars == <<status, dirty, early>>
handVars == <<handler, told, filed, lost>>
outVars == <<pending, failed, uploading, uploads, again>>
workVars == <<worker, toRunner, sentMsgs>>
vars == <<runVars, statVars, handVars, outVars, workVars, interrupted, event>>

Ended == {"SUCCESSFUL", "CANCELLED", "FAILED"}
States == {"UNINITIALISED", "INITIALISED", "RUNNING"} \cup Ended
Status == [state : States, output : SUBSET Output, errors : BOOLEAN]
\* Fault: a new status handler has no state yet
FreshWithoutState == [state |-> "none", output |-> {}, errors |-> FALSE]

Fresh == [state |-> "UNINITIALISED", output |-> {}, errors |-> FALSE]

NoStatus == [state |-> "none", output |-> {}, errors |-> FALSE]

Init ==
    /\ main = "start" /\ exit = "none" /\ interrupted = FALSE
    /\ asked = 0 /\ fetched = {}
    /\ status = Fresh /\ dirty = FALSE /\ early = FALSE
    /\ handler = "none" /\ told = NoStatus /\ filed = NoStatus /\ lost = 0
    /\ pending = {} /\ failed = {} /\ again = {}
    /\ uploading = [o \in Output |-> [push |-> 0, ok |-> 0, bad |-> 0]]
    /\ uploads = [o \in Output |-> 0]
    /\ worker = "none" /\ toRunner = <<>> /\ event = FALSE /\ sentMsgs = 0

-----------------------------------------------------------------------------
(* StatusHandler *)

\* update(): timestamps are milliseconds, so an update in the millisecond of the one
\* that was pushed last does not count as a change
Update(s) ==
    /\ status' = s
    /\ IF s = status THEN UNCHANGED dirty
       ELSE dirty' = TRUE \/ (handler = "loop" /\ filed # NoStatus /\ UNCHANGED dirty)
    /\ UNCHANGED early

InState(s) == [status EXCEPT !.state = s]

\* Fault: a last status is sent only when the timestamps say that something changed
WakeWhenDirty ==
    /\ handler = "loop"
    /\ \/ status.state \in Ended /\ handler' = IF dirty THEN "final" ELSE "ended"
       \/ status.state \notin Ended /\ dirty /\ handler' = "push"
    /\ dirty' = IF handler' = "push" THEN FALSE ELSE dirty
    /\ UNCHANGED <<runVars, status, early, told, filed, lost, outVars, workVars,
                   interrupted, event>>

\* the loop looks at the state without the lock, then at the timestamps
Wake ==
    /\ handler = "loop"
    /\ \/ status.state \in Ended /\ handler' = "final"
       \/ status.state \notin Ended /\ dirty /\ handler' = "push"
    /\ dirty' = IF handler' = "push" THEN FALSE ELSE dirty
    /\ UNCHANGED <<runVars, status, early, told, filed, lost, outVars, workVars,
                   interrupted, event>>

\* the custodian is told, or ten attempts fail
PushJobStatus ==
    \/ told' = status /\ UNCHANGED lost
    \/ lost < MaxLost /\ lost' = lost + 1 /\ UNCHANGED told

\* _push_status: the status is written as it is now, and pushed unless it is CANCELLED
Push(last) ==
    /\ handler = IF last THEN "final" ELSE "push"
    /\ filed' = status
    /\ \/ status.state # "CANCELLED" /\ PushJobStatus
       \/ status.state = "CANCELLED" /\ UNCHANGED <<told, lost>>
    /\ handler' = IF last THEN "ended" ELSE "loop"
    /\ early' = (early \/ (last /\ main = "failing"))
    /\ UNCHANGED <<runVars, status, dirty, outVars, workVars, interrupted, event>>

StatusRun == Wake \/ Push(FALSE) \/ Push(TRUE)

-----------------------------------------------------------------------------
(* JobRunner.execute *)

\* an exception: the state first, the error in the next statement, both under a lock
\* that the status handler does not take
Fail ==
    IF handler = "none"
    THEN /\ main' = "ending" /\ exit' = "ERROR" /\ UNCHANGED <<statVars, asked, fetched>>
    ELSE /\ main' = "failing" /\ Update(InState("FAILED")) /\ UNCHANGED <<exit, asked, fetched>>

AddError ==
    /\ main = "failing"
    /\ Update([status EXCEPT !.errors = TRUE])
    /\ main' = "ending" /\ exit' = "ERROR"
    /\ UNCHANGED <<asked, fetched, handVars, outVars, workVars, interrupted, event>>

Fork == worker' = "forked"

\* the processor is found, the worker forked before any thread of the transport exists
ForkWorker ==
    /\ main = "start"
    /\ \/ Fork /\ main' = "handshake"
          /\ UNCHANGED <<exit, asked, fetched, statVars>>
       \/ Fail /\ UNCHANGED worker
    /\ UNCHANGED <<handVars, outVars, toRunner, sentMsgs, interrupted, event>>

\* handshake with the custodian; without a job there is nothing to report to
Handshake ==
    /\ main = "handshake"
    /\ \/ /\ main' = IF IsBatch THEN "barrier" ELSE "user"
          /\ handler' = "loop"
          /\ status' = InState("INITIALISED") /\ dirty' = TRUE
          /\ UNCHANGED <<exit, asked, fetched, early>>
       \/ Fail /\ UNCHANGED handler
    /\ UNCHANGED <<told, filed, lost, outVars, workVars, interrupted, event>>

Cancelled == main' = "ending" /\ exit' = "INTERRUPTED" /\ Update(InState("CANCELLED"))

\* _await_batch ends with the release of the barrier, or raises when the mappings that
\* came with it are incomplete
BarrierReleased ==
    /\ main = "barrier"
    /\ \/ ~ interrupted /\ main' = "user" /\ UNCHANGED <<exit, asked, fetched, statVars>>
       \/ Fail
    /\ UNCHANGED <<handVars, outVars, workVars, interrupted, event>>

\* Fault: the wait at the barrier does not look at the interrupt
WaitsForRelease ==
    /\ main = "barrier" /\ interrupted /\ worker = "dead"
    /\ Cancelled
    /\ UNCHANGED <<asked, fetched, handVars, outVars, workVars, interrupted, event>>

\* ... or with an interrupt, noticed while waiting or right after the release
BarrierInterrupted ==
    /\ main = "barrier" /\ interrupted
    /\ Cancelled
    /\ UNCHANGED <<asked, fetched, handVars, outVars, workVars, interrupted, event>>

FetchUser ==
    /\ main = "user"
    /\ \/ main' = "fetch" /\ UNCHANGED <<exit, asked, fetched, statVars>>
       \/ Fail
    /\ UNCHANGED <<handVars, outVars, workVars, interrupted, event>>

\* the lookup: what a peer has of the inputs still missing
LookedUp(p) == Holds[p] \ fetched

\* ... each of which may fail to download
Downloads(p) == SUBSET LookedUp(p)

\* one peer of _fetch_reference_input_data_objects: what it does not have, what cannot
\* be downloaded from it, and everything when it is not reached, is left to the others
FetchFromPeer ==
    /\ main = "fetch" /\ fetched # Input /\ asked < Len(Peers)
    /\ \/ /\ \E got \in Downloads(Peers[asked + 1]) :
                fetched' = fetched \cup got
          /\ asked' = asked + 1
          /\ UNCHANGED <<main, exit, statVars>>
       \/ Fail      \* the user has no access, or gave no signature
    /\ UNCHANGED <<handVars, outVars, workVars, interrupted, event>>

FetchEnds ==
    /\ main = "fetch"
    /\ \/ fetched = Input /\ main' = "verify" /\ UNCHANGED <<exit, asked, fetched, statVars>>
       \/ fetched # Input /\ asked = Len(Peers) /\ Fail
    /\ UNCHANGED <<handVars, outVars, workVars, interrupted, event>>

\* _verify_inputs_and_outputs, then the run command goes to the worker
Start ==
    /\ main = "verify"
    /\ \/ /\ main' = "run" /\ Update(InState("RUNNING"))
          /\ worker' = IF worker = "forked" THEN "running" ELSE worker
          /\ UNCHANGED <<exit, asked, fetched>>
       \/ Fail /\ UNCHANGED worker
    /\ UNCHANGED <<handVars, outVars, toRunner, sentMsgs, interrupted, event>>

\* Fault: only outputs that failed before are ignored
AnnouncedTwice(o) ==
    IF o \in failed THEN UNCHANGED outVars
    ELSE /\ pending' = pending \cup {o}
         /\ again' = IF o \in pending THEN again \cup {o} ELSE again
         /\ uploading' = [uploading EXCEPT ![o].push = @ + 1]
         /\ UNCHANGED <<failed, uploads>>

\* on_output_available
Announced(o) ==
    IF o \in status.output \cup failed THEN UNCHANGED outVars
    ELSE /\ pending' = pending \cup {o}
         /\ again' = IF o \in pending THEN again \cup {o} ELSE again
         /\ uploading' = [uploading EXCEPT ![o].push = @ + 1]
         /\ UNCHANGED <<failed, uploads>>

\* ProcessorWorker.run: one message of the pipe
Receive ==
    /\ main = "run" /\ toRunner # <<>>
    /\ LET m == Head(toRunner) IN
       /\ toRunner' = Tail(toRunner)
       /\ CASE m \in Output -> Announced(m) /\ UNCHANGED <<runVars, statVars, worker>>
            [] m = "note" -> UNCHANGED <<runVars, statVars, outVars, worker>>
            [] m = "ns_req" ->
                 /\ worker' = IF worker = "waiting" THEN "running" ELSE worker
                 /\ UNCHANGED <<runVars, statVars, outVars>>
            [] m = "done" ->
                 /\ IF interrupted THEN Cancelled
                    ELSE main' = "drain" /\ UNCHANGED <<exit, statVars>>
                 /\ UNCHANGED <<asked, fetched, outVars, worker>>
            [] m = "error" -> Fail /\ UNCHANGED <<outVars, worker>>
    /\ UNCHANGED <<handVars, sentMsgs, interrupted, event>>

\* the pipe is at its end without a last message
WorkerLost ==
    /\ main = "run" /\ toRunner = <<>> /\ worker = "dead"
    /\ Fail
    /\ UNCHANGED <<handVars, outVars, workVars, interrupted, event>>

\* Fault: the pending outputs are not waited for
DoesNotWait ==
    /\ main = "drain"
    /\ IF failed # {} \/ ~ Required \subseteq status.output THEN Fail
       ELSE /\ main' = "ending" /\ exit' = "DONE"
            /\ Update(InState("SUCCESSFUL")) /\ UNCHANGED <<asked, fetched>>
    /\ UNCHANGED <<handVars, outVars, workVars, interrupted, event>>

\* the pending outputs are waited for, then counted
Drain ==
    /\ main = "drain" /\ pending = {}
    /\ IF failed # {} \/ ~ Required \subseteq status.output THEN Fail
       ELSE /\ main' = "ending" /\ exit' = "DONE"
            /\ Update(InState("SUCCESSFUL")) /\ UNCHANGED <<asked, fetched>>
    /\ UNCHANGED <<handVars, outVars, workVars, interrupted, event>>

\* the status handler is joined for five seconds at most, then the worker is stopped
Finish ==
    /\ main = "ending"
    /\ main' = "done"
    /\ worker' = IF worker = "none" THEN worker ELSE "dead"
    /\ UNCHANGED <<exit, asked, fetched, statVars, handVars, outVars, toRunner, sentMsgs,
                   interrupted, event>>

\* the worker is told, if there is one
InterruptWorker == event' = (worker # "none")

\* on_job_cancel, as soon as the P2P service is up
Interrupt ==
    /\ main \notin {"start", "done"} /\ ~ interrupted
    /\ interrupted' = TRUE
    /\ InterruptWorker
    /\ UNCHANGED <<runVars, statVars, handVars, outVars, workVars>>

Main ==
    \/ ForkWorker \/ Handshake \/ BarrierInterrupted \/ FetchUser \/ FetchFromPeer
    \/ FetchEnds \/ Start \/ Receive \/ WorkerLost \/ Drain \/ AddError \/ Finish

-----------------------------------------------------------------------------
(* OutputObjectHandler *)

Moved(o, from, to) == [uploading EXCEPT ![o][from] = @ - 1, ![o][to] = @ + 1]

\* the push succeeds, fails, or its answer is lost
PushObject(o) ==
    \/ /\ uploads' = [uploads EXCEPT ![o] = @ + 1]
       /\ \E r \in {"ok", "bad"} : uploading' = Moved(o, "push", r)
    \/ uploading' = Moved(o, "push", "bad") /\ UNCHANGED uploads

\* push_data_object: straight to the custodian, through it to any other target
Upload(o) ==
    /\ uploading[o].push > 0
    /\ PushObject(o)
    /\ UNCHANGED <<runVars, statVars, handVars, pending, failed, again, workVars,
                   interrupted, event>>

\* remove_pending_output; a second handler of the output finds it gone (KeyError), tries
\* again as for a failure, and ends
UploadEnds(o, r) ==
    /\ uploading[o][r] > 0
    /\ uploading' = [uploading EXCEPT ![o][r] = @ - 1]
    /\ pending' = pending \ {o}
    /\ IF o \in pending
       THEN IF r = "ok"
            THEN Update([status EXCEPT !.output = @ \cup {o}]) /\ UNCHANGED failed
            ELSE Update([status EXCEPT !.errors = TRUE]) /\ failed' = failed \cup {o}
       ELSE UNCHANGED <<statVars, failed>>
    /\ UNCHANGED <<runVars, handVars, uploads, again, workVars, interrupted, event>>

Handler(o) == Upload(o) \/ \E r \in {"ok", "bad"} : UploadEnds(o, r)

-----------------------------------------------------------------------------
(* The worker process *)

Put(m) == toRunner' = Append(toRunner, m)

\* progress, messages, outputs, and calls of the namespace that wait for their answer
Emit ==
    /\ worker = "running" /\ sentMsgs < MaxMessages
    /\ sentMsgs' = sentMsgs + 1
    /\ \E m \in Output \cup {"note", "ns_req"} :
          /\ Put(m)
          /\ worker' = IF m = "ns_req" THEN "waiting" ELSE worker
    /\ UNCHANGED <<runVars, statVars, handVars, outVars, interrupted, event>>

\* run() of the processor returns or raises
WorkerEnds ==
    /\ worker = "running"
    /\ \E m \in {"done", "error"} : Put(m)
    /\ worker' = "dead"
    /\ UNCHANGED <<runVars, statVars, handVars, outVars, sentMsgs, interrupted, event>>

WorkerDies ==
    /\ worker \in {"forked", "running", "waiting"} /\ main # "done"
    /\ worker' = "dead"
    /\ UNCHANGED <<runVars, statVars, handVars, outVars, toRunner, sentMsgs, interrupted, event>>

Next ==
    \/ Main \/ BarrierReleased \/ StatusRun \/ Interrupt
    \/ \E o \in Output : Handler(o)
    \/ Emit \/ WorkerEnds \/ WorkerDies

\* every thread goes on, but the release of the barrier may never come; the processor ends by itself, or because it is told to
Fairness ==
    /\ WF_vars(Main) /\ WF_vars(StatusRun) /\ WF_vars(WorkerEnds)
    /\ \A o \in Output : WF_vars(Handler(o))

Spec == Init /\ [][Next]_vars /\ Fairness

-----------------------------------------------------------------------------
(* Properties *)

TypeOK ==
    /\ main \in {"start", "handshake", "barrier", "user", "fetch", "verify", "run",
                 "drain", "failing", "ending", "done"}
    /\ exit \in {"none", "DONE", "INTERRUPTED", "ERROR"}
    /\ status \in Status /\ told \in Status \cup {NoStatus} /\ filed \in Status \cup {NoStatus}
    /\ handler \in {"none", "loop", "push", "final", "ended"}
    /\ pending \subseteq Output /\ failed \subseteq Output /\ fetched \subseteq Input
    /\ uploading \in [Output -> [push : Nat, ok : Nat, bad : Nat]]
    /\ uploads \in [Output -> Nat]
    /\ worker \in {"none", "forked", "running", "waiting", "dead"}
    /\ Len(toRunner) <= MaxMessages + 1

\* A job is SUCCESSFUL only if every required output was uploaded, no output it announced
\* is still on its way or has failed, and its processor returned with every input at hand.
SuccessIsComplete ==
    status.state = "SUCCESSFUL" =>
        /\ Required \subseteq status.output
        /\ pending = {} /\ failed = {} /\ fetched = Input
        /\ \A o \in status.output : uploads[o] > 0

\* However the status handler and the other threads interleave, and whatever updates fall
\* into the same millisecond, the last status written is the one the job ended with: its
\* state and all outputs and errors, unless the handler's final look at the status fell
\* between the two statements that set FAILED and add the error, or an output handler
\* ended after that; and the exit code in the working directory agrees with it.
FinalStatusIsLast ==
    handler = "ended" /\ main = "done" =>
        /\ filed.state = status.state
        /\ status.state = "SUCCESSFUL" => filed = status
        /\ status.state = "FAILED" => filed.errors \/ early
        /\ exit = CASE status.state = "SUCCESSFUL" -> "DONE"
                    [] status.state = "CANCELLED" -> "INTERRUPTED"
                    [] status.state = "FAILED" -> "ERROR"

\* An output becomes one data object at most, unless the processor announced it again
\* while its upload was pending.
UploadedOnce == \A o \in Output : uploads[o] > 1 => o \in again

\* A runner that is interrupted comes to its end: at the barrier, where a release may
\* never come, or when its processor stops.
InterruptedEnds == interrupted ~> main = "done" /\ handler \in {"none", "ended"}
=============================================================================
