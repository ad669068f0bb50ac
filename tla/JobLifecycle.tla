---------------------------- MODULE JobLifecycle ----------------------------
(***************************************************************************)
(* The life of the jobs a custodian node executes with its Docker RTI      *)
(* (simaas/rti/base.py and simaas/plugins/builtins/rti_docker/service.py). *)
(*                                                                         *)
(* Two threads of the custodian act on a job, each running one asyncio     *)
(* loop: "rest" serves users (submit, cancel, purge) and "p2p" serves the  *)
(* job's runner (handshake, status push), strictly one request at a time.  *)
(* A coroutine keeps its loop until it awaits, so two coroutines of one    *)
(* loop interleave at awaits only, but the loops interleave anywhere: each *)
(* read of a job record and the commit that follows it are two steps here. *)
(* Sessions are per call and nothing locks a record between the two.       *)
(***************************************************************************)
EXTENDS Naturals, FiniteSets

CONSTANTS
    Job,            \* every job that may be submitted
    NoJob,          \* no job
    Batch,          \* the sets of jobs submitted together (a singleton: a single task)
    RetainHistory,  \* retain_job_history: containers are kept after the job ended
    CancelBy,       \* the jobs their user may cancel
    PurgeBy,        \* the jobs their user may purge
    Mortal,         \* the jobs whose container may die without a word
    SubmitMayFail,  \* starting a container, or recording it, may fail
    MaxLate,        \* bound: requests in the custodian's queue nobody waits for any more
    MaxCrashes      \* bound: how often the custodian process may be restarted

ASSUME BatchAssumption ==
    /\ Batch \subseteq SUBSET Job
    /\ \A j \in Job : \E b \in Batch : j \in b /\ \A c \in Batch : j \in c => c = b

ASSUME InputAssumption ==
    /\ NoJob \notin Job
    /\ CancelBy \subseteq Job /\ PurgeBy \subseteq Job /\ Mortal \subseteq Job
    /\ RetainHistory \in BOOLEAN /\ SubmitMayFail \in BOOLEAN
    /\ MaxLate \in Nat /\ MaxCrashes \in Nat

Thread == {"rest", "p2p"}
Siblings(j) == (UNION {b \in Batch : j \in b}) \ {j}

VARIABLES
    \* job records of the RTI database
    state,          \* [Job -> status.state], "none" without a record
    hasContainer,   \* jobs whose runner column holds container_id and __ports
    hasIdentity,    \* jobs whose runner column holds the runner's identity
    \* the node database
    known,          \* jobs whose runner identity is registered
    reserved,       \* jobs with a namespace reservation
    \* containers and the runners in them
    cont,           \* [Job -> the Docker container]
    proc,           \* [Job -> what the runner process does]
    sent,           \* [Job -> the status last given to P2PPushJobStatus]
    req,            \* [Job -> the request the runner waits for an answer to]
    late,           \* requests still queued whose attempt has timed out: <<job, request>>
    \* coroutines of the custodian, all lost in a crash
    sub,            \* [Batch -> the submission]
    hdl,            \* the P2P request being handled
    cw,             \* [Thread \X Job -> perform_cancel worker created on that loop]
    kw,             \* [Job -> perform_job_cleanup worker]
    purging,        \* the job whose purge holds the mutex
    crashes

dbVars     == <<state, hasContainer, hasIdentity>>
nodeVars   == <<known, reserved>>
runnerVars == <<cont, proc, sent>>
taskVars   == <<sub, hdl, cw, kw, purging>>
msgVars    == <<req, late>>
vars       == <<dbVars, nodeVars, runnerVars, msgVars, taskVars, crashes>>

Active   == {"uninitialised", "initialised", "running"}
Terminal == {"successful", "failed", "cancelled"}
Pushed   == {"initialised", "running", "successful", "failed"}

SubPhase     == {"new", "rejected", "ready", "launch", "record", "purge", "commit",
                 "release", "failed", "done", "lost"}
HdlPhase     == {"idle", "read", "identity", "collect", "release"}
CancelPhase  == {"none", "placeholder", "new", "marking", "interrupt", "wait", "kill", "delete", "done"}
CleanupPhase == {"none", "placeholder", "new", "wait", "done"}

IdleHdl == [phase |-> "idle", job |-> NoJob, req |-> "none", late |-> FALSE, kill |-> {}, clean |-> FALSE]
NewSub == [phase |-> "new", left |-> {}, cur |-> NoJob]
NoCancel == [phase |-> "none", addr |-> FALSE, iid |-> FALSE]
NoCleanup == [phase |-> "none", iid |-> FALSE]

SubRecord == {r \in [phase : SubPhase, left : SUBSET Job, cur : Job \cup {NoJob}] :
                 r.phase = "record" => r.cur \in Job}
HdlRecord == {r \in [phase : HdlPhase, job : Job \cup {NoJob}, req : Pushed \cup {"none", "handshake"},
                     late : BOOLEAN, kill : SUBSET Job, clean : BOOLEAN] :
                 r.phase # "idle" => r.job \in Job}
CancelRecord == [phase : CancelPhase, addr : BOOLEAN, iid : BOOLEAN]
CleanupRecord == [phase : CleanupPhase, iid : BOOLEAN]

\* A single type invariant: what each variable ranges over.
TypeOK ==
    /\ state \in [Job -> Active \cup Terminal \cup {"none"}]
    /\ hasContainer \subseteq Job /\ hasIdentity \subseteq Job
    /\ known \subseteq Job /\ reserved \subseteq Job
    /\ cont \in [Job -> {"none", "up", "down", "gone"}]
    /\ proc \in [Job -> {"off", "start", "init", "run", "ok", "bad", "stop", "quit"}]
    /\ sent \in [Job -> Pushed \cup {"none"}]
    /\ req \in [Job -> Pushed \cup {"none", "handshake"}]
    /\ late \subseteq Job \X (Pushed \cup {"handshake"})
    /\ sub \in [Batch -> SubRecord]
    /\ hdl \in HdlRecord
    /\ cw \in [Thread \X Job -> CancelRecord]
    /\ kw \in [Job -> CleanupRecord]
    /\ purging \in Job \cup {NoJob}
    /\ crashes \in 0..MaxCrashes

Init ==
    /\ state = [j \in Job |-> "none"]
    /\ hasContainer = {} /\ hasIdentity = {} /\ known = {} /\ reserved = {}
    /\ cont = [j \in Job |-> "none"]
    /\ proc = [j \in Job |-> "off"]
    /\ sent = [j \in Job |-> "none"]
    /\ req = [j \in Job |-> "none"]
    /\ late = {}
    /\ sub = [b \in Batch |-> NewSub]
    /\ hdl = IdleHdl
    /\ cw = [w \in Thread \X Job |-> NoCancel]
    /\ kw = [j \in Job |-> NoCleanup]
    /\ purging = NoJob
    /\ crashes = 0

\* A loop is held while one of its coroutines is between two steps with no await.
Held(t) ==
    \/ \E j \in Job : cw[<<t, j>>].phase = "marking"
    \/ t = "rest" /\ \E b \in Batch : sub[b].phase \in {"launch", "record"}
    \/ t = "p2p" /\ hdl.phase \in {"read", "identity", "collect"}

\* docker_kill_job_container on each container of S that runs
Kill(S) ==
    LET up == {j \in S : cont[j] = "up"} IN
    /\ cont' = [j \in Job |-> IF j \in up THEN "down" ELSE cont[j]]
    /\ proc' = [j \in Job |-> IF j \in up THEN "off" ELSE proc[j]]
    /\ UNCHANGED sent

----------------------------------------------------------------------------
\* Submission (rest loop)

Goto(b, phase, left) == sub' = [sub EXCEPT ![b] = [phase |-> phase, left |-> left, cur |-> NoJob]]

\* prepare_job_execution: a refused reservation ends the submission and keeps the earlier ones
Prepare(b) ==
    /\ sub[b].phase = "new"
    /\ \/ reserved' = reserved \cup b /\ Goto(b, "ready", {})
       \/ \E S \in (SUBSET b) \ {b} : reserved' = reserved \cup S /\ Goto(b, "rejected", {})
    /\ UNCHANGED <<dbVars, known, runnerVars, msgVars, hdl, cw, kw, purging, crashes>>

CreateRecords(b) ==
    /\ sub[b].phase = "ready" /\ ~Held("rest")
    /\ state' = [j \in Job |-> IF j \in b THEN "uninitialised" ELSE state[j]]
    /\ Goto(b, "launch", b)
    /\ UNCHANGED <<hasContainer, hasIdentity, nodeVars, runnerVars, msgVars, hdl, cw, kw, purging, crashes>>

\* _perform_submit, up to docker_run_job_container
StartContainer(b, j) ==
    /\ sub[b].phase = "launch" /\ j \in sub[b].left
    /\ cont' = [cont EXCEPT ![j] = "up"]
    /\ proc' = [proc EXCEPT ![j] = "start"]
    /\ sub' = [sub EXCEPT ![b] = [phase |-> "record", left |-> sub[b].left \ {j}, cur |-> j]]
    /\ UNCHANGED <<dbVars, nodeVars, sent, msgVars, hdl, cw, kw, purging, crashes>>

\* Fault: a container is recorded whether or not one was started.
RecordsUnstarted(b) ==
    /\ sub[b].phase \in {"launch", "record"}
    /\ hasContainer' = hasContainer \cup {sub[b].cur}
    /\ Goto(b, IF sub[b].left = {} THEN "done" ELSE "launch", sub[b].left)
    /\ UNCHANGED <<state, hasIdentity, nodeVars, runnerVars, msgVars, hdl, cw, kw, purging, crashes>>

\* _perform_submit, the commit of container_id and __ports
RecordContainer(b) ==
    /\ sub[b].phase = "record"
    /\ hasContainer' = hasContainer \cup {sub[b].cur}
    /\ Goto(b, IF sub[b].left = {} THEN "done" ELSE "launch", sub[b].left)
    /\ UNCHANGED <<state, hasIdentity, nodeVars, runnerVars, msgVars, hdl, cw, kw, purging, crashes>>

\* perform_submit_single/_batch raise. Their own kill loop runs over a list that is never
\* filled ("if submitted:" is false for the empty list), so the containers stay as they are.
LaunchFails(b) ==
    /\ SubmitMayFail
    /\ sub[b].phase \in {"launch", "record"}
    /\ Goto(b, "purge", b)
    /\ UNCHANGED <<dbVars, nodeVars, runnerVars, msgVars, hdl, cw, kw, purging, crashes>>

\* Fault: the error path leaves the containers of the members running.
PurgeForgetsKill(b, j) ==
    /\ sub[b].phase = "purge" /\ j \in sub[b].left /\ ~Held("rest")
    /\ IF state[j] = "none"
       THEN Goto(b, "failed", {}) /\ UNCHANGED runnerVars
       ELSE /\ UNCHANGED runnerVars
            /\ Goto(b, IF sub[b].left = {j} THEN "commit" ELSE "purge", sub[b].left \ {j})
    /\ UNCHANGED <<dbVars, nodeVars, msgVars, hdl, cw, kw, purging, crashes>>

\* perform_batch_submission, error path: perform_purge of each member, with an await;
\* a record that is gone makes the error path itself raise
PurgeMember(b, j) ==
    /\ sub[b].phase = "purge" /\ j \in sub[b].left /\ ~Held("rest")
    /\ IF state[j] = "none"
       THEN Goto(b, "failed", {}) /\ UNCHANGED runnerVars
       ELSE /\ Kill({j} \cap hasContainer)
            /\ Goto(b, IF sub[b].left = {j} THEN "commit" ELSE "purge", sub[b].left \ {j})
    /\ UNCHANGED <<dbVars, nodeVars, msgVars, hdl, cw, kw, purging, crashes>>

\* ... then every member is set to FAILED in one commit, whatever its state, which raises
\* like that too: then nothing is committed and no reservation is released
CommitFailed(b) ==
    /\ sub[b].phase = "commit" /\ ~Held("rest")
    /\ IF \E j \in b : state[j] = "none"
       THEN Goto(b, "failed", {}) /\ UNCHANGED state
       ELSE /\ state' = [j \in Job |-> IF j \in b THEN "failed" ELSE state[j]]
            /\ Goto(b, "release", {})
    /\ UNCHANGED <<hasContainer, hasIdentity, nodeVars, runnerVars, msgVars, hdl, cw, kw, purging, crashes>>

\* ... and the reservations are cancelled
ReleaseFailed(b) ==
    /\ sub[b].phase = "release" /\ ~Held("rest")
    /\ reserved' = reserved \ b
    /\ Goto(b, "failed", {})
    /\ UNCHANGED <<dbVars, known, runnerVars, msgVars, hdl, cw, kw, purging, crashes>>

----------------------------------------------------------------------------
\* The runner in the container (simaas/cli/cmd_job_runner.py), as the custodian sees it

\* the state the runner's StatusHandler would push
Local(j) ==
    CASE proc[j] = "init" -> "initialised"
      [] proc[j] = "run"  -> "running"
      [] proc[j] = "ok"   -> "successful"
      [] proc[j] = "bad"  -> "failed"
      [] OTHER            -> "none"

\* the initial barrier opens only after the handshake of every member that has a record
PastBarrier(j) == \A k \in Siblings(j) : k \in hasIdentity \/ state[k] = "none"

\* P2PRunnerPerformHandshake.perform
SendHandshake(j) ==
    /\ cont[j] = "up" /\ proc[j] = "start" /\ req[j] = "none"
    /\ req' = [req EXCEPT ![j] = "handshake"]
    /\ UNCHANGED <<dbVars, nodeVars, runnerVars, late, taskVars, crashes>>

\* StatusHandler.run: the latest state is pushed, states in between may be skipped
SendStatus(j) ==
    /\ cont[j] = "up" /\ req[j] = "none"
    /\ Local(j) # "none" /\ sent[j] # Local(j)
    /\ req' = [req EXCEPT ![j] = Local(j)]
    /\ sent' = [sent EXCEPT ![j] = Local(j)]
    /\ UNCHANGED <<dbVars, nodeVars, cont, proc, late, taskVars, crashes>>

\* the request the handler works on is the one the runner waits for
Handled(j) == hdl.job = j /\ ~hdl.late

\* p2p_request times out and is repeated, while the custodian still has the first request
TimeOut(j) ==
    /\ req[j] # "none" /\ ~Handled(j) /\ Cardinality(late) < MaxLate
    /\ late' = late \cup {<<j, req[j]>>}
    /\ UNCHANGED <<dbVars, nodeVars, runnerVars, req, taskVars, crashes>>

\* every attempt failed: a status is dropped, a runner without a handshake exits
GiveUp(j) ==
    /\ req[j] # "none" /\ ~Handled(j)
    /\ req' = [req EXCEPT ![j] = "none"]
    /\ proc' = IF req[j] = "handshake" /\ proc[j] = "start" THEN [proc EXCEPT ![j] = "quit"] ELSE proc
    /\ UNCHANGED <<dbVars, nodeVars, cont, sent, late, taskVars, crashes>>

\* JobRunner.execute after the handshake: the processor runs, returns or raises
Work(j) ==
    /\ cont[j] = "up"
    /\ \E p \in {"run", "ok", "bad"} :
          /\ \/ proc[j] = "init" /\ p = "bad"
             \/ proc[j] = "init" /\ p = "run" /\ PastBarrier(j)
             \/ proc[j] = "run" /\ p \in {"ok", "bad"}
          /\ proc' = [proc EXCEPT ![j] = p]
    /\ UNCHANGED <<dbVars, nodeVars, cont, sent, msgVars, taskVars, crashes>>

\* the runner process ends: after its final push, when interrupted, or without a job
Exit(j) ==
    /\ cont[j] = "up"
    /\ \/ proc[j] \in {"stop", "quit"}
       \/ proc[j] \in {"ok", "bad"} /\ sent[j] = Local(j) /\ req[j] = "none"
    /\ Kill({j})
    /\ UNCHANGED <<dbVars, nodeVars, msgVars, taskVars, crashes>>

\* the container is lost: out of memory, host restart
Die(j) ==
    /\ j \in Mortal /\ cont[j] = "up"
    /\ Kill({j})
    /\ UNCHANGED <<dbVars, nodeVars, msgVars, taskVars, crashes>>

----------------------------------------------------------------------------
\* Requests of runners (p2p loop)

\* request m of j is taken from the queue; l: nobody waits for its answer any more
Take(j, m, l) == IF l THEN <<j, m>> \in late /\ late' = late \ {<<j, m>>} ELSE req[j] = m /\ UNCHANGED late

\* the answer ends the request, or is lost and the runner sends the request again
Reply(j, l) == UNCHANGED req \/ (~l /\ req' = [req EXCEPT ![j] = "none"])

\* a runner that waits for its handshake goes on as p once it has the answer
Proceed(j, l, p) ==
    proc' = IF ~l /\ req'[j] = "none" /\ proc[j] = "start" THEN [proc EXCEPT ![j] = p] ELSE proc

\* Fault: a handshake is accepted before the container is recorded.
HandshakeUnrecorded(j, l) ==
    /\ hdl.phase = "idle" /\ ~Held("p2p") /\ Take(j, "handshake", l)
    /\ IF state[j] \in Active
       THEN /\ hdl' = [IdleHdl EXCEPT !.phase = "read", !.job = j, !.req = "handshake", !.late = l]
            /\ UNCHANGED <<proc, req>>
       ELSE Reply(j, l) /\ Proceed(j, l, "quit") /\ UNCHANGED hdl
    /\ UNCHANGED <<dbVars, nodeVars, cont, sent, sub, cw, kw, purging, crashes>>

\* Fault: a handshake is accepted although the job has ended.
HandshakeAfterEnd(j, l) ==
    /\ hdl.phase = "idle" /\ ~Held("p2p") /\ Take(j, "handshake", l)
    /\ IF state[j] # "none" /\ j \in hasContainer
       THEN /\ hdl' = [IdleHdl EXCEPT !.phase = "read", !.job = j, !.req = "handshake", !.late = l]
            /\ UNCHANGED <<proc, req>>
       ELSE Reply(j, l) /\ Proceed(j, l, "quit") /\ UNCHANGED hdl
    /\ UNCHANGED <<dbVars, nodeVars, cont, sent, sub, cw, kw, purging, crashes>>

\* update_job, the checks: no record, a terminal job or unrecorded ports answer job=None
HandshakeRead(j, l) ==
    /\ hdl.phase = "idle" /\ ~Held("p2p") /\ Take(j, "handshake", l)
    /\ IF state[j] \in Active /\ j \in hasContainer
       THEN /\ hdl' = [IdleHdl EXCEPT !.phase = "read", !.job = j, !.req = "handshake", !.late = l]
            /\ UNCHANGED <<proc, req>>
       ELSE Reply(j, l) /\ Proceed(j, l, "quit") /\ UNCHANGED hdl
    /\ UNCHANGED <<dbVars, nodeVars, cont, sent, sub, cw, kw, purging, crashes>>

\* update_job, the commit (which raises if the record is gone, answered like that too)
HandshakeCommit ==
    /\ hdl.phase = "read" /\ hdl.req = "handshake"
    /\ IF state[hdl.job] # "none"
       THEN /\ hasIdentity' = hasIdentity \cup {hdl.job}
            /\ hdl' = [hdl EXCEPT !.phase = "identity"]
            /\ UNCHANGED <<proc, req>>
       ELSE /\ hdl' = IdleHdl
            /\ Reply(hdl.job, hdl.late) /\ Proceed(hdl.job, hdl.late, "quit")
            /\ UNCHANGED hasIdentity
    /\ UNCHANGED <<state, hasContainer, nodeVars, cont, sent, late, sub, cw, kw, purging, crashes>>

\* update_job, update_identity outside the session; the batch status; then the answer
HandshakeReply ==
    /\ hdl.phase = "identity"
    /\ Siblings(hdl.job) # {} => purging = NoJob
    /\ known' = known \cup {hdl.job}
    /\ hdl' = IdleHdl
    /\ Reply(hdl.job, hdl.late) /\ Proceed(hdl.job, hdl.late, "init")
    /\ UNCHANGED <<dbVars, reserved, cont, sent, late, sub, cw, kw, purging, crashes>>

\* Fault: the state of an ended job is not looked at.
StatusOverwrites(j, s, l) ==
    /\ hdl.phase = "idle" /\ ~Held("p2p") /\ s \in Pushed /\ Take(j, s, l)
    /\ CASE state[j] = "none" -> UNCHANGED <<hdl, req>>
         [] OTHER -> /\ hdl' = [IdleHdl EXCEPT !.phase = "read", !.job = j, !.req = s, !.late = l]
                     /\ UNCHANGED req
    /\ UNCHANGED <<dbVars, nodeVars, runnerVars, sub, cw, kw, purging, crashes>>

\* update_job_status, the checks: a terminal state that would change is kept. (Without a record
\* the handler raises and nothing is answered, here and below: the request is as good as lost.)
StatusRead(j, s, l) ==
    /\ hdl.phase = "idle" /\ ~Held("p2p") /\ s \in Pushed /\ Take(j, s, l)
    /\ CASE state[j] = "none" -> UNCHANGED <<hdl, req>>
         [] state[j] \in Terminal \ {s} -> Reply(j, l) /\ UNCHANGED hdl
         [] OTHER -> /\ hdl' = [IdleHdl EXCEPT !.phase = "read", !.job = j, !.req = s, !.late = l]
                     /\ UNCHANGED req
    /\ UNCHANGED <<dbVars, nodeVars, runnerVars, sub, cw, kw, purging, crashes>>

\* update_job_status, the commit
StatusCommit ==
    /\ hdl.phase = "read" /\ hdl.req \in Pushed
    /\ IF state[hdl.job] = "none"
       THEN hdl' = IdleHdl /\ UNCHANGED <<state, req>>
       ELSE /\ state' = [state EXCEPT ![hdl.job] = hdl.req]
            /\ IF hdl.req \in Terminal
               THEN hdl' = [hdl EXCEPT !.phase = "collect"] /\ UNCHANGED req
               ELSE hdl' = IdleHdl /\ Reply(hdl.job, hdl.late)
    /\ UNCHANGED <<hasContainer, hasIdentity, nodeVars, runnerVars, late, sub, cw, kw, purging, crashes>>

\* jobs the registry of cancellation workers has an entry for
Cancelling == {j \in Job : \E t \in Thread : cw[<<t, j>>].phase # "none"}

\* Fault: a repeated terminal status starts the cleanup again.
CollectsAgain ==
    LET j == hdl.job
        kill == IF hdl.req = "failed" THEN {k \in Siblings(j) : state[k] \in Active} \ Cancelling ELSE {}
        clean == TRUE
    IN
    /\ hdl.phase = "collect" /\ purging = NoJob
    /\ \/ /\ kw' = IF clean THEN [kw EXCEPT ![j].phase = "placeholder"] ELSE kw
          /\ cw' = [w \in Thread \X Job |->
                      IF w[1] = "p2p" /\ w[2] \in kill
                      THEN [NoCancel EXCEPT !.phase = "placeholder", !.addr = w[2] \in hasIdentity]
                      ELSE cw[w]]
          /\ hdl' = [hdl EXCEPT !.phase = "release", !.kill = kill, !.clean = clean]
       \/ state[j] = "none" /\ hdl' = IdleHdl /\ UNCHANGED <<cw, kw>>
    /\ UNCHANGED <<dbVars, nodeVars, runnerVars, msgVars, sub, purging, crashes>>

\* Fault: a failed member takes nobody down.
CollectsNobody ==
    LET j == hdl.job
        kill == {}
        clean == kw[j].phase = "none"
    IN
    /\ hdl.phase = "collect" /\ purging = NoJob
    /\ \/ /\ kw' = IF clean THEN [kw EXCEPT ![j].phase = "placeholder"] ELSE kw
          /\ cw' = [w \in Thread \X Job |->
                      IF w[1] = "p2p" /\ w[2] \in kill
                      THEN [NoCancel EXCEPT !.phase = "placeholder", !.addr = w[2] \in hasIdentity]
                      ELSE cw[w]]
          /\ hdl' = [hdl EXCEPT !.phase = "release", !.kill = kill, !.clean = clean]
       \/ state[j] = "none" /\ hdl' = IdleHdl /\ UNCHANGED <<cw, kw>>
    /\ UNCHANGED <<dbVars, nodeVars, runnerVars, msgVars, sub, purging, crashes>>

\* update_job_status, what the terminal state asks for is registered under the mutex: a cleanup
\* of the job, unless it had one, and the cancellation of the members still active
StatusCollect ==
    LET j == hdl.job
        kill == IF hdl.req = "failed" THEN {k \in Siblings(j) : state[k] \in Active} \ Cancelling ELSE {}
        clean == kw[j].phase = "none"
    IN
    /\ hdl.phase = "collect" /\ purging = NoJob
    /\ \/ /\ kw' = IF clean THEN [kw EXCEPT ![j].phase = "placeholder"] ELSE kw
          /\ cw' = [w \in Thread \X Job |->
                      IF w[1] = "p2p" /\ w[2] \in kill
                      THEN [NoCancel EXCEPT !.phase = "placeholder", !.addr = w[2] \in hasIdentity]
                      ELSE cw[w]]
          /\ hdl' = [hdl EXCEPT !.phase = "release", !.kill = kill, !.clean = clean]
       \/ state[j] = "none" /\ hdl' = IdleHdl /\ UNCHANGED <<cw, kw>>
    /\ UNCHANGED <<dbVars, nodeVars, runnerVars, msgVars, sub, purging, crashes>>

\* Fault: the reservation of an ended job is not cancelled.
KeepsReservation ==
    /\ hdl.phase = "release" /\ ~Held("p2p") /\ purging = NoJob
    /\ reserved' = reserved
    /\ kw' = IF hdl.clean THEN [kw EXCEPT ![hdl.job].phase = "new"] ELSE kw
    /\ cw' = [w \in Thread \X Job |->
                IF w[1] = "p2p" /\ w[2] \in hdl.kill THEN [cw[w] EXCEPT !.phase = "new"] ELSE cw[w]]
    /\ hdl' = IdleHdl
    /\ Reply(hdl.job, hdl.late)
    /\ UNCHANGED <<dbVars, known, runnerVars, late, sub, purging, crashes>>

\* update_job_status after the session: the reservation is cancelled, the workers start
StatusRelease ==
    /\ hdl.phase = "release" /\ ~Held("p2p") /\ purging = NoJob
    /\ reserved' = reserved \ {hdl.job}
    /\ kw' = IF hdl.clean THEN [kw EXCEPT ![hdl.job].phase = "new"] ELSE kw
    /\ cw' = [w \in Thread \X Job |->
                IF w[1] = "p2p" /\ w[2] \in hdl.kill THEN [cw[w] EXCEPT !.phase = "new"] ELSE cw[w]]
    /\ hdl' = IdleHdl
    /\ Reply(hdl.job, hdl.late)
    /\ UNCHANGED <<dbVars, known, runnerVars, late, sub, purging, crashes>>

----------------------------------------------------------------------------
\* perform_cancel, on the loop of the thread that created the worker

Step(w, phase) == cw' = [cw EXCEPT ![w].phase = phase]

\* job_cancel: a user cancels an active job (bound: not while an earlier cancel is under way)
UserCancel(j) ==
    /\ j \in CancelBy /\ ~Held("rest") /\ purging = NoJob
    /\ state[j] \in Active
    /\ cw[<<"rest", j>>].phase \in {"none", "done"}
    /\ cw' = [cw EXCEPT ![<<"rest", j>>] = [NoCancel EXCEPT !.phase = "new", !.addr = j \in hasIdentity]]
    /\ UNCHANGED <<dbVars, nodeVars, runnerVars, msgVars, sub, hdl, kw, purging, crashes>>

\* the read of the record after the job was marked
ReadRunner(w) ==
    cw' = [cw EXCEPT ![w].phase = IF w[2] \in hasContainer THEN "interrupt" ELSE "done",
                     ![w].iid = w[2] \in hasIdentity]

\* mark_job_cancelled, the check
MarkRead(w) ==
    /\ cw[w].phase = "new" /\ ~Held(w[1])
    /\ IF state[w[2]] \in Active THEN Step(w, "marking") ELSE ReadRunner(w)
    /\ UNCHANGED <<dbVars, nodeVars, runnerVars, msgVars, sub, hdl, kw, purging, crashes>>

\* mark_job_cancelled, the commit (which raises if the record is gone)
MarkCommit(w) ==
    /\ cw[w].phase = "marking"
    /\ IF state[w[2]] = "none"
       THEN Step(w, "done") /\ UNCHANGED state
       ELSE state' = [state EXCEPT ![w[2]] = "cancelled"] /\ ReadRunner(w)
    /\ UNCHANGED <<hasContainer, hasIdentity, nodeVars, runnerVars, msgVars, sub, hdl, kw, purging, crashes>>

\* P2PInterruptJob, best effort: a runner that was reached leaves its barrier or its processor
Interrupt(w) ==
    /\ cw[w].phase = "interrupt" /\ ~Held(w[1])
    /\ Step(w, "wait")
    /\ \/ cw[w].addr /\ proc[w[2]] \in {"start", "init", "run"} /\ proc' = [proc EXCEPT ![w[2]] = "stop"]
       \/ UNCHANGED proc
    /\ UNCHANGED <<dbVars, nodeVars, cont, sent, msgVars, sub, hdl, kw, purging, crashes>>

\* Fault: a container that did not stop is deleted without being killed.
DeletesRunning(w) ==
    /\ cw[w].phase = "wait" /\ ~Held(w[1])
    /\ Step(w, IF cont[w[2]] = "gone" THEN "done" ELSE "delete")
    /\ UNCHANGED <<dbVars, nodeVars, runnerVars, msgVars, sub, hdl, kw, purging, crashes>>

\* Fault: a container that did not stop is left alone.
SparesRunning(w) ==
    /\ cw[w].phase = "wait" /\ ~Held(w[1])
    /\ Step(w, CASE cont[w[2]] = "up" -> "done" [] cont[w[2]] = "gone" -> "done" [] OTHER -> "delete")
    /\ UNCHANGED <<dbVars, nodeVars, runnerVars, msgVars, sub, hdl, kw, purging, crashes>>

\* the container stopped within the grace period, or did not, or Docker does not know it
Await(w) ==
    /\ cw[w].phase = "wait" /\ ~Held(w[1])
    /\ Step(w, CASE cont[w[2]] = "up" -> "kill" [] cont[w[2]] = "gone" -> "done" [] OTHER -> "delete")
    /\ UNCHANGED <<dbVars, nodeVars, runnerVars, msgVars, sub, hdl, kw, purging, crashes>>

\* docker_kill_job_container raises for a container that stopped since it was looked at
ForceKill(w) ==
    /\ cw[w].phase = "kill" /\ ~Held(w[1])
    /\ Step(w, IF cont[w[2]] = "up" THEN "delete" ELSE "done")
    /\ Kill({w[2]})
    /\ UNCHANGED <<dbVars, nodeVars, msgVars, sub, hdl, kw, purging, crashes>>

\* the container is deleted (which raises if it is gone), then the runner identity
Delete(w) ==
    LET j == w[2] IN
    /\ cw[w].phase = "delete" /\ ~Held(w[1])
    /\ Step(w, "done")
    /\ IF ~RetainHistory /\ cont[j] = "gone"
       THEN UNCHANGED <<cont, known>>
       ELSE /\ cont' = IF RetainHistory THEN cont ELSE [cont EXCEPT ![j] = "gone"]
            /\ known' = IF cw[w].iid THEN known \ {j} ELSE known
    /\ UNCHANGED <<dbVars, reserved, proc, sent, msgVars, sub, hdl, kw, purging, crashes>>

----------------------------------------------------------------------------
\* perform_job_cleanup (p2p loop)

CleanupStart(j) ==
    /\ kw[j].phase = "new" /\ ~Held("p2p")
    /\ IF RetainHistory \/ state[j] = "none" \/ j \notin hasContainer
       THEN /\ kw' = [kw EXCEPT ![j].phase = "done"]
            /\ known' = IF RetainHistory /\ state[j] # "none" /\ j \in hasIdentity THEN known \ {j} ELSE known
       ELSE kw' = [kw EXCEPT ![j] = [phase |-> "wait", iid |-> j \in hasIdentity]] /\ UNCHANGED known
    /\ UNCHANGED <<dbVars, reserved, runnerVars, msgVars, sub, hdl, cw, purging, crashes>>

CleanupFinish(j) ==
    /\ kw[j].phase = "wait" /\ ~Held("p2p") /\ cont[j] # "up"
    /\ kw' = [kw EXCEPT ![j].phase = "done"]
    /\ IF cont[j] = "gone"
       THEN UNCHANGED <<cont, known>>
       ELSE /\ cont' = [cont EXCEPT ![j] = "gone"]
            /\ known' = IF kw[j].iid THEN known \ {j} ELSE known
    /\ UNCHANGED <<dbVars, reserved, proc, sent, msgVars, sub, hdl, cw, purging, crashes>>

----------------------------------------------------------------------------
\* job_purge (rest loop): holds the mutex while the container is killed, until the delete

PurgeStart(j) ==
    /\ j \in PurgeBy /\ ~Held("rest") /\ purging = NoJob /\ state[j] # "none"
    /\ purging' = j
    /\ Kill({j} \cap hasContainer)
    /\ UNCHANGED <<dbVars, nodeVars, msgVars, sub, hdl, cw, kw, crashes>>

PurgeEnd ==
    /\ purging # NoJob /\ ~Held("rest")
    /\ state' = [state EXCEPT ![purging] = "none"]
    /\ hasContainer' = hasContainer \ {purging}
    /\ hasIdentity' = hasIdentity \ {purging}
    /\ purging' = NoJob
    /\ UNCHANGED <<nodeVars, runnerVars, msgVars, sub, hdl, cw, kw, crashes>>

\* The custodian process is restarted: records and reservations stay, coroutines do not.
Crash ==
    /\ crashes < MaxCrashes
    /\ crashes' = crashes + 1
    /\ sub' = [b \in Batch |-> IF sub[b].phase \in {"new", "rejected", "failed", "done"}
                               THEN sub[b] ELSE [NewSub EXCEPT !.phase = "lost"]]
    /\ hdl' = IdleHdl
    /\ late' = {}
    /\ cw' = [w \in Thread \X Job |-> NoCancel]
    /\ kw' = [j \in Job |-> NoCleanup]
    /\ purging' = NoJob
    /\ UNCHANGED <<dbVars, nodeVars, runnerVars, req>>

----------------------------------------------------------------------------
Submission(b) ==
    \/ Prepare(b) \/ CreateRecords(b) \/ RecordContainer(b) \/ LaunchFails(b)
    \/ CommitFailed(b) \/ ReleaseFailed(b)
    \/ \E j \in b : StartContainer(b, j) \/ PurgeMember(b, j)

Runner(j) ==
    SendHandshake(j) \/ SendStatus(j) \/ TimeOut(j) \/ GiveUp(j) \/ Work(j) \/ Exit(j) \/ Die(j)

Handler ==
    \/ \E j \in Job, l \in BOOLEAN : HandshakeRead(j, l) \/ \E s \in Pushed : StatusRead(j, s, l)
    \/ HandshakeCommit \/ HandshakeReply \/ StatusCommit \/ StatusCollect \/ StatusRelease

Cancel(w) == MarkRead(w) \/ MarkCommit(w) \/ Interrupt(w) \/ Await(w) \/ ForceKill(w) \/ Delete(w)

Cleanup(j) == CleanupStart(j) \/ CleanupFinish(j)

Loops ==
    \/ \E b \in Batch : Submission(b)
    \/ \E w \in Thread \X Job : Cancel(w)
    \/ \E j \in Job : Cleanup(j)
    \/ Handler \/ PurgeEnd

Next ==
    \/ Loops
    \/ \E j \in Job : Runner(j) \/ UserCancel(j) \/ PurgeStart(j)
    \/ Crash

Spec == Init /\ [][Next]_vars

(***************************************************************************)
(* Fairness: a loop with a coroutine that is ready runs one of them, a     *)
(* runner starts with its handshake, makes a bounded number of attempts    *)
(* for a request, and exits when it has to. Users, processors and the      *)
(* delivery of messages owe nothing. Every coroutine takes finitely many   *)
(* steps, so nothing is assumed about which one a loop prefers.            *)
(***************************************************************************)
RequestEnds == \E j \in Job : (GiveUp(j) \/ Handler) /\ req[j] # "none" /\ req'[j] = "none"

Fairness ==
    /\ WF_vars(Loops)
    /\ WF_vars(\E j \in Job : SendHandshake(j) \/ Exit(j))
    /\ SF_vars(RequestEnds)

FairSpec == Spec /\ Fairness

----------------------------------------------------------------------------
\* Properties

Working(j) == proc[j] \in {"init", "run"}

\* The resources a runner works with stay reserved until it stopped working
\* (update_job_status and perform_batch_submission cancel reservations).
WorkHoldsReservation == \A j \in Job : Working(j) => j \in reserved

\* The identity of a working runner can be resolved: others encrypt and verify with it
\* (update_job registers it, perform_cancel and perform_job_cleanup delete it).
WorkerIdentityKnown == \A j \in Job : Working(j) => j \in known

\* "don't allow overwriting terminal states" (update_job_status): an ended job stays as it
\* ended for as long as it has a record.
TerminalIsFinal ==
    [][\A j \in Job : state[j] \in Terminal => state'[j] \in {state[j], "none"}]_state

\* However often a terminal status arrives, one process cleans a job up once
\* (the registry of cleanup workers in update_job_status).
CleanupOnce ==
    [][\A j \in Job : kw[j].phase \notin {"none", "placeholder"} =>
          kw'[j].phase \notin {"placeholder", "new"} \/ kw'[j] = kw[j]]_kw

\* No runner is registered once its job has ended: "its identity would be registered but never
\* cleaned up" (update_job).
NoIdentityAfterEnd ==
    [][\A j \in Job : j \in known' \ known => state[j] \notin Terminal]_known

\* With nobody but runners acting, the jobs behave as JobState says, cascade included.
JS == INSTANCE JobState
JobStateSpec == JS!Spec

\* A cancelled job's container is stopped in the end (perform_cancel).
CancelStops == \A j \in Job : state[j] = "cancelled" ~> cont[j] # "up"

\* A job that ended by itself leaves nothing behind: its reservation, its runner's identity
\* and, unless history is retained, its container go (update_job_status, perform_job_cleanup).
EndLeavesNothing == \A j \in Job :
    state[j] \in {"successful", "failed"} ~>
        j \notin reserved /\ j \notin known /\ (RetainHistory \/ cont[j] = "gone")

----------------------------------------------------------------------------
(***************************************************************************)
(* Why WorkHoldsReservation holds, as an inductive invariant: a runner     *)
(* works only after its container was recorded, which happens under a      *)
(* reservation; the reservation goes only with a terminal status, which    *)
(* the runner gives after its work, or after the members were killed.      *)
(***************************************************************************)
Live  == {"start", "init", "run"}
Ended == {"successful", "failed"}
Stopped(j) == j \in hasContainer => proc[j] \notin Live

LiveIsReserved == \A j \in Job : proc[j] \in Live /\ j \in hasContainer => j \in reserved
WorkIsRecorded == \A j \in Job : Working(j) => j \in hasContainer
LiveIsUp       == \A j \in Job : proc[j] \in Live => cont[j] = "up"

\* nothing is known of a container before it is started
Unstarted == \A j \in Job : cont[j] = "none" =>
    /\ j \notin hasContainer /\ req[j] = "none" /\ hdl.job # j
    /\ \A m \in Pushed \cup {"handshake"} : <<j, m>> \notin late

\* a terminal status comes from a runner that stopped working
EndIsTold ==
    /\ \A j \in Job : req[j] \in Ended => proc[j] \notin Live
    /\ \A j \in Job, m \in Ended : <<j, m>> \in late => proc[j] \notin Live
    /\ hdl.phase # "idle" /\ hdl.req \in Ended => proc[hdl.job] \notin Live
    /\ hdl.phase \in {"collect", "release"} => hdl.req \in Ended
    /\ hdl.phase = "identity" => hdl.req = "handshake"
    /\ hdl.phase # "idle" /\ hdl.req = "handshake" =>
          hdl.job \in hasContainer \/ proc[hdl.job] \notin Live

\* the containers the workers deal with were started
WorkersInv ==
    /\ \A w \in Thread \X Job :
          /\ cw[w].phase \in {"interrupt", "wait", "kill", "delete"} => cont[w[2]] # "none"
          /\ cw[w].phase = "delete" => cont[w[2]] # "up"
    /\ \A j \in Job : kw[j].phase = "wait" => cont[j] # "none"

SubmissionOf(b) ==
    /\ sub[b].left \subseteq b
    /\ sub[b].phase \in {"new", "ready"} => \A j \in b : cont[j] = "none" /\ state[j] = "none"
    /\ sub[b].phase = "ready" => b \subseteq reserved
    /\ sub[b].phase \in {"launch", "record"} =>
          \A j \in sub[b].left : cont[j] = "none" /\ j \in reserved
    /\ sub[b].phase = "record" =>
          /\ sub[b].cur \in b /\ cont[sub[b].cur] # "none"
          /\ sub[b].cur \in reserved \/ proc[sub[b].cur] \notin Live
    /\ sub[b].phase = "purge" => \A j \in b \ sub[b].left : Stopped(j)
    /\ sub[b].phase \in {"commit", "release"} => \A j \in b : Stopped(j)
SubmissionInv == \A b \in Batch : SubmissionOf(b)

PurgeInv == purging # NoJob =>
    /\ Stopped(purging)
    /\ \A b \in Batch : purging \in b => sub[b].phase \notin {"new", "ready", "launch", "record"}

ReservationInv ==
    /\ LiveIsReserved /\ WorkIsRecorded /\ LiveIsUp /\ Unstarted
    /\ EndIsTold /\ WorkersInv /\ SubmissionInv /\ PurgeInv
=============================================================================
