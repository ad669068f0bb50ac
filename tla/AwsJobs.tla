-------------------------------- MODULE AwsJobs --------------------------------
(***************************************************************************)
(* The jobs of a batch under the AWS RTI (plugins/builtins/rti_aws): they  *)
(* are submitted to AWS Batch one after the other, start whenever AWS has  *)
(* room for them, and are terminated through the id AWS gave them, once    *)
(* that is on record.  The records and the handshake are those of          *)
(* rti/base.py, the rest of the life cycle is JobLifecycle's.              *)
(***************************************************************************)
EXTENDS Naturals, FiniteSets

CONSTANTS
    Job,
    MaxVolumes     \* bound: deployments of the processor, each with its volumes

VARIABLES
    state,       \* state on record: "none", "active", "successful", "failed", "cancelled"
    sub,         \* perform_batch_submission: where it is and with which volumes
    recorded,    \* jobs whose aws_job_id is on record
    aws,         \* the AWS Batch job and the runner in it
    shake,       \* jobs whose handshake passed the check of the state
    known,       \* identities of runners in the node database
    cancel,      \* perform_cancel
    volumes,     \* volumes the processor is deployed with, 0 if it is not
    jobdef,      \* volumes in the job definition, 0 if there is none
    last,        \* volumes of the last deployment
    loose        \* history: jobs AWS was not asked to, or failed to, terminate

vars == <<state, sub, recorded, aws, shake, known, cancel, volumes, jobdef, last, loose>>

Terminal == {"successful", "failed", "cancelled"}
\* SUBMITTED or PENDING, RUNNABLE, STARTING or RUNNING up to the handshake, and after it
Statuses == {"none", "submitted", "runnable", "starting", "working", "gone"}
NoCancel == [pc |-> "none", iid |-> FALSE]

Init ==
    /\ state = [j \in Job |-> "none"]
    /\ sub = [pc |-> "none", volumes |-> 0, todo |-> {}, job |-> {}]
    /\ recorded = {} /\ shake = {} /\ known = {}
    /\ aws = [j \in Job |-> "none"]
    /\ cancel = [j \in Job |-> NoCancel]
    /\ volumes = 1 /\ last = 1 /\ jobdef = 0
    /\ loose = {}

\* terminate_job, which ends a job wherever it is
Terminated(jobs) == [j \in Job |-> IF j \in jobs /\ aws[j] # "none" THEN "gone" ELSE aws[j]]

-----------------------------------------------------------------------------
(* Submission, on the loop of the REST service *)

\* the processor is read, the reservations are made and the records created
Begin ==
    /\ sub.pc = "none" /\ volumes > 0
    /\ state' = [j \in Job |-> "active"]
    /\ sub' = [pc |-> "submit", volumes |-> volumes, todo |-> Job, job |-> {}]
    /\ UNCHANGED <<recorded, aws, shake, known, cancel, volumes, jobdef, last, loose>>

\* the job definition of the processor is used if there is one, else one with the
\* volumes the submission read is registered
EnsureJobDef == IF jobdef = 0 THEN sub.volumes ELSE jobdef

Submit(j) ==
    /\ sub.pc = "submit" /\ j \in sub.todo
    /\ jobdef' = EnsureJobDef
    /\ aws' = [aws EXCEPT ![j] = "submitted"]
    /\ sub' = [sub EXCEPT !.pc = "record", !.todo = @ \ {j}, !.job = {j}]
    /\ UNCHANGED <<state, recorded, shake, known, cancel, volumes, last, loose>>

Record ==
    /\ sub.pc = "record"
    /\ recorded' = recorded \cup sub.job
    /\ sub' = [sub EXCEPT !.pc = IF sub.todo = {} THEN "done" ELSE "submit", !.job = {}]
    /\ UNCHANGED <<state, aws, shake, known, cancel, volumes, jobdef, last, loose>>

\* AWS refuses, or the id is not recorded: nothing was added to the list of jobs
\* submitted, and perform_submit_batch terminates none
SubmitFails ==
    /\ sub.pc \in {"submit", "record"}
    /\ sub' = [sub EXCEPT !.pc = "purge", !.todo = Job, !.job = {}]
    /\ UNCHANGED <<state, recorded, aws, shake, known, cancel, volumes, jobdef, last, loose>>

\* perform_purge raises an error for a job without an id
Purged(j) == {j} \cap recorded

\* ... which is logged, as when AWS fails to terminate the job
PurgeMember(j) ==
    /\ sub.pc = "purge" /\ j \in sub.todo
    /\ \/ aws' = Terminated(Purged(j)) /\ loose' = loose \cup ({j} \ recorded)
       \/ aws' = aws /\ loose' = loose \cup {j}
    /\ sub' = [sub EXCEPT !.todo = @ \ {j}]
    /\ UNCHANGED <<state, recorded, shake, known, cancel, volumes, jobdef, last>>

\* all records become FAILED in one commit, and the reservations are cancelled
CommitFailed ==
    /\ sub.pc = "purge" /\ sub.todo = {}
    /\ state' = [j \in Job |-> "failed"]
    /\ sub' = [sub EXCEPT !.pc = "refused"]
    /\ UNCHANGED <<recorded, aws, shake, known, cancel, volumes, jobdef, last, loose>>

-----------------------------------------------------------------------------
(* AWS Batch and the runners *)

\* AWS queues a job and starts it when it has room
Schedule(j) ==
    /\ aws[j] \in {"submitted", "runnable"}
    /\ aws' = [aws EXCEPT ![j] = IF @ = "submitted" THEN "runnable" ELSE "starting"]
    /\ UNCHANGED <<state, sub, recorded, shake, known, cancel, volumes, jobdef, last, loose>>

\* a job that fails to start, is lost, or was refused by its custodian
Exit(j) ==
    /\ aws[j] = "starting" /\ j \notin shake
    /\ aws' = [aws EXCEPT ![j] = "gone"]
    /\ UNCHANGED <<state, sub, recorded, shake, known, cancel, volumes, jobdef, last, loose>>

\* Fault: jobs that were cancelled may still shake hands
AnyJob(j) == TRUE

MayStart(j) == state[j] \notin Terminal

\* update_job: no handshake with a job that has ended
HandshakeCheck(j) ==
    /\ aws[j] = "starting" /\ j \notin shake /\ MayStart(j)
    /\ shake' = shake \cup {j}
    /\ UNCHANGED <<state, sub, recorded, aws, known, cancel, volumes, jobdef, last, loose>>

\* ... the runner, its ports on the host it runs on, and its identity are put on record
HandshakeCommit(j) ==
    /\ j \in shake
    /\ shake' = shake \ {j}
    /\ known' = known \cup {j}
    /\ aws' = [aws EXCEPT ![j] = IF @ = "gone" THEN @ ELSE "working"]
    /\ UNCHANGED <<state, sub, recorded, cancel, volumes, jobdef, last, loose>>

\* the runner pushes its final status, and a cleanup worker deletes its identity
Finish(j) ==
    /\ aws[j] = "working"
    /\ aws' = [aws EXCEPT ![j] = "gone"]
    /\ IF state[j] \in Terminal THEN UNCHANGED <<state, known>>
       ELSE /\ \E s \in {"successful", "failed"} : state' = [state EXCEPT ![j] = s]
            /\ known' = known \ {j}
    /\ UNCHANGED <<sub, recorded, shake, cancel, volumes, jobdef, last, loose>>

-----------------------------------------------------------------------------
(* perform_cancel, for a user or a member of the batch that failed *)

Cancel(j) ==
    /\ state[j] = "active" /\ cancel[j].pc = "none"
    /\ cancel' = [cancel EXCEPT ![j].pc = "mark"]
    /\ UNCHANGED <<state, sub, recorded, aws, shake, known, volumes, jobdef, last, loose>>

Mark(j) ==
    /\ cancel[j].pc = "mark"
    /\ state' = [state EXCEPT ![j] = IF @ \in Terminal THEN @ ELSE "cancelled"]
    /\ cancel' = [cancel EXCEPT ![j].pc = "read"]
    /\ UNCHANGED <<sub, recorded, aws, shake, known, volumes, jobdef, last, loose>>

\* a job without an id is left to itself
ReadRunner(j) ==
    /\ cancel[j].pc = "read"
    /\ cancel' = [cancel EXCEPT ![j] =
         IF j \in recorded THEN [pc |-> "wait", iid |-> j \in known]
         ELSE [NoCancel EXCEPT !.pc = "done"]]
    /\ loose' = IF j \in recorded THEN loose ELSE loose \cup {j}
    /\ UNCHANGED <<state, sub, recorded, aws, shake, known, volumes, jobdef, last>>

\* batch_job_running: jobs that are RUNNABLE are not among them
RunningStatuses == {"submitted", "starting", "working"}

\* the grace period ends, or the job is not found running; what runs is terminated
Decide(j) ==
    /\ cancel[j].pc = "wait"
    /\ aws' = IF aws[j] \in RunningStatuses THEN Terminated({j}) ELSE aws
    /\ cancel' = [cancel EXCEPT ![j].pc = "delete"]
    /\ UNCHANGED <<state, sub, recorded, shake, known, volumes, jobdef, last, loose>>

\* the identity the runner had when the cancellation began
Delete(j) ==
    /\ cancel[j].pc = "delete"
    /\ known' = IF cancel[j].iid THEN known \ {j} ELSE known
    /\ cancel' = [cancel EXCEPT ![j].pc = "done"]
    /\ UNCHANGED <<state, sub, recorded, aws, shake, volumes, jobdef, last, loose>>

\* a call of AWS fails: the worker ends
CancelFails(j) ==
    /\ cancel[j].pc = "wait"
    /\ cancel' = [cancel EXCEPT ![j].pc = "done"]
    /\ loose' = loose \cup {j}
    /\ UNCHANGED <<state, sub, recorded, aws, shake, known, volumes, jobdef, last>>

-----------------------------------------------------------------------------
(* The processor *)

\* perform_undeploy deregisters the job definition
Undeploy ==
    /\ volumes > 0
    /\ volumes' = 0 /\ jobdef' = 0
    /\ UNCHANGED <<state, sub, recorded, aws, shake, known, cancel, last, loose>>

Deploy ==
    /\ volumes = 0 /\ last < MaxVolumes
    /\ last' = last + 1 /\ volumes' = last + 1
    /\ UNCHANGED <<state, sub, recorded, aws, shake, known, cancel, jobdef, loose>>

Next ==
    \/ Begin \/ Record \/ SubmitFails \/ CommitFailed
    \/ \E j \in Job :
        \/ Submit(j) \/ PurgeMember(j)
        \/ Schedule(j) \/ Exit(j) \/ HandshakeCheck(j) \/ HandshakeCommit(j) \/ Finish(j)
        \/ Cancel(j) \/ Mark(j) \/ ReadRunner(j) \/ Decide(j) \/ Delete(j) \/ CancelFails(j)
    \/ Undeploy \/ Deploy

Spec == Init /\ [][Next]_vars

-----------------------------------------------------------------------------
TypeOK ==
    /\ state \in [Job -> {"none", "active"} \cup Terminal]
    /\ aws \in [Job -> Statuses]
    /\ recorded \subseteq Job /\ known \subseteq Job
    /\ cancel \in [Job -> [pc : {"none", "mark", "read", "wait", "delete", "done"}, iid : BOOLEAN]]
    /\ {volumes, jobdef, last} \subseteq 0..MaxVolumes

(* A runner does not work for a job that was cancelled or whose submission was *)
(* refused, unless somebody is about to terminate it: a job that was still     *)
(* queued when it was cancelled (RUNNABLE is not "running" to                  *)
(* batch_job_running) is turned away when it starts at last.  The exceptions   *)
(* are jobs that had no id on record then, or that AWS failed to terminate.    *)
EndedNotWorking ==
    \A j \in Job \ loose : aws[j] = "working" /\ state[j] \in {"cancelled", "failed"} =>
        cancel[j].pc \in {"mark", "read", "wait"}

(* What it rests on.  A runner that shakes hands was started by AWS; one whose *)
(* cancellation is over or whose submission was refused is not going to work.  *)
SubPcs == {"none", "submit", "record", "purge", "refused", "done"}
AwsTypes ==
    /\ TypeOK /\ shake \subseteq Job
    /\ sub \in [pc : SubPcs, volumes : 0..MaxVolumes, todo : SUBSET Job, job : SUBSET Job]
ShakesWhenStarted == \A j \in shake : aws[j] \in {"starting", "gone"}
NotSubmittedYet ==
    /\ sub.pc = "none" => \A j \in Job : aws[j] = "none"
    /\ sub.pc \in {"submit", "record"} => \A j \in sub.todo : aws[j] = "none"
PurgedGone ==
    /\ sub.pc \in {"purge", "refused"} => \A j \in Job \ (sub.todo \cup loose) : aws[j] \in {"none", "gone"}
    /\ sub.pc = "refused" => sub.todo = {}
Over(j) == state[j] \in {"cancelled", "failed"} /\ cancel[j].pc \notin {"mark", "read", "wait"}
OverNotWorking ==
    \A j \in Job \ loose : Over(j) => aws[j] # "working" /\ (j \in shake => aws[j] = "gone")

AwsInv == AwsTypes /\ ShakesWhenStarted /\ NotSubmittedYet /\ PurgedGone /\ OverNotWorking
================================================================================
