---------------------------- MODULE ProcDeployment ----------------------------
(***************************************************************************)
(* Deployment of processors (rti/base.py): a request puts a record into    *)
(* the database and starts a worker, which makes the image of the          *)
(* processor available and writes the outcome.  Under the Docker RTI the   *)
(* image has to be in the local Docker, under the AWS RTI in the registry  *)
(* (plugins/builtins/rti_docker, rti_aws).  Requests are served by the     *)
(* loop of the REST service; they and their workers interleave wherever    *)
(* they wait.                                                              *)
(***************************************************************************)
EXTENDS Naturals

CONSTANTS
    Proc, Image,
    ImageOf,       \* [Proc -> Image], the image_name tag: processors may share it
    Tar,           \* processors whose data object is an image, the others are built
    Foreign,       \* ... an image for another platform than the one AWS needs
    NoProc,
    MaxRequests,   \* bounds: requests that start work, restarts of the node
    MaxRestarts

VARIABLES
    rti,       \* type(): "docker" or "aws"
    record,    \* state of a deployed processor, "none" without a record
    listed,    \* the ports on record are a list, not null
    work,      \* requests and their workers: the processor and where they are
    local,     \* platform of an image in the local Docker, "none" if it is not there
    ecr,       \* images in the registry
    restarts,
    abandoned, \* history: busy records nobody works for since a restart
    robbed     \* history: processors in use when an undeployment deleted their image

vars == <<rti, record, listed, work, local, ecr, restarts, abandoned, robbed>>

Busy == {"deploy", "undeploy"}
States == {"none", "ready", "failed"} \cup Busy
Deploying == {"lookup", "find", "load", "platform", "rebuild", "build", "push", "ports"}
Undeploying == {"deregister", "delete", "remove"}
Requests == 1..MaxRequests
NoWork == [proc |-> NoProc, pc |-> "none"]

Init ==
    /\ rti \in {"docker", "aws"}
    /\ record = [p \in Proc |-> "none"]
    /\ listed = [p \in Proc |-> TRUE]
    /\ work = [i \in Requests |-> NoWork]
    /\ local = [m \in Image |-> "none"] /\ ecr = {}
    /\ restarts = 0
    /\ abandoned = {} /\ robbed = {}

\* get_proc raises an error for ports that are null, and so does all that begins with it
Readable(p) == record[p] = "none" \/ listed[p]

New(i) == work[i].pc = "none" /\ \A k \in Requests : k < i => work[k].pc # "none"
Goto(i, pc) == work' = [work EXCEPT ![i].pc = pc]

\* update_proc_db: a new record gets an empty list of ports, an old one those of the worker
Write(p, state, ports) ==
    /\ record' = [record EXCEPT ![p] = state]
    /\ listed' = [listed EXCEPT ![p] = record[p] = "none" \/ ports]
    /\ abandoned' = abandoned \ {p}

-----------------------------------------------------------------------------
(* Requests *)

\* deploy: is there a record already?
Check(i, p) ==
    /\ New(i) /\ Readable(p) /\ record[p] = "none"
    /\ work' = [work EXCEPT ![i] = [proc |-> p, pc |-> "checked"]]
    /\ UNCHANGED <<rti, record, listed, local, ecr, restarts, abandoned, robbed>>

\* ... then a placeholder is written by a thread, over whatever was recorded since
Place(i) ==
    /\ work[i].pc = "checked"
    /\ Write(work[i].proc, "deploy", FALSE)
    /\ Goto(i, "placed")
    /\ UNCHANGED <<rti, local, ecr, restarts, robbed>>

\* ... and back on the loop the worker is started
StartWorker(i) ==
    /\ work[i].pc = "placed"
    /\ Goto(i, "lookup")
    /\ UNCHANGED <<rti, record, listed, local, ecr, restarts, abandoned, robbed>>

\* undeploy of a processor that failed: its record goes at once
UndeployFailed(p) ==
    /\ record[p] = "failed" /\ listed[p]
    /\ record' = [record EXCEPT ![p] = "none"]
    /\ UNCHANGED <<rti, listed, work, local, ecr, restarts, abandoned, robbed>>

\* undeploy of one that is ready; one that is busy is refused or left alone
Undeploy(i, p) ==
    /\ New(i) /\ record[p] = "ready" /\ listed[p]
    /\ record' = [record EXCEPT ![p] = "undeploy"]
    /\ work' = [work EXCEPT ![i] = [proc |-> p,
                    pc |-> IF rti = "aws" THEN "deregister" ELSE "remove"]]
    /\ UNCHANGED <<rti, listed, local, ecr, restarts, abandoned, robbed>>

-----------------------------------------------------------------------------
(* perform_deploy *)

\* the images of the local Docker
InDocker(m) == local[m] # "none"
DockerLoad(m, platform) == local' = [local EXCEPT ![m] = platform]
DockerDelete(m) == local' = [local EXCEPT ![m] = "none"]

\* the data object of the processor is looked up at one repository after the other
Lookup(i) ==
    /\ work[i].pc = "lookup" /\ Goto(i, "find")
    /\ UNCHANGED <<rti, record, listed, local, ecr, restarts, abandoned, robbed>>

Found == IF rti = "aws" THEN "platform" ELSE "ports"

FindImage(i) ==
    LET p == work[i].proc IN
    /\ work[i].pc = "find"
    /\ Goto(i, IF InDocker(ImageOf[p]) THEN Found ELSE IF p \in Tar THEN "load" ELSE "build")
    /\ UNCHANGED <<rti, record, listed, local, ecr, restarts, abandoned, robbed>>

\* the content is fetched from the repository and loaded
Load(i) ==
    LET p == work[i].proc IN
    /\ work[i].pc = "load"
    /\ DockerLoad(ImageOf[p], IF p \in Foreign THEN "foreign" ELSE "right")
    /\ Goto(i, Found)
    /\ UNCHANGED <<rti, record, listed, ecr, restarts, abandoned, robbed>>

\* Fault: an image that needs no build is taken to be in the registry
NotPushed(i) == Goto(i, "ports")

Usable(i) == Goto(i, "push")

\* the platform of the image is looked at
Platform(i) ==
    LET m == ImageOf[work[i].proc] IN
    /\ work[i].pc = "platform" /\ InDocker(m)
    /\ IF local[m] = "right" THEN Usable(i) ELSE Goto(i, "rebuild")
    /\ UNCHANGED <<rti, record, listed, local, ecr, restarts, abandoned, robbed>>

\* ... and an image for another one deleted, to be built again: by then it may be the
\* image that another worker has built
DeleteForeign(i) ==
    LET m == ImageOf[work[i].proc] IN
    /\ work[i].pc = "rebuild" /\ InDocker(m)
    /\ DockerDelete(m)
    /\ Goto(i, "build")
    /\ UNCHANGED <<rti, record, listed, ecr, restarts, abandoned, robbed>>

\* the source is cloned and the image built, unless there is one by now
Build(i) ==
    LET m == ImageOf[work[i].proc] IN
    /\ work[i].pc = "build"
    /\ local' = [local EXCEPT ![m] = IF @ = "none" THEN "right" ELSE @]
    /\ Goto(i, IF rti = "aws" THEN "push" ELSE "ports")
    /\ UNCHANGED <<rti, record, listed, ecr, restarts, abandoned, robbed>>

Pushable(m) == m \in ecr \/ local[m] = "right"

\* the image is pushed to the registry unless it is there
Push(i) ==
    LET m == ImageOf[work[i].proc] IN
    /\ work[i].pc = "push" /\ Pushable(m)
    /\ ecr' = ecr \cup {m}
    /\ robbed' = {q \in robbed : ImageOf[q] # m}
    /\ Goto(i, "ports")
    /\ UNCHANGED <<rti, record, listed, local, restarts, abandoned>>

\* the ports the image exposes; the processor is ready
Ready(i) ==
    /\ work[i].pc = "ports" /\ InDocker(ImageOf[work[i].proc])
    /\ Write(work[i].proc, "ready", TRUE)
    /\ Goto(i, "ended")
    /\ UNCHANGED <<rti, local, ecr, restarts, robbed>>

\* Fault: a failure is logged, not recorded
Unrecorded(p) == UNCHANGED <<record, listed, abandoned>>

Failed(p) == Write(p, "failed", FALSE)

\* any step may raise an error; ports were not determined by then
Fails(i) ==
    /\ work[i].pc \in Deploying
    /\ Failed(work[i].proc)
    /\ Goto(i, "ended")
    /\ UNCHANGED <<rti, local, ecr, restarts, robbed>>

-----------------------------------------------------------------------------
(* perform_undeploy *)

\* the job definition of the processor; when that fails the image stays
Deregister(i) ==
    /\ work[i].pc = "deregister"
    /\ \E pc \in {"delete", "remove"} : Goto(i, pc)
    /\ UNCHANGED <<rti, record, listed, local, ecr, restarts, abandoned, robbed>>

\* the image is deleted from the registry, whoever else needs it; the local one is kept
DeleteImage(i) ==
    LET m == ImageOf[work[i].proc] IN
    /\ work[i].pc = "delete"
    /\ ecr' = ecr \ {m}
    /\ robbed' = robbed \cup {q \in Proc : ImageOf[q] = m /\
         (record[q] = "ready" \/ \E k \in Requests : work[k] = [proc |-> q, pc |-> "ports"])}
    /\ Goto(i, "remove")
    /\ UNCHANGED <<rti, record, listed, local, restarts, abandoned>>

\* the record goes, whatever its state is by now
Remove(i) ==
    /\ work[i].pc = "remove"
    /\ record' = [record EXCEPT ![work[i].proc] = "none"]
    /\ abandoned' = abandoned \ {work[i].proc}
    /\ Goto(i, "ended")
    /\ UNCHANGED <<rti, listed, local, ecr, restarts, robbed>>

-----------------------------------------------------------------------------
\* the node stops or crashes: requests and workers are gone.  Before it stops,
\* shutdown_rti undeploys what it can and waits a minute for each, or up to an error
Restart ==
    /\ restarts < MaxRestarts
    /\ restarts' = restarts + 1
    /\ abandoned' = {p \in Proc : record[p] \in Busy}
    /\ work' = [i \in Requests |-> IF work[i].pc = "none" THEN NoWork
                                   ELSE [work[i] EXCEPT !.pc = "ended"]]
    /\ UNCHANGED <<rti, record, listed, local, ecr, robbed>>

Next ==
    \/ \E i \in Requests :
        \/ \E p \in Proc : Check(i, p) \/ Undeploy(i, p)
        \/ Place(i) \/ StartWorker(i)
        \/ Lookup(i) \/ FindImage(i) \/ Load(i) \/ Platform(i) \/ DeleteForeign(i)
        \/ Build(i) \/ Push(i)
        \/ Ready(i) \/ Fails(i)
        \/ Deregister(i) \/ DeleteImage(i) \/ Remove(i)
    \/ \E p \in Proc : UndeployFailed(p)
    \/ Restart

Spec == Init /\ [][Next]_vars

-----------------------------------------------------------------------------
TypeOK ==
    /\ record \in [Proc -> States] /\ listed \in [Proc -> BOOLEAN]
    /\ work \in [Requests -> [proc : Proc \cup {NoProc},
                    pc : {"none", "checked", "placed", "ended"} \cup Deploying \cup Undeploying]]
    /\ local \in [Image -> {"none", "right", "foreign"}] /\ ecr \subseteq Image

Deploys(i, p) == work[i].proc = p /\ work[i].pc \in {"placed"} \cup Deploying
Undeploys(i, p) == work[i].proc = p /\ work[i].pc \in Undeploying

(* A busy record is being worked on: however deployments and undeployments of  *)
(* a processor cross, one of the right kind is going to decide it; only a      *)
(* restart leaves a busy record behind (no request accepts it then).           *)
RecordsFollowWork ==
    \A p \in Proc \ abandoned :
        /\ record[p] = "deploy" => \E i \in Requests : Deploys(i, p)
        /\ record[p] = "undeploy" => \E i \in Requests : Undeploys(i, p)

(* A processor that is ready has its image where jobs are started from,        *)
(* whatever others load, rebuild, push and delete, unless the undeployment of  *)
(* a processor with the same image deleted it from the registry.               *)
ReadyRunnable ==
    \A p \in Proc : record[p] = "ready" =>
        IF rti = "docker" THEN local[ImageOf[p]] # "none"
        ELSE ImageOf[p] \in ecr \/ p \in robbed

(* What the two rest on: requests know their processor, only the AWS RTI       *)
(* deletes and pushes images, and what a worker is about to declare ready has  *)
(* been pushed.                                                                *)
RequestsKnown == \A i \in Requests : work[i].pc # "none" => work[i].proc \in Proc
OnlyAwsMoves ==
    rti = "docker" =>
        \A i \in Requests : work[i].pc \notin {"platform", "rebuild", "push", "deregister", "delete"}
PushedBeforeReady ==
    rti = "aws" => \A i \in Requests : work[i].pc = "ports" =>
        ImageOf[work[i].proc] \in ecr \/ work[i].proc \in robbed

DeploymentTypes == TypeOK /\ rti \in {"docker", "aws"} /\ RequestsKnown /\ OnlyAwsMoves
DeploymentInv == DeploymentTypes /\ PushedBeforeReady /\ RecordsFollowWork /\ ReadyRunnable
===============================================================================
