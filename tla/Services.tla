-------------------------------- MODULE Services --------------------------------
(***************************************************************************)
(* The parts of the system that share no state with each other, in one     *)
(* specification: a behaviour is one of one part.  The variables of a part *)
(* take the places v1, v2, ... in the order of its module.                 *)
(***************************************************************************)
EXTENDS Naturals, Sequences, FiniteSets

CONSTANTS
    Node, Addr, AddrsOf, NoRecord, MaxStarts, MaxJoins, MaxOther,   \* NodeNetwork
    Member, MaxAttempts, MaxLost, MaxCancelled,                     \* BatchBarrier
    Client, Up, Down, Unsupported, NoRequest, MaxStops,             \* P2PTransport
    Proc, Image, ImageOf, Tar, Foreign, NoProc, MaxRequests, MaxRestarts,  \* ProcDeployment
    Job, MaxVolumes,                                                \* AwsJobs
    User, NoUser, Call, Admin, MaxCommands, MaxKeys,                \* Gateway
    Process, Profile, MaxCrashes, MaxNonce,                         \* KeystoreFile
    Batches, Registered, Namespace, None, Budgets, MaxChanges       \* SubmissionChecks

ASSUME NetworkAssumption ==
    /\ IsFiniteSet(Node) /\ NoRecord \notin [seen : 1..MaxStarts, addr : Addr]
    /\ {MaxStarts, MaxJoins, MaxOther} \subseteq Nat

ASSUME ServicesAssumption ==
    /\ Up \in [Client -> Nat] /\ Down \in Nat
    /\ ImageOf \in [Proc -> Image]
    /\ {MaxAttempts, MaxRequests, MaxKeys} \subseteq Nat /\ {MaxVolumes, MaxNonce} \subseteq Nat \ {0}

\* a batch has a task, and what is asked for or given are numbers
ASSUME ChecksAssumption ==
    /\ None \notin Namespace /\ Budgets \subseteq [vcpus : Nat, memory : Nat]
    /\ \A b \in Batches :
         Len(b) \in Nat \ {0} /\ \A k \in 1..Len(b) : b[k].budget \in [vcpus : Nat, memory : Nat]

VARIABLES part, v1, v2, v3, v4, v5, v6, v7, v8, v9, v10, v11, v12

Network == INSTANCE NodeNetwork_proofs WITH
    up <- v1, addr <- v2, nonce <- v3, ids <- v4, net <- v5, join <- v6, msgs <- v7,
    clock <- v8, joins <- v9, other <- v10, boots <- v11, simple <- v12

Barrier == INSTANCE BatchBarrier_proofs WITH
    pc <- v1, attempt <- v2, seen <- v3, registered <- v4, late <- v5, todo <- v6,
    releases <- v7, ended <- v8, interrupted <- v9, lost <- v10, missed <- v11

Transport == INSTANCE P2PTransport_proofs WITH
    pc <- v1, attempt <- v2, sent <- v3, got <- v4, file <- v5, socket <- v6,
    pending <- v7, busy <- v8, answer <- v9, served <- v10, stops <- v11

Deployment == INSTANCE ProcDeployment WITH
    rti <- v1, record <- v2, listed <- v3, work <- v4, local <- v5, ecr <- v6,
    restarts <- v7, abandoned <- v8, robbed <- v9

Aws == INSTANCE AwsJobs WITH
    state <- v1, sub <- v2, recorded <- v3, aws <- v4, shake <- v5, known <- v6,
    cancel <- v7, volumes <- v8, jobdef <- v9, last <- v10, loose <- v11

Gate == INSTANCE Gateway WITH
    Request <- Call, Session <- Admin,
    account <- v1, keys <- v2, issued <- v3, known <- v4, command <- v5, commands <- v6,
    request <- v7, done <- v8, chance <- v9

Keystore == INSTANCE KeystoreFile WITH
    Session <- Process,
    file <- v1, mem <- v2, pc <- v3, table <- v4, wrote <- v5, sent <- v6,
    overlap <- v7, back <- v8, crashes <- v9

Checks == INSTANCE SubmissionChecks WITH
    Known <- Registered,
    via <- v1, caller <- v2, batch <- v3, pc <- v4, i <- v5, found <- v6, combined <- v7,
    deployed <- v8, budget <- v9, offered <- v10, changes <- v11

vars == <<part, v1, v2, v3, v4, v5, v6, v7, v8, v9, v10, v11, v12>>

None12 == v12 = 0
None10 == v10 = 0 /\ v11 = 0 /\ None12

Init ==
    \/ part = "network" /\ Network!Init
    \/ part = "barrier" /\ Barrier!Init /\ None12
    \/ part = "transport" /\ Transport!Init /\ None12
    \/ part = "deployment" /\ Deployment!Init /\ None10
    \/ part = "aws" /\ Aws!Init /\ None12
    \/ part = "gateway" /\ Gate!Init /\ None10
    \/ part = "keystore" /\ Keystore!Init /\ None10
    \/ part = "checks" /\ Checks!Init /\ None12

NetworkStep == part = "network" /\ Network!Next /\ UNCHANGED part
BarrierStep == part = "barrier" /\ Barrier!Next /\ UNCHANGED <<part, v12>>
TransportStep == part = "transport" /\ Transport!Next /\ UNCHANGED <<part, v12>>
DeploymentStep == part = "deployment" /\ Deployment!Next /\ UNCHANGED <<part, v10, v11, v12>>
AwsStep == part = "aws" /\ Aws!Next /\ UNCHANGED <<part, v12>>
GatewayStep == part = "gateway" /\ Gate!Next /\ UNCHANGED <<part, v10, v11, v12>>
KeystoreStep == part = "keystore" /\ Keystore!Next /\ UNCHANGED <<part, v10, v11, v12>>
ChecksStep == part = "checks" /\ Checks!Next /\ UNCHANGED <<part, v12>>

Next ==
    \/ NetworkStep \/ BarrierStep \/ TransportStep \/ DeploymentStep
    \/ AwsStep \/ GatewayStep \/ KeystoreStep \/ ChecksStep

Spec == Init /\ [][Next]_vars

-----------------------------------------------------------------------------
TypeOK ==
    /\ part = "network" => Network!TypeOK
    /\ part = "barrier" => Barrier!TypeOK
    /\ part = "transport" => Transport!TypeOK
    /\ part = "deployment" => Deployment!TypeOK
    /\ part = "aws" => Aws!TypeOK
    /\ part = "gateway" => Gate!TypeOK
    /\ part = "keystore" => Keystore!TypeOK
    /\ part = "checks" => Checks!TypeOK

(* NodeNetwork: a node on record has its identity on record, at every node.  *)
NetworkReadable == part = "network" => Network!NetworkReadable

(* NodeNetwork: no peer takes away the record a node has of itself.          *)
OwnRecordStays == part = "network" => Network!OwnRecordStays

(* NodeNetwork: nodes that join at the same time end up knowing each other.  *)
JoinedKnowEachOther == part = "network" => Network!JoinedKnowEachOther

(* BatchBarrier: whoever is past the barrier knows the ports of all members. *)
BarrierHolds == part = "barrier" => Barrier!BarrierHolds

(* BatchBarrier: a runner that waits is going to be released, unless a       *)
(* member was cancelled or gave up, or its release was lost.                 *)
WaitsForSomebody == part = "barrier" => Barrier!WaitsForSomebody

(* P2PTransport: a handler is given the attachment of its own request.       *)
TransfersKeptApart == part = "transport" => Transport!TransfersKeptApart

(* ProcDeployment: a busy record is being worked on, up to a restart.        *)
RecordsFollowWork == part = "deployment" => Deployment!RecordsFollowWork

(* ProcDeployment: what is ready has its image where jobs are started from.  *)
ReadyRunnable == part = "deployment" => Deployment!ReadyRunnable

(* AwsJobs: no runner works for a job that ended, unless one is about to     *)
(* terminate it.                                                             *)
EndedNotWorking == part = "aws" => Aws!EndedNotWorking

(* Gateway: the node acts only for the user whose key was presented.         *)
ActsForKeyHolder == part = "gateway" => Gate!ActsForKeyHolder

(* KeystoreFile: saved changes are lost only to sessions alive meanwhile.    *)
LostToOverlapOnly == part = "keystore" => Keystore!LostToOverlapOnly

(* SubmissionChecks: a batch is accepted only if its tasks together fit what *)
(* their namespaces had meanwhile, and all of it is as submit asks.          *)
AcceptedFits == part = "checks" => Checks!AcceptedFits
================================================================================
